------------------------------- MODULE Analyze -------------------------------
(***************************************************************************)
(* Analyze (analyze.go, analysis.go): detects the format of the input,     *)
(* parses its header, decompresses it once into a spool (search/spool.go), *)
(* checks the container, has the search settle on a candidate and confirms *)
(* it.  The caller is a program, which may call Start, Confirm and Close   *)
(* as it likes, or the analyze command (cmd/zrecipe/main.go), which calls  *)
(* Analyze, writes files and may be killed between any two of its steps.   *)
(*                                                                         *)
(* The bytes of headers and blocks are real, content and checksums are     *)
(* not: an input says how many units it holds, of which io.Copy writes one *)
(* at a time, and what is wrong with it.  What the search and Confirm      *)
(* answer is what Search and Confirm say they may.                         *)
(*                                                                         *)
(* A definition named X_Bug is X with a bug one could plausibly write into *)
(* the code, as in Run.                                                    *)
(***************************************************************************)
EXTENDS Headers

CONSTANTS Contents,      \* how many units of content an input may hold
          MaxInMemory    \* Options.MaxInMemory, in units

ASSUME AnalyzeAssumption == Contents \subseteq Nat /\ MaxInMemory \in Nat

VARIABLES
    input,     \* see Inputs
    who,       \* "program", or "command", with both of its files asked for
    verdict,   \* what the search has found: "unknown", "whole", "limited" or "no"
    cancelled, \* the context is done
    at,        \* where the call, or the command, is
    format,
    hdr,       \* the header, as parsed
    units,     \* decompressed and not yet written to the spool
    decoded,   \* decompressed without error
    spool,     \* [buf, file, disk, size]: Spool; disk is the file's content
    fds,       \* the spool's files that are open
    entry,     \* the spool's file in TempDir: "none", "there", or "stuck" after a failed Remove
    fault,     \* "none", or what failed: "seek", "disk" (of the spool), "tee" or "engine"
    flags,     \* [confirmed, closed] of the Analysis
    answer,    \* of Start and then of Confirm, or "pending"
    unc, recipe   \* the files of the command: "none", "part", "whole"; "lost" if written
                  \* whole and then not closed, "stuck" if they could not be removed

place == <<at, format, hdr, units, decoded>>
held == <<spool, fds, entry>>
files == <<unc, recipe>>
avars == <<input, who, verdict, cancelled, place, held, fault, flags, answer, files>>

-----------------------------------------------------------------------------
(* Inputs.                                                                 *)

Field(present, bytes) == IF present THEN bytes ELSE <<>>

\* A field's bytes are such as another field's could be taken for.
GzipFile(gflags, n, bad) ==
    LET head == <<31, 139, IF bad = "header" THEN 9 ELSE 8, gflags, 0, 0, 0, 0, 2, 3>>
                \o Field(Has(gflags, FEXTRA), <<3, 0, 7, 0, 7>>) \o Field(Has(gflags, FNAME), <<7, 0>>)
                \o Field(Has(gflags, FCOMMENT), <<0>>) \o Field(Has(gflags, FHCRC), <<0, 7>>)
        body == [i \in 1 .. n + 1 |-> 7]
    IN  [head |-> Len(head), body |-> n + 1, bytes |-> head \o body \o [i \in 1 .. 8 |-> 7],
         content |-> n, bad |-> bad]

\* A block's header: its type, its size, and whether it is the last.
ZstdBlock(type, size, last) == <<(size * 8 + type * 2 + (IF last THEN 1 ELSE 0)) % 256, size \div 32, 0>>

\* desc is the frame header descriptor; a block for each unit of content, of
\* each type in turn, and then the last one.
ZstdFile(desc, n, bad) ==
    LET single == Has(desc, 32)
        head   == ZstdMagic \o <<IF bad = "header" THEN desc + 8 ELSE desc>>
                  \o Field(~single, <<0>>) \o Field(desc % 4 = 1, <<7>>)
                  \o Field(single, <<IF bad = "size" THEN n + 1 ELSE n>>)
        type(i) == i % 3
        Unit(i) == IF type(i) = RLEBlock THEN ZstdBlock(RLEBlock, 40, FALSE) \o <<7>>
                   ELSE ZstdBlock(IF bad = "body" THEN 3 ELSE type(i), 2, FALSE) \o <<7, 7>>
        body   == FlattenSeq([i \in 1 .. n |-> Unit(i)]) \o ZstdBlock(RawBlock, 0, TRUE)
    IN  [head |-> Len(head), body |-> Len(body),
         bytes |-> head \o body \o Field(Has(desc, 4), <<7, 7, 7, 7>>), content |-> n, bad |-> bad]

Other(bytes, kind) == [head |-> 0, body |-> 0, bytes |-> bytes, content |-> 1, bad |-> kind]

Wholes ==
    {GzipFile(4 * f, n, "none") : f \in 0 .. 7, n \in Contents}
    \cup {GzipFile(4 * f + 2, 1, b) : f \in 0 .. 7, b \in {"none", "header", "body", "check"}}
    \cup {ZstdFile(d, n, "none") : d \in {0, 4, 32, 36}, n \in Contents}
    \cup {ZstdFile(d, 2, b) : d \in {32, 36}, b \in {"header", "body", "size", "check"}}
    \cup {ZstdFile(d, 1, "dictionary") : d \in {1, 37}}
    \cup {Other(<<83, 42, 77, 24, 0, 0>>, "skippable"), Other(<<7, 7, 7, 7>>, "plain")}

\* A file with more behind it, cut off anywhere; or the reader fails there.
Inputs ==
    UNION {{[bytes |-> SubSeq(w.bytes \o <<0, 0>>, 1, k), end |-> Len(w.bytes), head |-> w.head,
             body |-> w.body, content |-> w.content, bad |-> w.bad, fails |-> f] :
                k \in 0 .. Len(w.bytes) + 2, f \in BOOLEAN} : w \in Wholes}

Length == Len(input.bytes)

\* What the input is.
Truth ==
    IF input.fails THEN "unread"
    ELSE IF input.bad = "plain" \/ Length < 2 \/ (input.bytes[1] # 31 /\ Length < 4) THEN "plain"
    ELSE IF input.bad = "skippable" THEN "unsupported"
    ELSE IF Length < input.end \/ input.bad \in {"header", "body", "size", "check"} THEN "damaged"
    ELSE IF Length > input.end \/ input.bad = "dictionary" THEN "unsupported" ELSE "good"

-----------------------------------------------------------------------------
(* The spool.                                                              *)

NewSpool == [buf |-> <<>>, file |-> FALSE, disk |-> <<>>, size |-> 0]

\* What a Reader returns.
Held == IF spool.file THEN SubSeq(spool.disk, 1, Min({spool.size, Len(spool.disk)})) ELSE spool.buf

\* The spool is closed, its file, if it has one, with it.
CloseSpool == /\ spool' = [spool EXCEPT !.buf = <<>>, !.file = FALSE]
              /\ fds' = fds - (IF spool.file THEN 1 ELSE 0)
              /\ UNCHANGED entry

\* Bug: pass one returns without closing its spool.
PassOneFails_Open(e) == answer' = e /\ at' = "returned" /\ UNCHANGED held

\* Pass one's deferred function.
PassOneFails(e) == answer' = e /\ at' = "returned" /\ CloseSpool

\* A failing step of spill leaves the buffer to pass one, which closes the
\* spool, and the file to itself.
Disk(e) == IF cancelled THEN "ctxErr" ELSE e
SpillFails == /\ fault' = "disk" /\ fds' = 0
              /\ answer' = Disk("ErrCorrupt") /\ at' = "returned"
              /\ spool' = [spool EXCEPT !.buf = <<>>]

\* The next unit stays in memory.
MayKeep == ~spool.file /\ Len(spool.buf) + 1 <= MaxInMemory

\* Pass one copies the next unit, if the context lets it.
Copy ==
    /\ at = "copy" /\ units > 0
    /\ IF cancelled THEN PassOneFails("ctxErr") /\ UNCHANGED units
       ELSE IF MayKeep
       THEN /\ spool' = [spool EXCEPT !.buf = Append(@, spool.size + 1), !.size = @ + 1]
            /\ units' = units - 1
            /\ UNCHANGED <<at, answer, fds, entry>>
       ELSE at' = (IF spool.file THEN "append" ELSE "create") /\ UNCHANGED <<units, answer, held>>
    /\ UNCHANGED <<input, who, verdict, cancelled, format, hdr, decoded, fault, flags, files>>

Spilling == UNCHANGED <<input, who, verdict, cancelled, format, hdr, decoded, flags, files>>

CreateSpool ==
    /\ at = "create"
    /\ \/ fds' = 1 /\ entry' = "there" /\ at' = "remove" /\ UNCHANGED <<spool, fault, answer>>
       \/ SpillFails /\ UNCHANGED entry
    /\ Spilling /\ UNCHANGED units

RemoveSpool ==
    /\ at = "remove"
    /\ \/ entry' = "none" /\ at' = "fill" /\ UNCHANGED <<spool, fds, fault, answer>>
       \/ SpillFails /\ entry' = "stuck"
    /\ Spilling /\ UNCHANGED units

\* Bug: what was in memory is left behind.
Filled_Not == <<>>

Filled == spool.buf

FillSpool ==
    /\ at = "fill"
    /\ \/ /\ spool' = [spool EXCEPT !.file = TRUE, !.disk = Filled, !.buf = <<>>]
          /\ at' = "append" /\ UNCHANGED <<fds, fault, answer>>
       \/ SpillFails
    /\ Spilling /\ UNCHANGED <<units, entry>>

AppendSpool ==
    /\ at = "append"
    /\ \/ /\ spool' = [spool EXCEPT !.disk = Append(@, spool.size + 1), !.size = @ + 1]
          /\ units' = units - 1 /\ at' = "copy" /\ UNCHANGED <<fds, entry, fault, answer>>
       \/ PassOneFails(Disk("ErrCorrupt")) /\ fault' = "disk" /\ UNCHANGED units
    /\ Spilling
-----------------------------------------------------------------------------
(* Start.                                                                  *)

AInit ==
    /\ input \in Inputs /\ who \in {"program", "command"}
    /\ verdict = "unknown" /\ cancelled = FALSE
    /\ at = (IF who = "command" THEN "start" ELSE "detect")
    /\ format = "none" /\ hdr = ErrBadHeader /\ units = 0 /\ decoded = FALSE
    /\ spool = NewSpool /\ fds = 0 /\ entry = "none" /\ fault = "none"
    /\ flags = [confirmed |-> FALSE, closed |-> FALSE] /\ answer = "pending"
    /\ unc = "none" /\ recipe = "none"

\* The command's context is context.Background.
CancelAnalyze == /\ who = "program" /\ ~cancelled /\ at # "returned"
                 /\ cancelled' = TRUE
                 /\ UNCHANGED <<input, who, verdict, place, held, fault, flags, answer, files>>

GoOn(to) == at' = to /\ UNCHANGED answer
Return(e) == at' = "returned" /\ answer' = e
SeekFails == fault' = "seek" /\ Return("io")

\* Start returns an Analysis.
Started == at' = "made" /\ answer' = "nil"

Detect ==
    /\ at = "detect"
    /\ \/ SeekFails /\ UNCHANGED format
       \/ /\ UNCHANGED fault
          /\ IF Length < 4 /\ input.fails THEN Return("io") /\ UNCHANGED format
             ELSE LET f == DetectBytes(SubSeq(input.bytes, 1, Min({4, Length})))
                  IN  format' = f /\ GoOn(IF f = "none" THEN "hash" ELSE "parse")
    /\ UNCHANGED <<input, who, verdict, cancelled, hdr, units, decoded, held, flags, files>>

\* startNone.  Its context is looked at before every write to the hash.  (Start
\* returns the Analysis with its error; there is nothing in it to close.)
StartNone ==
    /\ at = "hash"
    /\ \/ SeekFails
       \/ cancelled /\ Length > 0 /\ Return("ctxErr") /\ UNCHANGED fault
       \/ (IF input.fails THEN Return("io") ELSE Started) /\ UNCHANGED fault
    /\ UNCHANGED <<input, who, verdict, cancelled, format, hdr, units, decoded, held, flags, files>>

\* The decompressor: sound says that all it reads is there and right.
Decompress(sound) == /\ decoded' = sound
                     /\ units' \in IF sound THEN {input.content} ELSE 0 .. input.content

ParseGzip ==
    /\ at = "parse" /\ format = "gzip"
    /\ hdr' = ParseGzipHeader(input.bytes)
    /\ IF hdr'.err # "nil" THEN Return("ErrCorrupt") /\ UNCHANGED <<units, decoded>>
       ELSE /\ GoOn("copy")
            /\ Decompress(hdr'.raw = input.head /\ Length >= input.head + input.body /\ input.bad # "body")
    /\ UNCHANGED <<input, who, verdict, cancelled, format, held, fault, flags, files>>

ParseZstd ==
    /\ at = "parse" /\ format = "zstd"
    /\ hdr' = ZstdFrameLength(input.bytes)
    /\ IF hdr'.err # "nil" THEN Return(IF hdr' = ErrSkippableFrame THEN "ErrUnsupported" ELSE "ErrCorrupt")
       ELSE IF hdr'.dictID # 0 THEN Return("ErrUnsupported") ELSE GoOn("rewind")
    /\ UNCHANGED <<input, who, verdict, cancelled, format, units, decoded, held, fault, flags, files>>

\* The decoder is given exactly the frame's bytes.
Rewind ==
    /\ at = "rewind"
    /\ \/ SeekFails /\ UNCHANGED <<units, decoded>>
       \/ /\ GoOn("copy") /\ UNCHANGED fault
          /\ Decompress(hdr.frameLen = input.end /\ input.bad \notin {"body", "check"})
    /\ UNCHANGED <<input, who, verdict, cancelled, format, hdr, held, flags, files>>

\* The trailer, or the size in the frame's header, belongs to the content.
Tallies == IF format = "gzip" THEN Length >= input.head + input.body + 8 /\ input.bad # "check"
           ELSE hdr.hasContentSize => hdr.contentSize = spool.size

\* Bug: what follows the first member or frame is not looked at.
Extra_None == FALSE

Extra == Length > input.end

\* The end of the copy, and what passOneGzip and passOneZstd check after it.
FinishPassOne ==
    /\ at = "copy" /\ units = 0
    /\ IF ~decoded THEN PassOneFails(Disk("ErrCorrupt"))
       ELSE IF ~Tallies THEN PassOneFails("ErrCorrupt")
       ELSE IF input.fails THEN PassOneFails("io")
       ELSE IF Extra THEN PassOneFails("ErrUnsupported")
       ELSE GoOn("search") /\ UNCHANGED held
    /\ UNCHANGED <<input, who, verdict, cancelled, format, hdr, units, decoded, fault, flags, files>>

SettleOn ==
    /\ at = "search"
    /\ \/ cancelled /\ PassOneFails("ctxErr") /\ UNCHANGED verdict
       \/ verdict' = "no" /\ PassOneFails("ErrNotReproducible")
       \/ verdict' \in {"whole", "limited"} /\ Started /\ UNCHANGED held
    /\ UNCHANGED <<input, who, cancelled, format, hdr, units, decoded, fault, flags, files>>

-----------------------------------------------------------------------------
(* Confirm and Close.  The command has Analyze make both calls.            *)

\* Bug: Confirm works on an Analysis that was closed.
Refused_Once == flags.confirmed

\* Confirm returns an error and does nothing.
Refused == flags.closed \/ flags.confirmed

CallConfirm ==
    /\ at = "made" /\ ~Refused
    /\ flags' = [flags EXCEPT !.confirmed = TRUE] /\ at' = "confirm"
    /\ UNCHANGED <<input, who, verdict, cancelled, format, hdr, units, decoded, held, fault, answer, files>>

AllContent == [i \in 1 .. input.content |-> i]

Confirmed(e, f) == /\ at' = "made" /\ answer' = e /\ fault' = f
                   /\ unc' = IF who = "command" /\ e = "nil" THEN "whole" ELSE unc

\* What the rebuild makes of the content, if nothing fails; a candidate that was
\* accepted at VerifyLimit may turn out not to reproduce the input.
Reproduces == {Held = AllContent} \cup (IF verdict = "limited" THEN {FALSE} ELSE {})

\* The context is looked at before all else in the end, but by confirmNone only
\* when it writes.
Confirm ==
    /\ at = "confirm"
    /\ \/ cancelled /\ (format = "none" => Length > 0) /\ Confirmed("ctxErr", fault)
       \/ format = "none" /\ \/ Confirmed("io", "seek")
                             \/ Length > 0 /\ Confirmed("tee", "tee")
                             \/ Confirmed("nil", fault)
       \/ format # "none" /\ ~cancelled /\ \/ Held # <<>> /\ Confirmed("tee", "tee")
                                           \/ spool.file /\ Confirmed("spool", "disk")
                                           \/ Confirmed("engine", "engine")
                                           \/ \E right \in Reproduces :
                                                Confirmed(IF right THEN "nil" ELSE "ErrNotReproducible", fault)
    /\ UNCHANGED <<input, who, verdict, cancelled, format, hdr, units, decoded, held, flags, recipe>>

Close ==
    /\ at = "made" /\ (who = "command" => flags.confirmed)
    /\ flags' = [flags EXCEPT !.closed = TRUE]
    /\ IF flags.closed THEN UNCHANGED held ELSE CloseSpool
    /\ at' = IF who = "command" THEN "returned" ELSE at
    /\ UNCHANGED <<input, who, verdict, cancelled, format, hdr, units, decoded, fault, answer, files>>

-----------------------------------------------------------------------------
(* The analyze command.                                                    *)

Command(from) == /\ who = "command" /\ at = from
                 /\ UNCHANGED <<input, who, verdict, cancelled, format, hdr, units, decoded, fault, flags>>
Exit(e) == at' = "exit" /\ answer' = e

CreateUncompressed ==
    /\ Command("start") /\ UNCHANGED <<held, recipe>>
    /\ \/ unc' = "part" /\ GoOn("detect")
       \/ Exit("os") /\ UNCHANGED unc

\* Bug: what a failed analysis has written is left.
KeepUncompressed_Always == TRUE

KeepUncompressed == answer = "nil"

\* The errors of Close and Remove are not looked at: the content may be lost,
\* or stuck, and the command goes on as if it were not.
CloseUncompressed ==
    /\ Command("returned") /\ UNCHANGED <<held, recipe>>
    /\ unc' \in IF KeepUncompressed THEN {unc, "lost"} ELSE {"none", "stuck"}
    /\ IF answer = "nil" THEN GoOn("recipe") ELSE Exit(answer)

CreateRecipe ==
    /\ Command("recipe") /\ UNCHANGED <<held, unc>>
    /\ \/ recipe' = "part" /\ GoOn("write")
       \/ Exit("os") /\ UNCHANGED recipe

\* Params.Write and Close, one of which may fail, and Remove after it.
WriteRecipe ==
    /\ Command("write") /\ UNCHANGED <<held, unc>>
    /\ \/ recipe' = "whole" /\ Exit("nil")
       \/ recipe' \in {"none", "stuck"} /\ Exit("os")

\* The kernel closes its files.
KillAnalyze ==
    /\ \E p \in {at} \ {"exit", "killed"} : Command(p)
    /\ at' = "killed" /\ fds' = 0
    /\ UNCHANGED <<spool, entry, answer, files>>

ANext == \/ CancelAnalyze \/ Detect \/ StartNone \/ ParseGzip \/ ParseZstd \/ Rewind
         \/ Copy \/ CreateSpool \/ RemoveSpool \/ FillSpool \/ AppendSpool
         \/ FinishPassOne \/ SettleOn \/ CallConfirm \/ Confirm \/ Close
         \/ CreateUncompressed \/ CloseUncompressed \/ CreateRecipe \/ WriteRecipe \/ KillAnalyze

ASpec == AInit /\ [][ANext]_avars

-----------------------------------------------------------------------------
\* What an answer to such an input may be when nothing else fails.
Fitting == CASE Truth = "plain"       -> {"nil"}
             [] Truth = "good"        -> IF verdict = "whole" THEN {"nil"}
                                         ELSE IF verdict = "no" THEN {"ErrNotReproducible"}
                                         ELSE {"nil", "ErrNotReproducible"}
             [] Truth = "damaged"     -> {"ErrCorrupt"}
             [] Truth = "unsupported" -> {"ErrUnsupported"}
             [] Truth = "unread"      -> {"io", "ErrCorrupt", "ErrUnsupported"}

\* The answer is about the input: one that is whole, alone and undamaged is
\* never called corrupt or unsupported, and nothing else is ever analyzed; a
\* damaged member is corrupt, more behind a sound one is unsupported.  What a
\* file, a seek or the tee does to the call is told apart from that, except
\* that an error of the spool's file counts as ErrCorrupt.
AnswerFits ==
    at \in {"made", "returned"} =>
        CASE fault = "none"   -> answer \in Fitting \cup (IF cancelled THEN {"ctxErr"} ELSE {})
          [] fault = "seek"   -> answer = "io"
          [] fault = "disk"   -> answer \in {"ErrCorrupt", "spool"} \cup (IF cancelled THEN {"ctxErr"} ELSE {})
          [] fault = "tee"    -> answer = "tee"
          [] fault = "engine" -> answer = "engine"

\* The content is all there for as long as it is needed, in memory or in the
\* file it spilled to, and no longer: whoever has no Analysis left to close has
\* no file open.  Nothing lies in TempDir but between two steps of a process
\* that is killed there, or after a Remove that failed.
\*
\* Of the command's files, the parameters come last: wherever it is killed,
\* there is nothing of them unless all of the content was written before.
\* They are whole and stay if and only if the answer is nil; the content is
\* whole beside them, or its Close failed unnoticed.  A failed analysis takes
\* the content away, and failed parameters themselves, if Remove lets them.
FilesLeft ==
    /\ at \in {"returned", "exit"} \/ (at = "made" /\ flags.closed) => fds = 0
    /\ at \in {"made", "confirm"} /\ format # "none" /\ ~flags.closed => Held = AllContent
    /\ entry = "there" => at \in {"remove", "killed"}
    /\ recipe # "none" => unc \in {"whole", "lost"}
    /\ at = "exit" =>
         CASE answer = "nil"            -> recipe = "whole"
           [] answer = "os"             -> recipe \in {"none", "stuck"} /\ unc \in {"none", "whole", "lost"}
           [] answer \notin {"nil", "os"} -> recipe = "none" /\ unc \in {"none", "stuck"}

-----------------------------------------------------------------------------
(* What the source says and the code does not keep.                        *)

\* "ErrCorrupt reports an input that failed to decompress or verify."
\* (errors.go:10): one that decompresses and verifies is not reported so.
CorruptIsCorrupt == answer = "ErrCorrupt" => Truth \in {"damaged", "unread"}

\* main_test.go:99-101: a failing analyze leaves neither of its files behind,
\* "main.go must close and remove both once Analyze (or writing params)
\* errors".  What Remove itself could not take away does not count.
FailureLeavesNoOutputFiles ==
    at = "exit" /\ answer # "nil" => unc \in {"none", "stuck"} /\ recipe \in {"none", "stuck"}
=============================================================================
