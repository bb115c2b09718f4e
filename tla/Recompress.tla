------------------------------ MODULE Recompress ------------------------------
(***************************************************************************)
(* Recompress (recompress.go): checks the parameters, rebuilds the file    *)
(* from the uncompressed input, and then lets two digests decide what to   *)
(* report: the input's, complete only if the whole input was read, and the *)
(* output's.  rebuild feeds the recorded engine through Feed               *)
(* (engine/feed.go).                                                       *)
(*                                                                         *)
(* Input is counted in blocks of FeedSize, of which Params record Blocks;  *)
(* output in writes, one for a block, one for the gzip header and one for  *)
(* the trailer.  When an engine writes is left open.  A reader that has    *)
(* failed fails again.                                                     *)
(*                                                                         *)
(* A definition named X_Bug is X with a bug one could plausibly write into *)
(* the code, as in Run.                                                    *)
(***************************************************************************)
EXTENDS Naturals

CONSTANT Blocks

ASSUME BlocksAssumption == Blocks \in Nat

VARIABLES
    given,    \* what the call is given: see Given
    ctxDone,  \* ctx is done
    pc,       \* "check", "setup", "header", "open", "feed", "encode", "finish",
              \* "trailer", "abandon", "drain", "compare" or "returned"
    read,     \* blocks read from the input
    written,  \* writes w has taken
    opened,   \* the engine's writer is open
    err,      \* rebuild's error
    ret

rvars == <<given, ctxDone, pc, read, written, opened, err, ret>>

\* len and diff: the input's length and the first block that is not the one
\* recorded, 0 for none; readFails: the block whose read fails; drift: the
\* engine does not make the recorded bytes of the recorded input.
Given == {g \in [format : {"gzip", "zstd", "none"},
                 params : {"ok", "ErrParamsVersion", "ErrInvalidParams"},
                 engine : {"ok", "unknown", "otherFormat", "otherVersion"},
                 allowVersionMismatch : BOOLEAN, drift : BOOLEAN,
                 len : 0 .. Blocks + 1, diff : 0 .. Blocks + 1, readFails : 0 .. Blocks + 2] :
            g.diff <= g.len /\ g.readFails <= g.len + 1}

RInit == /\ given \in Given
         /\ ctxDone = FALSE /\ pc = "check" /\ read = 0 /\ written = 0
         /\ opened = FALSE /\ err = "nil" /\ ret = "pending"

Cancel == /\ ~ctxDone /\ pc # "returned"
          /\ ctxDone' = TRUE
          /\ UNCHANGED <<given, pc, read, written, opened, err, ret>>

Check == /\ pc = "check"
         /\ IF given.params = "ok"
            THEN pc' = "setup" /\ UNCHANGED ret
            ELSE pc' = "returned" /\ ret' = given.params
         /\ UNCHANGED <<given, ctxDone, read, written, opened, err>>

-----------------------------------------------------------------------------
(* rebuild.                                                                *)

\* Bug: an error goes straight to the digests.
AfterRebuild_AtOnce(e) == "compare"

\* After an error the rest of the input is read, for its digest.
AfterRebuild(e) == IF e = "nil" THEN "compare" ELSE "drain"

\* rebuild returns e.
Rebuilt(e) == err' = e /\ pc' = AfterRebuild(e)

\* lookupEngine.
LookupErr ==
    CASE given.engine \in {"unknown", "otherFormat"} -> "ErrEngineUnavailable"
      [] given.engine = "otherVersion" /\ ~given.allowVersionMismatch -> "ErrEngineVersionMismatch"
      [] OTHER -> "nil"

Setup ==
    /\ pc = "setup"
    /\ IF given.format = "none" THEN pc' = "feed" /\ UNCHANGED err
       ELSE IF LookupErr # "nil" THEN Rebuilt(LookupErr)
       ELSE pc' = (IF given.format = "gzip" THEN "header" ELSE "open") /\ UNCHANGED err
    /\ UNCHANGED <<given, ctxDone, read, written, opened, ret>>

\* Bug: the engine is not closed when it, or the input, has failed.
Failed_Open(e) == Rebuilt(e)

\* An error in Feed or in Close: the engine has yet to be closed.
Failed(e) == IF opened THEN err' = e /\ pc' = "abandon" ELSE Rebuilt(e)

\* A write to w, behind ctxWriter.
WriteThen(next) ==
    \/ ctxDone /\ Failed("ctxErr") /\ UNCHANGED written
    \/ ~ctxDone /\ Failed("write") /\ UNCHANGED written
    \/ ~ctxDone /\ written' = written + 1 /\ next

Header == /\ pc = "header"
          /\ WriteThen(pc' = "open" /\ UNCHANGED err)
          /\ UNCHANGED <<given, ctxDone, read, opened, ret>>

Open == /\ pc = "open"
        /\ \/ opened' = TRUE /\ pc' = "feed" /\ UNCHANGED err
           \/ Rebuilt("engine") /\ UNCHANGED opened
        /\ UNCHANGED <<given, ctxDone, read, written, ret>>

\* The block whose read comes next cannot be read.
ReadFails == given.readFails = read + 1

Feed ==
    /\ pc = "feed"
    /\ IF ReadFails THEN Failed("read") /\ UNCHANGED read
       ELSE /\ read' = IF read = given.len THEN read ELSE read + 1
            /\ IF read < given.len THEN pc' = "encode" /\ UNCHANGED err
               ELSE IF given.format = "none" THEN Rebuilt("nil")
               ELSE pc' = "finish" /\ UNCHANGED err
    /\ UNCHANGED <<given, ctxDone, written, opened, ret>>

\* Writes due for the blocks read, apart from gzip's header.
Owed == read + (IF given.format = "gzip" THEN 1 ELSE 0) - written

\* The engine writes, goes on to the next block, or fails; io.Copy writes.
Encode ==
    /\ pc \in {"encode", "finish"}
    /\ \/ Owed > 0 /\ WriteThen(UNCHANGED <<pc, err>>)
       \/ given.format # "none" /\ Failed("engine") /\ UNCHANGED written
       \/ /\ pc = "encode" /\ (given.format = "none" => Owed = 0)
          /\ pc' = "feed" /\ UNCHANGED <<err, written>>
    /\ UNCHANGED <<given, ctxDone, read, opened, ret>>

\* The engine's Close has written everything.
Finish ==
    /\ pc = "finish" /\ Owed = 0
    /\ opened' = FALSE
    /\ IF given.format = "gzip" THEN pc' = "trailer" /\ UNCHANGED err ELSE Rebuilt("nil")
    /\ UNCHANGED <<given, ctxDone, read, written, ret>>

Trailer == /\ pc = "trailer"
           /\ WriteThen(Rebuilt("nil"))
           /\ UNCHANGED <<given, ctxDone, read, opened, ret>>

\* The engine is closed on the way out, or its Close, having failed, releases
\* what it holds; it may still write if only the input failed.
Abandon ==
    /\ pc = "abandon"
    /\ opened' = FALSE /\ pc' = AfterRebuild(err)
    /\ written' \in written .. written + (IF err = "read" /\ ~ctxDone THEN Owed ELSE 0)
    /\ UNCHANGED <<given, ctxDone, read, err, ret>>

-----------------------------------------------------------------------------
(* The verdict.                                                            *)

\* io.Copy to io.Discard; where it stops, and why, is not asked.
Drain == /\ pc = "drain"
         /\ IF ReadFails \/ read = given.len THEN pc' = "compare" /\ UNCHANGED read
                                             ELSE read' = read + 1 /\ UNCHANGED pc
         /\ UNCHANGED <<given, ctxDone, written, opened, err, ret>>

\* The digest of what was read is the one recorded.
InputMatches == read = Blocks /\ (given.diff = 0 \/ given.diff > read)

\* The digest of what was written is the one recorded, the input being right.
OutputMatches == written = Blocks + (IF given.format = "gzip" THEN 2 ELSE 0) /\ ~given.drift

Answer == IF ~InputMatches THEN "ErrInputMismatch"
          ELSE IF err # "nil" THEN err
          ELSE IF ~OutputMatches THEN "ErrDigestMismatch" ELSE "nil"

Compare == /\ pc = "compare"
           /\ ret' = Answer /\ pc' = "returned"
           /\ UNCHANGED <<given, ctxDone, read, written, opened, err>>

Step == \/ Check \/ Setup \/ Header \/ Open \/ Feed \/ Encode \/ Finish \/ Trailer
        \/ Abandon \/ Drain \/ Compare

-----------------------------------------------------------------------------
\* Every variable holds a value the code could store in it.
RTypeOK ==
    /\ given \in Given /\ ctxDone \in BOOLEAN /\ opened \in BOOLEAN
    /\ read \in 0 .. given.len
    /\ written \in 0 .. read + (IF given.format = "gzip" THEN 2 ELSE 0)
    /\ ret \in {"pending", "nil", "ErrParamsVersion", "ErrInvalidParams", "ErrInputMismatch",
                "ErrDigestMismatch", "ErrEngineUnavailable", "ErrEngineVersionMismatch",
                "engine", "read", "write", "ctxErr"}

InputRight == given.len = Blocks /\ given.diff = 0

\* An input that can be read to its end is reported as not matching if it
\* does not match, whatever else failed and however early; and never if it
\* does, though only a part of it had been read when the rebuild gave up.
\* nil means that the recorded bytes were written, all of them.
VerdictIsRight ==
    pc = "returned" /\ given.params = "ok" =>
        /\ given.readFails = 0 => (ret = "ErrInputMismatch" <=> ~InputRight)
        /\ ret = "nil" => InputRight /\ OutputMatches

\* "let a confirmed mismatch take precedence over the engine's own error"
\* (recompress.go:49-52): an input reported as not matching does not match.
MismatchIsConfirmed == ret = "ErrInputMismatch" => ~InputRight

\* rebuild leaves no engine open, whichever step failed: an engine holds
\* memory outside Go's heap, and pigz a goroutine that waits to be closed.
NoEngineLeft == pc \in {"drain", "compare", "returned"} => ~opened
==============================================================================
