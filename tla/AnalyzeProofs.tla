---------------------------- MODULE AnalyzeProofs ----------------------------
(***************************************************************************)
(* What an analysis leaves behind, for inputs of any length, any threshold *)
(* of the spool, any failure and, of the command, a kill between any two   *)
(* steps.                                                                  *)
(***************************************************************************)
EXTENDS Analyze, SequenceTheorems, TLAPS

Before == {"start", "detect", "hash", "parse", "rewind"}
Spilled == {"create", "remove", "fill"}
Filling == {"copy", "append"} \cup Spilled
Answers == {"pending", "nil", "io", "os", "ctxErr", "tee", "spool", "engine", "ErrCorrupt",
            "ErrUnsupported", "ErrNotReproducible"}

SpoolType == [buf : Seq(Nat), file : BOOLEAN, disk : Seq(Nat), size : Nat]
FlagsType == [confirmed : BOOLEAN, closed : BOOLEAN]

TypeOK ==
    /\ input.content \in Nat /\ who \in {"program", "command"} /\ cancelled \in BOOLEAN
    /\ at \in Before \cup Filling \cup {"search", "made", "confirm", "returned", "recipe",
                                        "write", "exit", "killed"}
    /\ units \in Nat /\ decoded \in BOOLEAN
    /\ spool \in SpoolType
    /\ entry \in {"none", "there", "stuck"}
    /\ flags \in FlagsType /\ answer \in Answers
    /\ unc \in {"none", "part", "whole", "lost", "stuck"} /\ recipe \in {"none", "part", "whole", "stuck"}

\* The first n units of the content.
Count(n) == [i \in 1 .. n |-> i]

\* There is an Analysis with a spool.
Analyzed == at \in {"made", "confirm"} /\ format # "none" /\ ~flags.closed

\* The spool's file is open as long as the spool, or the spilling, has it.
SpoolOK ==
    /\ at \in Before => spool = NewSpool
    /\ at \in Spilled \cup {"returned", "recipe", "write", "exit"} \/ flags.closed => ~spool.file
    /\ at = "append" => spool.file
    /\ at # "killed" => fds = IF spool.file \/ at \in {"remove", "fill"} THEN 1 ELSE 0
    /\ entry = "there" => at \in {"remove", "killed"}

\* What was decompressed is in the spool or still to come.
ContentOK ==
    /\ at = "hash" => format = "none"
    /\ at \in Filling \cup {"search"} \/ Analyzed =>
         /\ (IF spool.file THEN spool.disk ELSE spool.buf) = Count(spool.size)
         /\ decoded => spool.size + units = input.content
    /\ at \in {"append"} \cup Spilled => units > 0
    /\ at = "search" \/ Analyzed => decoded /\ units = 0

FlagsOK ==
    /\ flags.confirmed \/ flags.closed =>
         at \in {"made", "confirm", "returned", "recipe", "write", "exit", "killed"}
    /\ at = "confirm" => flags.confirmed /\ ~flags.closed
    /\ at \in {"made", "confirm"} /\ who = "command" => ~flags.closed

\* What the command leaves in the end.
AtExit ==
    CASE answer = "nil"            -> recipe = "whole"
      [] answer = "os"             -> recipe \in {"none", "stuck"} /\ unc \in {"none", "whole", "lost"}
      [] answer \notin {"nil", "os"} -> recipe = "none" /\ unc \in {"none", "stuck"}

\* The command's files and the answer, by place.
CommandOK ==
    /\ at \in Before \cup Filling \cup {"search"} => answer = "pending"
    /\ at \in {"start", "recipe", "write", "exit", "killed"} => who = "command"
    /\ answer = "os" => at \in {"exit", "killed"}
    /\ at = "start" => unc = "none"
    /\ at \notin {"write", "exit", "killed"} => recipe = "none"
    /\ who = "command" /\ at \notin {"start", "recipe", "write", "exit", "killed"} =>
         unc = IF answer = "nil" /\ flags.confirmed /\ at \in {"made", "returned"} THEN "whole" ELSE "part"
    /\ who = "command" /\ at = "returned" /\ answer = "nil" => flags.confirmed
    /\ at \in {"recipe", "write"} => answer = "nil" /\ unc \in {"whole", "lost"}
    /\ recipe # "none" => unc \in {"whole", "lost"}
    /\ at = "exit" => AtExit

IInv == TypeOK /\ SpoolOK /\ ContentOK /\ FlagsOK /\ CommandOK

-----------------------------------------------------------------------------
LEMMA MinOfTwo == \A a \in Nat : Min({a, a}) = a
  BY DEF Min

LEMMA CountIs ==
    ASSUME NEW n \in Nat
    PROVE  /\ Count(n) \in Seq(Nat) /\ Count(n + 1) \in Seq(Nat) /\ Len(Count(n)) = n
           /\ Append(Count(n), n + 1) = Count(n + 1)
           /\ SubSeq(Count(n), 1, n) = Count(n)
  <1>1. Count(n) \in Seq(Nat) /\ Len(Count(n)) = n /\ Count(n + 1) \in Seq(Nat) /\ Len(Count(n + 1)) = n + 1
    BY DEF Count
  <1>2. Append(Count(n), n + 1) = Count(n + 1)
    <2> DEFINE s == Append(Count(n), n + 1)
    <2>1. s \in Seq(Nat) /\ Len(s) = n + 1 /\ s[n + 1] = n + 1 /\ \A i \in 1 .. n : s[i] = Count(n)[i]
      BY <1>1, AppendProperties
    <2> HIDE DEF s
    <2>2. \A i \in 1 .. n + 1 : s[i] = Count(n + 1)[i]
      BY <2>1 DEF Count
    <2>3. s = Count(n + 1)
      BY <1>1, <2>1, <2>2, SeqEqual
    <2> QED BY <2>3 DEF s
  <1>3. SubSeq(Count(n), 1, n) = Count(n)
    BY <1>1
  <1> QED BY <1>1, <1>2, <1>3

\* A spool is a memory buffer, a file or not, what is on disk and a size.
LEMMA SpoolIs ==
    \A s \in SpoolType : s.buf \in Seq(Nat) /\ s.file \in BOOLEAN /\ s.disk \in Seq(Nat) /\ s.size \in Nat
  BY DEF SpoolType

\* What a Reader of the spool returns is the content.
LEMMA HeldIs == IInv /\ (at = "search" \/ Analyzed) => Held = AllContent
  <1> SUFFICES ASSUME IInv, at = "search" \/ Analyzed PROVE Held = AllContent
    OBVIOUS
  <1>1. /\ spool.size \in Nat /\ spool.size = input.content
        /\ (IF spool.file THEN spool.disk ELSE spool.buf) = Count(spool.size)
    <2>1. at \in Filling \cup {"search"} \/ Analyzed
      OBVIOUS
    <2>2. decoded /\ units = 0 /\ spool.size + units = input.content
      BY <2>1 DEF IInv, ContentOK
    <2>3. spool.size \in Nat
      BY SpoolIs DEF IInv, TypeOK
    <2> QED BY <2>1, <2>2, <2>3 DEF IInv, ContentOK
  <1>2. AllContent = Count(spool.size)
    BY <1>1 DEF AllContent, Count
  <1>3. CASE ~spool.file
    BY <1>1, <1>2, <1>3 DEF Held
  <1>4. CASE spool.file
    <2>1. Len(spool.disk) = spool.size
      BY <1>1, <1>4, CountIs
    <2>2. Min({spool.size, Len(spool.disk)}) = spool.size
      BY <1>1, <2>1, MinOfTwo
    <2> QED BY <1>1, <1>2, <1>4, <2>2, CountIs DEF Held
  <1> QED BY <1>3, <1>4

-----------------------------------------------------------------------------
(* What becomes of the spool.                                              *)

LEMMA NewIs == NewSpool \in SpoolType /\ ~NewSpool.file /\ NewSpool.size = 0 /\ NewSpool.buf = Count(0)
  BY DEF NewSpool, SpoolType, Count

LEMMA CloseIs ==
    ASSUME spool \in SpoolType, CloseSpool
    PROVE  /\ spool' \in SpoolType /\ ~spool'.file
           /\ fds' = fds - (IF spool.file THEN 1 ELSE 0) /\ UNCHANGED entry
  <1>1. <<>> \in Seq(Nat)
    OBVIOUS
  <1>2. /\ spool' = [spool EXCEPT !.buf = <<>>, !.file = FALSE]
        /\ fds' = fds - (IF spool.file THEN 1 ELSE 0) /\ UNCHANGED entry
    BY DEF CloseSpool
  <1>3. spool' \in SpoolType /\ ~spool'.file
    BY <1>1, <1>2 DEF SpoolType
  <1> QED BY <1>2, <1>3

LEMMA SpillFailsIs ==
    ASSUME spool \in SpoolType, SpillFails
    PROVE  /\ spool' \in SpoolType /\ spool'.file = spool.file
           /\ fds' = 0 /\ at' = "returned" /\ answer' \in {"ctxErr", "ErrCorrupt"}
  <1>1. <<>> \in Seq(Nat)
    OBVIOUS
  <1>2. spool' = [spool EXCEPT !.buf = <<>>] /\ fds' = 0 /\ at' = "returned"
    BY DEF SpillFails
  <1>3. spool' \in SpoolType /\ spool'.file = spool.file
    BY <1>1, <1>2 DEF SpoolType
  <1>4. answer' \in {"ctxErr", "ErrCorrupt"}
    BY DEF SpillFails, Disk
  <1> QED BY <1>2, <1>3, <1>4

LEMMA DecompressIs ==
    \A b \in BOOLEAN : input.content \in Nat /\ Decompress(b) =>
        units' \in Nat /\ decoded' \in BOOLEAN /\ (decoded' => units' = input.content)
  BY DEF Decompress

-----------------------------------------------------------------------------
(* The beginning and the steps.                                            *)

LEMMA InputIs == \A i \in Inputs : i.content \in Nat
  <1> USE AnalyzeAssumption
  <1>1. \A w \in Wholes : w.content \in Nat
    <2>1. \A g, n, b : GzipFile(g, n, b).content = n
      BY DEF GzipFile
    <2>2. \A d, n, b : ZstdFile(d, n, b).content = n
      BY DEF ZstdFile
    <2>3. \A b, k : Other(b, k).content = 1
      BY DEF Other
    <2>4. Contents \subseteq Nat /\ 1 \in Nat /\ 2 \in Nat
      OBVIOUS
    <2>5. TAKE w \in Wholes
    <2>6. CASE w \in {GzipFile(4 * f, n, "none") : f \in 0 .. 7, n \in Contents}
      BY <2>1, <2>4, <2>6
    <2>7. CASE w \in {GzipFile(4 * f + 2, 1, b) : f \in 0 .. 7, b \in {"none", "header", "body", "check"}}
      BY <2>1, <2>4, <2>7
    <2>8. CASE w \in {ZstdFile(d, n, "none") : d \in {0, 4, 32, 36}, n \in Contents}
      BY <2>2, <2>4, <2>8
    <2>9. CASE w \in {ZstdFile(d, 2, b) : d \in {32, 36}, b \in {"header", "body", "size", "check"}}
      BY <2>2, <2>4, <2>9
    <2>10. CASE w \in {ZstdFile(d, 1, "dictionary") : d \in {1, 37}}
      BY <2>2, <2>4, <2>10
    <2>11. CASE w \in {Other(<<83, 42, 77, 24, 0, 0>>, "skippable"), Other(<<7, 7, 7, 7>>, "plain")}
      BY <2>3, <2>4, <2>11
    <2> QED BY <2>5, <2>6, <2>7, <2>8, <2>9, <2>10, <2>11 DEF Wholes
  <1> QED BY <1>1 DEF Inputs

LEMMA InitHolds == AInit => IInv
  <1> SUFFICES ASSUME AInit PROVE IInv
    OBVIOUS
  <1>1. input.content \in Nat
    BY InputIs DEF AInit
  <1>2. TypeOK
    <2>1. spool \in SpoolType /\ flags \in FlagsType
      BY DEF AInit, NewSpool, SpoolType, FlagsType
    <2> QED BY <1>1, <2>1 DEF AInit, TypeOK, Before, Answers
  <1> QED BY <1>2 DEF AInit, IInv, SpoolOK, ContentOK, FlagsOK, CommandOK, NewSpool, Before,
                      Filling, Spilled, Analyzed

\* Nothing is said of the context.
LEMMA CancelAnalyzeHolds == IInv /\ CancelAnalyze => IInv'
  <1> SUFFICES ASSUME IInv, CancelAnalyze PROVE IInv'
    OBVIOUS
  <1> USE DEF Before, Filling, Spilled, Answers, Analyzed, held, place, files, GoOn, Return, CancelAnalyze
  <1>1. TypeOK'
    BY DEF IInv, TypeOK, ContentOK
  <1>2. SpoolOK'
    BY DEF IInv, TypeOK, SpoolOK
  <1>3. ContentOK'
    BY DEF IInv, TypeOK, SpoolOK, ContentOK
  <1>4. FlagsOK'
    BY DEF IInv, TypeOK, SpoolOK, FlagsOK
  <1>5. CommandOK'
    BY DEF IInv, TypeOK, ContentOK, FlagsOK, CommandOK
  <1> QED BY <1>1, <1>2, <1>3, <1>4, <1>5 DEF IInv

\* Detection: nothing is open yet.
LEMMA DetectHolds == IInv /\ Detect => IInv'
  <1> SUFFICES ASSUME IInv, Detect PROVE IInv'
    OBVIOUS
  <1>a. ~spool.file
    BY NewIs DEF IInv, SpoolOK, Before, Detect
  <1> USE DEF Before, Filling, Spilled, Answers, Analyzed, held, place, files, GoOn, Return, SeekFails, Detect
  <1>1. TypeOK'
    BY <1>a DEF IInv, TypeOK, ContentOK
  <1>2. SpoolOK'
    BY <1>a DEF IInv, TypeOK, SpoolOK
  <1>3. ContentOK'
    BY <1>a DEF IInv, TypeOK, SpoolOK, ContentOK
  <1>4. FlagsOK'
    BY <1>a DEF IInv, TypeOK, SpoolOK, FlagsOK
  <1>5. CommandOK'
    BY <1>a DEF IInv, TypeOK, ContentOK, FlagsOK, CommandOK
  <1> QED BY <1>1, <1>2, <1>3, <1>4, <1>5 DEF IInv

\* Plain content is hashed.
LEMMA StartNoneHolds == IInv /\ StartNone => IInv'
  <1> SUFFICES ASSUME IInv, StartNone PROVE IInv'
    OBVIOUS
  <1>a. ~spool.file
    BY NewIs DEF IInv, SpoolOK, Before, StartNone
  <1> USE DEF Before, Filling, Spilled, Answers, Analyzed, held, place, files, GoOn, Return, SeekFails, Started, StartNone
  <1>1. TypeOK'
    BY <1>a DEF IInv, TypeOK, ContentOK
  <1>2. SpoolOK'
    BY <1>a DEF IInv, TypeOK, SpoolOK
  <1>3. ContentOK'
    BY <1>a DEF IInv, TypeOK, SpoolOK, ContentOK
  <1>4. FlagsOK'
    BY <1>a DEF IInv, TypeOK, SpoolOK, FlagsOK
  <1>5. CommandOK'
    BY <1>a DEF IInv, TypeOK, ContentOK, FlagsOK, CommandOK
  <1> QED BY <1>1, <1>2, <1>3, <1>4, <1>5 DEF IInv

\* The header of a gzip member.
LEMMA ParseGzipHolds == IInv /\ ParseGzip => IInv'
  <1> SUFFICES ASSUME IInv, ParseGzip PROVE IInv'
    OBVIOUS
  <1>a. ~spool.file
    BY NewIs DEF IInv, SpoolOK, Before, ParseGzip
  <1>b. /\ at = "parse" /\ UNCHANGED <<input, who, verdict, cancelled, format, held, fault, flags, files>>
        /\ \/ Return("ErrCorrupt") /\ UNCHANGED <<units, decoded>>
           \/ /\ GoOn("copy") /\ units' \in Nat /\ decoded' \in BOOLEAN
              /\ decoded' => units' = input.content
    <2>1. input.content \in Nat
      BY DEF IInv, TypeOK
    <2> QED BY <2>1, DecompressIs DEF ParseGzip
  <1>c. spool.buf = Count(spool.size) /\ spool.size = 0
    BY <1>b, NewIs DEF IInv, SpoolOK, Before
  <1> USE DEF Before, Filling, Spilled, Answers, Analyzed, held, place, files, GoOn, Return
  <1>1. TypeOK'
    BY <1>a, <1>b, <1>c DEF IInv, TypeOK, ContentOK
  <1>2. SpoolOK'
    BY <1>a, <1>b, <1>c DEF IInv, TypeOK, SpoolOK
  <1>3. ContentOK'
    BY <1>a, <1>b, <1>c DEF IInv, TypeOK, SpoolOK, ContentOK
  <1>4. FlagsOK'
    BY <1>b DEF IInv, TypeOK, SpoolOK, FlagsOK
  <1>5. CommandOK'
    BY <1>b DEF IInv, TypeOK, ContentOK, FlagsOK, CommandOK
  <1> QED BY <1>1, <1>2, <1>3, <1>4, <1>5 DEF IInv

\* The frame's header and blocks.
LEMMA ParseZstdHolds == IInv /\ ParseZstd => IInv'
  <1> SUFFICES ASSUME IInv, ParseZstd PROVE IInv'
    OBVIOUS
  <1>a. ~spool.file
    BY NewIs DEF IInv, SpoolOK, Before, ParseZstd
  <1> USE DEF Before, Filling, Spilled, Answers, Analyzed, held, place, files, GoOn, Return, ParseZstd
  <1>1. TypeOK'
    BY <1>a DEF IInv, TypeOK, ContentOK
  <1>2. SpoolOK'
    BY <1>a DEF IInv, TypeOK, SpoolOK
  <1>3. ContentOK'
    BY <1>a DEF IInv, TypeOK, SpoolOK, ContentOK
  <1>4. FlagsOK'
    BY <1>a DEF IInv, TypeOK, SpoolOK, FlagsOK
  <1>5. CommandOK'
    BY <1>a DEF IInv, TypeOK, ContentOK, FlagsOK, CommandOK
  <1> QED BY <1>1, <1>2, <1>3, <1>4, <1>5 DEF IInv

\* The decoder starts at the frame's first byte.
LEMMA RewindHolds == IInv /\ Rewind => IInv'
  <1> SUFFICES ASSUME IInv, Rewind PROVE IInv'
    OBVIOUS
  <1>a. ~spool.file
    BY NewIs DEF IInv, SpoolOK, Before, Rewind
  <1>b. /\ at = "rewind" /\ UNCHANGED <<input, who, verdict, cancelled, format, hdr, held, flags, files>>
        /\ \/ Return("io") /\ UNCHANGED <<units, decoded>>
           \/ /\ GoOn("copy") /\ units' \in Nat /\ decoded' \in BOOLEAN
              /\ decoded' => units' = input.content
    <2>1. input.content \in Nat
      BY DEF IInv, TypeOK
    <2> QED BY <2>1, DecompressIs DEF Rewind, SeekFails
  <1>c. spool.buf = Count(spool.size) /\ spool.size = 0
    BY <1>b, NewIs DEF IInv, SpoolOK, Before
  <1> USE DEF Before, Filling, Spilled, Answers, Analyzed, held, place, files, GoOn, Return
  <1>1. TypeOK'
    BY <1>a, <1>b, <1>c DEF IInv, TypeOK, ContentOK
  <1>2. SpoolOK'
    BY <1>a, <1>b, <1>c DEF IInv, TypeOK, SpoolOK
  <1>3. ContentOK'
    BY <1>a, <1>b, <1>c DEF IInv, TypeOK, SpoolOK, ContentOK
  <1>4. FlagsOK'
    BY <1>a, <1>b, <1>c DEF IInv, TypeOK, SpoolOK, FlagsOK
  <1>5. CommandOK'
    BY <1>a, <1>b, <1>c DEF IInv, TypeOK, ContentOK, FlagsOK, CommandOK
  <1> QED BY <1>1, <1>2, <1>3, <1>4, <1>5 DEF IInv

\* Confirm is called once, and not after Close.
LEMMA CallConfirmHolds == IInv /\ CallConfirm => IInv'
  <1> SUFFICES ASSUME IInv, CallConfirm PROVE IInv'
    OBVIOUS
  <1>a. /\ at = "made" /\ ~flags.closed /\ ~flags.confirmed /\ at' = "confirm"
        /\ flags' \in FlagsType /\ flags'.confirmed /\ flags'.closed = flags.closed
        /\ UNCHANGED <<input, who, verdict, cancelled, format, hdr, units, decoded, held, fault, answer, files>>
    BY DEF CallConfirm, Refused, IInv, TypeOK, FlagsType
  <1> USE DEF Before, Filling, Spilled, Answers, Analyzed, held, place, files, GoOn, Return
  <1>1. TypeOK'
    BY <1>a DEF IInv, TypeOK, ContentOK
  <1>2. SpoolOK'
    BY <1>a DEF IInv, TypeOK, SpoolOK
  <1>3. ContentOK'
    BY <1>a DEF IInv, TypeOK, SpoolOK, ContentOK
  <1>4. FlagsOK'
    BY <1>a DEF IInv, TypeOK, SpoolOK, FlagsOK
  <1>5. CommandOK'
    BY <1>a DEF IInv, TypeOK, ContentOK, FlagsOK, CommandOK
  <1> QED BY <1>1, <1>2, <1>3, <1>4, <1>5 DEF IInv

\* The container is checked.
LEMMA FinishPassOneHolds == IInv /\ FinishPassOne => IInv'
  <1> SUFFICES ASSUME IInv, FinishPassOne PROVE IInv'
    OBVIOUS
  <1>a. /\ at = "copy" /\ units = 0
        /\ UNCHANGED <<input, who, verdict, cancelled, format, hdr, units, decoded, fault, flags, files>>
        /\ \/ /\ at' = "returned" /\ CloseSpool
              /\ answer' \in {"ctxErr", "io", "ErrCorrupt", "ErrUnsupported"}
           \/ decoded /\ at' = "search" /\ UNCHANGED <<answer, held>>
    BY DEF FinishPassOne, PassOneFails, Disk, GoOn
  <1>b. spool \in SpoolType
    BY DEF IInv, TypeOK
  <1> USE DEF Before, Filling, Spilled, Answers, Analyzed, held, place, files, GoOn, Return
  <1>1. TypeOK'
    BY <1>a, <1>b, CloseIs, SpoolIs DEF IInv, TypeOK, ContentOK
  <1>2. SpoolOK'
    BY <1>a, <1>b, CloseIs, SpoolIs DEF IInv, TypeOK, SpoolOK
  <1>3. ContentOK'
    BY <1>a, <1>b, CloseIs, SpoolIs DEF IInv, TypeOK, SpoolOK, ContentOK
  <1>4. FlagsOK'
    BY <1>a, <1>b, CloseIs, SpoolIs DEF IInv, TypeOK, SpoolOK, FlagsOK
  <1>5. CommandOK'
    BY <1>a, <1>b, CloseIs, SpoolIs DEF IInv, TypeOK, ContentOK, FlagsOK, CommandOK
  <1> QED BY <1>1, <1>2, <1>3, <1>4, <1>5 DEF IInv

\* The search ends.
LEMMA SettleOnHolds == IInv /\ SettleOn => IInv'
  <1> SUFFICES ASSUME IInv, SettleOn PROVE IInv'
    OBVIOUS
  <1>a. /\ at = "search"
        /\ UNCHANGED <<input, who, cancelled, format, hdr, units, decoded, fault, flags, files>>
        /\ \/ at' = "returned" /\ CloseSpool /\ answer' \in {"ctxErr", "ErrNotReproducible"}
           \/ at' = "made" /\ answer' = "nil" /\ UNCHANGED held
    BY DEF SettleOn, PassOneFails, Started
  <1>b. spool \in SpoolType
    BY DEF IInv, TypeOK
  <1> USE DEF Before, Filling, Spilled, Answers, Analyzed, held, place, files, GoOn, Return
  <1>1. TypeOK'
    BY <1>a, <1>b, CloseIs, SpoolIs DEF IInv, TypeOK, ContentOK
  <1>2. SpoolOK'
    BY <1>a, <1>b, CloseIs, SpoolIs DEF IInv, TypeOK, SpoolOK
  <1>3. ContentOK'
    BY <1>a, <1>b, CloseIs, SpoolIs DEF IInv, TypeOK, SpoolOK, ContentOK
  <1>4. FlagsOK'
    BY <1>a, <1>b, CloseIs, SpoolIs DEF IInv, TypeOK, SpoolOK, FlagsOK
  <1>5. CommandOK'
    BY <1>a, <1>b, CloseIs, SpoolIs DEF IInv, TypeOK, ContentOK, FlagsOK, CommandOK
  <1> QED BY <1>1, <1>2, <1>3, <1>4, <1>5 DEF IInv

\* The Analysis is closed, and nothing is left open.
LEMMA CloseHolds == IInv /\ Close => IInv'
  <1> SUFFICES ASSUME IInv, Close PROVE IInv'
    OBVIOUS
  <1>a. /\ at = "made" /\ (who = "command" => flags.confirmed)
        /\ flags' \in FlagsType /\ flags'.confirmed = flags.confirmed /\ flags'.closed
        /\ at' = IF who = "command" THEN "returned" ELSE at
        /\ UNCHANGED <<input, who, verdict, cancelled, format, hdr, units, decoded, fault, answer, files>>
    BY DEF Close, IInv, TypeOK, FlagsType
  <1>b. /\ spool' \in SpoolType /\ ~spool'.file /\ UNCHANGED entry
        /\ fds' = fds - (IF spool.file THEN 1 ELSE 0)
    <2>1. spool \in SpoolType /\ (flags.closed => ~spool.file) /\ fds \in Int
      BY <1>a DEF IInv, TypeOK, SpoolOK
    <2>2. CASE flags.closed
      BY <2>1, <2>2 DEF Close, held
    <2>3. CASE ~flags.closed
      BY <2>1, <2>3, CloseIs DEF Close
    <2> QED BY <2>2, <2>3
  <1> USE DEF Before, Filling, Spilled, Answers, Analyzed, held, place, files, GoOn, Return
  <1>1. TypeOK'
    BY <1>a, <1>b, SpoolIs DEF IInv, TypeOK, ContentOK
  <1>2. SpoolOK'
    BY <1>a, <1>b, SpoolIs DEF IInv, TypeOK, SpoolOK
  <1>3. ContentOK'
    BY <1>a, <1>b, SpoolIs DEF IInv, TypeOK, SpoolOK, ContentOK
  <1>4. FlagsOK'
    BY <1>a, <1>b, SpoolIs DEF IInv, TypeOK, SpoolOK, FlagsOK
  <1>5. CommandOK'
    BY <1>a, <1>b, SpoolIs DEF IInv, TypeOK, ContentOK, FlagsOK, CommandOK
  <1> QED BY <1>1, <1>2, <1>3, <1>4, <1>5 DEF IInv

\* Confirm reads the spool and changes nothing of it.
LEMMA ConfirmHolds == IInv /\ Confirm => IInv'
  <1> SUFFICES ASSUME IInv, Confirm PROVE IInv'
    OBVIOUS
  <1> USE DEF Before, Filling, Spilled, Answers, Analyzed, held, place, files, GoOn, Return, Confirmed, Confirm
  <1>1. TypeOK'
    BY DEF IInv, TypeOK, ContentOK
  <1>2. SpoolOK'
    BY DEF IInv, TypeOK, SpoolOK
  <1>3. ContentOK'
    BY DEF IInv, TypeOK, SpoolOK, ContentOK
  <1>4. FlagsOK'
    BY DEF IInv, TypeOK, SpoolOK, FlagsOK
  <1>5. CommandOK'
    BY DEF IInv, TypeOK, ContentOK, FlagsOK, CommandOK
  <1> QED BY <1>1, <1>2, <1>3, <1>4, <1>5 DEF IInv

\* The command's steps.
LEMMA CreateUncompressedHolds == IInv /\ CreateUncompressed => IInv'
  <1> SUFFICES ASSUME IInv, CreateUncompressed PROVE IInv'
    OBVIOUS
  <1>a. ~spool.file
    BY NewIs DEF IInv, SpoolOK, Before, CreateUncompressed, Command
  <1> USE DEF Before, Filling, Spilled, Answers, Analyzed, held, place, files, GoOn, Return, Command, Exit, CreateUncompressed
  <1>1. TypeOK'
    BY <1>a DEF IInv, TypeOK, ContentOK
  <1>2. SpoolOK'
    BY <1>a DEF IInv, TypeOK, SpoolOK
  <1>3. ContentOK'
    BY <1>a DEF IInv, TypeOK, SpoolOK, ContentOK
  <1>4. FlagsOK'
    BY <1>a DEF IInv, TypeOK, SpoolOK, FlagsOK
  <1>5. CommandOK'
    BY <1>a DEF IInv, TypeOK, ContentOK, FlagsOK, CommandOK, AtExit
  <1> QED BY <1>1, <1>2, <1>3, <1>4, <1>5 DEF IInv

\* The content's file is kept or removed.
LEMMA CloseUncompressedHolds == IInv /\ CloseUncompressed => IInv'
  <1> SUFFICES ASSUME IInv, CloseUncompressed PROVE IInv'
    OBVIOUS
  <1> USE DEF Before, Filling, Spilled, Answers, Analyzed, held, place, files, GoOn, Return, Command, Exit, KeepUncompressed, CloseUncompressed
  <1>1. TypeOK'
    BY DEF IInv, TypeOK, ContentOK
  <1>2. SpoolOK'
    BY DEF IInv, TypeOK, SpoolOK
  <1>3. ContentOK'
    BY DEF IInv, TypeOK, SpoolOK, ContentOK
  <1>4. FlagsOK'
    BY DEF IInv, TypeOK, SpoolOK, FlagsOK
  <1>5. CommandOK'
    BY DEF IInv, TypeOK, ContentOK, FlagsOK, CommandOK, AtExit
  <1> QED BY <1>1, <1>2, <1>3, <1>4, <1>5 DEF IInv

\* The recipe's file is created,
LEMMA CreateRecipeHolds == IInv /\ CreateRecipe => IInv'
  <1> SUFFICES ASSUME IInv, CreateRecipe PROVE IInv'
    OBVIOUS
  <1> USE DEF Before, Filling, Spilled, Answers, Analyzed, held, place, files, GoOn, Return, Command, Exit, CreateRecipe
  <1>1. TypeOK'
    BY DEF IInv, TypeOK, ContentOK
  <1>2. SpoolOK'
    BY DEF IInv, TypeOK, SpoolOK
  <1>3. ContentOK'
    BY DEF IInv, TypeOK, SpoolOK, ContentOK
  <1>4. FlagsOK'
    BY DEF IInv, TypeOK, SpoolOK, FlagsOK
  <1>5. CommandOK'
    BY DEF IInv, TypeOK, ContentOK, FlagsOK, CommandOK, AtExit
  <1> QED BY <1>1, <1>2, <1>3, <1>4, <1>5 DEF IInv

\* written and closed.
LEMMA WriteRecipeHolds == IInv /\ WriteRecipe => IInv'
  <1> SUFFICES ASSUME IInv, WriteRecipe PROVE IInv'
    OBVIOUS
  <1> USE DEF Before, Filling, Spilled, Answers, Analyzed, held, place, files, GoOn, Return, Command, Exit, WriteRecipe
  <1>1. TypeOK'
    BY DEF IInv, TypeOK, ContentOK
  <1>2. SpoolOK'
    BY DEF IInv, TypeOK, SpoolOK
  <1>3. ContentOK'
    BY DEF IInv, TypeOK, SpoolOK, ContentOK
  <1>4. FlagsOK'
    BY DEF IInv, TypeOK, SpoolOK, FlagsOK
  <1>5. CommandOK'
    BY DEF IInv, TypeOK, ContentOK, FlagsOK, CommandOK, AtExit
  <1> QED BY <1>1, <1>2, <1>3, <1>4, <1>5 DEF IInv

\* A kill.
LEMMA KillAnalyzeHolds == IInv /\ KillAnalyze => IInv'
  <1> SUFFICES ASSUME IInv, KillAnalyze PROVE IInv'
    OBVIOUS
  <1> USE DEF Before, Filling, Spilled, Answers, Analyzed, held, place, files, GoOn, Return, Command, KillAnalyze
  <1>1. TypeOK'
    BY DEF IInv, TypeOK, ContentOK
  <1>2. SpoolOK'
    BY DEF IInv, TypeOK, SpoolOK
  <1>3. ContentOK'
    BY DEF IInv, TypeOK, SpoolOK, ContentOK
  <1>4. FlagsOK'
    BY DEF IInv, TypeOK, SpoolOK, FlagsOK
  <1>5. CommandOK'
    BY DEF IInv, TypeOK, ContentOK, FlagsOK, CommandOK
  <1> QED BY <1>1, <1>2, <1>3, <1>4, <1>5 DEF IInv

\* A unit is kept in memory, or goes to the file.
LEMMA CopyHolds == IInv /\ Copy => IInv'
  <1> SUFFICES ASSUME IInv, Copy PROVE IInv'
    OBVIOUS
  <1>a. spool \in SpoolType /\ spool.file \in BOOLEAN /\ spool.size \in Nat /\ units \in Nat
    BY SpoolIs DEF IInv, TypeOK
  <1>b. /\ at = "copy" /\ units > 0 /\ spool.buf \in Seq(Nat)
        /\ ~spool.file => spool.buf = Count(spool.size)
    BY SpoolIs DEF Copy, IInv, TypeOK, ContentOK, Filling
  <1>c. UNCHANGED <<input, who, verdict, cancelled, format, hdr, decoded, flags, files>>
    BY DEF Copy
  <1>d. \/ /\ spool' \in SpoolType /\ spool'.buf = Count(spool'.size) /\ ~spool'.file /\ ~spool.file
           /\ spool'.size = spool.size + 1 /\ units' = units - 1
           /\ UNCHANGED <<at, answer, fds, entry>>
        \/ /\ at' = IF spool.file THEN "append" ELSE "create"
           /\ UNCHANGED <<units, answer, held>>
        \/ /\ CloseSpool /\ at' = "returned" /\ answer' = "ctxErr" /\ UNCHANGED units
    <2>1. CASE cancelled
      BY <2>1 DEF Copy, PassOneFails
    <2>2. CASE ~cancelled /\ MayKeep
      <3>1. ~spool.file
        BY <2>2 DEF MayKeep
      <3>2. /\ spool' = [spool EXCEPT !.buf = Append(spool.buf, spool.size + 1), !.size = spool.size + 1]
            /\ units' = units - 1 /\ UNCHANGED <<at, answer, fds, entry>>
        BY <2>2 DEF Copy
      <3>3. Append(spool.buf, spool.size + 1) = Count(spool.size + 1) /\ Count(spool.size + 1) \in Seq(Nat)
        <4>1. spool.buf = Count(spool.size)
          BY <1>b, <3>1
        <4> QED BY <1>a, <4>1, CountIs
      <3>4. spool' = [spool EXCEPT !.buf = Count(spool.size + 1), !.size = spool.size + 1]
        BY <3>2, <3>3
      <3>5. spool' \in SpoolType /\ spool'.buf = Count(spool'.size) /\ spool'.size = spool.size + 1 /\ spool'.file = spool.file
        <4>1. spool.size + 1 \in Nat
          BY <1>a
        <4>2. \A q \in Seq(Nat), n \in Nat : spool' = [spool EXCEPT !.buf = q, !.size = n] =>
                  spool' \in SpoolType /\ spool'.buf = q /\ spool'.size = n /\ spool'.file = spool.file
          BY <1>a DEF SpoolType
        <4>3. spool'.size = spool.size + 1 /\ spool'.buf = Count(spool.size + 1)
              /\ spool' \in SpoolType /\ spool'.file = spool.file
          BY <3>3, <3>4, <4>1, <4>2, Zenon
        <4> QED BY <4>3
      <3> QED BY <3>1, <3>2, <3>5
    <2>3. CASE ~cancelled /\ ~MayKeep
      BY <2>3 DEF Copy
    <2> QED BY <2>1, <2>2, <2>3 DEF IInv, TypeOK
  <1> USE DEF Before, Filling, Spilled, Answers, Analyzed, held, place, files, GoOn, Return
  <1>1. TypeOK'
    BY <1>a, <1>b, <1>c, <1>d, CloseIs DEF IInv, TypeOK, ContentOK
  <1>2. SpoolOK'
    BY <1>a, <1>b, <1>c, <1>d, CloseIs DEF IInv, TypeOK, SpoolOK
  <1>3. ContentOK'
    BY <1>a, <1>b, <1>c, <1>d, CloseIs DEF IInv, TypeOK, SpoolOK, ContentOK
  <1>4. FlagsOK'
    BY <1>a, <1>b, <1>c, <1>d, CloseIs DEF IInv, TypeOK, SpoolOK, FlagsOK
  <1>5. CommandOK'
    BY <1>a, <1>b, <1>c, <1>d, CloseIs DEF IInv, TypeOK, ContentOK, FlagsOK, CommandOK
  <1> QED BY <1>1, <1>2, <1>3, <1>4, <1>5 DEF IInv

\* Its file is created,
LEMMA CreateSpoolHolds == IInv /\ CreateSpool => IInv'
  <1> SUFFICES ASSUME IInv, CreateSpool PROVE IInv'
    OBVIOUS
  <1>a. spool \in SpoolType /\ spool.file \in BOOLEAN /\ spool.size \in Nat /\ units \in Nat
    BY SpoolIs DEF IInv, TypeOK
  <1>b. at = "create" /\ UNCHANGED <<input, who, verdict, cancelled, format, hdr, decoded, flags, files>> /\ UNCHANGED units
    BY DEF CreateSpool, Spilling
  <1>c. \/ fds' = 1 /\ entry' = "there" /\ at' = "remove" /\ UNCHANGED <<spool, answer>>
        \/ SpillFails /\ UNCHANGED entry
    BY DEF CreateSpool
  <1> USE DEF Before, Filling, Spilled, Answers, Analyzed, held, place, files, GoOn, Return
  <1>1. TypeOK'
    BY <1>a, <1>b, <1>c, SpillFailsIs DEF IInv, TypeOK, ContentOK
  <1>2. SpoolOK'
    BY <1>a, <1>b, <1>c, SpillFailsIs DEF IInv, TypeOK, SpoolOK
  <1>3. ContentOK'
    BY <1>a, <1>b, <1>c, SpillFailsIs DEF IInv, TypeOK, SpoolOK, ContentOK
  <1>4. FlagsOK'
    BY <1>a, <1>b, <1>c, SpillFailsIs DEF IInv, TypeOK, SpoolOK, FlagsOK
  <1>5. CommandOK'
    BY <1>a, <1>b, <1>c, SpillFailsIs DEF IInv, TypeOK, ContentOK, FlagsOK, CommandOK
  <1> QED BY <1>1, <1>2, <1>3, <1>4, <1>5 DEF IInv

\* removed from the directory
LEMMA RemoveSpoolHolds == IInv /\ RemoveSpool => IInv'
  <1> SUFFICES ASSUME IInv, RemoveSpool PROVE IInv'
    OBVIOUS
  <1>a. spool \in SpoolType /\ spool.file \in BOOLEAN /\ spool.size \in Nat /\ units \in Nat
    BY SpoolIs DEF IInv, TypeOK
  <1>b. at = "remove" /\ UNCHANGED <<input, who, verdict, cancelled, format, hdr, decoded, flags, files>> /\ UNCHANGED units
    BY DEF RemoveSpool, Spilling
  <1>c. \/ entry' = "none" /\ at' = "fill" /\ UNCHANGED <<spool, fds, answer>>
        \/ SpillFails /\ entry' = "stuck"
    BY DEF RemoveSpool
  <1> USE DEF Before, Filling, Spilled, Answers, Analyzed, held, place, files, GoOn, Return
  <1>1. TypeOK'
    BY <1>a, <1>b, <1>c, SpillFailsIs DEF IInv, TypeOK, ContentOK
  <1>2. SpoolOK'
    BY <1>a, <1>b, <1>c, SpillFailsIs DEF IInv, TypeOK, SpoolOK
  <1>3. ContentOK'
    BY <1>a, <1>b, <1>c, SpillFailsIs DEF IInv, TypeOK, SpoolOK, ContentOK
  <1>4. FlagsOK'
    BY <1>a, <1>b, <1>c, SpillFailsIs DEF IInv, TypeOK, SpoolOK, FlagsOK
  <1>5. CommandOK'
    BY <1>a, <1>b, <1>c, SpillFailsIs DEF IInv, TypeOK, ContentOK, FlagsOK, CommandOK
  <1> QED BY <1>1, <1>2, <1>3, <1>4, <1>5 DEF IInv

\* and filled with what was in memory.
LEMMA FillSpoolHolds == IInv /\ FillSpool => IInv'
  <1> SUFFICES ASSUME IInv, FillSpool PROVE IInv'
    OBVIOUS
  <1>a. spool \in SpoolType /\ spool.file \in BOOLEAN /\ spool.size \in Nat /\ units \in Nat
    BY SpoolIs DEF IInv, TypeOK
  <1>b. at = "fill" /\ UNCHANGED <<input, who, verdict, cancelled, format, hdr, decoded, flags, files>> /\ UNCHANGED <<units, entry>>
    BY DEF FillSpool, Spilling
  <1>c. spool.buf = Count(spool.size) /\ ~spool.file
    BY <1>b DEF IInv, SpoolOK, ContentOK, Filling, Spilled
  <1>d. \/ /\ spool' \in SpoolType /\ spool'.disk = Count(spool'.size) /\ spool'.file
           /\ spool'.size = spool.size /\ at' = "append" /\ UNCHANGED <<fds, answer>>
        \/ SpillFails
    <2>1. CASE SpillFails
      BY <2>1
    <2>2. CASE spool' = [spool EXCEPT !.file = TRUE, !.disk = spool.buf, !.buf = <<>>] /\ at' = "append" /\ UNCHANGED <<fds, answer>>
      <3>1. <<>> \in Seq(Nat) /\ spool.buf \in Seq(Nat)
        BY <1>a, SpoolIs
      <3>2. spool' \in SpoolType /\ spool'.disk = spool.buf /\ spool'.size = spool.size /\ spool'.file
        BY <1>a, <2>2, <3>1 DEF SpoolType
      <3> QED BY <1>c, <2>2, <3>2
    <2> QED BY <2>1, <2>2 DEF FillSpool, Filled
  <1>e. ~flags.closed
    BY <1>b DEF IInv, FlagsOK
  <1> USE DEF Before, Filling, Spilled, Answers, Analyzed, held, place, files, GoOn, Return
  <1>1. TypeOK'
    BY <1>a, <1>b, <1>c, <1>d, SpillFailsIs DEF IInv, TypeOK, ContentOK
  <1>2. SpoolOK'
    BY <1>a, <1>b, <1>c, <1>d, <1>e, SpillFailsIs DEF IInv, TypeOK, SpoolOK
  <1>3. ContentOK'
    BY <1>a, <1>b, <1>c, <1>d, SpillFailsIs DEF IInv, TypeOK, SpoolOK, ContentOK
  <1>4. FlagsOK'
    BY <1>a, <1>b, <1>c, <1>d, SpillFailsIs DEF IInv, TypeOK, SpoolOK, FlagsOK
  <1>5. CommandOK'
    BY <1>a, <1>b, <1>c, <1>d, SpillFailsIs DEF IInv, TypeOK, ContentOK, FlagsOK, CommandOK
  <1> QED BY <1>1, <1>2, <1>3, <1>4, <1>5 DEF IInv

\* What follows is appended to it.
LEMMA AppendSpoolHolds == IInv /\ AppendSpool => IInv'
  <1> SUFFICES ASSUME IInv, AppendSpool PROVE IInv'
    OBVIOUS
  <1>a. spool \in SpoolType /\ spool.file \in BOOLEAN /\ spool.size \in Nat /\ units \in Nat
    BY SpoolIs DEF IInv, TypeOK
  <1>b. at = "append" /\ UNCHANGED <<input, who, verdict, cancelled, format, hdr, decoded, flags, files>>
    BY DEF AppendSpool, Spilling
  <1>c. spool.disk = Count(spool.size) /\ spool.file /\ units > 0
    BY <1>b DEF IInv, SpoolOK, ContentOK, Filling
  <1>d. \/ /\ spool' \in SpoolType /\ spool'.disk = Count(spool'.size) /\ spool'.file
           /\ spool'.size = spool.size + 1 /\ units' = units - 1 /\ at' = "copy"
           /\ UNCHANGED <<fds, entry, answer>>
        \/ /\ CloseSpool /\ at' = "returned" /\ answer' \in {"ctxErr", "ErrCorrupt"} /\ UNCHANGED units
    <2>1. CASE PassOneFails(Disk("ErrCorrupt")) /\ UNCHANGED units
      BY <2>1 DEF PassOneFails, Disk
    <2>2. CASE /\ spool' = [spool EXCEPT !.disk = Append(spool.disk, spool.size + 1), !.size = spool.size + 1]
               /\ units' = units - 1 /\ at' = "copy" /\ UNCHANGED <<fds, entry, answer>>
      <3>1. Append(spool.disk, spool.size + 1) = Count(spool.size + 1) /\ Count(spool.size + 1) \in Seq(Nat)
        <4>1. spool.disk = Count(spool.size)
          BY <1>c
        <4> QED BY <1>a, <4>1, CountIs
      <3>2. spool' = [spool EXCEPT !.disk = Count(spool.size + 1), !.size = spool.size + 1]
        BY <2>2, <3>1
      <3>3. spool' \in SpoolType /\ spool'.disk = Count(spool'.size) /\ spool'.size = spool.size + 1 /\ spool'.file = spool.file
        <4>1. spool.size + 1 \in Nat
          BY <1>a
        <4>2. \A q \in Seq(Nat), n \in Nat : spool' = [spool EXCEPT !.disk = q, !.size = n] =>
                  spool' \in SpoolType /\ spool'.disk = q /\ spool'.size = n /\ spool'.file = spool.file
          BY <1>a DEF SpoolType
        <4>3. spool'.size = spool.size + 1 /\ spool'.disk = Count(spool.size + 1)
              /\ spool' \in SpoolType /\ spool'.file = spool.file
          BY <3>1, <3>2, <4>1, <4>2, Zenon
        <4> QED BY <4>3
      <3> QED BY <1>c, <2>2, <3>3
    <2> QED BY <2>1, <2>2 DEF AppendSpool
  <1> USE DEF Before, Filling, Spilled, Answers, Analyzed, held, place, files, GoOn, Return
  <1>1. TypeOK'
    BY <1>a, <1>b, <1>c, <1>d, CloseIs DEF IInv, TypeOK, ContentOK
  <1>2. SpoolOK'
    BY <1>a, <1>b, <1>c, <1>d, CloseIs DEF IInv, TypeOK, SpoolOK
  <1>3. ContentOK'
    BY <1>a, <1>b, <1>c, <1>d, CloseIs DEF IInv, TypeOK, SpoolOK, ContentOK
  <1>4. FlagsOK'
    BY <1>a, <1>b, <1>c, <1>d, CloseIs DEF IInv, TypeOK, SpoolOK, FlagsOK
  <1>5. CommandOK'
    BY <1>a, <1>b, <1>c, <1>d, CloseIs DEF IInv, TypeOK, ContentOK, FlagsOK, CommandOK
  <1> QED BY <1>1, <1>2, <1>3, <1>4, <1>5 DEF IInv

LEMMA NextHolds == IInv /\ [ANext]_avars => IInv'
  <1>1. ASSUME IInv, UNCHANGED avars PROVE IInv'
    <2> USE <1>1 DEF avars, place, held, files, IInv
    <2>1. TypeOK' /\ SpoolOK'
      BY DEF TypeOK, SpoolOK
    <2>2. ContentOK' /\ FlagsOK'
      BY DEF ContentOK, FlagsOK, Analyzed
    <2>3. CommandOK'
      BY DEF CommandOK, AtExit
    <2> QED BY <2>1, <2>2, <2>3
  <1> QED BY <1>1, CancelAnalyzeHolds, DetectHolds, StartNoneHolds, ParseGzipHolds, ParseZstdHolds,
             RewindHolds, CopyHolds, CreateSpoolHolds, RemoveSpoolHolds, FillSpoolHolds,
             AppendSpoolHolds, FinishPassOneHolds, SettleOnHolds, CallConfirmHolds, ConfirmHolds,
             CloseHolds, CreateUncompressedHolds, CloseUncompressedHolds, CreateRecipeHolds,
             WriteRecipeHolds, KillAnalyzeHolds DEF ANext

LEMMA Invariance == ASpec => []IInv
  <1> QED BY InitHolds, NextHolds, PTL DEF ASpec

-----------------------------------------------------------------------------
\* What an analysis holds it needs, what it needs is all there, and what is left
\* in the end is what the answer says.
THEOREM LeavesWhatItShould == ASpec => []FilesLeft
  <1>1. ASSUME IInv PROVE FilesLeft
    <2>1. at \in {"returned", "exit"} \/ (at = "made" /\ flags.closed) => fds = 0
      BY <1>1 DEF IInv, SpoolOK, TypeOK
    <2>2. at \in {"made", "confirm"} /\ format # "none" /\ ~flags.closed => Held = AllContent
      BY <1>1, HeldIs DEF Analyzed
    <2>3. entry = "there" => at \in {"remove", "killed"}
      BY <1>1 DEF IInv, SpoolOK
    <2>4. recipe # "none" => unc \in {"whole", "lost"}
      BY <1>1 DEF IInv, CommandOK
    <2>5. at = "exit" => AtExit
      BY <1>1 DEF IInv, CommandOK
    <2> QED BY <2>1, <2>2, <2>3, <2>4, <2>5 DEF FilesLeft, AtExit
  <1> QED BY <1>1, Invariance, PTL
==============================================================================
