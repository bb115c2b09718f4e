----------------------------- MODULE TargetProofs -----------------------------
(***************************************************************************)
(* Theorems about Recompress and the command around it, for inputs and     *)
(* parameters of any length.                                               *)
(***************************************************************************)
EXTENDS Target, TLAPS

Heads == IF given.format = "gzip" THEN 1 ELSE 0

Before == {"check", "setup", "header"}
Feeding == {"open", "feed", "encode", "finish", "abandon"}
After == {"drain", "compare", "returned"}

\* rebuild's error says where it is: none before it fails.
ErrOK ==
    /\ pc \in Before \cup Feeding \cup After \cup {"trailer"}
    /\ err \in {"nil", "ErrEngineUnavailable", "ErrEngineVersionMismatch",
                "engine", "read", "write", "ctxErr"}
    /\ pc \in (Before \cup Feeding \cup {"trailer"}) \ {"abandon"} => err = "nil"
    /\ pc \in {"abandon", "drain"} => err # "nil"
    /\ pc \notin {"check", "returned"} => given.params = "ok"

\* Output is never ahead of the input it stems from.
WrittenOK ==
    /\ pc \in Before => read = 0 /\ written = 0
    /\ pc \in Feeding => written <= read + Heads
    /\ pc = "trailer" => written = read + 1
    /\ pc \in {"header", "trailer"} => given.format = "gzip"
    /\ pc \in {"open", "finish"} => given.format # "none"

\* The digests are looked at only when the whole input has been read, unless
\* it cannot be.
ReadOK ==
    /\ pc \in {"finish", "trailer"} => read = given.len
    /\ pc \in {"compare", "returned"} /\ given.params = "ok" =>
         (err = "nil" \/ given.readFails = 0 => read = given.len)

OpenedOK == opened => pc \in Feeding \ {"open"} /\ given.format # "none"

RetOK == pc = "returned" => ret = IF given.params = "ok" THEN Answer ELSE given.params

\* Recompress's part of the inductive invariant.
RInv == RTypeOK /\ ErrOK /\ WrittenOK /\ ReadOK /\ OpenedOK /\ RetOK

\* The command's part: it comes to publish a file only after a call that
\* returned nil.
CInv ==
    /\ caller \in {"program", "command"} /\ tmp \in BOOLEAN /\ lost \in BOOLEAN
    /\ cpc \in {"params", "input", "temp", "run", "close", "chmod", "rename", "leave",
                "exit", "killed"}
    /\ out \in {"old", "recorded"}
    /\ cpc \in {"params", "input", "temp", "exit"} => ~tmp
    /\ cpc \in {"close", "chmod", "rename"} => pc = "returned" /\ ret = "nil"
    /\ cpc \in {"chmod", "rename"} => ~lost
    /\ cpc \in {"leave", "exit"} /\ status = "nil" => out = "recorded"

IInv == RInv /\ CInv

USE BlocksAssumption

-----------------------------------------------------------------------------
\* What is known of the given values, without the set they are taken from.
GivenOK == /\ given.len \in Nat /\ given.diff \in Nat /\ given.diff <= given.len
           /\ given.readFails \in Nat
           /\ given.format \in {"gzip", "zstd", "none"}
           /\ given.params \in {"ok", "ErrParamsVersion", "ErrInvalidParams"}

LEMMA GivenFacts == given \in Given => GivenOK
  BY DEF Given, GivenOK

LEMMA RInitHolds == RInit => RInv
  <1> SUFFICES ASSUME RInit PROVE RInv
    OBVIOUS
  <1>1. GivenOK
    BY GivenFacts DEF RInit
  <1>2. ctxDone \in BOOLEAN /\ opened \in BOOLEAN
    BY Zenon DEF RInit
  <1>3. RTypeOK
    BY <1>1, <1>2 DEF RInit, RTypeOK, GivenOK
  <1> QED
    BY <1>3 DEF RInit, RInv, ErrOK, WrittenOK, ReadOK, OpenedOK, RetOK, Before, Feeding, After

LEMMA AnswerType ==
  ASSUME ErrOK
  PROVE  Answer \in {"nil", "ErrInputMismatch", "ErrDigestMismatch", "ErrEngineUnavailable",
                     "ErrEngineVersionMismatch", "engine", "read", "write", "ctxErr"}
  BY DEF ErrOK, Answer

\* Every step of Recompress keeps its part of the invariant.
LEMMA StepKeeps == ASSUME RInv, Step PROVE RInv'
  <1>0. GivenOK
    BY GivenFacts DEF RInv, RTypeOK
  <1> USE <1>0 DEF RInv, RTypeOK, ErrOK, WrittenOK, ReadOK, OpenedOK, RetOK,
                   Before, Feeding, After, Heads, GivenOK
  <1>1. CASE Check
    BY <1>1 DEF Check
  <1>2. CASE Setup
    BY <1>2 DEF Setup, Rebuilt, AfterRebuild, LookupErr
  <1>3. CASE Header
    BY <1>3 DEF Header, WriteThen, Failed, Rebuilt, AfterRebuild
  <1>4. CASE Open
    <2>1. opened' \in BOOLEAN
      BY <1>4, Zenon DEF Open
    <2>2. OpenedOK'
      BY <1>4 DEF Open, Rebuilt, AfterRebuild
    <2> QED
      BY <1>4, <2>1, <2>2 DEF Open, Rebuilt, AfterRebuild
  <1>5. CASE Feed
    BY <1>5 DEF Feed, ReadFails, Failed, Rebuilt, AfterRebuild
  <1>6. CASE Encode
    BY <1>6 DEF Encode, Owed, WriteThen, Failed, Rebuilt, AfterRebuild
  <1>7. CASE Finish
    <2>1. opened' \in BOOLEAN
      BY <1>7, Zenon DEF Finish
    <2>2. OpenedOK'
      BY <1>7 DEF Finish, Owed, Rebuilt, AfterRebuild
    <2> QED
      BY <1>7, <2>1, <2>2 DEF Finish, Owed, Rebuilt, AfterRebuild
  <1>8. CASE Trailer
    BY <1>8 DEF Trailer, WriteThen, Failed, Rebuilt, AfterRebuild
  <1>9. CASE Abandon
    <2>1. opened' \in BOOLEAN
      BY <1>9, Zenon DEF Abandon
    <2>2. OpenedOK'
      BY <1>9 DEF Abandon, Owed, AfterRebuild
    <2> QED
      BY <1>9, <2>1, <2>2 DEF Abandon, Owed, AfterRebuild
  <1>10. CASE Drain
    BY <1>10 DEF Drain, ReadFails
  <1>11. CASE Compare
    BY <1>11, AnswerType DEF Compare, Answer, InputMatches, OutputMatches
  <1> QED
    BY <1>1, <1>2, <1>3, <1>4, <1>5, <1>6, <1>7, <1>8, <1>9, <1>10, <1>11 DEF Step

\* The invariant is about everything but the context.
LEMMA OthersKeep ==
  ASSUME RInv, ctxDone' \in BOOLEAN,
         UNCHANGED <<given, pc, read, written, opened, err, ret>>
  PROVE  RInv'
  <1>1. RTypeOK'
    BY DEF RInv, RTypeOK, Given
  <1>2. ErrOK' /\ WrittenOK' /\ OpenedOK'
    BY DEF RInv, ErrOK, WrittenOK, OpenedOK, Before, Feeding, After, Heads
  <1>3. ReadOK'
    BY DEF RInv, ReadOK
  <1>4. RetOK'
    <2>1. InputMatches' = InputMatches /\ OutputMatches' = OutputMatches
      BY DEF InputMatches, OutputMatches
    <2> QED
      BY <2>1 DEF RInv, RetOK, Answer
  <1> QED
    BY <1>1, <1>2, <1>3, <1>4 DEF RInv

LEMMA CancelKeeps == ASSUME RInv, Cancel PROVE RInv'
  <1>1. ctxDone' \in BOOLEAN
    BY Zenon DEF Cancel
  <1> QED
    BY <1>1, OthersKeep DEF Cancel

LEMMA StutterKeeps == ASSUME RInv, UNCHANGED rvars PROVE RInv'
  <1>1. ctxDone' \in BOOLEAN
    BY Zenon DEF rvars, RInv, RTypeOK
  <1> QED
    BY <1>1, OthersKeep DEF rvars

\* A call that returned nil wrote the recorded bytes.
LEMMA NilIsRight ==
  ASSUME RInv, pc = "returned", ret = "nil"
  PROVE  given.params = "ok" /\ InputMatches /\ OutputMatches /\ err = "nil"
  BY GivenFacts DEF RInv, RTypeOK, GivenOK, RetOK, Answer

LEMMA InitHolds == Init => IInv
  <1> SUFFICES ASSUME Init PROVE IInv
    OBVIOUS
  <1>1. RInv
    BY RInitHolds DEF Init
  <1>2. tmp \in BOOLEAN /\ ~tmp /\ lost \in BOOLEAN
    BY Zenon DEF Init
  <1>3. CInv
    BY <1>2 DEF Init, CInv
  <1> QED
    BY <1>1, <1>3 DEF IInv

\* Every step of the whole, and a stutter, keeps the invariant.
LEMMA NextKeeps == IInv /\ [Next]_vars => IInv'
  <1> SUFFICES ASSUME IInv, [Next]_vars PROVE IInv'
    OBVIOUS
  <1> USE DEF IInv
  <1>1. CASE OpenParams
    <2>1. RInv'
      BY <1>1, StutterKeeps DEF OpenParams, Goto
    <2> QED
      BY <1>1, <2>1 DEF OpenParams, Goto, CInv
  <1>2. CASE OpenInput
    <2>1. RInv'
      BY <1>2, StutterKeeps DEF OpenInput, Goto
    <2> QED
      BY <1>2, <2>1 DEF OpenInput, Goto, CInv
  <1>3. CASE CreateTemp
    <2>1. RInv'
      BY <1>3, StutterKeeps DEF CreateTemp, Goto
    <2>2. tmp' \in BOOLEAN
      BY <1>3, Zenon DEF CreateTemp, Goto, CInv
    <2> QED
      BY <1>3, <2>1, <2>2 DEF CreateTemp, Goto, CInv
  <1>4. CASE Call
    <2>1. RInv'
      BY <1>4, StepKeeps DEF Call
    <2> QED
      BY <1>4, <2>1 DEF Call, cvars, CInv
  <1>5. CASE CallerCancels
    <2>1. RInv'
      BY <1>5, CancelKeeps DEF CallerCancels
    <2> QED
      BY <1>5, <2>1 DEF CallerCancels, cvars, CInv
  <1>6. CASE Returned
    <2>1. RInv'
      BY <1>6, StutterKeeps DEF Returned
    <2> QED
      BY <1>6, <2>1 DEF Returned, CInv, rvars
  <1>7. CASE CloseTemp
    <2>1. RInv'
      BY <1>7, StutterKeeps DEF CloseTemp, Goto
    <2> QED
      BY <1>7, <2>1 DEF CloseTemp, Goto, CloseFails, CInv, rvars
  <1>8. CASE Chmod
    <2>1. RInv'
      BY <1>8, StutterKeeps DEF Chmod, Goto
    <2> QED
      BY <1>8, <2>1 DEF Chmod, Goto, CInv, rvars
  <1>9. CASE Rename
    <2>1. RInv'
      BY <1>9, StutterKeeps DEF Rename, Goto
    <2>2. Content = "recorded"
      BY <1>9, NilIsRight DEF Rename, Goto, CInv, Content
    <2>3. tmp' \in BOOLEAN
      BY <1>9, Zenon DEF Rename, Goto, CInv
    <2> QED
      BY <1>9, <2>1, <2>2, <2>3 DEF Rename, Goto, CInv
  <1>10. CASE Leave
    <2>1. RInv'
      BY <1>10, StutterKeeps DEF Leave
    <2>2. tmp' \in BOOLEAN /\ ~tmp'
      BY <1>10, Zenon DEF Leave
    <2> QED
      BY <1>10, <2>1, <2>2 DEF Leave, CInv
  <1>11. CASE Kill
    <2>1. RInv'
      BY <1>11, StutterKeeps DEF Kill
    <2> QED
      BY <1>11, <2>1 DEF Kill, CInv
  <1>12. CASE UNCHANGED vars
    <2>1. RInv'
      BY <1>12, StutterKeeps DEF vars
    <2> QED
      BY <1>12, <2>1 DEF vars, rvars, cvars, CInv
  <1> QED
    BY <1>1, <1>2, <1>3, <1>4, <1>5, <1>6, <1>7, <1>8, <1>9, <1>10, <1>11, <1>12 DEF Next

LEMMA Invariance == Spec => []IInv
  BY InitHolds, NextKeeps, PTL DEF Spec

-----------------------------------------------------------------------------
\* The variables of Recompress and of the command (recompress.go,
\* cmd/zrecipe/main.go) keep their types.
THEOREM TypeCorrect == Spec => []TypeOK
  <1>1. IInv => TypeOK
    BY DEF IInv, RInv, CInv, TypeOK
  <1> QED
    BY <1>1, Invariance, PTL

\* Recompress's answer (recompress.go) is the right one of those it could give
\* for its input, however long, whatever failed on the way and when.
THEOREM VerdictCorrect == Spec => []VerdictIsRight
  <1>1. IInv => VerdictIsRight
    <2> SUFFICES ASSUME RInv, pc = "returned", given.params = "ok"
                 PROVE  /\ given.readFails = 0 => (ret = "ErrInputMismatch" <=> ~InputRight)
                        /\ ret = "nil" => InputRight /\ OutputMatches
      BY DEF IInv, VerdictIsRight
    <2>1. GivenOK /\ ret = Answer
      BY GivenFacts DEF RInv, RTypeOK, RetOK
    <2>2. read = given.len => (InputMatches <=> InputRight)
      BY <2>1 DEF GivenOK, InputMatches, InputRight
    <2>3. ret = "ErrInputMismatch" <=> ~InputMatches
      BY <2>1 DEF Answer, RInv, ErrOK
    <2>4. given.readFails = 0 => read = given.len
      BY DEF RInv, ReadOK
    <2>5. ret = "nil" => InputMatches /\ OutputMatches /\ read = given.len
      BY <2>1, NilIsRight DEF RInv, ReadOK
    <2> QED
      BY <2>2, <2>3, <2>4, <2>5
  <1> QED
    BY <1>1, Invariance, PTL

\* recompressGzip and recompressZstd (recompress.go) leave no engine open on
\* any way out of them.
THEOREM EnginesClosed == Spec => []NoEngineLeft
  <1>1. IInv => NoEngineLeft
    BY DEF IInv, RInv, OpenedOK, NoEngineLeft, Feeding
  <1> QED
    BY <1>1, Invariance, PTL

\* The recompress command (cmd/zrecipe/main.go), ended or killed at any step,
\* has not touched the output path or has put the recorded file there.
THEOREM OutputSafe == Spec => []OutputWholeOrUntouched
  <1>1. IInv => OutputWholeOrUntouched
    BY DEF IInv, CInv, OutputWholeOrUntouched
  <1> QED
    BY <1>1, Invariance, PTL
==============================================================================
