---------------------------- MODULE ConfirmProofs ----------------------------
(***************************************************************************)
(* Theorems about Analysis.Confirm, for a content of any length, a pipe of *)
(* any number of slots and any parameters under test.                      *)
(*                                                                         *)
(* Confirm's answer is put together from what two goroutines left behind:  *)
(* teeErr and readErr, the cause cctx ended with, the error the pipe was   *)
(* closed with, the rebuild's error and its comparison.  The inductive     *)
(* invariant says of each what it stands for, whichever goroutine came     *)
(* first.                                                                  *)
(***************************************************************************)
EXTENDS Confirm, TLAPS

USE ConfirmAssumption

TypeOK ==
    /\ behaviour \in AllBehaviours /\ limit \in Nat /\ partial \in BOOLEAN
    /\ teeFails \in 0 .. Blocks /\ spoolFails \in 0 .. Blocks
    /\ ctxDone \in BOOLEAN /\ teeErr \in BOOLEAN /\ readErr \in BOOLEAN
    /\ block \in Nat /\ teed \in Nat /\ fed \in Nat
    /\ cw \in CompareType
    /\ rpc \in {"check", "read", "tee", "pipe", "piping", "after", "done"}
    /\ cpc \in {"rebuild", "read", "close", "judge", "join", "returned"}

\* Where the reader is, and how far tee has got.
ReaderOK ==
    /\ rpc \in {"check", "read"} => teed = block /\ block <= Blocks
    /\ rpc \in {"tee", "pipe", "piping", "after"} => block > 0
    /\ rpc = "tee" => teed = block - 1 /\ block <= Blocks /\ block # spoolFails
    /\ rpc \in {"pipe", "piping"} => teed = block /\ block <= Blocks /\ block # spoolFails
    /\ rpc = "after" => /\ teed = IF block = spoolFails \/ block > Blocks THEN block - 1 ELSE block
                        /\ block <= Blocks + 1
    /\ rpc = "done" => teed = Blocks \/ cause # "nil"
    /\ teeErr => rpc = "done" /\ teed = teeFails - 1
    /\ readErr => rpc = "done" /\ teed = spoolFails - 1

-----------------------------------------------------------------------------
\* What began outside the rebuild.
FirstHand == {"ctxErr", "teeErr", "readErr"}

\* The error e, wherever it turns up, is no rumour.
Happened(e) ==
    /\ e = "ctxErr" => ctxDone
    /\ e = "teeErr" => teeErr
    /\ e = "readErr" => readErr
    /\ e = "canceled" => ctxDone \/ teeErr \/ readErr

Rebuilding == cpc \in {"rebuild", "read", "close", "judge"}

\* cctx is cancelled, and the pipe closed with an error, by what has happened
\* elsewhere, until the rebuild is judged; and then by the rebuild's error.
CauseOK ==
    /\ Happened(cause) /\ Happened(werr)
    /\ Rebuilding => {cause, werr} \subseteq FirstHand \cup {"nil"}
    /\ cause # "nil" => \/ ctxDone \/ teeErr \/ readErr
                        \/ ~Rebuilding /\ Hopeless(rerr)

\* The comparison has found what the behaviour says is there.
CompareOK ==
    /\ cw.n <= behaviour.good
    /\ cw.limited => limit > 0 /\ cw.n >= limit
    /\ limit > 0 /\ ~cw.limited => cw.n < limit
    /\ cpc \in {"rebuild", "read", "close"} => ~Done(cw) /\ ~cw.limited /\ rerr = "nil"
    /\ cpc \in {"read", "close"} => behaviour.then # "setup"

RebuildErrs == FirstHand \cup {"nil", "mismatch", "failure", "canceled", "ErrLimit"}

\* What the rebuild's error says of the parameters.
ResultOK ==
    /\ rerr \in RebuildErrs /\ Happened(rerr)
    /\ rerr = "failure" => behaviour.then \in {"fails", "setup", "unreadable"}
    /\ rerr = "mismatch" => /\ behaviour.then \in {"differs", "stops"} /\ ~cw.limited
                            /\ cw.n = behaviour.good
                            /\ behaviour.then = "stops" => cw.n < RefLen
    /\ rerr = "nil" /\ ~cw.limited /\ cpc \in {"judge", "join", "returned"} =>
         /\ ~Done(cw) /\ behaviour.then = "stops" /\ cw.n = behaviour.good
         /\ cpc # "judge" => cw.n >= RefLen

AnswerOK ==
    /\ cpc # "returned" => answer = "pending"
    /\ cpc = "returned" => rpc = "done"

IInv == TypeOK /\ ReaderOK /\ CauseOK /\ CompareOK /\ ResultOK /\ AnswerOK
        /\ OkMeansConfirmed /\ ErrorIsACause

-----------------------------------------------------------------------------
LEMMA InitHolds == Init => IInv
  <1> SUFFICES ASSUME Init PROVE IInv
    OBVIOUS
  <1>1. /\ behaviour \in AllBehaviours /\ limit \in Nat /\ behaviour.good \in Nat
        /\ NewCompare \in CompareType
    BY DEF Init, AllBehaviours, NewCompare, CompareType
  <1>2. TypeOK
    BY <1>1 DEF Init, TypeOK
  <1>3. ReaderOK /\ CauseOK
    BY <1>1 DEF Init, P!PInit, ReaderOK, CauseOK, Happened, Rebuilding, FirstHand
  <1>4. CompareOK /\ ResultOK
    BY <1>1 DEF Init, CompareOK, ResultOK, Happened, NewCompare, Done, RebuildErrs
  <1>5. AnswerOK /\ OkMeansConfirmed /\ ErrorIsACause
    BY DEF Init, AnswerOK, OkMeansConfirmed, ErrorIsACause
  <1> QED
    BY <1>2, <1>3, <1>4, <1>5 DEF IInv

-----------------------------------------------------------------------------
(* The reading goroutine and the caller's context.  Neither touches the    *)
(* rebuild, and what has happened stays so.                                *)

LEMMA CallerUntouched ==
  ASSUME IInv, UNCHANGED <<given, caller>>,
         ctxDone => ctxDone', teeErr => teeErr', readErr => readErr'
  PROVE  CompareOK' /\ ResultOK'
  <1>1. UNCHANGED <<behaviour, limit, cpc, fed, cw, rerr, answer>>
    BY DEF given, caller
  <1>2. CompareOK'
    BY <1>1 DEF IInv, CompareOK
  <1>3. Happened(rerr)'
    BY <1>1 DEF IInv, ResultOK, Happened
  <1> QED
    BY <1>1, <1>2, <1>3 DEF IInv, ResultOK

\* The answer is given when the reader is gone, so that its steps are before.
LEMMA BeforeAnswer ==
  ASSUME IInv, cpc # "returned", UNCHANGED caller
  PROVE  AnswerOK' /\ OkMeansConfirmed' /\ ErrorIsACause'
  <1>1. answer' = "pending" /\ cpc' # "returned"
    BY DEF IInv, AnswerOK, caller
  <1> QED
    BY <1>1 DEF AnswerOK, OkMeansConfirmed, ErrorIsACause

\* The first cause, if there was none, is what happens now.
LEMMA CausesHold ==
  ASSUME IInv, UNCHANGED <<caller>>,
         ctxDone => ctxDone', teeErr => teeErr', readErr => readErr',
         NEW e \in FirstHand, Happened(e)',
         cause' \in {cause, IF cause = "nil" THEN e ELSE cause},
         werr' \in {werr, cause, e, "nil"}
  PROVE  CauseOK'
  <1>1. UNCHANGED <<cpc, rerr, cw>>
    BY DEF caller
  <1>2. Happened(cause)' /\ Happened(werr)'
    BY DEF IInv, CauseOK, Happened
  <1>3. Rebuilding' => {cause', werr'} \subseteq FirstHand \cup {"nil"}
    BY <1>1 DEF IInv, CauseOK, Rebuilding
  <1>4. cause' # "nil" => \/ ctxDone' \/ teeErr' \/ readErr'
                          \/ ~Rebuilding' /\ Hopeless(rerr)'
    BY <1>1 DEF IInv, CauseOK, Rebuilding, Hopeless, Happened, FirstHand
  <1> QED
    BY <1>2, <1>3, <1>4 DEF CauseOK

LEMMA CancelKeeps == ASSUME IInv, Cancel PROVE IInv'
  <1>1. /\ UNCHANGED <<behaviour, limit, partial, teeFails, spoolFails, werr, rpc, block, feeding,
                      teed, teeErr, readErr, cpc, fed, cw, rerr, answer>>
        /\ ctxDone' = TRUE /\ cpc # "returned"
        /\ cause' = IF cause = "nil" THEN "ctxErr" ELSE cause
    BY DEF Cancel, CancelWith, given, pipe, reader, caller
  <1>2. TypeOK' /\ ReaderOK'
    BY <1>1 DEF IInv, TypeOK, ReaderOK
  <1>3. CauseOK'
    <2>1. "ctxErr" \in FirstHand /\ Happened("ctxErr")'
      BY <1>1 DEF FirstHand, Happened
    <2> QED
      BY <1>1, <2>1, CausesHold DEF caller
  <1>4. CompareOK' /\ ResultOK' /\ AnswerOK' /\ OkMeansConfirmed' /\ ErrorIsACause'
    BY <1>1, CallerUntouched, BeforeAnswer DEF given, caller
  <1> QED
    BY <1>2, <1>3, <1>4 DEF IInv

LEMMA ReaderKeeps == ASSUME IInv, Reader PROVE IInv'
  <1>1. /\ UNCHANGED <<behaviour, limit, partial, teeFails, spoolFails, ctxDone>>
        /\ UNCHANGED <<given, caller>>
        /\ UNCHANGED <<cpc, fed, cw, rerr, answer>>
    BY DEF Reader, CheckContext, ReadSpool, Tee, WritePipe, WritePipeReturns, AfterBlock, given, caller
  <1>2. rpc # "done" /\ ~teeErr /\ ~readErr /\ cpc # "returned"
    BY DEF Reader, CheckContext, ReadSpool, Tee, WritePipe, WritePipeReturns, AfterBlock,
           IInv, ReaderOK, AnswerOK
  <1>3. CompareOK' /\ ResultOK' /\ AnswerOK' /\ OkMeansConfirmed' /\ ErrorIsACause'
    BY <1>1, <1>2, CallerUntouched, BeforeAnswer
  <1>4. block \in Nat /\ teed \in Nat /\ Blocks \in Nat /\ teeFails \in 0 .. Blocks /\ spoolFails \in 0 .. Blocks
    BY DEF IInv, TypeOK
  <1>5. CASE CheckContext
    <2>1. rpc = "check" /\ UNCHANGED <<cause, block, feeding, teed, teeErr, readErr>>
      BY <1>5 DEF CheckContext
    <2>2. \/ rpc' = "done" /\ cause # "nil" /\ werr' = cause
          \/ rpc' = "read" /\ werr' = werr
      BY <1>5 DEF CheckContext, P!CloseWrite, pipe
    <2>3. TypeOK' /\ ReaderOK'
      BY <1>1, <1>2, <2>1, <2>2 DEF IInv, TypeOK, ReaderOK
    <2>4. CauseOK'
      <3>1. Happened(cause)' /\ Happened(werr)'
        BY <1>1, <2>1, <2>2 DEF IInv, CauseOK, Happened
      <3> QED
        BY <1>1, <2>1, <2>2, <3>1 DEF IInv, CauseOK, Rebuilding, Hopeless
    <2> QED
      BY <1>3, <2>3, <2>4 DEF IInv
  <1>6. CASE ReadSpool
    <2>1. /\ rpc = "read" /\ block' = block + 1
          /\ rpc' = IF block + 1 > Blocks \/ spoolFails = block + 1 THEN "after" ELSE "tee"
          /\ UNCHANGED <<cause, werr, feeding, teed, teeErr, readErr>>
      BY <1>6 DEF ReadSpool, pipe
    <2>2. TypeOK'
      BY <1>1, <1>4, <2>1 DEF IInv, TypeOK
    <2>3. ReaderOK'
      BY <1>1, <1>2, <1>4, <2>1 DEF IInv, ReaderOK
    <2>4. CauseOK'
      BY <1>1, <2>1 DEF IInv, CauseOK, Happened, Rebuilding, Hopeless
    <2> QED
      BY <1>3, <2>2, <2>3, <2>4 DEF IInv
  <1>7. CASE Tee
    <2>1. /\ rpc = "tee" /\ UNCHANGED <<block, feeding, readErr>>
          /\ \/ /\ teeFails = block /\ teeErr' = TRUE /\ rpc' = "done" /\ teed' = teed
                /\ cause' = (IF cause = "nil" THEN "teeErr" ELSE cause) /\ werr' = "teeErr"
             \/ /\ teed' = block /\ rpc' \in {"pipe", "after"}
                /\ UNCHANGED <<teeErr, cause, werr>>
      BY <1>7 DEF Tee, CancelWith, P!CloseWrite, pipe
    <2>2. TypeOK'
      BY <1>1, <1>4, <2>1 DEF IInv, TypeOK
    <2>3. ReaderOK'
      BY <1>1, <1>2, <1>4, <2>1 DEF IInv, ReaderOK
    <2>4. CauseOK'
      <3>1. CASE teeErr' = TRUE
        <4>1. "teeErr" \in FirstHand /\ Happened("teeErr")'
          BY <3>1 DEF FirstHand, Happened
        <4>2. cause' \in {cause, IF cause = "nil" THEN "teeErr" ELSE cause} /\ werr' \in {werr, cause, "teeErr", "nil"}
          BY <2>1
        <4> QED
          BY <1>1, <2>1, <3>1, <4>1, <4>2, CausesHold
      <3>2. CASE UNCHANGED <<teeErr, cause, werr>>
        BY <1>1, <2>1, <3>2 DEF IInv, CauseOK, Happened, Rebuilding, Hopeless
      <3> QED
        BY <2>1, <3>1, <3>2
    <2> QED
      BY <1>3, <2>2, <2>3, <2>4 DEF IInv
  <1>8. CASE WritePipe \/ WritePipeReturns
    <2>1. /\ rpc \in {"pipe", "piping"} /\ rpc' \in {"piping", "after"}
          /\ UNCHANGED <<cause, werr, block, teed, teeErr, readErr>>
      BY <1>8 DEF WritePipe, WritePipeReturns, P!WriteCalled, P!WriteEnds, P!WriteQueues,
                  P!WriteSeesClosed
    <2>2. TypeOK'
      BY <1>1, <1>4, <2>1 DEF IInv, TypeOK
    <2>3. ReaderOK'
      BY <1>1, <1>2, <1>4, <2>1 DEF IInv, ReaderOK
    <2>4. CauseOK'
      BY <1>1, <2>1 DEF IInv, CauseOK, Happened, Rebuilding, Hopeless
    <2> QED
      BY <1>3, <2>2, <2>3, <2>4 DEF IInv
  <1>9. CASE AfterBlock
    <2>1. /\ rpc = "after" /\ UNCHANGED <<block, feeding, teed, teeErr>>
          /\ \/ /\ spoolFails = block /\ readErr' = TRUE /\ rpc' = "done"
                /\ cause' = (IF cause = "nil" THEN "readErr" ELSE cause) /\ werr' = "readErr"
             \/ /\ spoolFails # block /\ (block > Blocks \/ block = Blocks) /\ rpc' = "done"
                /\ werr' = "nil" /\ UNCHANGED <<readErr, cause>>
             \/ /\ spoolFails # block /\ ~(block > Blocks) /\ rpc' = "check"
                /\ UNCHANGED <<readErr, cause, werr>>
      BY <1>9 DEF AfterBlock, CancelWith, P!CloseWrite, pipe
    <2>2. TypeOK'
      BY <1>1, <1>4, <2>1 DEF IInv, TypeOK
    <2>3. ReaderOK'
      BY <1>1, <1>2, <1>4, <2>1 DEF IInv, ReaderOK
    <2>4. CauseOK'
      <3>1. CASE readErr' = TRUE
        <4>1. "readErr" \in FirstHand /\ Happened("readErr")'
          BY <3>1 DEF FirstHand, Happened
        <4>2. cause' \in {cause, IF cause = "nil" THEN "readErr" ELSE cause} /\ werr' \in {werr, cause, "readErr", "nil"}
          BY <2>1
        <4> QED
          BY <1>1, <2>1, <3>1, <4>1, <4>2, CausesHold
      <3>2. CASE UNCHANGED <<readErr, cause>> /\ werr' \in {werr, "nil"}
        BY <1>1, <2>1, <3>2 DEF IInv, CauseOK, Happened, Rebuilding, Hopeless
      <3> QED
        BY <2>1, <3>1, <3>2
    <2> QED
      BY <1>3, <2>2, <2>3, <2>4 DEF IInv
  <1> QED
    BY <1>5, <1>6, <1>7, <1>8, <1>9 DEF Reader

-----------------------------------------------------------------------------
(* The caller.                                                             *)

\* A step of the rebuild leaves the reader, the contexts and the tee alone.
LEMMA RebuildFrame ==
  ASSUME IInv, Rebuilding, UNCHANGED <<given, ctxDone, cause, reader, werr, answer>>,
         cpc' \in {"rebuild", "read", "close", "judge"}, cw' \in CompareType, fed' \in Nat,
         CompareOK', ResultOK'
  PROVE  IInv'
  <1>1. UNCHANGED <<behaviour, limit, partial, teeFails, spoolFails, ctxDone, cause, werr,
                    rpc, block, feeding, teed, teeErr, readErr, answer>>
    BY DEF given, reader
  <1>2. cpc # "returned" /\ cpc' # "returned" /\ Rebuilding'
    BY DEF Rebuilding
  <1>3. TypeOK' /\ ReaderOK'
    BY <1>1 DEF IInv, TypeOK, ReaderOK
  <1>4. CauseOK'
    BY <1>1, <1>2 DEF IInv, CauseOK, Happened
  <1>5. AnswerOK' /\ OkMeansConfirmed' /\ ErrorIsACause'
    BY <1>1, <1>2 DEF IInv, AnswerOK, OkMeansConfirmed, ErrorIsACause
  <1> QED
    BY <1>3, <1>4, <1>5 DEF IInv

\* A write that compares equal is one of the good ones; any other shows how
\* the candidate ends.
LEMMA WriteFacts ==
  ASSUME IInv, cpc \in {"rebuild", "close"}, HasWrite(behaviour, cw.n)
  PROVE  LET b == behaviour
             c == AfterWrite(cw, limit, Outcome(b, cw.n, RefLen))
         IN  /\ c \in CompareType /\ c.n <= b.good
             /\ c.limited => limit > 0 /\ c.n >= limit
             /\ limit > 0 /\ ~c.limited => c.n < limit
             /\ Done(c) => ~c.limited /\ c.n = b.good
             /\ c.err = "mismatch" => b.then = "differs"
             /\ c.err = "failure" => b.then = "unreadable"
  <1> DEFINE b == behaviour
             o == Outcome(b, cw.n, RefLen)
             c == AfterWrite(cw, limit, o)
  <1>1. /\ b \in AllBehaviours /\ b.good \in Nat /\ limit \in Nat /\ cw \in CompareType /\ cw.n \in Nat
        /\ cw.n <= b.good /\ ~Done(cw) /\ ~cw.limited
        /\ limit > 0 => cw.n < limit
    BY DEF IInv, TypeOK, CompareOK, AllBehaviours, CompareType
  <1>2. CASE o = "equal"
    <2> DEFINE reached == limit > 0 /\ cw.n + 1 >= limit
    <2>1. c = [n |-> cw.n + 1, err |-> "nil", limited |-> reached]
      BY <1>1, <1>2 DEF AfterWrite
    <2>2. cw.n < b.good
      BY <1>2 DEF Outcome
    <2>3. reached \in BOOLEAN
      OBVIOUS
    <2> HIDE DEF c, reached
    <2>4. c \in CompareType /\ c.n = cw.n + 1 /\ c.err = "nil" /\ (c.limited <=> reached)
      BY <1>1, <2>1, <2>3 DEF CompareType
    <2> QED
      BY <1>1, <2>2, <2>4 DEF Done, reached, c, o, b
  <1>3. CASE o # "equal"
    <2>1. ~(cw.n < b.good) /\ b.then \in {"differs", "unreadable"}
      BY <1>3 DEF Outcome, HasWrite
    <2>2. o = "unreadable" <=> b.then = "unreadable"
      BY <2>1 DEF Outcome
    <2>3. c = [n |-> cw.n, limited |-> FALSE,
               err |-> IF o = "unreadable" THEN "failure" ELSE "mismatch"]
      BY <1>1, <1>3 DEF AfterWrite
    <2> HIDE DEF c, o, b
    <2>4. c \in CompareType /\ c.n = cw.n /\ ~c.limited
          /\ c.err = IF o = "unreadable" THEN "failure" ELSE "mismatch"
      BY <1>1, <2>3 DEF CompareType
    <2>5. /\ c \in CompareType /\ c.n <= b.good
          /\ c.limited => limit > 0 /\ c.n >= limit
          /\ limit > 0 /\ ~c.limited => c.n < limit
          /\ Done(c) => ~c.limited /\ c.n = b.good
          /\ c.err = "mismatch" => b.then = "differs"
          /\ c.err = "failure" => b.then = "unreadable"
      BY <1>1, <2>1, <2>2, <2>4 DEF Done
    <2> QED
      BY <2>5 DEF c, o, b
  <1> QED
    BY <1>2, <1>3

LEMMA WriteOutputKeeps == ASSUME IInv, WriteOutput PROVE IInv'
  <1> DEFINE b == behaviour
             c == AfterWrite(cw, limit, Outcome(b, cw.n, RefLen))
  <1>1. /\ cpc \in {"rebuild", "close"} /\ (HasWrite(b, cw.n) \/ b.then = "fails")
        /\ UNCHANGED <<behaviour, limit, ctxDone, cause, werr, teeErr, readErr, fed, answer>>
        /\ UNCHANGED <<given, reader>>
    BY DEF WriteOutput, Owes, pipe, given, reader
  <1>2. /\ cw \in CompareType /\ fed \in Nat /\ CompareOK /\ ResultOK /\ ~Done(cw) /\ ~cw.limited
        /\ rerr = "nil" /\ Rebuilding /\ b \in AllBehaviours
    BY <1>1 DEF IInv, TypeOK, CompareOK, Rebuilding
  <1>3. CASE ~HasWrite(b, cw.n) /\ UNCHANGED cw /\ rerr' = "failure" /\ cpc' = "judge"
    <2>1. CompareOK' /\ ResultOK'
      BY <1>1, <1>2, <1>3 DEF CompareOK, ResultOK, Happened, RebuildErrs
    <2> QED
      BY <1>1, <1>2, <1>3, <2>1, RebuildFrame
  <1>4. CASE cause # "nil" /\ UNCHANGED cw /\ rerr' = "canceled" /\ cpc' = "judge"
    <2>1. ctxDone \/ teeErr \/ readErr
      BY <1>2, <1>4 DEF IInv, CauseOK
    <2>2. CompareOK' /\ ResultOK'
      BY <1>1, <1>2, <1>4, <2>1 DEF CompareOK, ResultOK, Happened, RebuildErrs
    <2> QED
      BY <1>1, <1>2, <1>4, <2>2, RebuildFrame
  <1>5. CASE HasWrite(b, cw.n) /\ cw' = c /\ WriteErr(c) = "nil" /\ UNCHANGED <<rerr, cpc>>
    <2>1. c \in CompareType /\ ~Done(c) /\ ~c.limited /\ c.n <= b.good /\ (limit > 0 => c.n < limit)
      <3>1. ~Done(c) /\ ~c.limited
        BY <1>5 DEF WriteErr, Done
      <3> QED
        BY <1>1, <1>5, <3>1, WriteFacts
    <2> HIDE DEF c
    <2>2. CompareOK' /\ ResultOK'
      BY <1>1, <1>2, <1>5, <2>1 DEF CompareOK, ResultOK, Happened, RebuildErrs
    <2> QED
      BY <1>1, <1>2, <1>5, <2>1, <2>2, RebuildFrame
  <1>6. CASE HasWrite(b, cw.n) /\ cw' = c /\ WriteErr(c) # "nil" /\ rerr' = WriteErr(c) /\ cpc' = "judge"
    <2>1. /\ c \in CompareType /\ c.n <= b.good
          /\ c.limited => limit > 0 /\ c.n >= limit
          /\ limit > 0 /\ ~c.limited => c.n < limit
          /\ Done(c) => ~c.limited /\ c.n = b.good
          /\ c.err = "mismatch" => b.then = "differs"
          /\ c.err = "failure" => b.then = "unreadable"
      BY <1>1, <1>6, WriteFacts
    <2> HIDE DEF c
    <2>2. /\ rerr' \in {"mismatch", "failure", "ErrLimit"}
          /\ rerr' # "ErrLimit" => Done(c) /\ rerr' = c.err
      BY <1>6, <2>1 DEF WriteErr, Done, CompareType
    <2>3. CompareOK' /\ ResultOK'
      BY <1>1, <1>2, <1>6, <2>1, <2>2 DEF CompareOK, ResultOK, Happened, RebuildErrs
    <2> QED
      BY <1>1, <1>2, <1>6, <2>1, <2>3, RebuildFrame
  <1> QED
    BY <1>3, <1>4, <1>5, <1>6 DEF WriteOutput, Rebuilt

\* What Read returns: a block, the end, or the error the pipe was closed with.
LEMMA ReadFacts ==
  ASSUME IInv, Rebuilding, P!ReadReturns
  PROVE  /\ UNCHANGED werr
         /\ \/ P!Piece(rret')
            \/ ~P!Piece(rret') /\ rret' = <<"EOF">> /\ werr = "nil"
            \/ ~P!Piece(rret') /\ rret' = <<werr>> /\ rret' # <<"EOF">> /\ werr \in FirstHand
  <1>1. CASE P!ReadTakes
    <2> DEFINE b == Head(ch)
    <2>1. rret' = Head(P!Copied(b))
      BY <1>1 DEF P!ReadTakes
    <2>2. Head(P!Copied(b)) = <<b, 1>>
      BY DEF P!Copied
    <2>3. P!Piece(rret')
      BY <2>1, <2>2 DEF P!Piece
    <2> QED
      BY <1>1, <2>3 DEF P!ReadTakes
  <1>2. CASE P!ReadEnds
    <2>1. rret' = IF werr = "nil" THEN <<"EOF">> ELSE <<werr>>
      BY <1>2 DEF P!ReadEnds
    <2>2. werr \in FirstHand \cup {"nil"}
      BY DEF IInv, CauseOK
    <2>3. ~P!Piece(rret')
      BY <2>1 DEF P!Piece
    <2>4. werr \in FirstHand => <<werr>> # <<"EOF">>
      BY DEF FirstHand
    <2> QED
      BY <1>2, <2>1, <2>2, <2>3, <2>4 DEF P!ReadEnds
  <1> QED
    BY <1>1, <1>2 DEF P!ReadReturns

LEMMA RebuildKeeps == ASSUME IInv, Rebuild PROVE IInv'
  <1>1. /\ UNCHANGED <<behaviour, limit, ctxDone, cause, werr, teeErr, readErr, answer>>
        /\ UNCHANGED <<given, reader>> /\ cpc \in {"rebuild", "read", "close"}
    BY DEF Rebuild, WriteOutput, SetupFails, ReadPipe, ReadPipeReturns, RebuildEnds, given, reader,
           pipe, P!ReadCalled, P!ReadReturns, P!ReadTakes, P!ReadEnds
  <1>2. /\ cw \in CompareType /\ fed \in Nat /\ CompareOK /\ ResultOK /\ ~Done(cw) /\ ~cw.limited
        /\ rerr = "nil" /\ Rebuilding /\ behaviour \in AllBehaviours
    BY <1>1 DEF IInv, TypeOK, CompareOK, Rebuilding
  <1>3. CASE SetupFails
    <2>1. UNCHANGED <<cw, fed>> /\ rerr' = "failure" /\ cpc' = "judge" /\ behaviour.then = "setup"
      BY <1>3 DEF SetupFails, Rebuilt
    <2>2. CompareOK' /\ ResultOK'
      BY <1>1, <1>2, <2>1 DEF CompareOK, ResultOK, Happened, RebuildErrs
    <2> QED
      BY <1>1, <1>2, <2>1, <2>2, RebuildFrame
  <1>4. CASE ReadPipe
    <2>1. UNCHANGED <<cw, fed, rerr>> /\ cpc' = "read" /\ behaviour.then # "setup"
      BY <1>4 DEF ReadPipe
    <2>2. CompareOK' /\ ResultOK'
      BY <1>1, <1>2, <2>1 DEF CompareOK, ResultOK, Happened, RebuildErrs
    <2> QED
      BY <1>1, <1>2, <2>1, <2>2, RebuildFrame
  <1>5. CASE ReadPipeReturns
    <2>1. cpc = "read" /\ UNCHANGED cw /\ behaviour.then # "setup"
      BY <1>5 DEF ReadPipeReturns, IInv, CompareOK
    <2>2. CASE cpc' \in {"rebuild", "close"} /\ fed' \in {fed, fed + 1} /\ UNCHANGED rerr
      <3>1. CompareOK' /\ ResultOK'
        BY <1>1, <1>2, <2>1, <2>2 DEF CompareOK, ResultOK, Happened, RebuildErrs
      <3> QED
        BY <1>1, <1>2, <2>1, <2>2, <3>1, RebuildFrame
    <2>3. CASE cpc' = "judge" /\ rerr' = werr /\ werr \in FirstHand /\ UNCHANGED fed
      <3>1. Happened(werr)
        BY DEF IInv, CauseOK
      <3>2. CompareOK' /\ ResultOK'
        BY <1>1, <1>2, <2>1, <2>3, <3>1 DEF CompareOK, ResultOK, Happened, FirstHand, RebuildErrs
      <3> QED
        BY <1>1, <1>2, <2>1, <2>3, <3>2, RebuildFrame
    <2>4. rret' = <<werr>> => rret'[1] = werr
      OBVIOUS
    <2> QED
      BY <1>2, <1>5, <2>2, <2>3, <2>4, ReadFacts DEF ReadPipeReturns, Rebuilt
  <1>6. CASE RebuildEnds
    <2>1. /\ UNCHANGED <<cw, fed>> /\ rerr' = "nil" /\ cpc' = "judge" /\ cpc = "close"
          /\ ~HasWrite(behaviour, cw.n) /\ behaviour.then # "fails"
      BY <1>6 DEF RebuildEnds, Rebuilt, Owes
    <2>2. behaviour.then = "stops" /\ cw.n = behaviour.good
      BY <1>2, <2>1 DEF HasWrite, CompareOK, AllBehaviours, CompareType
    <2>3. CompareOK' /\ ResultOK'
      BY <1>1, <1>2, <2>1, <2>2 DEF CompareOK, ResultOK, Happened, RebuildErrs
    <2> QED
      BY <1>1, <1>2, <2>1, <2>3, RebuildFrame
  <1> QED
    BY <1>3, <1>4, <1>5, <1>6, WriteOutputKeeps DEF Rebuild

LEMMA JudgeKeeps == ASSUME IInv, Judge PROVE IInv'
  <1>1. /\ UNCHANGED <<behaviour, limit, partial, teeFails, spoolFails, ctxDone, werr, rpc, block,
                      feeding, teed, teeErr, readErr, fed, cw, answer>>
        /\ cpc = "judge" /\ cpc' = "join" /\ rerr' = RebuildErr
        /\ cause' = IF Hopeless(RebuildErr) /\ cause = "nil" THEN RebuildErr ELSE cause
    BY DEF Judge, CancelWith, P!CloseRead, given, reader
  <1>2. cw \in CompareType /\ CompareOK /\ ResultOK /\ Rebuilding /\ Happened(cause) /\ Happened(werr)
    BY <1>1 DEF IInv, TypeOK, CauseOK, Rebuilding
  <1>3. \/ rerr' = rerr /\ (rerr = "nil" => cw.limited)
        \/ /\ rerr = "nil" /\ ~cw.limited /\ ~Done(cw)
           /\ rerr' = IF cw.n < RefLen THEN "mismatch" ELSE "nil"
    BY <1>1, <1>2 DEF RebuildErr, AtEOF, ResultOK
  <1>4. Happened(rerr') /\ CompareOK'
    BY <1>1, <1>2, <1>3 DEF ResultOK, Happened, CompareOK
  <1>5. ResultOK'
    <2>1. CASE rerr' = rerr /\ (rerr = "nil" => cw.limited)
      BY <1>1, <1>2, <2>1 DEF ResultOK, Happened
    <2>2. CASE /\ rerr = "nil" /\ ~cw.limited /\ ~Done(cw)
               /\ rerr' = IF cw.n < RefLen THEN "mismatch" ELSE "nil"
      <3>1. behaviour.then = "stops" /\ cw.n = behaviour.good
        BY <1>1, <1>2, <2>2 DEF ResultOK
      <3>2. cw.n \in Nat /\ RefLen \in Nat
        BY <1>2 DEF CompareType
      <3> QED
        BY <1>1, <2>2, <3>1, <3>2 DEF ResultOK, Happened, RebuildErrs
    <2> QED
      BY <1>3, <2>1, <2>2
  <1>6. TypeOK' /\ ReaderOK'
    <2>1. cause # "nil" => cause' # "nil"
      BY <1>1
    <2> QED
      BY <1>1, <2>1 DEF IInv, TypeOK, ReaderOK
  <1>7. CauseOK'
    <2>1. Happened(cause)' /\ Happened(werr)'
      BY <1>1, <1>2, <1>4 DEF Happened
    <2>2. cause' # "nil" => ctxDone' \/ teeErr' \/ readErr' \/ Hopeless(rerr)'
      BY <1>1, <1>2 DEF IInv, CauseOK, Hopeless
    <2>3. ~Rebuilding'
      BY <1>1 DEF Rebuilding
    <2> QED
      BY <2>1, <2>2, <2>3 DEF CauseOK
  <1>8. AnswerOK' /\ OkMeansConfirmed' /\ ErrorIsACause'
    BY <1>1 DEF IInv, AnswerOK, OkMeansConfirmed, ErrorIsACause
  <1> QED
    BY <1>4, <1>5, <1>6, <1>7, <1>8 DEF IInv

\* The answer: where each of Confirm's errors and its success come from.
LEMMA ReturnKeeps == ASSUME IInv, Return PROVE IInv'
  <1>1. /\ UNCHANGED <<behaviour, limit, partial, teeFails, spoolFails, ctxDone, cause, werr, rpc,
                      block, feeding, teed, teeErr, readErr, fed, cw, rerr>>
        /\ cpc = "join" /\ cpc' = "returned" /\ rpc = "done" /\ answer' = Answer
    BY DEF Return, ReadDone, given, pipe, reader
  <1>2. /\ TypeOK /\ ReaderOK /\ CauseOK /\ CompareOK /\ ResultOK
        /\ behaviour.good \in 0 .. RefLen /\ cw.n \in Nat /\ limit \in Nat /\ RefLen \in Nat
    BY DEF IInv, TypeOK, AllBehaviours, CompareType
  <1>3. ~cw.limited /\ rerr = "nil" => Verdict # "no"
    BY <1>1, <1>2 DEF ResultOK, Verdict, VerdictUnder
  <1>4. cw.limited => Verdict = "limited"
    BY <1>2 DEF CompareOK, Verdict, VerdictUnder
  <1>5. rerr = "mismatch" => Verdict = "no" /\ behaviour.then \in {"differs", "stops"}
    BY <1>2 DEF ResultOK, CompareOK, Verdict, VerdictUnder
  <1>6. OkMeansConfirmed'
    <2> SUFFICES ASSUME answer' = "ok" PROVE teed = Blocks /\ Verdict # "no"
      BY <1>1 DEF OkMeansConfirmed, Verdict
    <2>1. ~ctxDone /\ ~teeErr /\ ~readErr /\ (cw.limited \/ rerr \in {"nil", "ok"})
      BY <1>1 DEF Answer
    <2>2. rerr # "ok"
      BY <1>2 DEF ResultOK, RebuildErrs, FirstHand
    <2>3. ~Hopeless(rerr)
      BY <2>1, <2>2 DEF Hopeless
    <2>4. cause = "nil"
      BY <1>2, <2>1, <2>3 DEF CauseOK
    <2> QED
      BY <1>1, <1>2, <1>3, <1>4, <2>1, <2>2, <2>4 DEF ReaderOK
  <1>7. ErrorIsACause'
    <2>1. Verdict' = Verdict
      BY <1>1 DEF Verdict
    <2>2. answer' # "canceled"
      BY <1>1, <1>2 DEF Answer, ResultOK, Happened
    <2>3. answer' = "notReproducible" => Verdict = "no" /\ behaviour.then \in {"differs", "stops"}
      BY <1>1, <1>2, <1>5 DEF Answer, ResultOK, RebuildErrs, FirstHand
    <2>4. answer' = "ctxErr" => ctxDone
      BY <1>1, <1>2 DEF Answer, ResultOK, Happened
    <2>5. answer' = "teeErr" => teeErr
      BY <1>1, <1>2 DEF Answer, ResultOK, Happened
    <2>6. answer' = "readErr" => readErr
      BY <1>1, <1>2 DEF Answer, ResultOK, Happened
    <2>7. answer' = "failure" => behaviour.then \in {"fails", "setup", "unreadable"}
      BY <1>1, <1>2 DEF Answer, ResultOK
    <2> QED
      BY <1>1, <1>2, <2>1, <2>2, <2>3, <2>4, <2>5, <2>6, <2>7 DEF ErrorIsACause, ReaderOK
  <1>8. TypeOK' /\ ReaderOK' /\ AnswerOK'
    BY <1>1 DEF IInv, TypeOK, ReaderOK, AnswerOK
  <1>9. CauseOK' /\ CompareOK' /\ ResultOK'
    BY <1>1 DEF IInv, CauseOK, Happened, Rebuilding, Hopeless, CompareOK, ResultOK
  <1> QED
    BY <1>6, <1>7, <1>8, <1>9 DEF IInv

LEMMA StepHolds == IInv /\ [Next]_vars => IInv'
  <1> SUFFICES ASSUME IInv, [Next]_vars PROVE IInv'
    OBVIOUS
  <1>1. CASE UNCHANGED vars
    <2>1. UNCHANGED <<behaviour, limit, partial, teeFails, spoolFails, ctxDone, cause, werr, rpc,
                     block, feeding, teed, teeErr, readErr, cpc, fed, cw, rerr, answer>>
      BY <1>1 DEF vars, given, pipe, reader, caller
    <2> QED
      BY <2>1 DEF IInv, TypeOK, ReaderOK, CauseOK, Happened, Rebuilding, Hopeless, CompareOK,
                  ResultOK, AnswerOK, OkMeansConfirmed, ErrorIsACause, Verdict
  <1> QED
    BY <1>1, CancelKeeps, ReaderKeeps, RebuildKeeps, JudgeKeeps, ReturnKeeps DEF Next, Caller

\* teeErr, readErr, cctx's cause, the pipe's error and the rebuild's error
\* stand for what happened, in whatever order the goroutines come to it.
THEOREM Invariance == Spec => []IInv
  <1> QED
    BY InitHolds, StepHolds, PTL DEF Spec

-----------------------------------------------------------------------------
\* Confirm succeeds only if tee has received all of the content and the
\* rebuild reproduced the input, to its end or to VerifyLimit, however long
\* the content and whatever the two goroutines, the tee and the context do.
THEOREM SuccessIsReal == Spec => []OkMeansConfirmed
  <1>1. IInv => OkMeansConfirmed
    BY DEF IInv
  <1> QED
    BY <1>1, Invariance, PTL

\* Confirm's error is the first-hand one: never a cancellation that it caused
\* itself, and ErrNotReproducible only of parameters that do not reproduce
\* the input.
THEOREM ErrorIsFirstHand == Spec => []ErrorIsACause
  <1>1. IInv => ErrorIsACause
    BY DEF IInv
  <1> QED
    BY <1>1, Invariance, PTL
==============================================================================
