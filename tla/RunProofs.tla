------------------------------ MODULE RunProofs ------------------------------
(***************************************************************************)
(* Proofs about Run for every list of candidates, every pool size, every   *)
(* limit and every length of the reference.                                *)
(*                                                                         *)
(* The inductive invariant IInv adds to TypeOK what the code keeps true    *)
(* under its mutex but never says: a worker's candidate is its own and     *)
(* registered in running; an evaluation knows the truth about its          *)
(* candidate unless its context was cancelled; only beaten candidates are  *)
(* cancelled; and a match that has been handed out is still held by a      *)
(* worker or beaten by the winner.                                         *)
(***************************************************************************)
EXTENDS Run, TLAPS

USE RunAssumption

Held(w) == pc[w] \in {"evaluate", "report"}

Verdict(i) == VerdictUnder(behaviour[i], limit, RefLen)

\* A held candidate has been handed out, is registered as running, and is
\* held by one worker only.
HeldOK == /\ \A w \in Workers : Held(w) => cand[w] \in running /\ cand[w] \in 0 .. next - 1
          /\ \A v, w \in Workers : Held(v) /\ Held(w) /\ cand[v] = cand[w] => v = w

\* An unfinished evaluation has met nothing that decides it.
EvaluationOK == \A w \in Workers : pc[w] = "evaluate" =>
    /\ ~Done(cw[w]) /\ ~cw[w].limited
    /\ cw[w].n <= behaviour[cand[w]].good
    /\ limit > 0 => cw[w].n < limit

\* A finished one is right about its candidate, or was interrupted.
ResultOK == \A w \in Workers : pc[w] = "report" =>
    /\ IsMatch(result[w]) => Verdict(cand[w]) = result[w]
    /\ ~IsMatch(result[w]) => Verdict(cand[w]) = "no" \/ ContextDone(cand[w])

WinnerOK == winner >= 0 => /\ Verdict(winner) # "no"
                           /\ verified = (Verdict(winner) = "whole")

\* No match is lost on the way.
NoneLost == ~ctxDone => \A i \in 0 .. next - 1 : Verdict(i) # "no" =>
    \/ \E w \in Workers : Held(w) /\ cand[w] = i
    \/ 0 <= winner /\ winner <= i

\* A worker leaves only when nothing is left to take, and that stays so.
LeftOK == \A w \in Workers : pc[w] = "done" => NothingToTake

IInv == /\ TypeOK /\ tried = next /\ HeldOK /\ EvaluationOK /\ ResultOK
        /\ WinnerOK /\ OnlyBeatenCancelled /\ NoneLost /\ LeftOK

-----------------------------------------------------------------------------
\* The pool is never empty.
LEMMA PoolNotEmpty == 1 \in Workers
BY DEF Workers, PoolSize

\* A behaviour's verdict is one of Search's three.
LEMMA VerdictType ==
    ASSUME NEW b
    PROVE  VerdictUnder(b, limit, RefLen) \in {"whole", "limited", "no"}
BY DEF VerdictUnder

\* Every write leaves a Compare in one of its states.
LEMMA AfterWriteType ==
    ASSUME NEW c \in CompareType, NEW o \in Outcomes
    PROVE  AfterWrite(c, limit, o) \in CompareType
BY DEF AfterWrite, CompareType, Outcomes, Done

\* What the next write of an evaluation that has met nothing decisive finds:
\* it stays undecided, or stops at the limit, or ends on an error.
LEMMA WriteFinds ==
    ASSUME limit \in Nat, NEW b \in AllBehaviours, NEW c \in CompareType,
           ~Done(c), ~c.limited, c.n <= b.good, limit > 0 => c.n < limit,
           HasWrite(b, c.n),
           NEW d, d = AfterWrite(c, limit, Outcome(b, c.n, RefLen))
    PROVE  /\ d \in CompareType
           /\ WriteErr(d) = "nil" => /\ ~Done(d) /\ ~d.limited /\ d.n <= b.good
                                     /\ limit > 0 => d.n < limit
           /\ WriteErr(d) # "nil" =>
                /\ LimitedOr(d, WriteErr(d)) \in {"limited", "mismatch", "failure"}
                /\ IsMatch(LimitedOr(d, WriteErr(d))) => VerdictUnder(b, limit, RefLen) = "limited"
                /\ IsMatch(LimitedOr(d, WriteErr(d))) <=> LimitedOr(d, WriteErr(d)) = "limited"
                /\ ~IsMatch(LimitedOr(d, WriteErr(d))) => VerdictUnder(b, limit, RefLen) = "no"
<1>1. Outcome(b, c.n, RefLen) \in Outcomes
  BY DEF Outcome, Outcomes
<1>2. d \in CompareType
  BY <1>1, AfterWriteType
<1>3. CASE c.n < b.good
  <2>1. c.n \in Nat /\ b.good \in Nat
    BY DEF CompareType, AllBehaviours
  <2>2. d.n = c.n + 1 /\ ~Done(d)
    BY <1>3 DEF AfterWrite, Outcome, Done
  <2>3. CASE limit > 0 /\ c.n + 1 >= limit
    <3>1. d.limited
      BY <1>3, <2>3 DEF AfterWrite, Outcome
    <3>2. WriteErr(d) = "ErrLimit" /\ LimitedOr(d, WriteErr(d)) = "limited"
      BY <2>2, <3>1 DEF WriteErr, LimitedOr
    <3>3. VerdictUnder(b, limit, RefLen) = "limited"
      BY <1>3, <2>1, <2>3 DEF VerdictUnder
    <3> QED BY <1>2, <3>2, <3>3 DEF IsMatch
  <2>4. CASE ~(limit > 0 /\ c.n + 1 >= limit)
    <3>1. ~d.limited
      BY <1>3, <2>4 DEF AfterWrite, Outcome
    <3>2. WriteErr(d) = "nil"
      BY <2>2, <3>1 DEF WriteErr
    <3>3. d.n <= b.good /\ (limit > 0 => d.n < limit)
      BY <1>3, <2>1, <2>2, <2>4
    <3> QED BY <1>2, <2>2, <3>1, <3>2, <3>3
  <2> QED BY <2>3, <2>4
<1>4. CASE ~(c.n < b.good)
  <2>1. c.n = b.good /\ b.then \in {"differs", "unreadable"}
    BY <1>4 DEF HasWrite, CompareType, AllBehaviours
  <2>2. Outcome(b, c.n, RefLen) # "equal"
    BY <1>4 DEF Outcome
  <2>3. d.err \in {"mismatch", "failure"} /\ d.limited = FALSE
    BY <2>2, <1>1 DEF AfterWrite, CompareType, Outcomes
  <2>4. VerdictUnder(b, limit, RefLen) = "no"
    BY <2>1 DEF VerdictUnder, AllBehaviours
  <2> QED BY <1>2, <2>3, <2>4 DEF WriteErr, LimitedOr, IsMatch, Done
<1> QED BY <1>3, <1>4
-----------------------------------------------------------------------------
\* A fresh Compare is one of its states.
LEMMA NewCompareType == NewCompare \in CompareType /\ ~Done(NewCompare) /\ ~NewCompare.limited
BY DEF NewCompare, CompareType, Done

\* The initial state is one of the invariant's.
LEMMA InitIInv == Init => IInv
<1> SUFFICES ASSUME Init PROVE IInv
  OBVIOUS
<1> USE DEF Init
<1>1. TypeOK
  <2>1. cw \in [Workers -> CompareType]
    BY NewCompareType
  <2>2. behaviour \in [Cands -> AllBehaviours]
    OBVIOUS
  <2>3. next \in 0 .. N /\ tried \in 0 .. N /\ winner \in -1 .. N-1 /\ firstErr \in -1 .. N-1
    OBVIOUS
  <2>4. /\ cand \in [Workers -> -1 .. N-1]
        /\ pc \in [Workers -> {"loop", "evaluate", "report", "done"}]
    OBVIOUS
  <2>5. result \in [Workers -> {"none", "whole", "limited", "mismatch", "failure", "canceled"}]
    OBVIOUS
  <2>6. /\ ctxDone \in BOOLEAN /\ verified \in BOOLEAN
        /\ running \subseteq Cands /\ cancelled \subseteq Cands
    OBVIOUS
  <2>7. answer \in {Srch!Pending, Srch!CtxErr, Srch!NoMatch}
    OBVIOUS
  <2> QED BY <2>1, <2>2, <2>3, <2>4, <2>5, <2>6, <2>7 DEF TypeOK
<1>2. \A w \in Workers : pc[w] = "loop"
  OBVIOUS
<1> QED BY <1>1, <1>2 DEF IInv, HeldOK, Held, EvaluationOK, ResultOK, WinnerOK,
                         OnlyBeatenCancelled, NoneLost, LeftOK

\* Every step keeps every variable in its type.
LEMMA TypeStep == ASSUME IInv, [Next]_vars PROVE TypeOK' /\ (tried = next)'
<1> USE DEF TypeOK, Cands
<1>0. TypeOK /\ tried = next
  BY DEF IInv
<1>1. ASSUME NEW w \in Workers, Leave(w) PROVE TypeOK' /\ (tried = next)'
  BY <1>0, <1>1 DEF Leave, shared
<1>2. ASSUME NEW w \in Workers, Take(w) PROVE TypeOK' /\ (tried = next)'
  <2>1. next \in 0 .. N-1
    BY <1>0, <1>2 DEF Take, NothingToTake
  <2>2. cw' \in [Workers -> CompareType]
    BY <1>0, <1>2, NewCompareType DEF Take
  <2> QED BY <1>0, <1>2, <2>1, <2>2 DEF Take
<1>3. ASSUME NEW w \in Workers, Write(w) PROVE TypeOK' /\ (tried = next)'
  <2> DEFINE b == behaviour[cand[w]]
             c == AfterWrite(cw[w], limit, Outcome(b, cw[w].n, RefLen))
  <2>1. c \in CompareType
    BY <1>0, AfterWriteType DEF Outcome, Outcomes
  <2>2. LimitedOr(c, WriteErr(c)) \in {"limited", "mismatch", "failure"} \/ WriteErr(c) = "nil"
    BY <2>1 DEF LimitedOr, WriteErr, CompareType, Done
  <2> HIDE DEF c
  <2>3. /\ cw' = [cw EXCEPT ![w] = c]
        /\ IF WriteErr(c) = "nil" THEN UNCHANGED <<pc, result>>
                                  ELSE Return(w, LimitedOr(c, WriteErr(c)))
        /\ UNCHANGED <<behaviour, limit, ctxDone, shared, cand, answer>>
    BY <1>3 DEF Write, c
  <2>4. pc' \in [Workers -> {"loop", "evaluate", "report", "done"}]
    <3>1. pc' = pc \/ pc' = [pc EXCEPT ![w] = "report"]
      BY <2>3 DEF Return
    <3>2. pc \in [Workers -> {"loop", "evaluate", "report", "done"}]
      BY <1>0
    <3> HIDE DEF TypeOK
    <3> QED BY <3>1, <3>2
  <2>5. result' \in [Workers -> {"none", "whole", "limited", "mismatch", "failure", "canceled"}]
    BY <1>0, <2>2, <2>3 DEF Return
  <2>6. cw' \in [Workers -> CompareType]
    BY <1>0, <2>1, <2>3
  <2> QED BY <1>0, <2>3, <2>4, <2>5, <2>6 DEF shared
<1>4. ASSUME NEW w \in Workers, Interrupted(w) PROVE TypeOK' /\ (tried = next)'
  BY <1>0, <1>4 DEF Interrupted, Return, shared
<1>5. ASSUME NEW w \in Workers, Finish(w) PROVE TypeOK' /\ (tried = next)'
  <2>1. AtEOF(cw[w], RefLen) \in {"mismatch", "failure", "nil"}
    BY <1>0 DEF AtEOF, CompareType, Done
  <2> QED BY <1>0, <1>5, <2>1 DEF Finish, Return, shared
<1>6. ASSUME NEW w \in Workers, Accept(w) PROVE TypeOK' /\ (tried = next)'
  <2>1. cand[w] \in Cands
    BY <1>0, <1>6 DEF IInv, HeldOK, Held, Accept
  <2>2. /\ running' \subseteq Cands /\ cancelled' \subseteq Cands
        /\ winner' \in -1 .. N-1
    <3>1. winner' \in {winner, cand[w]} /\ running' \subseteq running
          /\ cancelled' \subseteq cancelled \cup running
      BY <1>6 DEF Accept, Beaten
    <3> QED BY <1>0, <2>1, <3>1
  <2>3. verified' \in BOOLEAN
    <3>1. verified \in BOOLEAN /\ (result[w] = "whole") \in BOOLEAN
      BY <1>0
    <3>2. verified' = verified \/ verified' = (result[w] = "whole")
      BY <1>6, Zenon DEF Accept
    <3> QED BY <3>1, <3>2, Zenon
  <2>4. pc' \in [Workers -> {"loop", "evaluate", "report", "done"}]
    BY <1>0, <1>6 DEF Accept
  <2> QED BY <1>0, <1>6, <2>2, <2>3, <2>4 DEF Accept
<1>7. ASSUME NEW w \in Workers, Reject(w) PROVE TypeOK' /\ (tried = next)'
  <2>1. cand[w] \in Cands
    BY <1>0, <1>7 DEF IInv, HeldOK, Held, Reject
  <2>2. running' \subseteq Cands /\ firstErr' \in -1 .. N-1
    <3>1. firstErr' \in {firstErr, cand[w]} /\ running' \subseteq running
      BY <1>7 DEF Reject
    <3> QED BY <1>0, <2>1, <3>1
  <2>3. pc' \in [Workers -> {"loop", "evaluate", "report", "done"}]
    BY <1>0, <1>7 DEF Reject
  <2> QED BY <1>0, <1>7, <2>2, <2>3 DEF Reject
<1>8. ASSUME ReturnAnswer PROVE TypeOK' /\ (tried = next)'
  BY <1>0, <1>8 DEF ReturnAnswer, shared, worker
<1>9. ASSUME Cancel PROVE TypeOK' /\ (tried = next)'
  BY <1>0, <1>9 DEF Cancel, shared, worker
<1>10. ASSUME UNCHANGED vars PROVE TypeOK' /\ (tried = next)'
  BY <1>0, <1>10 DEF vars, shared, worker
<1> QED BY <1>1, <1>2, <1>3, <1>4, <1>5, <1>6, <1>7, <1>8, <1>9, <1>10 DEF Next, Step

\* The rest of the invariant, action by action.
Rest == /\ HeldOK /\ EvaluationOK /\ ResultOK
        /\ WinnerOK /\ OnlyBeatenCancelled /\ NoneLost /\ LeftOK

LEMMA LeaveStep == ASSUME IInv, NEW w \in Workers, Leave(w) PROVE Rest'
<1> USE DEF Held
<1>1. /\ pc[w] = "loop" /\ NothingToTake /\ pc' = [pc EXCEPT ![w] = "done"]
      /\ pc \in [Workers -> {"loop", "evaluate", "report", "done"}]
      /\ UNCHANGED <<behaviour, limit, ctxDone, next, winner, verified, tried, running,
                     firstErr, cancelled, cand, cw, result, answer>>
  BY DEF Leave, shared, IInv, TypeOK
<1>2. \A v \in Workers : Held(v)' <=> Held(v)
  BY <1>1
<1>3. HeldOK'
  BY <1>1, <1>2 DEF IInv, HeldOK
<1>4. EvaluationOK'
  BY <1>1 DEF IInv, EvaluationOK
<1>5. ResultOK'
  BY <1>1 DEF IInv, ResultOK, Verdict, ContextDone
<1>6. WinnerOK' /\ OnlyBeatenCancelled'
  BY <1>1 DEF IInv, WinnerOK, Verdict, OnlyBeatenCancelled
<1>7. NoneLost'
  BY <1>1, <1>2 DEF IInv, NoneLost, Verdict
<1>8. LeftOK'
  BY <1>1 DEF IInv, LeftOK, NothingToTake
<1> QED BY <1>3, <1>4, <1>5, <1>6, <1>7, <1>8 DEF Rest

LEMMA TakeStep == ASSUME IInv, NEW w \in Workers, Take(w) PROVE Rest'
<1> USE DEF Held
<1>1. /\ pc[w] = "loop" /\ ~NothingToTake /\ pc' = [pc EXCEPT ![w] = "evaluate"]
      /\ cand' = [cand EXCEPT ![w] = next] /\ cw' = [cw EXCEPT ![w] = NewCompare]
      /\ result' = [result EXCEPT ![w] = "none"]
      /\ running' = running \cup {next} /\ next' = next + 1
      /\ UNCHANGED <<behaviour, limit, ctxDone, winner, verified, firstErr, cancelled, answer>>
  BY DEF Take
<1>2. /\ pc \in [Workers -> {"loop", "evaluate", "report", "done"}]
      /\ cand \in [Workers -> -1 .. N-1] /\ cw \in [Workers -> CompareType]
      /\ result \in [Workers -> {"none", "whole", "limited", "mismatch", "failure", "canceled"}]
      /\ behaviour \in [Cands -> AllBehaviours] /\ next \in 0 .. N /\ winner \in -1 .. N-1
  BY DEF IInv, TypeOK
<1>3. next \in Cands
  BY <1>1, <1>2 DEF NothingToTake, Cands
<1>4. \A v \in Workers : v # w => /\ Held(v)' <=> Held(v)
                                  /\ cand'[v] = cand[v] /\ pc'[v] = pc[v]
                                  /\ cw'[v] = cw[v] /\ result'[v] = result[v]
  BY <1>1, <1>2
<1>5. Held(w)' /\ ~Held(w) /\ cand'[w] = next /\ pc'[w] = "evaluate" /\ cw'[w] = NewCompare
  BY <1>1, <1>2
<1>6. \A v \in Workers : Held(v) => cand[v] \in running /\ cand[v] \in 0 .. next - 1
  BY DEF IInv, HeldOK
<1>7. HeldOK'
  <2>1. \A v \in Workers : Held(v)' => cand'[v] \in running' /\ cand'[v] \in 0 .. next' - 1
    BY <1>1, <1>2, <1>4, <1>5, <1>6
  <2>2. ASSUME NEW u \in Workers, NEW v \in Workers, Held(u)', Held(v)', cand'[u] = cand'[v]
        PROVE  u = v
    BY <1>2, <1>4, <1>5, <1>6, <2>2 DEF IInv, HeldOK
  <2> QED BY <2>1, <2>2 DEF HeldOK
<1>8. EvaluationOK'
  <2>1. /\ NewCompare.n = 0 /\ ~Done(NewCompare) /\ ~NewCompare.limited
        /\ behaviour[next].good \in Nat
    BY <1>2, <1>3 DEF NewCompare, Done, AllBehaviours
  <2> SUFFICES ASSUME NEW v \in Workers, pc'[v] = "evaluate"
               PROVE  /\ ~Done(cw'[v]) /\ ~cw'[v].limited
                      /\ cw'[v].n <= behaviour'[cand'[v]].good
                      /\ limit > 0 => cw'[v].n < limit
    BY <1>1 DEF EvaluationOK
  <2>2. CASE v = w
    BY <1>1, <1>5, <2>1, <2>2
  <2>3. CASE v # w
    BY <1>1, <1>4, <2>3 DEF IInv, EvaluationOK
  <2> QED BY <2>2, <2>3
<1>9. ResultOK'
  BY <1>1, <1>4, <1>5 DEF IInv, ResultOK, Verdict, ContextDone
<1>10. WinnerOK' /\ OnlyBeatenCancelled'
  BY <1>1 DEF IInv, WinnerOK, Verdict, OnlyBeatenCancelled
<1>11. NoneLost'
  <2> SUFFICES ASSUME ~ctxDone, NEW i \in 0 .. next' - 1, Verdict(i)' # "no"
               PROVE  \/ \E v \in Workers : Held(v)' /\ cand'[v] = i
                      \/ 0 <= winner' /\ winner' <= i
    BY <1>1 DEF NoneLost
  <2>1. CASE i = next
    BY <1>5, <2>1
  <2>2. CASE i \in 0 .. next - 1
    BY <1>1, <1>4, <1>5, <2>2 DEF IInv, NoneLost, Verdict
  <2> QED BY <1>1, <1>2, <2>1, <2>2
<1>12. LeftOK'
  BY <1>1, <1>4, <1>5 DEF IInv, LeftOK
<1> QED BY <1>7, <1>8, <1>9, <1>10, <1>11, <1>12 DEF Rest

\* A step of w's evaluation touches only w's own record; the invariant
\* follows from what holds of w after it.
LEMMA EvaluatingStep ==
    ASSUME IInv, NEW w \in Workers,
           pc[w] = "evaluate", pc'[w] \in {"evaluate", "report"},
           \A v \in Workers \ {w} : pc'[v] = pc[v] /\ cw'[v] = cw[v] /\ result'[v] = result[v],
           UNCHANGED <<behaviour, limit, ctxDone, shared, cand, answer>>,
           pc'[w] = "evaluate" => /\ ~Done(cw'[w]) /\ ~cw'[w].limited
                                  /\ cw'[w].n <= behaviour[cand[w]].good
                                  /\ limit > 0 => cw'[w].n < limit,
           pc'[w] = "report" =>
               /\ IsMatch(result'[w]) => Verdict(cand[w]) = result'[w]
               /\ ~IsMatch(result'[w]) => Verdict(cand[w]) = "no" \/ ContextDone(cand[w])
    PROVE  Rest'
<1> USE DEF Held, shared
<1>1. \A v \in Workers : Held(v)' <=> Held(v)
  OBVIOUS
<1>2. HeldOK'
  BY <1>1 DEF IInv, HeldOK
<1>3. EvaluationOK'
  BY DEF IInv, EvaluationOK
<1>4. ResultOK'
  BY DEF IInv, ResultOK, Verdict, ContextDone
<1>5. WinnerOK' /\ OnlyBeatenCancelled'
  BY DEF IInv, WinnerOK, Verdict, OnlyBeatenCancelled
<1>6. NoneLost'
  BY <1>1 DEF IInv, NoneLost, Verdict
<1>7. LeftOK'
  BY DEF IInv, LeftOK, NothingToTake
<1> QED BY <1>2, <1>3, <1>4, <1>5, <1>6, <1>7 DEF Rest

LEMMA WriteStep == ASSUME IInv, NEW w \in Workers, Write(w) PROVE Rest'
<1> DEFINE b == behaviour[cand[w]]
           d == AfterWrite(cw[w], limit, Outcome(b, cw[w].n, RefLen))
           r == LimitedOr(d, WriteErr(d))
<1>1. /\ pc[w] = "evaluate" /\ HasWrite(b, cw[w].n) /\ cw' = [cw EXCEPT ![w] = d]
      /\ IF WriteErr(d) = "nil" THEN UNCHANGED <<pc, result>> ELSE Return(w, r)
      /\ UNCHANGED <<behaviour, limit, ctxDone, shared, cand, answer>>
  BY DEF Write
<1>2. /\ pc \in [Workers -> {"loop", "evaluate", "report", "done"}]
      /\ cw \in [Workers -> CompareType] /\ next \in 0 .. N
      /\ result \in [Workers -> {"none", "whole", "limited", "mismatch", "failure", "canceled"}]
      /\ behaviour \in [Cands -> AllBehaviours] /\ limit \in Nat
  BY DEF IInv, TypeOK
<1>3. cand[w] \in Cands
  BY <1>1, <1>2 DEF IInv, HeldOK, Held, Cands
<1>4. b \in AllBehaviours /\ cw[w] \in CompareType
  BY <1>2, <1>3
<1>5. ~Done(cw[w]) /\ ~cw[w].limited /\ cw[w].n <= b.good /\ (limit > 0 => cw[w].n < limit)
  BY <1>1 DEF IInv, EvaluationOK
<1>6. /\ WriteErr(d) = "nil" => /\ ~Done(d) /\ ~d.limited /\ d.n <= b.good
                                /\ limit > 0 => d.n < limit
      /\ WriteErr(d) # "nil" => /\ IsMatch(r) => VerdictUnder(b, limit, RefLen) = "limited"
                                /\ IsMatch(r) <=> r = "limited"
                                /\ ~IsMatch(r) => VerdictUnder(b, limit, RefLen) = "no"
  BY <1>1, <1>2, <1>4, <1>5, WriteFinds
<1> HIDE DEF d, r
<1>7. CASE WriteErr(d) = "nil"
  BY <1>1, <1>2, <1>6, <1>7, EvaluatingStep
<1>8. CASE WriteErr(d) # "nil"
  <2>1. pc' = [pc EXCEPT ![w] = "report"] /\ result' = [result EXCEPT ![w] = r]
    BY <1>1, <1>8 DEF Return
  <2>2. /\ IsMatch(result'[w]) => Verdict(cand[w]) = result'[w]
        /\ ~IsMatch(result'[w]) => Verdict(cand[w]) = "no"
    BY <1>2, <1>6, <1>8, <2>1 DEF Verdict
  <2> QED BY <1>1, <1>2, <2>1, <2>2, EvaluatingStep
<1> QED BY <1>7, <1>8

LEMMA InterruptedStep == ASSUME IInv, NEW w \in Workers, Interrupted(w) PROVE Rest'
<1>1. PICK e \in {"canceled", "failure"} : Return(w, e)
  BY DEF Interrupted
<1>2. /\ pc \in [Workers -> {"loop", "evaluate", "report", "done"}]
      /\ result \in [Workers -> {"none", "whole", "limited", "mismatch", "failure", "canceled"}]
  BY DEF IInv, TypeOK
<1>3. /\ pc' = [pc EXCEPT ![w] = "report"] /\ result' = [result EXCEPT ![w] = e]
      /\ pc[w] = "evaluate" /\ ContextDone(cand[w])
      /\ UNCHANGED <<behaviour, limit, ctxDone, shared, cand, cw, answer>>
  BY <1>1 DEF Interrupted, Return
<1>4. ~IsMatch(result'[w])
  BY <1>2, <1>3 DEF IsMatch
<1> QED BY <1>2, <1>3, <1>4, EvaluatingStep

LEMMA FinishStep == ASSUME IInv, NEW w \in Workers, Finish(w) PROVE Rest'
<1> DEFINE b == behaviour[cand[w]]
           e == IF b.then = "fails" THEN "failure" ELSE AtEOF(cw[w], RefLen)
           r == IF e = "nil" THEN "whole" ELSE e
<1>1. /\ pc[w] = "evaluate" /\ ~HasWrite(b, cw[w].n)
      /\ pc' = [pc EXCEPT ![w] = "report"] /\ result' = [result EXCEPT ![w] = r]
      /\ UNCHANGED <<behaviour, limit, ctxDone, shared, cand, cw, answer>>
  BY DEF Finish, Return
<1>2. /\ pc \in [Workers -> {"loop", "evaluate", "report", "done"}]
      /\ cw \in [Workers -> CompareType] /\ next \in 0 .. N
      /\ result \in [Workers -> {"none", "whole", "limited", "mismatch", "failure", "canceled"}]
      /\ behaviour \in [Cands -> AllBehaviours] /\ limit \in Nat
  BY DEF IInv, TypeOK
<1>3. cand[w] \in Cands
  BY <1>1, <1>2 DEF IInv, HeldOK, Held, Cands
<1>4. b \in AllBehaviours /\ cw[w] \in CompareType
  BY <1>2, <1>3
<1>5. ~Done(cw[w]) /\ cw[w].n <= b.good /\ (limit > 0 => cw[w].n < limit)
  BY <1>1 DEF IInv, EvaluationOK
<1>6. cw[w].n = b.good /\ b.good \in 0 .. RefLen /\ b.then \in {"stops", "fails"}
  BY <1>1, <1>4, <1>5 DEF HasWrite, CompareType, AllBehaviours
<1>7. VerdictUnder(b, limit, RefLen) # "limited"
  BY <1>2, <1>5, <1>6 DEF VerdictUnder
<1>8. (r = "whole" /\ VerdictUnder(b, limit, RefLen) = "whole") \/ (r \in {"mismatch", "failure"} /\ VerdictUnder(b, limit, RefLen) = "no")
  <2>1. CASE b.then = "fails"
    BY <1>7, <2>1 DEF VerdictUnder
  <2>2. CASE b.then = "stops"
    BY <1>5, <1>6, <1>7, <2>2 DEF VerdictUnder, AtEOF
  <2> QED BY <1>6, <2>1, <2>2
<1> HIDE DEF r
<1>9. /\ IsMatch(result'[w]) => Verdict(cand[w]) = result'[w]
      /\ ~IsMatch(result'[w]) => Verdict(cand[w]) = "no"
  BY <1>1, <1>2, <1>8 DEF Verdict, IsMatch
<1> QED BY <1>1, <1>2, <1>9, EvaluatingStep

\* A worker that reports lets go of its candidate.  The invariant survives
\* if the winner only ever moves to an earlier match, what is cancelled is
\* behind it, and the candidate let go, if it matches, is not before it.
LEMMA ReleaseStep ==
    ASSUME IInv, NEW w \in Workers, pc[w] = "report",
           pc' = [pc EXCEPT ![w] = "loop"], running' = running \ {cand[w]},
           UNCHANGED <<behaviour, limit, ctxDone, next, tried, cand, cw, result>>,
           winner' = winner \/ (winner' = cand[w] /\ (winner < 0 \/ winner' < winner)),
           WinnerOK',
           cancelled' \subseteq cancelled \cup {j \in running : j > winner'},
           cancelled' # cancelled => winner' = cand[w],
           cancelled \subseteq cancelled',
           ~ctxDone /\ Verdict(cand[w]) # "no" => 0 <= winner' /\ winner' <= cand[w]
    PROVE  Rest'
<1> USE DEF Held
<1>1. /\ pc \in [Workers -> {"loop", "evaluate", "report", "done"}]
      /\ next \in 0 .. N /\ winner \in -1 .. N-1 /\ running \subseteq Cands
      /\ cancelled \subseteq Cands
  BY DEF IInv, TypeOK
<1>2. /\ \A v \in Workers : v # w => (Held(v)' <=> Held(v)) /\ pc'[v] = pc[v]
      /\ ~Held(w)' /\ Held(w) /\ pc'[w] = "loop"
  BY <1>1
<1>3. /\ \A v \in Workers : Held(v) => cand[v] \in running /\ cand[v] \in 0 .. next - 1
      /\ \A u, v \in Workers : Held(u) /\ Held(v) /\ cand[u] = cand[v] => u = v
  BY DEF IInv, HeldOK
<1>4. winner' \in -1 .. N-1 /\ (winner >= 0 => 0 <= winner' /\ winner' <= winner)
  BY <1>1, <1>2, <1>3
<1>5. HeldOK'
  BY <1>2, <1>3 DEF HeldOK
<1>6. EvaluationOK'
  BY <1>2 DEF IInv, EvaluationOK
<1>7. ResultOK'
  BY <1>2 DEF IInv, ResultOK, Verdict, ContextDone
<1>8. OnlyBeatenCancelled'
  <2> SUFFICES ASSUME NEW i \in cancelled' PROVE 0 <= winner' /\ winner' < i
    BY DEF OnlyBeatenCancelled
  <2>1. CASE i \in cancelled
    BY <1>1, <1>4, <2>1 DEF IInv, OnlyBeatenCancelled, Cands
  <2>2. CASE i \notin cancelled
    BY <1>2, <1>3, <1>1, <2>2
  <2> QED BY <2>1, <2>2
<1>9. NoneLost'
  <2> SUFFICES ASSUME ~ctxDone, NEW i \in 0 .. next - 1, Verdict(i) # "no"
               PROVE  \/ \E v \in Workers : Held(v)' /\ cand[v] = i
                      \/ 0 <= winner' /\ winner' <= i
    BY DEF NoneLost, Verdict
  <2>1. CASE \E v \in Workers : Held(v) /\ cand[v] = i
    BY <1>2, <2>1
  <2>2. CASE 0 <= winner /\ winner <= i
    BY <1>1, <1>4, <2>2
  <2> QED BY <2>1, <2>2 DEF IInv, NoneLost
<1>10. LeftOK'
  BY <1>1, <1>2, <1>4 DEF IInv, LeftOK, NothingToTake
<1> QED BY <1>5, <1>6, <1>7, <1>8, <1>9, <1>10 DEF Rest

LEMMA AcceptStep == ASSUME IInv, NEW w \in Workers, Accept(w) PROVE Rest'
<1> DEFINE i == cand[w]
<1>1. /\ pc[w] = "report" /\ IsMatch(result[w]) /\ running' = running \ {i}
      /\ pc' = [pc EXCEPT ![w] = "loop"]
      /\ UNCHANGED <<behaviour, limit, ctxDone, next, tried, cand, cw, result>>
  BY DEF Accept
<1>2. Verdict(i) = result[w] /\ Verdict(i) # "no"
  BY <1>1 DEF IInv, ResultOK, IsMatch
<1>3. i \in 0 .. next - 1 /\ next \in 0 .. N /\ winner \in -1 .. N-1
  BY <1>1 DEF IInv, TypeOK, HeldOK, Held
<1>4. CASE winner < 0 \/ i < winner
  <2>1. winner' = i /\ cancelled' = cancelled \cup {j \in running : j > i}
    BY <1>4 DEF Accept, Wins, Beaten
  <2>2. verified' = (result[w] = "whole")
    BY <1>4 DEF Accept, Wins, Beaten
  <2>3. WinnerOK'
    BY <1>1, <1>2, <2>1, <2>2 DEF WinnerOK, Verdict
  <2>4. winner' = cand[w] /\ (winner < 0 \/ winner' < winner)
    BY <1>4, <2>1
  <2>5. 0 <= winner' /\ winner' <= cand[w]
    BY <1>3, <2>1
  <2>6. /\ cancelled' \subseteq cancelled \cup {j \in running : j > winner'}
        /\ cancelled \subseteq cancelled'
    BY <2>1
  <2> HIDE DEF i
  <2> QED BY <1>1, <2>3, <2>4, <2>5, <2>6, ReleaseStep DEF i
<1>5. CASE ~(winner < 0 \/ i < winner)
  <2>1. UNCHANGED <<winner, verified, cancelled>>
    BY <1>5 DEF Accept, Wins
  <2>2. WinnerOK'
    BY <1>1, <2>1 DEF IInv, WinnerOK, Verdict
  <2>3. 0 <= winner' /\ winner' <= cand[w]
    BY <1>3, <1>5, <2>1
  <2> QED BY <1>1, <2>1, <2>2, <2>3, ReleaseStep
<1> QED BY <1>4, <1>5

LEMMA RejectStep == ASSUME IInv, NEW w \in Workers, Reject(w) PROVE Rest'
<1>1. /\ pc[w] = "report" /\ ~IsMatch(result[w]) /\ running' = running \ {cand[w]}
      /\ pc' = [pc EXCEPT ![w] = "loop"]
      /\ UNCHANGED <<behaviour, limit, ctxDone, next, tried, cand, cw, result, winner, verified, cancelled>>
  BY DEF Reject
<1>2. Verdict(cand[w]) = "no" \/ ContextDone(cand[w])
  BY <1>1 DEF IInv, ResultOK
<1>3. cand[w] \in Cands /\ winner \in -1 .. N-1
  BY <1>1 DEF IInv, TypeOK, HeldOK, Held, Cands
<1>4. ~ctxDone /\ Verdict(cand[w]) # "no" => 0 <= winner' /\ winner' <= cand[w]
  BY <1>1, <1>2, <1>3 DEF ContextDone, IInv, OnlyBeatenCancelled, Cands
<1>5. WinnerOK'
  BY <1>1 DEF IInv, WinnerOK, Verdict
<1> QED BY <1>1, <1>4, <1>5, ReleaseStep

\* IInv is inductive.
LEMMA NextIInv == IInv /\ [Next]_vars => IInv'
<1> SUFFICES ASSUME IInv, [Next]_vars PROVE Rest'
  BY TypeStep DEF IInv, Rest
<1>1. ASSUME NEW w \in Workers, Step(w) PROVE Rest'
  BY <1>1, LeaveStep, TakeStep, WriteStep, InterruptedStep, FinishStep, AcceptStep, RejectStep
  DEF Step
<1>2. ASSUME UNCHANGED <<behaviour, limit, shared, worker>>, ctxDone' = ctxDone \/ ctxDone' = TRUE
      PROVE  Rest'
  <2> USE <1>2 DEF shared, worker, Held, Verdict
  <2>1. HeldOK' /\ EvaluationOK'
    BY DEF IInv, HeldOK, EvaluationOK
  <2>2. ResultOK'
    BY DEF IInv, ResultOK, ContextDone
  <2>3. WinnerOK' /\ OnlyBeatenCancelled'
    BY DEF IInv, WinnerOK, OnlyBeatenCancelled
  <2>4. NoneLost'
    BY DEF IInv, NoneLost
  <2>5. LeftOK'
    BY DEF IInv, LeftOK, NothingToTake
  <2> QED BY <2>1, <2>2, <2>3, <2>4, <2>5 DEF Rest
<1>3. ReturnAnswer => Rest'
  BY <1>2 DEF ReturnAnswer
<1>4. Cancel => Rest'
  BY <1>2 DEF Cancel
<1>5. UNCHANGED vars => Rest'
  BY <1>2 DEF vars
<1> QED BY <1>1, <1>3, <1>4, <1>5 DEF Next

-----------------------------------------------------------------------------
\* The variables of Run keep their types.
THEOREM TypeCorrect == Spec => []TypeOK
BY InitIInv, NextIInv, PTL DEF Spec, IInv

\* Run only ever cancels a candidate that an earlier match has beaten.
THEOREM CancelsOnlyBeaten == Spec => []OnlyBeatenCancelled
BY InitIInv, NextIInv, PTL DEF Spec, IInv

\* The initial states of Run are initial states of Search.
LEMMA InitRefines == Init => Srch!Init
BY VerdictType DEF Init, Srch!Init, Srch!Cands, Srch!Verdicts, Cands

\* What Run returns is an answer Search may give.
LEMMA AnswerRefines == ASSUME IInv, ReturnAnswer PROVE Srch!Answer
<1> DEFINE v == [i \in Cands |-> VerdictUnder(behaviour[i], limit, RefLen)]
<1>1. /\ answer = Srch!Pending /\ \A w \in Workers : pc[w] = "done"
      /\ answer' = IF ctxDone THEN Srch!CtxErr
                   ELSE IF winner < 0 THEN Srch!NoMatch ELSE Srch!Match(winner, verified)
      /\ UNCHANGED <<behaviour, limit, ctxDone>>
  BY DEF ReturnAnswer, Joined
<1>2. next \in 0 .. N /\ winner \in -1 .. N-1 /\ NothingToTake
  BY <1>1, PoolNotEmpty DEF IInv, TypeOK, LeftOK
<1>3. CASE ctxDone
  BY <1>1, <1>3 DEF Srch!Answer
<1>4. CASE ~ctxDone
  <2>1. \A i \in 0 .. next - 1 : v[i] # "no" => 0 <= winner /\ winner <= i
    BY <1>1, <1>2, <1>4 DEF IInv, NoneLost, Held, Verdict, Cands
  <2>2. \A i \in Cands : v[i] # "no" => 0 <= winner /\ winner <= i
    <3> HIDE DEF v
    <3>1. CASE next >= N
      BY <1>2, <2>1, <3>1 DEF Cands
    <3>2. CASE winner >= 0 /\ next > winner
      BY <1>2, <2>1, <3>2 DEF Cands
    <3> QED BY <1>2, <1>4, <3>1, <3>2 DEF NothingToTake
  <2>3. answer' \in Srch!Answers(v, Cands)
    <3>1. CASE winner < 0
      BY <1>1, <1>2, <1>4, <2>2, <3>1 DEF Srch!Answers
    <3>2. CASE winner >= 0
      <4>1. winner \in Cands /\ v[winner] # "no" /\ verified = (v[winner] = "whole")
        BY <1>2, <3>2 DEF IInv, WinnerOK, Verdict, Cands
      <4>2. Srch!Earliest(winner, v, Cands)
        BY <2>2, <4>1 DEF Srch!Earliest
      <4>3. answer' = Srch!Match(winner, v[winner] = "whole")
        <5>1. answer' = Srch!Match(winner, verified)
          BY <1>1, <1>2, <1>4, <3>2
        <5> QED BY <4>1, <5>1, Zenon
      <4> QED BY <4>1, <4>2, <4>3 DEF Srch!Answers
    <3> QED BY <1>2, <3>1, <3>2
  <2> QED BY <1>1, <1>4, <2>3 DEF Srch!Answer, Srch!Cands, Cands
<1> QED BY <1>3, <1>4

\* Run implements Search: for every list of candidates, whatever order the
\* workers run and report in, it returns the earliest match in list order,
\* or ErrNoMatch when there is none, or the context's error.
THEOREM RunImplementsSearch == Spec => Refines
<1>1. IInv /\ [Next]_vars => [Srch!Next]_(Srch!vars)
  <2> SUFFICES ASSUME IInv, [Next]_vars PROVE [Srch!Next]_(Srch!vars)
    OBVIOUS
  <2> USE DEF Srch!vars
  <2>1. ASSUME NEW w \in Workers, Step(w) PROVE UNCHANGED <<behaviour, limit, ctxDone, answer>>
    BY <2>1 DEF Step, Leave, Take, Write, Interrupted, Finish, Accept, Reject
  <2>2. ASSUME UNCHANGED <<behaviour, limit, ctxDone, answer>> PROVE UNCHANGED Srch!vars
    BY <2>2
  <2>3. ReturnAnswer => Srch!Next
    BY AnswerRefines DEF Srch!Next
  <2>4. Cancel => Srch!Next
    BY DEF Cancel, Srch!Next, Srch!Cancel
  <2>5. UNCHANGED vars => UNCHANGED Srch!vars
    BY DEF vars
  <2> QED BY <2>1, <2>2, <2>3, <2>4, <2>5 DEF Next
<1> QED BY <1>1, InitIInv, InitRefines, NextIInv, PTL DEF Spec, Refines, Srch!Spec

-----------------------------------------------------------------------------
(***************************************************************************)
(* What ErrNoMatch says about the list is true.  IInv says what a worker   *)
(* knows of a candidate's verdict; the error that is quoted needs more:    *)
(* which rejected candidates failed of their own accord.  That is known    *)
(* only of those nobody cancelled, and nobody is cancelled while there is  *)
(* no winner.                                                              *)
(***************************************************************************)

\* A candidate whose evaluation ends in an error that is not a mismatch.
Fails(i) == behaviour[i].then \in {"fails", "unreadable"}

\* Whoever is running is held by a worker.
RunningOK == \A i \in running : \E w \in Workers : Held(w) /\ cand[w] = i

\* A rejection nobody caused tells a failure from a mismatch.
FailureOK == \A w \in Workers : pc[w] = "report" /\ ~IsMatch(result[w]) =>
    ContextDone(cand[w]) \/ (result[w] = "failure" <=> Fails(cand[w]))

\* The failure kept is one, and there is one if a candidate failed that is no
\* longer running.
QuotedOK == ~ctxDone /\ winner < 0 =>
    /\ firstErr >= 0 => Fails(firstErr)
    /\ firstErr < 0 => \A i \in 0 .. next - 1 :
                          Fails(i) => \E w \in Workers : Held(w) /\ cand[w] = i

\* ErrNoMatch is the last thing that happens.
AnsweredOK == answer = Srch!NoMatch => Joined /\ ~ctxDone /\ winner < 0

Accounts == RunningOK /\ FailureOK /\ QuotedOK /\ AnsweredOK

JInv == IInv /\ Accounts

-----------------------------------------------------------------------------
\* Nothing is running at the start.
LEMMA InitAccounts == Init => Accounts
BY DEF Init, Accounts, RunningOK, FailureOK, QuotedOK, AnsweredOK, Held,
       Srch!Pending, Srch!NoMatch

\* A write that ends an evaluation without a match read a bad reference
\* exactly if it returns a failure.
LEMMA WriteFails ==
    ASSUME limit \in Nat, NEW b \in AllBehaviours, NEW c \in CompareType,
           ~Done(c), ~c.limited, c.n <= b.good, HasWrite(b, c.n),
           NEW d, d = AfterWrite(c, limit, Outcome(b, c.n, RefLen)),
           WriteErr(d) # "nil", ~IsMatch(LimitedOr(d, WriteErr(d)))
    PROVE  LimitedOr(d, WriteErr(d)) = "failure" <=> b.then \in {"fails", "unreadable"}
<1>1. CASE c.n < b.good
  <2>1. ~Done(d)
    BY <1>1 DEF AfterWrite, Outcome, Done
  <2>2. WriteErr(d) # "nil" => d.limited
    BY <2>1 DEF WriteErr
  <2> QED BY <2>2 DEF LimitedOr, IsMatch
<1>2. CASE ~(c.n < b.good)
  <2>1. b.then \in {"differs", "unreadable"}
    BY <1>2 DEF HasWrite
  <2>2. Outcome(b, c.n, RefLen) # "equal" /\ (Outcome(b, c.n, RefLen) = "unreadable" <=> b.then = "unreadable")
    BY <1>2, <2>1 DEF Outcome
  <2>3. d.limited = FALSE /\ d.err = IF b.then = "unreadable" THEN "failure" ELSE "mismatch"
    BY <2>2 DEF AfterWrite
  <2>4. LimitedOr(d, WriteErr(d)) = d.err
    BY <2>3 DEF LimitedOr, WriteErr, Done
  <2> QED BY <2>1, <2>3, <2>4
<1> QED BY <1>1, <1>2

-----------------------------------------------------------------------------
\* While a worker can still take a step, nothing has been answered.
LEMMA Unanswered ==
    ASSUME Accounts, NEW w \in Workers, pc[w] # "done"
    PROVE  answer # Srch!NoMatch
BY DEF Accounts, AnsweredOK, Joined

\* A step of w's evaluation touches only w's own record.
LEMMA EvaluatingAccounts ==
    ASSUME Accounts, NEW w \in Workers,
           pc[w] = "evaluate", pc'[w] \in {"evaluate", "report"},
           \A v \in Workers \ {w} : pc'[v] = pc[v] /\ result'[v] = result[v],
           UNCHANGED <<behaviour, limit, ctxDone, shared, cand, answer>>,
           pc'[w] = "report" /\ ~IsMatch(result'[w]) =>
               ContextDone(cand[w]) \/ (result'[w] = "failure" <=> Fails(cand[w]))
    PROVE  Accounts'
<1> USE DEF Held, shared
<1>1. \A v \in Workers : Held(v)' <=> Held(v)
  OBVIOUS
<1>2. RunningOK'
  BY <1>1 DEF Accounts, RunningOK
<1>3. FailureOK'
  BY DEF Accounts, FailureOK, ContextDone, Fails
<1>4. QuotedOK'
  BY <1>1 DEF Accounts, QuotedOK, Fails
<1>5. AnsweredOK'
  BY Unanswered DEF AnsweredOK
<1> QED BY <1>2, <1>3, <1>4, <1>5 DEF Accounts

LEMMA WriteAccounts == ASSUME JInv, NEW w \in Workers, Write(w) PROVE Accounts'
<1> DEFINE b == behaviour[cand[w]]
           d == AfterWrite(cw[w], limit, Outcome(b, cw[w].n, RefLen))
           r == LimitedOr(d, WriteErr(d))
<1>1. /\ pc[w] = "evaluate" /\ HasWrite(b, cw[w].n)
      /\ IF WriteErr(d) = "nil" THEN UNCHANGED <<pc, result>> ELSE Return(w, r)
      /\ UNCHANGED <<behaviour, limit, ctxDone, shared, cand, answer>>
  BY DEF Write
<1>2. /\ pc \in [Workers -> {"loop", "evaluate", "report", "done"}]
      /\ cw \in [Workers -> CompareType] /\ next \in 0 .. N
      /\ result \in [Workers -> {"none", "whole", "limited", "mismatch", "failure", "canceled"}]
      /\ behaviour \in [Cands -> AllBehaviours] /\ limit \in Nat
  BY DEF JInv, IInv, TypeOK
<1>3. cand[w] \in Cands
  BY <1>1, <1>2 DEF JInv, IInv, HeldOK, Held, Cands
<1>4. b \in AllBehaviours /\ cw[w] \in CompareType
  BY <1>2, <1>3
<1>5. ~Done(cw[w]) /\ ~cw[w].limited /\ cw[w].n <= b.good
  BY <1>1 DEF JInv, IInv, EvaluationOK
<1>6. WriteErr(d) # "nil" /\ ~IsMatch(r) => (r = "failure" <=> Fails(cand[w]))
  BY <1>1, <1>2, <1>4, <1>5, WriteFails DEF Fails
<1> HIDE DEF d, r
<1>7. CASE WriteErr(d) = "nil"
  BY <1>1, <1>7, EvaluatingAccounts DEF JInv
<1>8. CASE WriteErr(d) # "nil"
  <2>1. pc' = [pc EXCEPT ![w] = "report"] /\ result' = [result EXCEPT ![w] = r]
    BY <1>1, <1>8 DEF Return
  <2>2. ~IsMatch(result'[w]) => (result'[w] = "failure" <=> Fails(cand[w]))
    BY <1>2, <1>6, <1>8, <2>1
  <2> QED BY <1>1, <1>2, <2>1, <2>2, EvaluatingAccounts DEF JInv
<1> QED BY <1>7, <1>8

LEMMA InterruptedAccounts == ASSUME JInv, NEW w \in Workers, Interrupted(w) PROVE Accounts'
<1>1. PICK e \in {"canceled", "failure"} : Return(w, e)
  BY DEF Interrupted
<1>2. /\ pc \in [Workers -> {"loop", "evaluate", "report", "done"}]
      /\ result \in [Workers -> {"none", "whole", "limited", "mismatch", "failure", "canceled"}]
  BY DEF JInv, IInv, TypeOK
<1>3. /\ pc' = [pc EXCEPT ![w] = "report"] /\ result' = [result EXCEPT ![w] = e]
      /\ pc[w] = "evaluate" /\ ContextDone(cand[w])
      /\ UNCHANGED <<behaviour, limit, ctxDone, shared, cand, answer>>
  BY <1>1 DEF Interrupted, Return
<1> QED BY <1>2, <1>3, EvaluatingAccounts DEF JInv

LEMMA FinishAccounts == ASSUME JInv, NEW w \in Workers, Finish(w) PROVE Accounts'
<1> DEFINE b == behaviour[cand[w]]
           e == IF b.then = "fails" THEN "failure" ELSE AtEOF(cw[w], RefLen)
           r == IF e = "nil" THEN "whole" ELSE e
<1>1. /\ pc[w] = "evaluate" /\ ~HasWrite(b, cw[w].n)
      /\ pc' = [pc EXCEPT ![w] = "report"] /\ result' = [result EXCEPT ![w] = r]
      /\ UNCHANGED <<behaviour, limit, ctxDone, shared, cand, answer>>
  BY DEF Finish, Return
<1>2. /\ pc \in [Workers -> {"loop", "evaluate", "report", "done"}]
      /\ next \in 0 .. N /\ behaviour \in [Cands -> AllBehaviours]
      /\ result \in [Workers -> {"none", "whole", "limited", "mismatch", "failure", "canceled"}]
  BY DEF JInv, IInv, TypeOK
<1>3. b \in AllBehaviours
  BY <1>1, <1>2 DEF JInv, IInv, HeldOK, Held, Cands
<1>4. b.then \in {"stops", "fails"} /\ ~Done(cw[w])
  BY <1>1, <1>3 DEF HasWrite, AllBehaviours, JInv, IInv, EvaluationOK
<1>5. r = "failure" <=> b.then \in {"fails", "unreadable"}
  BY <1>4 DEF AtEOF
<1> HIDE DEF r
<1>6. result'[w] = "failure" <=> Fails(cand[w])
  BY <1>1, <1>2, <1>5 DEF Fails
<1> QED BY <1>1, <1>2, <1>6, EvaluatingAccounts DEF JInv

-----------------------------------------------------------------------------
LEMMA LeaveAccounts == ASSUME JInv, NEW w \in Workers, Leave(w) PROVE Accounts'
<1>1. /\ pc[w] = "loop" /\ pc' = [pc EXCEPT ![w] = "done"]
      /\ UNCHANGED <<behaviour, limit, ctxDone, shared, cand, result, answer>>
  BY DEF Leave
<1>2. pc \in [Workers -> {"loop", "evaluate", "report", "done"}]
  BY DEF JInv, IInv, TypeOK
<1>3. \A v \in Workers : (Held(v)' <=> Held(v)) /\ (pc'[v] = "report" <=> pc[v] = "report")
  BY <1>1, <1>2 DEF Held
<1>4. RunningOK'
  BY <1>1, <1>3 DEF shared, JInv, Accounts, RunningOK
<1>5. FailureOK'
  BY <1>1, <1>3 DEF shared, JInv, Accounts, FailureOK, ContextDone, Fails
<1>6. QuotedOK'
  BY <1>1, <1>3 DEF shared, JInv, Accounts, QuotedOK, Fails
<1>7. AnsweredOK'
  BY <1>1, Unanswered DEF JInv, AnsweredOK
<1> QED BY <1>4, <1>5, <1>6, <1>7 DEF Accounts

LEMMA TakeAccounts == ASSUME JInv, NEW w \in Workers, Take(w) PROVE Accounts'
<1>1. /\ pc[w] = "loop" /\ pc' = [pc EXCEPT ![w] = "evaluate"]
      /\ cand' = [cand EXCEPT ![w] = next] /\ result' = [result EXCEPT ![w] = "none"]
      /\ running' = running \cup {next} /\ next' = next + 1
      /\ UNCHANGED <<behaviour, limit, ctxDone, winner, firstErr, cancelled, answer>>
  BY DEF Take
<1>2. /\ pc \in [Workers -> {"loop", "evaluate", "report", "done"}]
      /\ cand \in [Workers -> -1 .. N-1] /\ next \in 0 .. N
      /\ result \in [Workers -> {"none", "whole", "limited", "mismatch", "failure", "canceled"}]
  BY DEF JInv, IInv, TypeOK
<1>3. /\ Held(w)' /\ cand'[w] = next /\ ~Held(w) /\ pc'[w] = "evaluate"
      /\ \A v \in Workers \ {w} : /\ Held(v)' <=> Held(v)
                                  /\ pc'[v] = pc[v] /\ cand'[v] = cand[v] /\ result'[v] = result[v]
  BY <1>1, <1>2 DEF Held
<1>4. RunningOK'
  BY <1>1, <1>3 DEF JInv, Accounts, RunningOK
<1>5. FailureOK'
  BY <1>1, <1>3 DEF JInv, Accounts, FailureOK, ContextDone, Fails
<1>6. QuotedOK'
  <2> SUFFICES ASSUME ~ctxDone, winner < 0
               PROVE  /\ firstErr >= 0 => Fails(firstErr)
                      /\ firstErr < 0 => \A i \in 0 .. next : Fails(i) =>
                                            \E v \in Workers : Held(v)' /\ cand'[v] = i
    BY <1>1, <1>2 DEF QuotedOK, Fails
  <2>1. ASSUME firstErr < 0, NEW i \in 0 .. next, Fails(i)
        PROVE  \E v \in Workers : Held(v)' /\ cand'[v] = i
    <3>1. CASE i = next
      BY <1>3, <3>1
    <3>2. CASE i \in 0 .. next - 1
      <4>1. PICK v \in Workers : Held(v) /\ cand[v] = i
        BY <2>1, <3>2 DEF JInv, Accounts, QuotedOK
      <4> QED BY <1>3, <4>1
    <3> QED BY <1>2, <3>1, <3>2
  <2>2. firstErr >= 0 => Fails(firstErr)
    BY DEF JInv, Accounts, QuotedOK
  <2> QED BY <2>1, <2>2
<1>7. AnsweredOK'
  BY <1>1, Unanswered DEF JInv, AnsweredOK
<1> QED BY <1>4, <1>5, <1>6, <1>7 DEF Accounts

-----------------------------------------------------------------------------
\* What a report does to running and FailureOK is the same either way.
LEMMA ReleaseAccounts ==
    ASSUME JInv, NEW w \in Workers, pc[w] = "report",
           pc' = [pc EXCEPT ![w] = "loop"], running' = running \ {cand[w]},
           cancelled \subseteq cancelled',
           UNCHANGED <<behaviour, limit, ctxDone, cand, result, answer>>
    PROVE  /\ RunningOK' /\ FailureOK' /\ AnsweredOK'
           /\ \A v \in Workers \ {w} : Held(v)' <=> Held(v)
<1>1. pc \in [Workers -> {"loop", "evaluate", "report", "done"}]
  BY DEF JInv, IInv, TypeOK
<1>2. \A v \in Workers \ {w} : (Held(v)' <=> Held(v)) /\ pc'[v] = pc[v]
  BY <1>1 DEF Held
<1>3. RunningOK'
  <2> SUFFICES ASSUME NEW i \in running, i # cand[w]
               PROVE  \E v \in Workers : Held(v)' /\ cand[v] = i
    BY DEF RunningOK
  <2>1. PICK v \in Workers : Held(v) /\ cand[v] = i
    BY DEF JInv, Accounts, RunningOK
  <2> QED BY <1>2, <2>1
<1>4. FailureOK'
  <2>1. pc'[w] = "loop"
    BY <1>1
  <2> QED BY <1>2, <2>1 DEF JInv, Accounts, FailureOK, ContextDone, Fails
<1>5. AnsweredOK'
  BY Unanswered DEF JInv, AnsweredOK
<1> QED BY <1>2, <1>3, <1>4, <1>5

LEMMA AcceptAccounts == ASSUME JInv, NEW w \in Workers, Accept(w) PROVE Accounts'
<1>1. /\ pc[w] = "report" /\ pc' = [pc EXCEPT ![w] = "loop"] /\ running' = running \ {cand[w]}
      /\ UNCHANGED <<behaviour, limit, ctxDone, next, cand, result, answer, firstErr>>
  BY DEF Accept
<1>2. cancelled \subseteq cancelled'
  BY DEF Accept
<1>3. cand[w] >= 0 /\ winner \in -1 .. N-1 /\ cand[w] \in Int
  BY <1>1 DEF JInv, IInv, TypeOK, HeldOK, Held
<1>4. winner' >= 0 /\ winner' \in Int
  BY <1>3 DEF Accept, Wins
<1>5. QuotedOK'
  BY <1>3, <1>4 DEF QuotedOK
<1> QED BY <1>1, <1>2, <1>5, ReleaseAccounts DEF Accounts

LEMMA RejectAccounts == ASSUME JInv, NEW w \in Workers, Reject(w) PROVE Accounts'
<1>1. /\ pc[w] = "report" /\ ~IsMatch(result[w])
      /\ pc' = [pc EXCEPT ![w] = "loop"] /\ running' = running \ {cand[w]}
      /\ firstErr' = IF result[w] = "failure" /\ firstErr < 0 THEN cand[w] ELSE firstErr
      /\ UNCHANGED <<behaviour, limit, ctxDone, next, winner, cancelled, cand, result, answer>>
  BY DEF Reject
<1>2. /\ RunningOK' /\ FailureOK' /\ AnsweredOK'
      /\ \A v \in Workers \ {w} : Held(v)' <=> Held(v)
  BY <1>1, ReleaseAccounts
<1>3. cand[w] \in Nat /\ next \in Nat /\ winner \in Int /\ firstErr \in Int
  BY <1>1 DEF JInv, IInv, TypeOK, HeldOK, Held
<1>4. QuotedOK'
  <2> SUFFICES ASSUME ~ctxDone, winner < 0
               PROVE  /\ firstErr' >= 0 => Fails(firstErr')
                      /\ firstErr' < 0 => \A i \in 0 .. next - 1 : Fails(i) =>
                                             \E v \in Workers : Held(v)' /\ cand[v] = i
    BY <1>1 DEF QuotedOK, Fails
  <2>1. ~ContextDone(cand[w])
    BY <1>3 DEF ContextDone, JInv, IInv, OnlyBeatenCancelled
  <2>2. result[w] = "failure" <=> Fails(cand[w])
    BY <1>1, <2>1 DEF JInv, Accounts, FailureOK
  <2>3. firstErr >= 0 => Fails(firstErr)
    BY DEF JInv, Accounts, QuotedOK
  <2>4. ASSUME firstErr' < 0, NEW i \in 0 .. next - 1, Fails(i)
        PROVE  \E v \in Workers : Held(v)' /\ cand[v] = i
    <3>1. firstErr < 0 /\ ~Fails(cand[w])
      BY <1>1, <1>3, <2>2, <2>4
    <3>2. PICK v \in Workers : Held(v) /\ cand[v] = i
      BY <2>4, <3>1 DEF JInv, Accounts, QuotedOK
    <3> QED BY <1>2, <2>4, <3>1, <3>2
  <2>5. firstErr' >= 0 => Fails(firstErr')
    BY <1>1, <1>3, <2>2, <2>3
  <2> QED BY <2>4, <2>5
<1> QED BY <1>2, <1>4 DEF Accounts

\* JInv is inductive.
LEMMA NextAccounts == JInv /\ [Next]_vars => JInv'
<1> SUFFICES ASSUME JInv, [Next]_vars PROVE Accounts'
  BY NextIInv DEF JInv
<1>1. ASSUME NEW w \in Workers, Step(w) PROVE Accounts'
  BY <1>1, LeaveAccounts, TakeAccounts, WriteAccounts, InterruptedAccounts, FinishAccounts,
     AcceptAccounts, RejectAccounts DEF Step
<1>2. ASSUME UNCHANGED <<behaviour, limit, shared, worker>>, ctxDone' = ctxDone \/ ctxDone' = TRUE,
             AnsweredOK'
      PROVE  Accounts'
  <2> USE <1>2 DEF shared, worker, Held, Fails, JInv, Accounts
  <2>1. RunningOK'
    BY DEF RunningOK
  <2>2. FailureOK'
    BY DEF FailureOK, ContextDone
  <2>3. QuotedOK'
    BY DEF QuotedOK
  <2> QED BY <2>1, <2>2, <2>3
<1>3. ASSUME ReturnAnswer PROVE Accounts'
  <2>1. /\ Joined /\ UNCHANGED <<behaviour, limit, ctxDone, shared, worker>>
        /\ answer' = IF ctxDone THEN Srch!CtxErr
                     ELSE IF winner < 0 THEN Srch!NoMatch ELSE Srch!Match(winner, verified)
    BY <1>3 DEF ReturnAnswer
  <2>2. answer' = Srch!NoMatch => ~ctxDone /\ winner < 0
    BY <2>1 DEF Srch!CtxErr, Srch!NoMatch, Srch!Match
  <2>3. AnsweredOK'
    BY <2>1, <2>2 DEF AnsweredOK, Joined, shared, worker
  <2> QED BY <1>2, <2>1, <2>3
<1>4. ASSUME Cancel PROVE Accounts'
  <2>1. AnsweredOK'
    BY <1>4 DEF Cancel, AnsweredOK, Srch!Pending, Srch!NoMatch
  <2> QED BY <1>2, <1>4, <2>1 DEF Cancel
<1>5. ASSUME UNCHANGED vars PROVE Accounts'
  <2>1. AnsweredOK'
    BY <1>5 DEF vars, shared, worker, JInv, Accounts, AnsweredOK, Joined
  <2> QED BY <1>2, <1>5, <2>1 DEF vars
<1> QED BY <1>1, <1>3, <1>4, <1>5 DEF Next

\* In a state of JInv, a list without a match has been tried to its end.
LEMMA AccountsComplete == JInv => NoMatchIsComplete
<1> SUFFICES ASSUME JInv, answer = Srch!NoMatch
             PROVE  /\ next = N /\ tried = N /\ running = {} /\ cancelled = {}
                    /\ firstErr >= 0 => Fails(firstErr)
                    /\ firstErr < 0 => \A i \in Cands : ~Fails(i)
  BY DEF NoMatchIsComplete, Fails
<1>1. Joined /\ ~ctxDone /\ winner < 0
  BY DEF JInv, Accounts, AnsweredOK
<1>2. next \in 0 .. N /\ winner \in Int /\ firstErr \in Int /\ tried = next
  BY DEF JInv, IInv, TypeOK
<1>3. \A w \in Workers : ~Held(w)
  BY <1>1 DEF Joined, Held
<1>4. next = N
  BY <1>1, <1>2, PoolNotEmpty DEF Joined, JInv, IInv, LeftOK, NothingToTake
<1>5. running = {}
  BY <1>3 DEF JInv, Accounts, RunningOK
<1>6. cancelled = {}
  BY <1>1, <1>2 DEF JInv, IInv, OnlyBeatenCancelled
<1>7. /\ firstErr >= 0 => Fails(firstErr)
      /\ firstErr < 0 => \A i \in Cands : ~Fails(i)
  BY <1>1, <1>3, <1>4 DEF JInv, Accounts, QuotedOK, Cands
<1> QED BY <1>2, <1>4, <1>5, <1>6, <1>7

\* "tried N candidates" is the whole list, none of them cut short, and the
\* error quoted is a candidate's own, if one had any.
THEOREM NoMatchComplete == Spec => []NoMatchIsComplete
<1>1. Init => JInv
  BY InitIInv, InitAccounts DEF JInv
<1> QED BY <1>1, NextAccounts, AccountsComplete, PTL DEF Spec
==============================================================================
