--------------------------------- MODULE Run ---------------------------------
(***************************************************************************)
(* search.Run (search/run.go): candidates are handed out in list order to  *)
(* a pool of workers; each evaluates its candidate against the reference   *)
(* and reports under the mutex; a match cancels the later candidates still *)
(* running.  The result is to be the earliest match in list order whatever *)
(* order the workers report in: see Refines.                               *)
(*                                                                         *)
(* A critical section of Run's mutex is one action.  An evaluation is one  *)
(* action per write of the candidate's output, because each write looks at *)
(* the context again.                                                      *)
(*                                                                         *)
(* A definition named X_Bug is X with a bug one could plausibly write into *)
(* the code; a property of the runs is seen to fail with it in X's place   *)
(* (PROJECT.json pairs them).  Specifications never use one.               *)
(***************************************************************************)
EXTENDS Integers, FiniteSets, Compare

CONSTANTS
    N,            \* len(cands); candidates are 0 .. N-1, in list order
    Parallelism,  \* the parallelism argument
    Concurrent,   \* Input.Concurrent
    RefLen,       \* the length of the reference, in writes
    Cases         \* VerifyLimits and what candidates may do under each

\* See Compare.  A candidate whose engine cannot be opened, or whose
\* reference cannot, fails with good = 0.
AllBehaviours == [good : 0 .. RefLen,
                  then : {"stops", "differs", "unreadable", "fails"}]

ASSUME RunAssumption ==
    /\ N \in Nat \ {0}   \* Eliminate, the only caller, returns on an empty list itself
    /\ Parallelism \in Int /\ Concurrent \in BOOLEAN
    /\ RefLen \in Nat
    /\ Cases \subseteq [limit : Nat, behaviours : SUBSET AllBehaviours]

VARIABLES
    behaviour,   \* what each candidate does when evaluated
    limit,       \* Input.VerifyLimit, in writes; 0 for none
    ctxDone,     \* the caller's context is done
    next, winner, verified, tried, running, firstErr,   \* Run's locals
    cancelled,   \* candidates whose own context Run has cancelled
    pc,          \* each worker: "loop", "evaluate", "report" or "done"
    cand,        \* the candidate each worker holds
    cw,          \* the Compare each worker writes to
    result,      \* what each worker's evaluate returned
    answer       \* what Run returned

shared == <<next, winner, verified, tried, running, firstErr, cancelled>>
worker == <<pc, cand, cw, result>>
vars == <<behaviour, limit, ctxDone, shared, worker, answer>>

Cands == 0 .. N-1

PoolSize == LET p == IF Parallelism < 1 \/ ~Concurrent THEN 1 ELSE Parallelism
            IN  IF p > N THEN N ELSE p
Workers == 1 .. PoolSize

Srch == INSTANCE Search WITH verdict <- [i \in Cands |-> VerdictUnder(behaviour[i], limit, RefLen)]

Init == /\ \E c \in Cases : limit = c.limit /\ behaviour \in [Cands -> c.behaviours]
        /\ ctxDone = FALSE
        /\ next = 0 /\ winner = -1 /\ verified = FALSE /\ tried = 0
        /\ running = {} /\ firstErr = -1 /\ cancelled = {}
        /\ pc = [w \in Workers |-> "loop"]
        /\ cand = [w \in Workers |-> -1]
        /\ cw = [w \in Workers |-> NewCompare]
        /\ result = [w \in Workers |-> "none"]
        /\ answer = Srch!Pending

-----------------------------------------------------------------------------
(* The top of a worker's loop, under mu.                                   *)

\* Bug: there need not be a winner yet.
NothingToTake_NoWinner == ctxDone \/ next >= N \/ next > winner

NothingToTake == ctxDone \/ next >= N \/ (winner >= 0 /\ next > winner)

Leave(w) == /\ pc[w] = "loop" /\ NothingToTake
            /\ pc' = [pc EXCEPT ![w] = "done"]
            /\ UNCHANGED <<behaviour, limit, ctxDone, shared, cand, cw, result, answer>>

Take(w) == /\ pc[w] = "loop" /\ ~NothingToTake
           /\ cand' = [cand EXCEPT ![w] = next]
           /\ cw' = [cw EXCEPT ![w] = NewCompare]
           /\ result' = [result EXCEPT ![w] = "none"]
           /\ running' = running \cup {next}
           /\ next' = next + 1
           /\ tried' = tried + 1
           /\ pc' = [pc EXCEPT ![w] = "evaluate"]
           /\ UNCHANGED <<behaviour, limit, ctxDone, winner, verified, firstErr, cancelled, answer>>

-----------------------------------------------------------------------------
(* evaluate, outside the lock.  The context a candidate runs under is      *)
(* cancelled by the caller's or by Run.                                    *)

ContextDone(i) == ctxDone \/ i \in cancelled

\* limitedOr: a candidate stopped at the limit is a match however its
\* engine reported the stop.
LimitedOr(c, err) == IF c.limited THEN "limited" ELSE err

Return(w, r) == /\ result' = [result EXCEPT ![w] = r]
                /\ pc' = [pc EXCEPT ![w] = "report"]

\* One write of the candidate's output into Compare.  An error ends the
\* evaluation: the engine returns it from Feed or from Close.
Write(w) == LET b == behaviour[cand[w]]
                c == AfterWrite(cw[w], limit, Outcome(b, cw[w].n, RefLen))
            IN  /\ pc[w] = "evaluate" /\ HasWrite(b, cw[w].n)
                /\ ~ContextDone(cand[w])
                /\ cw' = [cw EXCEPT ![w] = c]
                /\ IF WriteErr(c) = "nil" THEN UNCHANGED <<pc, result>>
                                          ELSE Return(w, LimitedOr(c, WriteErr(c)))
                /\ UNCHANGED <<behaviour, limit, ctxDone, shared, cand, answer>>

\* The write finds the context done.  An engine that does not wrap the error
\* it got from its writer turns it into a failure of its own.
Interrupted(w) ==
    /\ pc[w] = "evaluate" /\ HasWrite(behaviour[cand[w]], cw[w].n)
    /\ ContextDone(cand[w])
    /\ \E e \in {"canceled", "failure"} : Return(w, e)
    /\ UNCHANGED <<behaviour, limit, ctxDone, shared, cand, cw, answer>>

\* No write is left: the engine fails, or it closed without error and the
\* reference must have ended too.  Neither looks at the context.
Finish(w) ==
    LET b == behaviour[cand[w]]
        e == IF b.then = "fails" THEN "failure" ELSE AtEOF(cw[w], RefLen)
    IN  /\ pc[w] = "evaluate" /\ ~HasWrite(b, cw[w].n)
        /\ Return(w, IF e = "nil" THEN "whole" ELSE e)
        /\ UNCHANGED <<behaviour, limit, ctxDone, shared, cand, cw, answer>>

-----------------------------------------------------------------------------
(* The report, under mu.                                                   *)

IsMatch(r) == r \in {"whole", "limited"}

\* Bug: the first match reported stays the winner.
Wins_First(i) == winner < 0

Wins(i) == winner < 0 \/ i < winner

\* The evaluations a match of i cancels.
Beaten(i) == {j \in running : j > i}

Accept(w) == LET i == cand[w] IN
    /\ pc[w] = "report" /\ IsMatch(result[w])
    /\ running' = running \ {i}
    /\ IF Wins(i)
       THEN /\ winner' = i
            /\ verified' = (result[w] = "whole")
            /\ cancelled' = cancelled \cup Beaten(i)
       ELSE UNCHANGED <<winner, verified, cancelled>>
    /\ pc' = [pc EXCEPT ![w] = "loop"]
    /\ UNCHANGED <<behaviour, limit, ctxDone, next, tried, firstErr, cand, cw, result, answer>>

Reject(w) == LET i == cand[w] IN
    /\ pc[w] = "report" /\ ~IsMatch(result[w])
    /\ running' = running \ {i}
    /\ firstErr' = IF result[w] = "failure" /\ firstErr < 0 THEN i ELSE firstErr
    /\ pc' = [pc EXCEPT ![w] = "loop"]
    /\ UNCHANGED <<behaviour, limit, ctxDone, next, winner, verified, tried, cancelled,
                   cand, cw, result, answer>>

-----------------------------------------------------------------------------
(* The caller's goroutine.                                                 *)

\* Bug: wg counts a worker per candidate, although the pool is smaller.
Joined_PerCandidate == Cardinality({w \in Workers : pc[w] = "done"}) = N

\* wg.Wait returns.
Joined == \A w \in Workers : pc[w] = "done"

\* After wg.Wait: the context first, then the winner.
ReturnAnswer ==
    /\ answer = Srch!Pending
    /\ Joined
    /\ answer' = IF ctxDone THEN Srch!CtxErr
                 ELSE IF winner < 0 THEN Srch!NoMatch
                 ELSE Srch!Match(winner, verified)
    /\ UNCHANGED <<behaviour, limit, ctxDone, shared, worker>>

Cancel == /\ ~ctxDone /\ answer = Srch!Pending
          /\ ctxDone' = TRUE
          /\ UNCHANGED <<behaviour, limit, shared, worker, answer>>

Step(w) == \/ Leave(w) \/ Take(w)
           \/ Write(w) \/ Interrupted(w) \/ Finish(w)
           \/ Accept(w) \/ Reject(w)

Next == \/ \E w \in Workers : Step(w)
        \/ ReturnAnswer \/ Cancel

Spec == Init /\ [][Next]_vars

\* A goroutine that can run is run in the end; nobody has to cancel.
FairSpec == /\ Spec
            /\ \A w \in Workers : WF_vars(Step(w))
            /\ WF_vars(ReturnAnswer)

-----------------------------------------------------------------------------
\* Every variable holds a value the code could store in it.
TypeOK ==
    /\ behaviour \in [Cands -> AllBehaviours] /\ limit \in Nat
    /\ ctxDone \in BOOLEAN
    /\ next \in 0 .. N /\ winner \in -1 .. N-1 /\ verified \in BOOLEAN
    /\ tried \in 0 .. N /\ firstErr \in -1 .. N-1
    /\ running \subseteq Cands /\ cancelled \subseteq Cands
    /\ pc \in [Workers -> {"loop", "evaluate", "report", "done"}]
    /\ cand \in [Workers -> -1 .. N-1]
    /\ cw \in [Workers -> CompareType]
    /\ result \in [Workers -> {"none", "whole", "limited", "mismatch", "failure", "canceled"}]
    /\ answer \in {Srch!Pending, Srch!CtxErr, Srch!NoMatch}
                  \cup {Srch!Match(i, b) : i \in Cands, b \in BOOLEAN}

\* Run keeps the promise its comment makes ("the result is still the earliest
\* match in list order") although workers report in any order and later
\* candidates are cancelled: every behaviour of Run is one of Search.
Refines == Srch!Spec

\* Cancelling can lose nothing: Run only cancels a candidate that an earlier
\* one, now the winner or beaten by it, has already beaten, so a cancelled
\* candidate could not have been the answer.
OnlyBeatenCancelled == \A i \in cancelled : 0 <= winner /\ winner < i

\* "tried N candidates" in ErrNoMatch is the whole list: every candidate was
\* handed out, none was cut short, and the error the message quotes is a
\* candidate's own failure, quoted exactly when there was one.
NoMatchIsComplete ==
    answer = Srch!NoMatch =>
        /\ next = N /\ tried = N /\ running = {} /\ cancelled = {}
        /\ firstErr >= 0 => behaviour[firstErr].then \in {"fails", "unreadable"}
        /\ firstErr < 0 => \A i \in Cands :
                              behaviour[i].then \notin {"fails", "unreadable"}

\* Run returns, whether or not the context is ever cancelled: the workers
\* never wait for each other.
Termination == <>(answer # Srch!Pending)
=============================================================================
