-------------------------------- MODULE Search --------------------------------
(***************************************************************************)
(* What a search promises its caller (the doc comment of search.Run):      *)
(* the earliest candidate in list order that reproduces the input, or      *)
(* ErrNoMatch when none does, or the context's error once it is done.      *)
(* Which candidates a search accepts is fixed before it starts; how it     *)
(* finds out is for the modules that implement this one.                   *)
(***************************************************************************)
EXTENDS Integers

CONSTANT N       \* the number of candidates, listed as 0 .. N-1

VARIABLES verdict,   \* what evaluating each candidate alone would show
          ctxDone,   \* the caller's context is done
          answer     \* what the search returned

vars == <<verdict, ctxDone, answer>>

Cands == 0 .. N-1

\* "whole": reproduces the input to its end; "limited": reproduces as much
\* as Input.VerifyLimit asks for; "no": neither.
Verdicts == {"whole", "limited", "no"}

Pending == [kind |-> "pending", index |-> -1, verified |-> FALSE]
CtxErr  == [kind |-> "ctxErr", index |-> -1, verified |-> FALSE]
NoMatch == [kind |-> "noMatch", index |-> -1, verified |-> FALSE]
Match(i, whole) == [kind |-> "match", index |-> i, verified |-> whole]

\* i is the earliest of the candidates in S that v accepts.
Earliest(i, v, S) == /\ i \in S /\ v[i] # "no"
                     /\ \A j \in S : v[j] # "no" => i <= j

\* The answers a search over the candidates in S may give.
Answers(v, S) == {Match(i, v[i] = "whole") : i \in {c \in S : Earliest(c, v, S)}}
                 \cup {a \in {NoMatch} : \A c \in S : v[c] = "no"}

Init == /\ verdict \in [Cands -> Verdicts]
        /\ ctxDone = FALSE
        /\ answer = Pending

Cancel == /\ ~ctxDone
          /\ ctxDone' = TRUE
          /\ UNCHANGED <<verdict, answer>>

Answer == /\ answer = Pending
          /\ \/ ctxDone /\ answer' = CtxErr
             \/ ~ctxDone /\ answer' \in Answers(verdict, Cands)
          /\ UNCHANGED <<verdict, ctxDone>>

Next == Cancel \/ Answer

Spec == Init /\ [][Next]_vars
===============================================================================
