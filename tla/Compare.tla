------------------------------- MODULE Compare -------------------------------
(***************************************************************************)
(* search.Compare (search/compare.go): the writer every search candidate   *)
(* and the confirming pass send their output through.  Its state is a      *)
(* record and its methods are operators on that record: every method holds *)
(* Compare.mu from its first to its last access, so a call is one step for *)
(* whoever runs it.                                                        *)
(*                                                                         *)
(* Output is counted in writes: one call of Write is one unit of the       *)
(* output and of n.  What io.ReadFull over the reference and bytes.Equal   *)
(* find for a write is its outcome; the module that knows the candidate    *)
(* chooses it.                                                             *)
(***************************************************************************)
EXTENDS Naturals

\* What comparing one write with the reference shows: the bytes are equal,
\* they differ, the reference ends inside the write, or reading it fails.
Outcomes == {"equal", "differs", "ended", "unreadable"}

NewCompare == [n |-> 0, err |-> "nil", limited |-> FALSE]

\* err is the latched error: "mismatch" wraps ErrMismatch, "failure" is a
\* read error of the reference.  done holds exactly when err is set.
CompareType == [n : Nat, err : {"nil", "mismatch", "failure"}, limited : BOOLEAN]

Done(cw) == cw.err # "nil"

\* The state after Write under limit (0: compare to the end).  A write past
\* an error or past the limit changes nothing.
AfterWrite(cw, limit, outcome) ==
    IF Done(cw) \/ cw.limited THEN cw
    ELSE IF outcome = "equal"
         THEN [n |-> cw.n + 1, err |-> "nil",
               limited |-> limit > 0 /\ cw.n + 1 >= limit]
         ELSE [n |-> cw.n, limited |-> FALSE,
               err |-> IF outcome = "unreadable" THEN "failure" ELSE "mismatch"]

\* The error Write returned, read off the state it left.
WriteErr(cw) == IF Done(cw) THEN cw.err
                ELSE IF cw.limited THEN "ErrLimit" ELSE "nil"

\* AtEOF: the latched error, or a mismatch when the reference has bytes left.
AtEOF(cw, refLen) == IF Done(cw) THEN cw.err
                     ELSE IF cw.n < refLen THEN "mismatch" ELSE "nil"

-----------------------------------------------------------------------------
(* A candidate as Compare sees it.  Its output agrees with the reference   *)
(* for good writes, and then:                                              *)
(*   stops       the engine has been closed and the trailer written;       *)
(*   differs     one more write, which does not compare equal;             *)
(*   unreadable  one more write, for which reading the reference fails;    *)
(*   fails       its engine returns an error of its own.                   *)

HasWrite(b, n) == n < b.good \/ b.then \in {"differs", "unreadable"}

\* The comparison write number n of a candidate doing b meets.
Outcome(b, n, refLen) == IF n < b.good THEN "equal"
                         ELSE IF b.then = "unreadable" THEN "unreadable"
                         ELSE IF b.good = refLen THEN "ended" ELSE "differs"

\* What running b alone under limit shows: it reproduces the reference to the
\* limit, as a whole, or not.
VerdictUnder(b, limit, refLen) ==
    IF limit > 0 /\ b.good >= limit THEN "limited"
    ELSE IF b.then = "stops" /\ b.good = refLen THEN "whole" ELSE "no"
=============================================================================
