-------------------------------- MODULE Once --------------------------------
(* What makes TLC evaluate an expression once. *)
EXTENDS Sequences

\* x, as a value: TLC would otherwise evaluate a function anew wherever it is
\* applied.
Now(x) == CHOOSE y \in {x} : y = y

\* FoldLeft for sequences of hundreds: a step's result is made an element, and
\* so evaluated, before the next step.
RECURSIVE FoldLong(_, _, _)
FoldLong(Op(_, _), acc, s) ==
    IF s = <<>> THEN acc
    ELSE CHOOSE r \in {FoldLong(Op, a, Tail(s)) : a \in {Op(acc, Head(s))}} : TRUE
=============================================================================
