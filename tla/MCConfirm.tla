------------------------------ MODULE MCConfirm ------------------------------
(* Small instances of Confirm. *)
EXTENDS Confirm

\* Every way to end, at every length, owing its output at once or not at all
\* until it is closed.
MCBehaviours == {b \in AllBehaviours : /\ b.lag \in {0, Blocks}
                                       /\ b.then = "setup" => b.good = 0}
==============================================================================
