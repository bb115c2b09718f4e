-------------------------------- MODULE MCRun --------------------------------
(* Small instances of Run. *)
EXTENDS Run

Does(good, then) == [good |-> good, then |-> then]

\* Without a limit: right, wrong at once, too short, unreadable and failing.
\* With one: past it and diverging later, stopping on it short of the
\* reference's end, reaching the end, and diverging or failing before it.
MCCases == {
    [limit |-> 0, behaviours |-> {Does(2, "stops"), Does(0, "differs"), Does(1, "stops"),
                                  Does(1, "unreadable"), Does(0, "fails")}],
    [limit |-> 1, behaviours |-> {Does(1, "differs"), Does(1, "stops"), Does(2, "stops"),
                                  Does(0, "differs"), Does(0, "fails")}]}
==============================================================================
