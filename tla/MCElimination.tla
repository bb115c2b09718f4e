---------------------------- MODULE MCElimination ----------------------------
(* Small instances of Elimination. *)
EXTENDS Elimination

Does(good, then, lag, async, buffered) ==
    [good |-> good, then |-> then, lag |-> lag, async |-> async, buffered |-> buffered]

\* Synchronous engines: right; wrong at once and later; right but silent for
\* long, said so or not.
MCSync == {Does(RefLen, "stops", 1, FALSE, 0), Does(0, "differs", 1, FALSE, 0),
           Does(2, "differs", 1, FALSE, 0),
           Does(RefLen, "stops", UntestedLimit + 1, FALSE, 0),
           Does(RefLen, "stops", UntestedLimit + 1, FALSE, UntestedLimit + 1)}

\* Asynchronous engines, right and wrong, among synchronous ones: the verdict
\* on the first may come after the window it belongs to.
MCAsync == {Does(RefLen, "stops", 1, TRUE, 0), Does(1, "differs", 1, TRUE, 0),
            Does(RefLen, "stops", 2, FALSE, 0)}

\* Engines that fail, by themselves or on opening, and inputs that do.
MCFaults == {Does(1, "fails", 1, FALSE, 0), Does(1, "unreadable", 1, FALSE, 0),
             Does(0, "unopenable", 1, FALSE, 0), Does(0, "noReference", 1, FALSE, 0)}

\* Around a VerifyLimit of 2: reached before diverging, missed, and a right one.
MCLimited == {Does(2, "differs", 1, FALSE, 0), Does(1, "differs", 1, FALSE, 0),
              Does(RefLen, "stops", 1, FALSE, 0), Does(3, "differs", 1, TRUE, 0)}

\* On an input that ends before they would be dropped: engines that write
\* only when they are closed, among right and wrong ones.
MCShort == {Does(RefLen, "stops", 3, FALSE, 0), Does(RefLen, "stops", 1, FALSE, 0),
            Does(0, "differs", 1, FALSE, 0)}

\* Slow enough to be dropped, or not, for what it still owes; and one that
\* writes at the very limit.
MCSlow == {Does(RefLen, "stops", 2, TRUE, 0), Does(0, "differs", 1, FALSE, 0),
           Does(RefLen, "stops", UntestedLimit, FALSE, 0)}

Under(l, n, bs) == [limit |-> l, size |-> n, behaviours |-> bs]

MCLockstepCases == {Under(0, 4, MCSync), Under(0, 4, MCFaults), Under(2, 4, MCLimited)}
MCAsyncCases == {Under(0, 4, MCAsync), Under(0, 4, MCSlow),
                 Under(0, UntestedLimit, MCShort)}
MCSettleCases == {Under(0, 5, MCAsync)}
==============================================================================
