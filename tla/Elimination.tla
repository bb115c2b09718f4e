----------------------------- MODULE Elimination -----------------------------
(***************************************************************************)
(* search.Eliminate (search/eliminate.go): every candidate is advanced in  *)
(* windows over the spool, each is dropped at its first divergent byte,    *)
(* and the elimination settles on a lone survivor, gives up, or hands what *)
(* is left to Run.                                                         *)
(*                                                                         *)
(* Input is counted in writes of Feed (one FeedSize block), output in      *)
(* writes to Compare.  The goroutines are the workers of a round, the      *)
(* caller, and one per open engine: an engine owes a write lag blocks      *)
(* after the input it stems from, a synchronous one pays before its Write  *)
(* returns, an asynchronous one (pigz) when it gets to it.                 *)
(*                                                                         *)
(* A definition named X_Bug is X with a bug one could plausibly write into *)
(* the code, as in Run.                                                    *)
(***************************************************************************)
EXTENDS Integers, FiniteSets, FiniteSetsExt, Compare

CONSTANTS
    N, Parallelism, Concurrent,   \* as in Run
    RefLen,         \* the length of the reference, in output writes
    Lead,           \* how many writes an asynchronous engine may owe and still take a block
    Cases,          \* VerifyLimits, inputs' sizes and what candidates may do on each
    FirstWindow, Margin, MaxLockstep, WindowGrowth, AgreeLimit, UntestedLimit

\* Compare's account of a candidate, and how its engine works: lag as above,
\* and buffered, Candidate.Buffered, which is the lag if the engine says so.
\*   unopenable   NewWriter returns an error;
\*   noReference  Input.Payload returns an error.
AllBehaviours ==
    [good : 0 .. RefLen,
     then : {"stops", "differs", "unreadable", "fails", "unopenable", "noReference"},
     lag : Nat, async : BOOLEAN, buffered : Nat]

ASSUME EliminationAssumption ==
    /\ N \in Nat \ {0} /\ Parallelism \in Int /\ Concurrent \in BOOLEAN
    /\ RefLen \in Nat /\ Lead \in Nat
    /\ Cases \subseteq [limit : Nat, size : Nat, behaviours : SUBSET AllBehaviours]
    /\ \A c \in Cases : \A b \in c.behaviours :
         /\ b.lag > 0 /\ b.buffered \in {0, b.lag}
         /\ b.then \in {"unopenable", "noReference"} => b.good = 0
    /\ {FirstWindow, Margin, MaxLockstep, AgreeLimit, UntestedLimit} \subseteq Nat \ {0}
    /\ WindowGrowth \in Nat /\ WindowGrowth > 1
    \* The constants of eliminate.go satisfy these two: the windows that grow
    \* without a cap stay below AgreeLimit before they grow.
    /\ FirstWindow <= AgreeLimit /\ AgreeLimit <= UntestedLimit
    /\ WindowGrowth * (AgreeLimit - 1) <= UntestedLimit

VARIABLES
    behaviour, limit,   \* as in Run
    size,               \* Spool.Size, in blocks
    ctxDone, answer,    \* as in Run; answer is what Eliminate returned
    cand,       \* each candidate's struct candidate, and its engine's failure
    alive, lastDeath, firstErr, tried, untested,   \* struct elimination
    window, target,   \* of the round; target is what feed is asked to reach
    left, survived, stop, fallback, roundErr,   \* round's locals; left is alive from next on
    main,       \* where the caller is
    step, held, ferr   \* each feeder: where in feed, with which candidate, what it returns

given == <<behaviour, limit, size>>
elim == <<alive, lastDeath, firstErr, tried, untested>>
round == <<window, target, left, survived, stop, fallback, roundErr>>
feeder == <<step, held, ferr>>
vars == <<given, ctxDone, answer, cand, elim, round, main, feeder>>

Cands == 0 .. N-1
Workers == 1 .. IF Parallelism < 1 THEN 1 ELSE Parallelism
Caller == 0     \* the caller feeds the lone survivor itself
Feeders == Workers \cup {Caller}

Srch == INSTANCE Search
    WITH verdict <- [i \in Cands |-> VerdictUnder(behaviour[i], limit, RefLen)]

InputErr == [kind |-> "inputErr", index |-> -1, verified |-> FALSE]

Least(a, b) == IF a < b THEN a ELSE b

\* tested, complete, dead and the rest are candidate's fields; open is
\* w # nil; broken says the engine has failed and will write no more.
Fresh == [started |-> FALSE, open |-> FALSE, pos |-> 0, tested |-> FALSE,
          complete |-> FALSE, dead |-> FALSE, deathPos |-> 0, err |-> "nil",
          cw |-> NewCompare, broken |-> FALSE]

\* A candidate whose engine is known to stay silent past the limit is not
\* started on an input that long.
Eligible(i) == Least(behaviour[i].buffered, size) <= UntestedLimit

Init ==
    /\ \E c \in Cases : limit = c.limit /\ size = c.size /\ behaviour \in [Cands -> c.behaviours]
    /\ ctxDone = FALSE /\ answer = Srch!Pending
    /\ cand = [i \in Cands |-> Fresh]
    /\ alive = {i \in Cands : Concurrent => Eligible(i)} /\ untested = Cands \ alive
    /\ lastDeath = 0 /\ firstErr = -1 /\ tried = {}
    /\ window = Least(size, FirstWindow) /\ target = window
    /\ left = alive /\ survived = 0 /\ stop = FALSE /\ fallback = FALSE /\ roundErr = "nil"
    /\ main = IF ~Concurrent THEN "fallback"
              ELSE IF alive = {} THEN "decide" ELSE "round"
    /\ step = [f \in Feeders |-> "idle"]
    /\ held = [f \in Feeders |-> -1]
    /\ ferr = [f \in Feeders |-> "nil"]

-----------------------------------------------------------------------------
(* The engines.                                                            *)

Closing(i) == \E f \in Feeders : step[f] = "close" /\ held[f] = i

\* i's engine owes a write, or a failure, for the input it has been fed.
Owes(i) == LET b == behaviour[i]  c == cand[i] IN
    /\ c.open /\ ~c.broken
    /\ Closing(i) \/ c.cw.n + b.lag <= c.pos
    /\ HasWrite(b, c.cw.n) \/ b.then = "fails"

\* It pays: one Compare.Write, which looks at the context first; an error
\* from it, or one of its own, breaks the engine.
Emit(i) == LET b == behaviour[i]
               c == cand[i]
               cw == AfterWrite(c.cw, 0, Outcome(b, c.cw.n, RefLen))
    IN  /\ Owes(i)
        /\ cand' = [cand EXCEPT ![i] =
             IF HasWrite(b, c.cw.n) /\ ~ctxDone
             THEN [c EXCEPT !.cw = cw, !.broken = WriteErr(cw) # "nil"]
             ELSE [c EXCEPT !.broken = TRUE]]
        /\ UNCHANGED <<given, ctxDone, answer, elim, round, main, feeder>>

-----------------------------------------------------------------------------
(* feed, by feeder f for candidate held[f] up to target.                   *)

Goto(f, s) == step' = [step EXCEPT ![f] = s] /\ UNCHANGED <<held, ferr>>
Fail(f, e) == /\ step' = [step EXCEPT ![f] = "report"]
              /\ ferr' = [ferr EXCEPT ![f] = e]
              /\ UNCHANGED held
FeedOnly ==
    UNCHANGED <<given, ctxDone, answer, elim, round, main>>

\* Bug: a mismatch is kept as well.
Noted_Mismatch(e) == e

\* What kill keeps of the error, for ErrNoMatch's message.
Noted(e) == IF e = "failure" THEN e ELSE "nil"

\* kill: once the context is done the elimination ends and the candidate is
\* left as it is, for closeAll; otherwise it dies where it stands, and its
\* writer is closed.
Kill(f, c, e) ==
    IF ctxDone
    THEN Fail(f, "ctxErr") /\ cand' = [cand EXCEPT ![held[f]] = c]
    ELSE /\ Goto(f, "report")
         /\ cand' = [cand EXCEPT ![held[f]] =
                       [c EXCEPT !.dead = TRUE, !.deathPos = c.pos, !.open = FALSE,
                                 !.err = Noted(e)]]

\* The error an engine that broke hands back.
Cause(c) == IF Done(c.cw) THEN c.cw.err ELSE "failure"

Start(f) == LET c == [cand[held[f]] EXCEPT !.started = TRUE] IN
    /\ step[f] = "start"
    /\ \/ /\ behaviour[held[f]].then = "noReference"
          /\ Fail(f, "inputErr") /\ cand' = [cand EXCEPT ![held[f]] = c]
       \/ /\ behaviour[held[f]].then = "unopenable"
          /\ Kill(f, c, "failure")
       \/ /\ behaviour[held[f]].then \notin {"noReference", "unopenable"}
          /\ Goto(f, "feed") /\ cand' = [cand EXCEPT ![held[f]] = [c EXCEPT !.open = TRUE]]
    /\ FeedOnly

\* One block goes in.  A synchronous engine has first written all it owes
\* for the block before; an asynchronous one takes a block while it is not
\* too far behind, or no longer cares.
Block(f) == LET i == held[f]  b == behaviour[i]  c == cand[i] IN
    /\ step[f] = "feed" /\ c.pos < target
    /\ IF b.async THEN c.broken \/ ~Owes(i) \/ c.pos - b.lag - c.cw.n < Lead
                  ELSE ~c.broken /\ ~Owes(i)
    /\ cand' = [cand EXCEPT ![i].pos = c.pos + 1]
    /\ FeedOnly /\ UNCHANGED feeder

\* Feed returns the engine's error: a synchronous engine's from the write
\* that broke it, of which the engine may not have counted a byte; an
\* asynchronous one's from a later write.
BlockFails(f) == LET i == held[f]  c == cand[i] IN
    /\ step[f] = "feed" /\ c.broken
    /\ IF behaviour[i].async
       THEN c.pos < target /\ Kill(f, c, Cause(c))
       ELSE \E p \in {c.pos - 1, c.pos} : Kill(f, [c EXCEPT !.pos = p], Cause(c))
    /\ FeedOnly

\* The target is reached.  What cw has seen by now decides; an asynchronous
\* engine may still owe.
Fed(f) == LET i == held[f]  c == cand[i] IN
    /\ step[f] = "feed" /\ c.pos >= target
    /\ behaviour[i].async \/ (~c.broken /\ ~Owes(i))
    /\ IF Done(c.cw) THEN Kill(f, c, c.cw.err)
       ELSE /\ cand' = [cand EXCEPT ![i].tested = c.cw.n > 0]
            /\ Goto(f, IF target < size THEN "report" ELSE "close")
    /\ FeedOnly

\* Bug: Close returns before an asynchronous engine has written everything.
Flushed_Early(i) == behaviour[i].async \/ ~Owes(i)

Flushed(i) == ~Owes(i)

\* Close has flushed all the engine owes and the trailer has been written.
Closed(f) == LET i == held[f]  c == cand[i]
                 e == IF c.broken THEN Cause(c) ELSE AtEOF(c.cw, RefLen)
    IN  /\ step[f] = "close" /\ Flushed(i)
        /\ IF e # "nil" THEN Kill(f, c, e)
           ELSE /\ cand' = [cand EXCEPT ![i].complete = TRUE, ![i].tested = TRUE]
                /\ Goto(f, "report")
        /\ FeedOnly

Feed(f) == Start(f) \/ Block(f) \/ BlockFails(f) \/ Fed(f) \/ Closed(f)

-----------------------------------------------------------------------------
(* A round's workers, under round's mutex.                                 *)

NoneToHand == stop \/ left = {}

\* In list order.
HandOut(w) == LET i == Min(left) IN
    /\ main = "round" /\ step[w] = "idle" /\ ~NoneToHand
    /\ left' = left \ {i}
    /\ held' = [held EXCEPT ![w] = i]
    /\ step' = [step EXCEPT ![w] = IF cand[i].started THEN "feed" ELSE "start"]
    /\ ferr' = [ferr EXCEPT ![w] = "nil"]
    /\ UNCHANGED <<given, ctxDone, answer, cand, elim, window, target,
                   survived, stop, fallback, roundErr, main>>

\* Bug: one survivor too many.
TooMany_Late(n) == n > MaxLockstep + 1

TooMany(n) == n > MaxLockstep

Report(w) == LET c == cand[held[w]] IN
    /\ step[w] = "report"
    /\ IF ferr[w] # "nil"
       THEN /\ roundErr' = IF roundErr = "nil" THEN ferr[w] ELSE roundErr
            /\ stop' = TRUE
            /\ UNCHANGED <<survived, fallback>>
       ELSE /\ survived' = IF ~c.dead /\ c.tested THEN survived + 1 ELSE survived
            /\ IF ~c.dead /\ c.tested /\ TooMany(survived + 1)
               THEN stop' = TRUE /\ fallback' = TRUE
               ELSE UNCHANGED <<stop, fallback>>
            /\ UNCHANGED roundErr
    /\ Goto(w, "idle")
    /\ UNCHANGED <<given, ctxDone, answer, cand, elim, window, target, left, main>>

-----------------------------------------------------------------------------
(* The caller.                                                             *)

\* retire, with the candidates as cs has them.
Retire(cs) == LET dead == {i \in alive : cs[i].dead}
                  failed == {i \in dead : cs[i].err # "nil"}
    IN  /\ alive' = alive \ dead
        /\ tried' = tried \cup {i \in alive : cs[i].started}
        /\ lastDeath' = Max({lastDeath} \cup {cs[i].deathPos : i \in dead})
        /\ firstErr' = IF firstErr < 0 /\ failed # {} THEN Min(failed) ELSE firstErr

\* Bug: candidates that have shown no output are passed over.
CloseAll_Tested(cs, is) == [i \in Cands |-> IF i \in is /\ cs[i].tested
                                           THEN [cs[i] EXCEPT !.open = FALSE]
                                           ELSE cs[i]]

CloseAll(cs, is) == [i \in Cands |-> IF i \in is THEN [cs[i] EXCEPT !.open = FALSE]
                                                ELSE cs[i]]

\* Eliminate returns a; its deferred closeAll runs.
Answer(a) == /\ answer' = a
             /\ main' = "returned"
             /\ cand' = CloseAll(cand, alive)

\* Bug: whatever has matched so far is taken for the whole input.
Verified_Tested(i) == cand[i].tested

Verified(i) == cand[i].complete

\* result: i is the answer, Verified if it was run to the end.
Result(i) == /\ Answer(Srch!Match(i, Verified(i)))
             /\ tried' = tried \cup {i}

\* Bugs: the limit is passed by without a round that stops on it; the wrong
\* limit is tested.
AtUntestedLimit_Past == window > UntestedLimit
AtUntestedLimit_Agree == window >= AgreeLimit

AtUntestedLimit == window >= UntestedLimit

\* The end of round, after wg.Wait.
Join ==
    /\ main = "round" /\ NoneToHand /\ \A w \in Workers : step[w] = "idle"
    /\ IF roundErr # "nil" \/ ctxDone
       THEN /\ Answer(IF roundErr = "inputErr" THEN InputErr ELSE Srch!CtxErr)
            /\ UNCHANGED elim
       ELSE /\ Retire(cand)
            /\ main' = IF fallback THEN "fallback"
                       ELSE IF AtUntestedLimit THEN "drop" ELSE "decide"
            /\ UNCHANGED <<cand, answer, untested>>
    /\ UNCHANGED <<given, ctxDone, round, feeder>>

\* dropUntested.
DropUntested ==
    LET silent == {i \in alive : ~cand[i].tested}
        cs == [i \in Cands |-> IF i \in silent
                               THEN [cand[i] EXCEPT !.dead = TRUE, !.open = FALSE,
                                                    !.deathPos = cand[i].pos]
                               ELSE cand[i]]
    IN  /\ main = "drop"
        /\ cand' = cs
        /\ untested' = untested \cup silent
        /\ Retire(cs)
        /\ main' = "decide"
        /\ UNCHANGED <<given, ctxDone, answer, round, feeder>>

\* Bug: candidates that have shown no output do not count as competitors.
Lone_OfTested == Cardinality({i \in alive : cand[i].tested}) = 1

Lone == \E i \in alive : alive = {i} /\ cand[i].tested
AllTested == \A i \in alive : cand[i].tested
Complete == alive # {} /\ cand[Min(alive)].complete

NoneLeft == /\ main = "decide" /\ alive = {}
            /\ Answer(Srch!NoMatch)
            /\ UNCHANGED <<given, ctxDone, elim, round, feeder>>

Finished == /\ main = "decide" /\ Complete
            /\ Result(Min(alive))
            /\ UNCHANGED <<given, ctxDone, alive, lastDeath, firstErr, untested, round, feeder>>

\* A lone survivor is fed on to Margin past the last death, unless it is
\* there already.  Positions are whole blocks: roundUp has nothing to do.
Settle == LET i == Min(alive) IN
    /\ main = "decide" /\ Lone /\ ~Complete
    /\ IF cand[i].pos - lastDeath < Margin
       THEN /\ target' = Least(size, lastDeath + Margin)
            /\ main' = "settle"
            /\ step' = [step EXCEPT ![Caller] = "feed"]
            /\ held' = [held EXCEPT ![Caller] = i]
            /\ UNCHANGED <<answer, cand, tried, ferr>>
       ELSE Result(i) /\ UNCHANGED <<target, feeder>>
    /\ UNCHANGED <<given, ctxDone, alive, lastDeath, firstErr, untested,
                   window, left, survived, stop, fallback, roundErr>>

Settled == LET i == held[Caller] IN
    /\ main = "settle" /\ step[Caller] = "report"
    /\ IF ferr[Caller] # "nil"
       THEN Answer(Srch!CtxErr) /\ UNCHANGED elim
       ELSE IF cand[i].dead
       THEN Answer(Srch!NoMatch) /\ Retire(cand) /\ UNCHANGED untested
       ELSE Result(i) /\ UNCHANGED <<alive, lastDeath, firstErr, untested>>
    /\ Goto(Caller, "idle")
    /\ UNCHANGED <<given, ctxDone, round>>

Agree == /\ main = "decide" /\ alive # {} /\ ~Complete /\ ~Lone
         /\ AllTested /\ window >= AgreeLimit
         /\ main' = "fallback"
         /\ UNCHANGED <<given, ctxDone, answer, cand, elim, round, feeder>>

NextWindow == LET g == Least(size, window * WindowGrowth)
              IN  IF AllTested THEN g ELSE Least(g, UntestedLimit)

\* The next window, and the round over it.
Grow ==
    /\ main = "decide" /\ alive # {} /\ ~Complete /\ ~Lone
    /\ ~(AllTested /\ window >= AgreeLimit)
    /\ window' = NextWindow
    /\ target' = window'
    /\ left' = alive /\ survived' = 0 /\ stop' = FALSE /\ fallback' = FALSE /\ roundErr' = "nil"
    /\ main' = "round"
    /\ UNCHANGED <<given, ctxDone, answer, cand, elim, feeder>>

\* fallback: the lockstep's engines are closed and Run decides among the
\* candidates left.  Run keeps Search's promise (see Run!Refines), so this is
\* Search's answer over those candidates.
Fallback == /\ main = "fallback"
            /\ answer' \in IF ctxDone THEN {Srch!CtxErr}
                           ELSE Srch!Answers([i \in Cands |-> VerdictUnder(behaviour[i], limit, RefLen)],
                                             alive)
            /\ main' = "returned"
            /\ cand' = CloseAll(cand, alive)
            /\ UNCHANGED <<given, ctxDone, elim, round, feeder>>

\* Who ErrNoMatch's message counts, as tried and as untested.  noMatch is
\* called with nobody left alive and tells what the elimination knows; the
\* error of the fallback's Run is returned as it is, and Run counts the
\* candidates it was handed (see Run!NoMatchIsComplete).
ByRun == alive # {}
Said == IF ByRun THEN [tried |-> alive, untested |-> {}]
        ELSE [tried |-> tried, untested |-> untested]

Cancel == /\ ~ctxDone /\ main # "returned"
          /\ ctxDone' = TRUE
          /\ UNCHANGED <<given, answer, cand, elim, round, main, feeder>>

Main == Join \/ DropUntested \/ NoneLeft \/ Finished \/ Settle \/ Settled
        \/ Agree \/ Grow \/ Fallback
Worker(w) == HandOut(w) \/ Feed(w) \/ Report(w)

Next == \/ Main \/ Feed(Caller) \/ Cancel
        \/ \E w \in Workers : Worker(w)
        \/ \E i \in Cands : Emit(i)

Spec == Init /\ [][Next]_vars

\* Goroutines that can run are run, engines' included.
FairSpec == /\ Spec
            /\ WF_vars(Main) /\ WF_vars(Feed(Caller))
            /\ \A w \in Workers : WF_vars(Worker(w))
            /\ \A i \in Cands : WF_vars(Emit(i))

-----------------------------------------------------------------------------
Whole(i) == VerdictUnder(behaviour[i], 0, RefLen) = "whole"

\* The promise of Eliminate's comment, for every order of rounds, workers,
\* drops, late output, fallback and settling: the answer is the earliest
\* candidate that reproduces the input.  A candidate that does is passed over
\* only if UntestedLimit kept it from being tested, or, once the VerifyLimit
\* is in play, for an earlier one that satisfied it in Run; and a Verified
\* answer really reproduces the input.
EarliestOfTested ==
    /\ answer.kind = "match" =>
         /\ answer.verified => Whole(answer.index)
         /\ \A j \in Cands \ (untested \cup {answer.index}) : Whole(j) =>
              /\ j > answer.index
              /\ answer.verified
                 \/ VerdictUnder(behaviour[answer.index], limit, RefLen) = "limited"
    /\ answer = Srch!NoMatch => \A j \in Cands : Whole(j) => j \in untested

\* UntestedLimit costs no candidate that could have been tested within it:
\* one is dropped only if its engine needs more than that before its first
\* write, or, if it is asynchronous, may owe the write for that long, or
\* writes nothing at all.
DroppedHadToBeSilent ==
    \A i \in untested : LET b == behaviour[i] IN
        \/ IF b.async THEN b.lag + Lead >= UntestedLimit ELSE b.lag > UntestedLimit
        \/ ~HasWrite(b, 0)

\* Nobody is lost between the rounds, the drops and the fallback when there is
\* no match.  noMatch's message accounts for the whole list: every candidate
\* was tried or is counted as untested, and the error it quotes is a
\* candidate's own, quoted exactly when there was one.  After a fallback the
\* message is Run's; whoever that leaves out was given up before, as untested
\* or with a verdict against it.  (It does not say so: see SaysUntested.)
NoMatchAccounts ==
    answer = Srch!NoMatch =>
        /\ \A i \in Cands \ (Said.tried \cup Said.untested) :
              ByRun /\ (i \in untested \/ (i \in tried /\ ~Whole(i)))
        /\ ~ByRun => /\ firstErr >= 0 => behaviour[firstErr].then \in {"fails", "unopenable", "unreadable"}
                     /\ firstErr < 0 => \A i \in Cands : cand[i].err = "nil"

\* However Eliminate returns, every engine it opened has been closed: dead
\* ones when they died, the rest by closeAll.
NoEngineLeft == answer # Srch!Pending => \A i \in Cands : ~cand[i].open

\* The lockstep stays cheap however many candidates agree: no engine is fed
\* past UntestedLimit while another is in play, the lone survivor at most
\* Margin past it, and what survives into another round is at most
\* MaxLockstep tested candidates and those still buffering.
LockstepBound ==
    /\ \A i \in Cands : /\ cand[i].pos <= UntestedLimit + Margin
                        /\ cand[i].pos > UntestedLimit => alive \subseteq {i}
    /\ main = "decide" => Cardinality({i \in alive : cand[i].tested}) <= MaxLockstep

\* Eliminate returns: no worker, engine or the caller waits for ever.
Termination == <>(answer # Srch!Pending)

-----------------------------------------------------------------------------
(* What the source says and the code does not keep.                        *)

\* eliminate.go:88-89: it settles on a lone survivor "once that survivor has
\* matched Margin bytes past the point where its last competitor died".  Even
\* allowing for the engine's lag, all output that input brought about would
\* have been compared.
SettledHasMatched ==
    answer.kind = "match" /\ ~answer.verified /\ limit = 0 =>
        LET c == cand[answer.index]  b == behaviour[answer.index]
        IN  c.cw.n >= lastDeath + Margin - b.lag + 1

\* eliminate.go:101-102: "It returns ErrNoMatch when every candidate diverged,
\* saying how many the limit left untested."
SaysUntested == answer = Srch!NoMatch => Said.untested = untested
=============================================================================
