-------------------------- MODULE EliminationProofs --------------------------
(***************************************************************************)
(* Theorems about Eliminate, for any list of candidates, any number of     *)
(* workers, any input and any of eliminate.go's limits.                    *)
(*                                                                         *)
(* What the rounds leave behind is spread over the candidates' records,    *)
(* so the inductive invariant is: every record is sound, that is, says     *)
(* nothing of its candidate that is not so (Sound); a candidate in play is *)
(* one feeder's (FeedersOK); what a round has reported so far is what its  *)
(* counters say (RoundOK); nobody is fed past the limits (WindowOK); and   *)
(* nobody gets lost between the lists (ListsOK).                           *)
(***************************************************************************)
EXTENDS Elimination, FiniteSetTheorems, WellFoundedInduction, TLAPS

CandType == [started : BOOLEAN, open : BOOLEAN, pos : Int, tested : BOOLEAN,
             complete : BOOLEAN, dead : BOOLEAN, deathPos : Int, err : {"nil", "failure"},
             cw : CompareType, broken : BOOLEAN]

Steps == {"idle", "start", "feed", "close", "report"}
Errs == {"nil", "ctxErr", "inputErr"}

\* The types of the variables.
TypeOK ==
    /\ behaviour \in [Cands -> AllBehaviours] /\ limit \in Nat /\ size \in Nat
    /\ ctxDone \in BOOLEAN
    /\ cand \in [Cands -> CandType]
    /\ alive \subseteq Cands /\ left \subseteq alive
    /\ tried \subseteq Cands /\ untested \subseteq Cands
    /\ lastDeath \in Int /\ firstErr \in Int
    /\ window \in Nat /\ target \in Int /\ survived \in Nat
    /\ stop \in BOOLEAN /\ fallback \in BOOLEAN /\ roundErr \in Errs
    /\ main \in {"round", "drop", "decide", "settle", "fallback", "returned"}
    /\ step \in [Feeders -> Steps] /\ held \in [Feeders -> -1 .. N-1]
    /\ ferr \in [Feeders -> Errs]

\* What is assumed of every behaviour.
GivenOK == \A i \in Cands : LET b == behaviour[i] IN
    /\ b.lag > 0 /\ b.buffered \in {0, b.lag}
    /\ b.then \in {"unopenable", "noReference"} => b.good = 0

-----------------------------------------------------------------------------
\* How much an engine may have been fed before its first write is due.
Silence(i) == behaviour[i].lag + IF behaviour[i].async THEN Lead ELSE 0

\* c has seen no output because there could not be any yet, or ever.
Silent(i, c) == c.pos <= Silence(i) \/ ~HasWrite(behaviour[i], 0)

\* The same when it has reached its target: a synchronous engine owes nothing.
Mute(i, c) == LET b == behaviour[i] IN
    c.pos < b.lag \/ (b.async /\ c.pos <= b.lag + Lead) \/ ~HasWrite(b, 0)

\* Too slow to be tested within UntestedLimit.
Slow(i) == LET b == behaviour[i] IN
    IF b.async THEN b.lag + Lead >= UntestedLimit ELSE b.lag > UntestedLimit

\* The record c says nothing of candidate i that is not so: its comparison
\* has found only what is there, it is broken for a reason, complete only if
\* it reproduces the input and dead only if it does not.
Sound(i, c) == LET b == behaviour[i] IN
    /\ ~c.cw.limited /\ c.cw.n <= b.good
    /\ c.cw.err = "mismatch" => b.then = "differs"
    /\ c.cw.err = "failure" => b.then = "unreadable"
    /\ c.broken => Done(c.cw) \/ ctxDone \/ (b.then = "fails" /\ c.cw.n >= b.good)
    /\ c.complete => Whole(i)
    /\ c.open => c.started /\ ~c.dead /\ b.then \notin {"unopenable", "noReference"}
    /\ c.dead => c.started \/ i \in untested
    /\ c.dead /\ Whole(i) => i \in untested
    /\ c.err # "nil" => b.then \in {"fails", "unopenable", "unreadable"}
    /\ c.dead => c.deathPos <= c.pos
    /\ c.cw.n = 0 => Silent(i, c) \/ c.broken

SoundOK == \A i \in Cands : Sound(i, cand[i])

-----------------------------------------------------------------------------
\* f is at work on a candidate, or has yet to report on it.
Feeding(f) == step[f] \in {"start", "feed", "close"}
Busy(f) == step[f] # "idle"
InHand(i) == \E f \in Feeders : Busy(f) /\ held[f] = i

\* A candidate is fed by one feeder at a time, who is a worker in a round and
\* the caller when it settles; it is alive, and open once it was started.
FeedersOK ==
    /\ \A f \in Feeders : Busy(f) => /\ held[f] \in alive \ left
                                     /\ main = IF f = Caller THEN "settle" ELSE "round"
    /\ \A f, g \in Feeders : Busy(f) /\ Busy(g) /\ held[f] = held[g] => f = g
    /\ \A f \in Feeders :
         /\ Feeding(f) => ferr[f] = "nil" /\ ~cand[held[f]].dead
         /\ step[f] \in {"feed", "close"} => cand[held[f]].open
    /\ \A i \in Cands : cand[i].open => i \in alive
    /\ main = "settle" => alive = {held[Caller]} /\ Busy(Caller)
    /\ main \notin {"settle", "returned"} => ferr[Caller] = "nil"

\* What a report without an error says of the candidate.
Reported(i) == LET c == cand[i] IN
    ~c.dead => /\ c.open
               /\ c.tested \/ ctxDone \/ (c.pos >= target /\ Mute(i, c))

\* Of the candidates a round has handed out and got back, survived counts
\* those that matched something.
Survivors == {i \in alive \ left : ~InHand(i) /\ ~cand[i].dead /\ cand[i].tested}

RoundOK == main = "round" =>
    /\ target = window
    /\ \A i \in left : ~cand[i].dead /\ (cand[i].started => cand[i].open)
    /\ \A w \in Workers : step[w] = "report" /\ ferr[w] = "nil" => Reported(held[w])
    /\ roundErr = "nil" => /\ \A i \in alive \ left : ~InHand(i) => Reported(i)
                           /\ survived = Cardinality(Survivors)
    /\ stop => fallback \/ roundErr # "nil"
    /\ ~fallback => survived <= MaxLockstep

\* Between rounds the survivors are open, few of them have matched anything
\* and the others, when they are about to be dropped, could not have.
BetweenOK ==
    /\ main \in {"drop", "decide"} =>
         /\ left = {}
         /\ \A i \in alive : cand[i].open
         /\ Cardinality({i \in alive : cand[i].tested}) <= MaxLockstep
    /\ main = "drop" => \A i \in alive :
         cand[i].tested \/ Slow(i) \/ ~HasWrite(behaviour[i], 0)

-----------------------------------------------------------------------------
WindowOK ==
    /\ window <= UntestedLimit
    /\ main # "returned" => lastDeath <= UntestedLimit
    /\ main = "settle" => target <= UntestedLimit + Margin
    /\ \A i \in Cands : /\ cand[i].pos <= UntestedLimit + Margin
                        /\ cand[i].pos > UntestedLimit =>
                             main \in {"settle", "returned"} /\ alive \subseteq {i}

\* A candidate that is no longer alive was tried or counted as untested, one
\* that reproduces the input is there, and the error to quote is a failure's.
ListsOK ==
    /\ Cands \subseteq alive \cup tried \cup untested
    /\ \A i \in Cands : Whole(i) => i \in alive \cup untested
    /\ firstErr >= 0 => /\ firstErr \in Cands
                        /\ behaviour[firstErr].then \in {"fails", "unopenable", "unreadable"}
    /\ firstErr < 0 => \A i \in Cands \ alive : cand[i].err = "nil"

AnswerOK ==
    /\ main = "returned" <=> answer # Srch!Pending
    /\ main = "returned" => \A i \in Cands : ~cand[i].open

IInv == /\ TypeOK /\ GivenOK /\ SoundOK /\ FeedersOK /\ RoundOK /\ BetweenOK
        /\ WindowOK /\ ListsOK /\ AnswerOK /\ EarliestOfTested /\ DroppedHadToBeSilent

-----------------------------------------------------------------------------
\* A set of integers that is bounded has a greatest element, one of natural
\* numbers a least.
LEMMA MinFacts ==
  ASSUME NEW S, S \subseteq Nat, S # {}
  PROVE  Min(S) \in S /\ \A x \in S : Min(S) <= x
  <1>1. PICK x \in S : \A y \in S : <<y, x>> \notin OpToRel(<, Nat)
    BY NatLessThanWellFounded, WFMin, Zenon
  <1>2. ASSUME NEW y \in S PROVE x <= y
    <2>1. <<y, x>> \in Nat \X Nat /\ ~(<<y, x>>[1] < <<y, x>>[2])
      BY <1>1, Zenon DEF OpToRel
    <2> QED
      BY <2>1
  <1> QED
    BY <1>2 DEF Min

LEMMA MaxFacts ==
  ASSUME NEW S, S \subseteq Int, S # {}, NEW b \in Int, \A x \in S : x <= b
  PROVE  Max(S) \in S /\ \A x \in S : x <= Max(S)
  <1> DEFINE T == {b - x : x \in S}
  <1>0. \A x \in S : x \in Int /\ b - x \in Nat
    OBVIOUS
  <1>1. T \subseteq Nat /\ T # {}
    BY <1>0
  <1>2. Min(T) \in T /\ \A t \in T : Min(T) <= t
    BY <1>1, MinFacts
  <1>3. PICK m \in S : Min(T) = b - m
    BY <1>2
  <1>4. ASSUME NEW x \in S PROVE m >= x
    <2>1. b - x \in T
      OBVIOUS
    <2>2. b - m <= b - x
      BY <1>2, <1>3, <2>1
    <2> QED
      BY <1>0, <2>2
  <1>5. Max(S) \in S /\ \A x \in S : Max(S) >= x
    BY <1>4, Zenon DEF Max
  <1> QED
    BY <1>0, <1>5

USE EliminationAssumption

LEMMA CandsFacts == Cands \subseteq Nat /\ IsFiniteSet(Cands)
  BY FS_Interval DEF Cands

\* A set of candidates has a size.
LEMMA SizeOfSome ==
  ASSUME NEW S, S \subseteq Cands
  PROVE  IsFiniteSet(S) /\ Cardinality(S) \in Nat
  BY CandsFacts, FS_Subset, FS_CardinalityType

LEMMA CallerFacts == Caller \notin Workers /\ Caller \in Feeders /\ Workers \subseteq Feeders
  BY DEF Caller, Workers, Feeders

\* What a record says depends on nothing but the behaviours, the context and
\* who has been given up untested.
LEMMA SoundStays ==
  ASSUME UNCHANGED <<behaviour, untested>>, ctxDone => ctxDone', NEW i \in Cands, NEW c
  PROVE  (Sound(i, c) => Sound(i, c)') /\ (Silent(i, c) <=> Silent(i, c)')
         /\ (Mute(i, c) <=> Mute(i, c)') /\ (Whole(i) <=> Whole(i)')
  BY DEF Sound, Silent, Mute, Silence, Whole

-----------------------------------------------------------------------------
(* A feeder's step changes its candidate's record to d and goes on to s,   *)
(* with the error e; what is asked of d, s and e here keeps the invariant. *)

Step(f, d, s, e) ==
    /\ cand' = [cand EXCEPT ![held[f]] = d]
    /\ step' = [step EXCEPT ![f] = s]
    /\ ferr' = [ferr EXCEPT ![f] = e]
    /\ UNCHANGED <<given, ctxDone, answer, elim, round, main, held>>

Fine(f, d, s, e) == LET i == held[f] IN
    /\ d \in CandType /\ s \in {"feed", "close", "report"} /\ e \in Errs
    /\ Sound(i, d)
    /\ s \in {"feed", "close"} => d.open /\ e = "nil"
    /\ s = "report" /\ e = "nil" /\ ~d.dead =>
         d.open /\ (d.tested \/ ctxDone \/ (d.pos >= target /\ Mute(i, d)))
    /\ d.pos <= cand[i].pos \/ d.pos <= target

LEMMA StepKeeps ==
  ASSUME IInv, NEW f \in Feeders, Feeding(f), NEW d, NEW s, NEW e, Fine(f, d, s, e), Step(f, d, s, e)
  PROVE  IInv'
  <1> DEFINE i == held[f]
  <1>1. i \in alive \ left /\ i \in Cands /\ Busy(f)
    BY DEF IInv, TypeOK, FeedersOK, Feeding, Busy
  <1>2. /\ cand' = [cand EXCEPT ![i] = d] /\ step' = [step EXCEPT ![f] = s]
        /\ ferr' = [ferr EXCEPT ![f] = e]
        /\ UNCHANGED <<behaviour, limit, size, ctxDone, answer, alive, lastDeath, firstErr, tried,
                      untested, window, target, left, survived, stop, fallback, roundErr, main, held>>
    BY DEF Step, given, elim, round
  <1>3. /\ cand \in [Cands -> CandType] /\ step \in [Feeders -> Steps]
        /\ ferr \in [Feeders -> Errs] /\ d \in CandType
    BY DEF IInv, TypeOK, Fine
  <1>4. /\ cand'[i] = d /\ \A j \in Cands \ {i} : cand'[j] = cand[j]
        /\ step'[f] = s /\ \A g \in Feeders \ {f} : step'[g] = step[g]
        /\ ferr'[f] = e /\ \A g \in Feeders \ {f} : ferr'[g] = ferr[g]
    BY <1>1, <1>2, <1>3
  <1> HIDE DEF i
  <1>5. \A g \in Feeders : Busy(g)' <=> Busy(g)
    BY <1>1, <1>4 DEF Busy, Fine, i
  <1>6. \A j \in Cands : (InHand(j)' <=> InHand(j))
    BY <1>2, <1>5 DEF InHand
  <1>7. InHand(i) /\ \A g \in Feeders \ {f} : Busy(g) => held[g] # i
    BY <1>1 DEF InHand, IInv, FeedersOK, i
  <1>8. TypeOK'
    BY <1>1, <1>2, <1>3, <1>4 DEF IInv, TypeOK, Fine, Steps
  <1>9. SoundOK'
    BY <1>2, <1>4, SoundStays DEF IInv, SoundOK, Fine, i
  <1>10. FeedersOK'
    <2>1. \A g \in Feeders : Busy(g)' => /\ held'[g] \in alive' \ left'
                                        /\ main' = IF g = Caller THEN "settle" ELSE "round"
      BY <1>2, <1>5 DEF IInv, FeedersOK
    <2>2. \A g, h \in Feeders : Busy(g)' /\ Busy(h)' /\ held'[g] = held'[h] => g = h
      BY <1>2, <1>5 DEF IInv, FeedersOK
    <2>3. ASSUME NEW g \in Feeders
          PROVE  /\ Feeding(g)' => ferr'[g] = "nil" /\ ~cand'[held'[g]].dead
                 /\ step'[g] \in {"feed", "close"} => cand'[held'[g]].open
      <3>1. CASE g = f
        BY <1>1, <1>2, <1>4, <3>1 DEF Feeding, Fine, Sound, i
      <3>2. CASE g # f
        <4>1. Busy(g) => held[g] \in Cands \ {i}
          BY <1>7, <3>2 DEF IInv, FeedersOK, TypeOK
        <4> QED
          BY <1>2, <1>4, <3>2, <4>1 DEF Feeding, Busy, IInv, FeedersOK
      <3> QED
        BY <3>1, <3>2
    <2>4. \A j \in Cands : cand'[j].open => j \in alive'
      BY <1>1, <1>2, <1>4 DEF IInv, FeedersOK
    <2>5. main' = "settle" => alive' = {held'[Caller]} /\ Busy(Caller)'
      BY <1>2, <1>5, CallerFacts DEF IInv, FeedersOK
    <2>6. main' \notin {"settle", "returned"} => ferr'[Caller] = "nil"
      BY <1>1, <1>2, <1>4, CallerFacts DEF IInv, FeedersOK
    <2> QED
      BY <2>1, <2>2, <2>3, <2>4, <2>5, <2>6 DEF FeedersOK
  <1>11. ASSUME NEW j \in Cands \ {i} PROVE Reported(j)' <=> Reported(j)
    BY <1>2, <1>4, SoundStays DEF Reported
  <1>12. RoundOK'
    <2> SUFFICES ASSUME main = "round" PROVE RoundOK'
      BY <1>2 DEF RoundOK
    <2>1. \A j \in left' : ~cand'[j].dead /\ (cand'[j].started => cand'[j].open)
      BY <1>1, <1>2, <1>4 DEF IInv, RoundOK, TypeOK
    <2>2. ASSUME NEW w \in Workers, step'[w] = "report", ferr'[w] = "nil" PROVE Reported(held[w])'
      <3>1. CASE w = f
        BY <1>1, <1>2, <1>4, <2>2, <3>1, SoundStays DEF Reported, Fine, i
      <3>2. CASE w # f
        <4>1. Busy(w) /\ w \in Feeders /\ step[w] = "report" /\ ferr[w] = "nil"
          BY <1>4, <2>2, <3>2, CallerFacts DEF Busy
        <4>2. held[w] \in Cands \ {i}
          BY <1>7, <3>2, <4>1 DEF IInv, FeedersOK, TypeOK
        <4> QED
          BY <1>2, <1>11, <4>1, <4>2 DEF IInv, RoundOK
      <3> QED
        BY <3>1, <3>2
    <2>3. ASSUME roundErr = "nil", NEW j \in alive \ left, ~InHand(j)' PROVE Reported(j)'
      <3>1. j \in Cands \ {i} /\ ~InHand(j)
        BY <1>6, <1>7, <2>3 DEF IInv, TypeOK
      <3> QED
        BY <1>11, <2>3, <3>1 DEF IInv, RoundOK
    <2>4. Survivors' = Survivors
      BY <1>2, <1>4, <1>6, <1>7 DEF Survivors, IInv, TypeOK
    <2> QED
      BY <1>2, <2>1, <2>2, <2>3, <2>4 DEF IInv, RoundOK
  <1>13. main \in {"round", "settle"} /\ BetweenOK'
    BY <1>1, <1>2 DEF IInv, FeedersOK, BetweenOK
  <1>14. WindowOK'
    <2>1. d.pos <= UntestedLimit + Margin /\ (d.pos > UntestedLimit => main = "settle" /\ alive \subseteq {i})
      <3>1. d.pos \in Int /\ cand[i].pos \in Int /\ target \in Int
        BY <1>1, <1>3 DEF CandType, IInv, TypeOK
      <3>2. CASE main = "round"
        BY <1>1, <3>1, <3>2 DEF IInv, RoundOK, WindowOK, Fine, i, TypeOK
      <3>3. CASE main = "settle"
        <4>1. f = Caller /\ alive = {i}
          BY <1>1, <3>3 DEF IInv, FeedersOK, i
        <4> QED
          BY <1>1, <3>1, <3>3, <4>1 DEF IInv, WindowOK, Fine, i
      <3> QED
        BY <1>13, <3>2, <3>3
    <2> QED
      BY <1>1, <1>2, <1>4, <2>1 DEF IInv, WindowOK
  <1>15. ListsOK'
    BY <1>1, <1>2, <1>4, SoundStays DEF IInv, ListsOK
  <1>16. AnswerOK'
    BY <1>2, <1>13 DEF IInv, AnswerOK
  <1>17. GivenOK' /\ EarliestOfTested' /\ DroppedHadToBeSilent'
    BY <1>2 DEF IInv, GivenOK, EarliestOfTested, DroppedHadToBeSilent, Whole
  <1> QED
    BY <1>8, <1>9, <1>10, <1>12, <1>13, <1>14, <1>15, <1>16, <1>17 DEF IInv

\* What is known of the candidate a feeder is at work on.
LEMMA FeederFacts ==
  ASSUME IInv, NEW f \in Feeders, Feeding(f)
  PROVE  LET i == held[f] IN
         /\ i \in Cands /\ i \in alive /\ cand[i] \in CandType /\ cand[i].cw \in CompareType
         /\ Sound(i, cand[i]) /\ ~cand[i].dead /\ ferr[f] = "nil"
         /\ behaviour[i] \in AllBehaviours /\ behaviour[i].lag > 0
         /\ step[f] # "start" => cand[i].open
         /\ cand[i].pos \in Int /\ target \in Int
  <1>1. held[f] \in alive /\ held[f] \in Cands /\ ferr[f] = "nil" /\ ~cand[held[f]].dead
        /\ (step[f] # "start" => cand[held[f]].open)
    BY DEF IInv, TypeOK, FeedersOK, Feeding, Busy
  <1>2. cand[held[f]] \in CandType /\ behaviour[held[f]] \in AllBehaviours
    BY <1>1 DEF IInv, TypeOK
  <1>3. Sound(held[f], cand[held[f]]) /\ behaviour[held[f]].lag > 0
    BY <1>1 DEF IInv, SoundOK, GivenOK
  <1> QED
    BY <1>1, <1>2, <1>3 DEF CandType, IInv, TypeOK

\* Going on without an error leaves ferr as it was.
LEMMA GotoStep ==
  ASSUME IInv, NEW f \in Feeders, Feeding(f), NEW d, NEW s,
         Goto(f, s), cand' = [cand EXCEPT ![held[f]] = d], FeedOnly
  PROVE  Step(f, d, s, "nil")
  <1>1. ferr' = ferr /\ ferr[f] = "nil" /\ ferr \in [Feeders -> Errs]
    BY FeederFacts DEF Goto, IInv, TypeOK
  <1>2. ferr' = [ferr EXCEPT ![f] = "nil"]
    BY <1>1
  <1> QED
    BY <1>2 DEF Goto, FeedOnly, Step

LEMMA FailKeeps ==
  ASSUME IInv, NEW f \in Feeders, Feeding(f), NEW c, NEW e \in Errs \ {"nil"},
         c \in CandType, Sound(held[f], c),
         c.pos <= cand[held[f]].pos,
         Fail(f, e), cand' = [cand EXCEPT ![held[f]] = c], FeedOnly
  PROVE  IInv'
  <1>1. Step(f, c, "report", e)
    BY DEF Fail, FeedOnly, Step
  <1>2. Fine(f, c, "report", e)
    BY DEF Fine
  <1> QED
    BY <1>1, <1>2, StepKeeps

\* kill: the candidate it takes does not reproduce the input, unless the
\* context is done, and the error it keeps is the candidate's.
LEMMA KillKeeps ==
  ASSUME IInv, NEW f \in Feeders, Feeding(f), NEW c, NEW e,
         c \in CandType, Sound(held[f], c), c.started,
         c.pos <= cand[held[f]].pos,
         ctxDone \/ ~Whole(held[f]),
         ctxDone \/ (e = "failure" => behaviour[held[f]].then \in {"fails", "unopenable", "unreadable"}),
         Kill(f, c, e), FeedOnly
  PROVE  IInv'
  <1>1. CASE ctxDone
    BY <1>1, FailKeeps DEF Kill, Errs
  <1>2. CASE ~ctxDone
    <2> DEFINE d == [c EXCEPT !.dead = TRUE, !.deathPos = c.pos, !.open = FALSE, !.err = Noted(e)]
    <2>1. Step(f, d, "report", "nil")
      BY <1>2, GotoStep DEF Kill
    <2>2. d \in CandType /\ d.pos = c.pos /\ d.dead
      BY DEF CandType, Noted
    <2>3. Sound(held[f], d)
      BY <1>2 DEF Sound, Silent, Noted, CandType
    <2> HIDE DEF d
    <2>4. Fine(f, d, "report", "nil")
      BY <2>2, <2>3 DEF Fine, Errs
    <2> QED
      BY <2>1, <2>4, StepKeeps
  <1> QED
    BY <1>1, <1>2

LEMMA StartKeeps == ASSUME IInv, NEW f \in Feeders, Start(f) PROVE IInv'
  <1> DEFINE i == held[f]
             c == [cand[i] EXCEPT !.started = TRUE]
  <1>1. Feeding(f) /\ step[f] = "start" /\ FeedOnly
    BY DEF Start, Feeding
  <1>2. /\ i \in Cands /\ cand[i] \in CandType /\ Sound(i, cand[i]) /\ ~cand[i].dead
        /\ behaviour[i] \in AllBehaviours
    BY <1>1, FeederFacts
  <1>3. c \in CandType /\ c.pos = cand[i].pos /\ c.started /\ ~c.dead
    BY <1>2 DEF CandType
  <1>4. Sound(i, c)
    BY <1>2 DEF Sound, Silent, CandType
  <1>5. c.pos <= cand[i].pos
    BY <1>2, <1>3 DEF CandType
  <1>6. CASE behaviour[i].then = "noReference" /\ Fail(f, "inputErr") /\ cand' = [cand EXCEPT ![i] = c]
    <2> HIDE DEF c
    <2> QED
      BY <1>1, <1>3, <1>4, <1>5, <1>6, FailKeeps DEF Errs
  <1>7. CASE behaviour[i].then = "unopenable" /\ Kill(f, c, "failure")
    <2>1. ~Whole(i)
      BY <1>7 DEF Whole, VerdictUnder
    <2> HIDE DEF c
    <2> QED
      BY <1>1, <1>3, <1>4, <1>5, <1>7, <2>1, KillKeeps
  <1>8. CASE /\ behaviour[i].then \notin {"noReference", "unopenable"}
             /\ Goto(f, "feed") /\ cand' = [cand EXCEPT ![i] = [c EXCEPT !.open = TRUE]]
    <2> DEFINE d == [c EXCEPT !.open = TRUE]
    <2>1. Step(f, d, "feed", "nil")
      BY <1>1, <1>8, GotoStep
    <2>2. d \in CandType /\ d.open /\ d.pos = cand[i].pos
      BY <1>3 DEF CandType
    <2>3. Sound(i, d)
      BY <1>3, <1>4, <1>8 DEF Sound, Silent, CandType
    <2> HIDE DEF d, c
    <2>4. Fine(f, d, "feed", "nil")
      BY <1>3, <1>5, <2>2, <2>3 DEF Fine, Errs
    <2> QED
      BY <1>1, <2>1, <2>4, StepKeeps
  <1> QED
    BY <1>6, <1>7, <1>8 DEF Start

\* An engine that is broken, or whose comparison is over, is a candidate's
\* that does not reproduce the input, or the context's.
LEMMA BrokenFacts ==
  ASSUME IInv, NEW f \in Feeders, Feeding(f),
         LET c == cand[held[f]] IN c.broken \/ Done(c.cw)
  PROVE  LET c == cand[held[f]]  b == behaviour[held[f]] IN
         /\ Cause(c) \in {"mismatch", "failure"}
         /\ ctxDone \/ ~Whole(held[f])
         /\ ctxDone \/ (Cause(c) = "failure" => b.then \in {"fails", "unopenable", "unreadable"})
  <1> DEFINE i == held[f]
             c == cand[i]
             b == behaviour[i]
  <1>1. c.cw \in CompareType /\ Sound(i, c)
    BY FeederFacts
  <1>2. /\ c.cw.err \in {"nil", "mismatch", "failure"}
        /\ c.cw.err = "mismatch" => b.then = "differs"
        /\ c.cw.err = "failure" => b.then = "unreadable"
        /\ c.broken => Done(c.cw) \/ ctxDone \/ b.then = "fails"
    BY <1>1 DEF Sound, CompareType
  <1>3. b.then # "stops" => ~Whole(i)
    BY DEF Whole, VerdictUnder
  <1>4. c.broken \/ Done(c.cw)
    OBVIOUS
  <1> HIDE DEF i, c, b
  <1>5. /\ Cause(c) \in {"mismatch", "failure"}
        /\ ctxDone \/ ~Whole(i)
        /\ ctxDone \/ (Cause(c) = "failure" => b.then \in {"fails", "unopenable", "unreadable"})
    BY <1>2, <1>3, <1>4 DEF Done, Cause
  <1> QED
    BY <1>5 DEF i, c, b

LEMMA BlockKeeps == ASSUME IInv, NEW f \in Feeders, Block(f) PROVE IInv'
  <1> DEFINE i == held[f]
             c == cand[i]
             b == behaviour[i]
             d == [c EXCEPT !.pos = c.pos + 1]
  <1>1. Feeding(f) /\ step[f] = "feed" /\ FeedOnly /\ c.pos < target
    BY DEF Block, Feeding
  <1>2. /\ i \in Cands /\ c \in CandType /\ Sound(i, c) /\ ~c.dead /\ c.open
        /\ b \in AllBehaviours /\ b.lag > 0 /\ ferr[f] = "nil" /\ c.pos \in Int /\ target \in Int
    BY <1>1, FeederFacts
  <1>3. cand' = [cand EXCEPT ![i] = d] /\ UNCHANGED feeder
    BY DEF Block
  <1>4. d \in CandType /\ d.open /\ d.pos <= target
    BY <1>1, <1>2 DEF CandType
  <1>5. step' = [step EXCEPT ![f] = "feed"] /\ ferr' = [ferr EXCEPT ![f] = "nil"]
    <2>1. step' = step /\ ferr' = ferr /\ step \in [Feeders -> Steps] /\ ferr \in [Feeders -> Errs]
      BY <1>3 DEF feeder, IInv, TypeOK
    <2> QED
      BY <1>1, <1>2, <2>1
  <1>6. Step(f, d, "feed", "nil")
    BY <1>1, <1>3, <1>5 DEF Step, FeedOnly, feeder
  <1>7. c.cw.n = 0 /\ ~c.broken => d.pos <= Silence(i) \/ ~HasWrite(b, 0)
    <2> SUFFICES ASSUME c.cw.n = 0, ~c.broken, HasWrite(b, 0) PROVE d.pos <= Silence(i)
      OBVIOUS
    <2>1. Owes(i) <=> Closing(i) \/ b.lag <= c.pos
      BY <1>2 DEF Owes, AllBehaviours
    <2>2. IF b.async THEN ~Owes(i) \/ c.pos - b.lag - c.cw.n < Lead ELSE ~Owes(i)
      BY DEF Block
    <2>3. b.lag \in Nat /\ Lead \in Nat /\ d.pos = c.pos + 1
      BY <1>2 DEF AllBehaviours, CandType
    <2>4. c.pos < b.lag \/ (b.async /\ c.pos < b.lag + Lead)
      BY <1>2, <2>1, <2>2, <2>3
    <2> QED
      BY <1>2, <2>3, <2>4 DEF Silence
  <1>8. Sound(i, d)
    BY <1>2, <1>7 DEF Sound, Silent, CandType
  <1> HIDE DEF d
  <1>9. Fine(f, d, "feed", "nil")
    BY <1>4, <1>8 DEF Fine, Errs
  <1> QED
    BY <1>1, <1>6, <1>9, StepKeeps

LEMMA BlockFailsKeeps == ASSUME IInv, NEW f \in Feeders, BlockFails(f) PROVE IInv'
  <1> DEFINE i == held[f]
             c == cand[i]
  <1>1. Feeding(f) /\ FeedOnly /\ c.broken
    BY DEF BlockFails, Feeding
  <1>2. i \in Cands /\ c \in CandType /\ Sound(i, c) /\ ~c.dead /\ c.open /\ c.pos \in Int
    BY FeederFacts DEF BlockFails, Feeding
  <1>3. PICK p \in {c.pos - 1, c.pos} : Kill(f, [c EXCEPT !.pos = p], Cause(c))
    <2>1. [c EXCEPT !.pos = c.pos] = c
      BY <1>2 DEF CandType
    <2> QED
      BY <2>1 DEF BlockFails
  <1> DEFINE d == [c EXCEPT !.pos = p]
  <1>4. d \in CandType /\ d.pos <= c.pos /\ d.started
    BY <1>2 DEF CandType, Sound
  <1>5. Sound(i, d)
    <2>1. Silent(i, c) => Silent(i, d)
      BY <1>2 DEF Silent, Silence, IInv, TypeOK, AllBehaviours, CandType
    <2> QED
      BY <1>2, <2>1 DEF Sound, CandType
  <1>6. /\ ctxDone \/ ~Whole(i)
        /\ ctxDone \/ (Cause(c) = "failure" => behaviour[i].then \in {"fails", "unopenable", "unreadable"})
    BY <1>1, BrokenFacts
  <1> DEFINE e == Cause(c)
  <1>7. Kill(f, d, e)
    BY <1>3
  <1> HIDE DEF d, e
  <1>8. ctxDone \/ (e = "failure" => behaviour[i].then \in {"fails", "unopenable", "unreadable"})
    BY <1>6 DEF e
  <1> QED
    BY <1>1, <1>4, <1>5, <1>6, <1>7, <1>8, KillKeeps

LEMMA FedKeeps == ASSUME IInv, NEW f \in Feeders, Fed(f) PROVE IInv'
  <1> DEFINE i == held[f]
             c == cand[i]
             b == behaviour[i]
  <1>1. Feeding(f) /\ FeedOnly /\ c.pos >= target /\ (b.async \/ (~c.broken /\ ~Owes(i)))
    BY DEF Fed, Feeding
  <1>2. /\ i \in Cands /\ c \in CandType /\ Sound(i, c) /\ ~c.dead /\ c.open /\ c.started
        /\ c.pos \in Int /\ target \in Int /\ b \in AllBehaviours /\ c.cw \in CompareType
    BY FeederFacts DEF Fed, Feeding, Sound
  <1>3. CASE Done(c.cw) /\ Kill(f, c, c.cw.err)
    <2>1. Cause(c) = c.cw.err
      BY <1>3 DEF Cause
    <2>2. /\ ctxDone \/ ~Whole(i)
          /\ ctxDone \/ (c.cw.err = "failure" => b.then \in {"fails", "unopenable", "unreadable"})
      BY <1>1, <1>3, <2>1, BrokenFacts
    <2> QED
      BY <1>1, <1>2, <1>3, <2>2, KillKeeps
  <1>4. CASE /\ ~Done(c.cw)
             /\ cand' = [cand EXCEPT ![i].tested = c.cw.n > 0]
             /\ Goto(f, IF target < size THEN "report" ELSE "close")
    <2> DEFINE d == [c EXCEPT !.tested = c.cw.n > 0]
               s == IF target < size THEN "report" ELSE "close"
    <2>1. cand' = [cand EXCEPT ![i] = d]
      BY <1>4
    <2>2. Step(f, d, s, "nil")
      BY <1>1, <1>4, <2>1, GotoStep
    <2>3. d \in CandType /\ d.open /\ d.pos = c.pos /\ (d.tested <=> c.cw.n > 0)
      BY <1>2 DEF CandType
    <2>4. Sound(i, d)
      BY <1>2 DEF Sound, Silent, CandType
    <2>5. d.tested \/ ctxDone \/ Mute(i, d)
      <3> SUFFICES ASSUME c.cw.n = 0, ~ctxDone PROVE Mute(i, d)
        BY <1>2, <2>3 DEF CompareType
      <3>1. Silent(i, c) \/ c.broken
        BY <1>2 DEF Sound
      <3>2. c.broken => b.then = "fails" /\ 0 >= b.good
        BY <1>2, <1>4 DEF Sound
      <3>3. c.broken => ~HasWrite(b, 0)
        BY <1>2, <3>2 DEF HasWrite, AllBehaviours
      <3>4. ~b.async /\ HasWrite(b, 0) => ~(0 + b.lag <= c.pos)
        BY <1>1, <1>2, <3>3 DEF Owes
      <3>5. b.lag \in Nat /\ (~b.async /\ HasWrite(b, 0) => c.pos < b.lag)
        BY <1>2, <3>4 DEF AllBehaviours
      <3> QED
        BY <2>3, <3>1, <3>3, <3>5 DEF Silent, Silence, Mute
    <2>6. s \in {"report", "close"}
      OBVIOUS
    <2> HIDE DEF d, s
    <2>7. Fine(f, d, s, "nil")
      BY <1>1, <1>2, <2>3, <2>4, <2>5, <2>6 DEF Fine, Errs
    <2> QED
      BY <1>1, <2>2, <2>7, StepKeeps
  <1> QED
    BY <1>3, <1>4 DEF Fed

LEMMA ClosedKeeps == ASSUME IInv, NEW f \in Feeders, Closed(f) PROVE IInv'
  <1> DEFINE i == held[f]
             c == cand[i]
             b == behaviour[i]
             e == IF c.broken THEN Cause(c) ELSE AtEOF(c.cw, RefLen)
  <1>1. Feeding(f) /\ FeedOnly /\ Closing(i) /\ ~Owes(i)
    BY DEF Closed, Feeding, Closing, Flushed
  <1>2. /\ i \in Cands /\ c \in CandType /\ Sound(i, c) /\ ~c.dead /\ c.open /\ c.started
        /\ c.pos \in Int /\ b \in AllBehaviours /\ c.cw \in CompareType
    BY FeederFacts DEF Closed, Feeding, Sound
  <1>3. ~c.broken => b.then = "stops" \/ b.then = "differs" \/ b.then = "unreadable"
    BY <1>1, <1>2 DEF Owes, AllBehaviours, Sound
  <1>4. ~c.broken => c.cw.n = b.good /\ b.then = "stops"
    BY <1>1, <1>2, <1>3 DEF Owes, AllBehaviours, Sound, HasWrite, CompareType
  <1>5. CASE e # "nil" /\ Kill(f, c, e)
    <2>1. /\ ctxDone \/ ~Whole(i)
          /\ ctxDone \/ (e = "failure" => b.then \in {"fails", "unopenable", "unreadable"})
      <3>1. CASE c.broken \/ Done(c.cw)
        <4>1. e = Cause(c)
          BY <3>1 DEF Cause, AtEOF
        <4> QED
          BY <1>1, <3>1, <4>1, BrokenFacts
      <3>2. CASE ~c.broken /\ ~Done(c.cw)
        <4>1. e = "mismatch" /\ c.cw.n < RefLen
          BY <1>5, <3>2 DEF AtEOF
        <4>2. b.good # RefLen
          BY <1>2, <1>4, <3>2, <4>1 DEF CompareType
        <4> QED
          BY <4>1, <4>2 DEF Whole, VerdictUnder
      <3> QED
        BY <3>1, <3>2
    <2> HIDE DEF e
    <2> QED
      BY <1>1, <1>2, <1>5, <2>1, KillKeeps
  <1>6. CASE /\ e = "nil"
             /\ cand' = [cand EXCEPT ![i].complete = TRUE, ![i].tested = TRUE]
             /\ Goto(f, "report")
    <2> DEFINE d == [c EXCEPT !.complete = TRUE, !.tested = TRUE]
    <2>1. cand' = [cand EXCEPT ![i] = d]
      <3>1. cand \in [Cands -> CandType]
        BY DEF IInv, TypeOK
      <3> QED
        BY <1>2, <1>6, <3>1
    <2>2. Step(f, d, "report", "nil")
      BY <1>1, <1>6, <2>1, GotoStep
    <2>3. d \in CandType /\ d.open /\ d.pos = c.pos /\ d.tested
      BY <1>2 DEF CandType
    <2>4. ~c.broken /\ ~Done(c.cw) /\ ~(c.cw.n < RefLen)
      BY <1>6 DEF Cause, AtEOF, Done
    <2>5. b.good = RefLen
      BY <1>2, <1>4, <2>4 DEF AllBehaviours, CompareType
    <2>6. Whole(i)
      BY <1>4, <2>4, <2>5 DEF Whole, VerdictUnder
    <2>7. Sound(i, d)
      BY <1>2, <2>6 DEF Sound, Silent, CandType
    <2> HIDE DEF d
    <2>8. Fine(f, d, "report", "nil")
      BY <1>2, <2>3, <2>7 DEF Fine, Errs
    <2> QED
      BY <1>1, <2>2, <2>8, StepKeeps
  <1> QED
    BY <1>5, <1>6 DEF Closed

LEMMA FeedKeeps == ASSUME IInv, NEW f \in Feeders, Feed(f) PROVE IInv'
  BY StartKeeps, BlockKeeps, BlockFailsKeeps, FedKeeps, ClosedKeeps DEF Feed

-----------------------------------------------------------------------------
(* The engines.                                                            *)

\* What a write, or the engine's failure, does to the record keeps it sound.
LEMMA EmitSound ==
  ASSUME IInv, NEW i \in Cands, Emit(i)
  PROVE  \E d : /\ cand' = [cand EXCEPT ![i] = d] /\ d \in CandType /\ Sound(i, d)
                /\ \E w \in CompareType, k \in BOOLEAN : d = [cand[i] EXCEPT !.cw = w, !.broken = k]
  <1> DEFINE c == cand[i]
             b == behaviour[i]
             o == Outcome(b, c.cw.n, RefLen)
             w == AfterWrite(c.cw, 0, o)
  <1>1. /\ c \in CandType /\ c.cw \in CompareType /\ Sound(i, c) /\ b \in AllBehaviours
        /\ c.cw.n \in Nat /\ b.good \in Nat
    BY DEF IInv, TypeOK, SoundOK, CandType, CompareType, AllBehaviours
  <1>2. c.open /\ ~c.broken /\ (HasWrite(b, c.cw.n) \/ b.then = "fails")
    BY DEF Emit, Owes
  <1>3. CASE HasWrite(b, c.cw.n) /\ ~ctxDone
    <2> DEFINE k == WriteErr(w) # "nil"
               d == [c EXCEPT !.cw = w, !.broken = k]
    <2>1. cand' = [cand EXCEPT ![i] = d]
      BY <1>3 DEF Emit
    <2>2. /\ w \in CompareType /\ ~w.limited /\ w.n <= b.good
          /\ w.err = "mismatch" => b.then = "differs"
          /\ w.err = "failure" => b.then = "unreadable"
          /\ w.n = 0 => Done(w)
      <3>1. CASE Done(c.cw)
        BY <1>1, <3>1 DEF AfterWrite, Sound
      <3>2. CASE ~Done(c.cw) /\ o = "equal"
        <4>1. c.cw.n < b.good
          BY <3>2 DEF Outcome
        <4> DEFINE reached == 0 > 0 /\ c.cw.n + 1 >= 0
        <4>2. w = [n |-> c.cw.n + 1, err |-> "nil", limited |-> reached]
          BY <1>1, <3>2 DEF AfterWrite, Sound
        <4>0. reached = FALSE
          OBVIOUS
        <4> HIDE DEF w, reached
        <4>3. w = [n |-> c.cw.n + 1, err |-> "nil", limited |-> FALSE]
          BY <4>2, <4>0, Zenon
        <4>4. w \in CompareType /\ w.n = c.cw.n + 1 /\ w.err = "nil" /\ ~w.limited
          BY <1>1, <4>3 DEF CompareType
        <4> QED
          BY <1>1, <4>1, <4>4
      <3>3. CASE ~Done(c.cw) /\ o # "equal"
        <4>1. ~(c.cw.n < b.good) /\ b.then \in {"differs", "unreadable"}
          BY <1>3, <3>3 DEF Outcome, HasWrite
        <4>2. o = "unreadable" <=> b.then = "unreadable"
          BY <4>1 DEF Outcome
        <4>3. w = [n |-> c.cw.n, limited |-> FALSE,
                   err |-> IF o = "unreadable" THEN "failure" ELSE "mismatch"]
          BY <1>1, <3>3 DEF AfterWrite, Sound
        <4> HIDE DEF w, o
        <4>4. w \in CompareType /\ w.n = c.cw.n /\ ~w.limited /\ Done(w)
          BY <1>1, <4>3 DEF CompareType, Done
        <4> QED
          BY <1>1, <4>1, <4>2, <4>3, <4>4 DEF Sound
      <3> QED
        BY <3>1, <3>2, <3>3
    <2>3. k \in BOOLEAN /\ (k <=> Done(w))
      BY <2>2 DEF WriteErr, Done
    <2> HIDE DEF w, k
    <2>4. d \in CandType
      BY <1>1, <2>2, <2>3 DEF CandType
    <2>5. Sound(i, d)
      BY <1>1, <1>2, <2>2, <2>3 DEF Sound, Silent, CandType
    <2> QED
      BY <2>1, <2>2, <2>3, <2>4, <2>5
  <1>4. CASE ~(HasWrite(b, c.cw.n) /\ ~ctxDone)
    <2> DEFINE d == [c EXCEPT !.cw = c.cw, !.broken = TRUE]
    <2>1. cand' = [cand EXCEPT ![i] = [c EXCEPT !.broken = TRUE]]
      BY <1>4 DEF Emit
    <2>2. [c EXCEPT !.broken = TRUE] = d
      BY <1>1 DEF CandType
    <2>3. d \in CandType
      BY <1>1 DEF CandType
    <2>4. ctxDone \/ (b.then = "fails" /\ c.cw.n >= b.good)
      BY <1>1, <1>2, <1>4 DEF HasWrite
    <2>5. Sound(i, d)
      BY <1>1, <1>2, <2>4 DEF Sound, Silent, CandType
    <2> QED
      BY <1>1, <2>1, <2>2, <2>3, <2>5
  <1> QED
    BY <1>3, <1>4

LEMMA EmitKeeps == ASSUME IInv, NEW i \in Cands, Emit(i) PROVE IInv'
  <1>1. UNCHANGED <<behaviour, limit, size, ctxDone, answer, alive, lastDeath, firstErr, tried,
                    untested, window, target, left, survived, stop, fallback, roundErr, main,
                    held, step, ferr>>
    BY DEF Emit, given, elim, round, feeder
  <1>2. PICK d : /\ cand' = [cand EXCEPT ![i] = d] /\ d \in CandType /\ Sound(i, d)
                 /\ \E w \in CompareType, k \in BOOLEAN : d = [cand[i] EXCEPT !.cw = w, !.broken = k]
    BY EmitSound
  <1>3. cand \in [Cands -> CandType] /\ cand[i] \in CandType
    BY DEF IInv, TypeOK
  <1>4. /\ cand'[i] = d /\ \A j \in Cands \ {i} : cand'[j] = cand[j]
    BY <1>2, <1>3
  <1>5. /\ d.started = cand[i].started /\ d.open = cand[i].open /\ d.pos = cand[i].pos
        /\ d.tested = cand[i].tested /\ d.complete = cand[i].complete /\ d.dead = cand[i].dead
        /\ d.err = cand[i].err /\ d.deathPos = cand[i].deathPos
    BY <1>2, <1>3 DEF CandType
  <1>6. ASSUME NEW j \in Cands
        PROVE  /\ cand'[j].started = cand[j].started /\ cand'[j].open = cand[j].open
               /\ cand'[j].pos = cand[j].pos /\ cand'[j].tested = cand[j].tested
               /\ cand'[j].dead = cand[j].dead /\ cand'[j].err = cand[j].err
    BY <1>4, <1>5
  <1>7. \A f \in Feeders : /\ (Busy(f)' <=> Busy(f)) /\ (Feeding(f)' <=> Feeding(f))
                           /\ Busy(f) => held[f] \in Cands
    BY <1>1 DEF Busy, Feeding, IInv, FeedersOK, TypeOK
  <1>8. \A j \in Cands : (InHand(j)' <=> InHand(j))
    BY <1>1 DEF InHand, Busy
  <1>9. TypeOK'
    BY <1>1, <1>2, <1>3 DEF IInv, TypeOK
  <1>10. SoundOK'
    BY <1>1, <1>2, <1>4, SoundStays DEF IInv, SoundOK
  <1>11. FeedersOK'
    <2>1. \A f \in Feeders : Busy(f)' => /\ held'[f] \in alive' \ left'
                                         /\ main' = IF f = Caller THEN "settle" ELSE "round"
      BY <1>1, <1>7 DEF IInv, FeedersOK
    <2>2. \A g, h \in Feeders : Busy(g)' /\ Busy(h)' /\ held'[g] = held'[h] => g = h
      BY <1>1, <1>7 DEF IInv, FeedersOK
    <2>3. ASSUME NEW g \in Feeders
          PROVE  /\ Feeding(g)' => ferr'[g] = "nil" /\ ~cand'[held'[g]].dead
                 /\ step'[g] \in {"feed", "close"} => cand'[held'[g]].open
      BY <1>1, <1>6, <1>7 DEF IInv, FeedersOK, Feeding, Busy
    <2>4. \A j \in Cands : cand'[j].open => j \in alive'
      BY <1>1, <1>6 DEF IInv, FeedersOK
    <2>5. main' = "settle" => alive' = {held'[Caller]} /\ Busy(Caller)'
      BY <1>1, <1>7, CallerFacts DEF IInv, FeedersOK
    <2>6. main' \notin {"settle", "returned"} => ferr'[Caller] = "nil"
      BY <1>1 DEF IInv, FeedersOK
    <2> QED
      BY <2>1, <2>2, <2>3, <2>4, <2>5, <2>6 DEF FeedersOK
  <1>12. ASSUME NEW j \in Cands PROVE Reported(j)' <=> Reported(j)
    BY <1>1, <1>6 DEF Reported, Mute
  <1>13. RoundOK'
    <2> SUFFICES ASSUME main = "round" PROVE RoundOK'
      BY <1>1 DEF RoundOK
    <2>1. \A j \in left' : ~cand'[j].dead /\ (cand'[j].started => cand'[j].open)
      BY <1>1, <1>6 DEF IInv, RoundOK, TypeOK
    <2>2. ASSUME NEW w \in Workers, step'[w] = "report", ferr'[w] = "nil" PROVE Reported(held[w])'
      BY <1>1, <1>7, <1>12, <2>2, CallerFacts DEF Busy, IInv, RoundOK
    <2>3. ASSUME roundErr = "nil", NEW j \in alive \ left, ~InHand(j)' PROVE Reported(j)'
      BY <1>8, <1>12, <2>3 DEF IInv, RoundOK, TypeOK
    <2>4. Survivors' = Survivors
      BY <1>1, <1>6, <1>8 DEF Survivors, IInv, TypeOK
    <2> QED
      BY <1>1, <2>1, <2>2, <2>3, <2>4 DEF IInv, RoundOK
  <1>14. BetweenOK'
    <2>1. {j \in alive' : cand'[j].tested} = {j \in alive : cand[j].tested}
      BY <1>1, <1>6 DEF IInv, TypeOK
    <2>2. \A j \in alive : cand'[j].open = cand[j].open /\ cand'[j].tested = cand[j].tested
      BY <1>6 DEF IInv, TypeOK
    <2>3. \A j \in Cands : Slow(j)' <=> Slow(j)
      BY <1>1 DEF Slow
    <2> QED
      BY <1>1, <2>1, <2>2, <2>3 DEF IInv, BetweenOK, TypeOK
  <1>15. WindowOK'
    BY <1>1, <1>6 DEF IInv, WindowOK
  <1>16. ListsOK'
    BY <1>1, <1>6, SoundStays DEF IInv, ListsOK
  <1>17. AnswerOK'
    BY <1>1, <1>6 DEF IInv, AnswerOK
  <1>18. GivenOK' /\ EarliestOfTested' /\ DroppedHadToBeSilent'
    BY <1>1 DEF IInv, GivenOK, EarliestOfTested, DroppedHadToBeSilent, Whole
  <1> QED
    BY <1>9, <1>10, <1>11, <1>13, <1>14, <1>15, <1>16, <1>17, <1>18 DEF IInv

-----------------------------------------------------------------------------
(* A round's workers.                                                      *)

LEMMA HandOutKeeps == ASSUME IInv, NEW w \in Workers, HandOut(w) PROVE IInv'
  <1> DEFINE i == Min(left)
  <1>1. /\ UNCHANGED <<behaviour, limit, size, ctxDone, answer, cand, alive, lastDeath, firstErr,
                      tried, untested, window, target, survived, stop, fallback, roundErr, main>>
        /\ main = "round" /\ step[w] = "idle" /\ ~stop /\ left # {}
        /\ left' = left \ {i} /\ held' = [held EXCEPT ![w] = i]
        /\ ferr' = [ferr EXCEPT ![w] = "nil"]
        /\ step' = [step EXCEPT ![w] = IF cand[i].started THEN "feed" ELSE "start"]
    BY DEF HandOut, NoneToHand, given, elim
  <1>2. /\ w \in Feeders /\ w # Caller /\ alive \subseteq Cands /\ left \subseteq alive
        /\ step \in [Feeders -> Steps] /\ held \in [Feeders -> -1 .. N-1] /\ ferr \in [Feeders -> Errs]
    BY CallerFacts DEF IInv, TypeOK
  <1>3. i \in left /\ i \in alive /\ i \in Cands
    BY <1>1, <1>2, CandsFacts, MinFacts
  <1> HIDE DEF i
  <1>4. /\ held'[w] = i /\ ferr'[w] = "nil" /\ step'[w] \in {"feed", "start"}
        /\ step'[w] = "feed" => cand[i].started
        /\ \A g \in Feeders \ {w} : step'[g] = step[g] /\ held'[g] = held[g] /\ ferr'[g] = ferr[g]
    BY <1>1, <1>2
  <1>5. /\ Busy(w)' /\ ~Busy(w)
        /\ \A g \in Feeders \ {w} : Busy(g)' <=> Busy(g)
    BY <1>1, <1>4 DEF Busy
  <1>6. \A j \in Cands : InHand(j)' <=> InHand(j) \/ j = i
    BY <1>2, <1>4, <1>5 DEF InHand
  <1>7. TypeOK'
    <2>1. i \in -1 .. N-1
      BY <1>3 DEF Cands
    <2>2. held' \in [Feeders -> -1 .. N-1]
      BY <1>1, <1>2, <2>1
    <2>3. step' \in [Feeders -> Steps] /\ ferr' \in [Feeders -> Errs]
      BY <1>1, <1>2 DEF Steps, Errs
    <2> QED
      BY <1>1, <2>2, <2>3 DEF IInv, TypeOK
  <1>8. SoundOK'
    BY <1>1, SoundStays DEF IInv, SoundOK
  <1>9. FeedersOK'
    <2>1. \A g \in Feeders : Busy(g)' => /\ held'[g] \in alive' \ left'
                                         /\ main' = IF g = Caller THEN "settle" ELSE "round"
      BY <1>1, <1>2, <1>3, <1>4, <1>5 DEF IInv, FeedersOK
    <2>2. \A g \in Feeders \ {w} : Busy(g) => held[g] # i
      BY <1>3 DEF IInv, FeedersOK
    <2>3. \A g, h \in Feeders : Busy(g)' /\ Busy(h)' /\ held'[g] = held'[h] => g = h
      BY <1>4, <1>5, <2>2 DEF IInv, FeedersOK
    <2>4. ASSUME NEW g \in Feeders
          PROVE  /\ Feeding(g)' => ferr'[g] = "nil" /\ ~cand'[held'[g]].dead
                 /\ step'[g] \in {"feed", "close"} => cand'[held'[g]].open
      <3>1. CASE g = w
        BY <1>1, <1>3, <1>4, <3>1 DEF IInv, RoundOK
      <3>2. CASE g # w
        BY <1>1, <1>4, <3>2 DEF IInv, FeedersOK, Feeding
      <3> QED
        BY <3>1, <3>2
    <2>5. ferr'[Caller] = ferr[Caller]
      BY <1>2, <1>4, CallerFacts
    <2> QED
      BY <1>1, <2>1, <2>3, <2>4, <2>5 DEF IInv, FeedersOK
  <1>10. \A j \in Cands : Reported(j)' <=> Reported(j)
    BY <1>1, SoundStays DEF Reported
  <1>11. RoundOK'
    <2>1. \A j \in left' : ~cand'[j].dead /\ (cand'[j].started => cand'[j].open)
      BY <1>1 DEF IInv, RoundOK
    <2>2. ASSUME NEW v \in Workers, step'[v] = "report", ferr'[v] = "nil" PROVE Reported(held[v])' /\ held'[v] = held[v]
      <3>1. v \in Feeders \ {w}
        BY <1>4, <2>2, CallerFacts
      <3>2. step[v] = "report" /\ ferr[v] = "nil" /\ held'[v] = held[v]
        BY <1>4, <2>2, <3>1
      <3>3. held[v] \in Cands
        BY <1>2, <3>1, <3>2 DEF IInv, FeedersOK, Busy
      <3>4. Reported(held[v])
        BY <1>1, <3>2 DEF IInv, RoundOK
      <3> QED
        BY <1>1, <3>2, <3>4, SoundStays, <3>3 DEF Reported
    <2>3. ASSUME roundErr = "nil", NEW j \in alive \ left', ~InHand(j)' PROVE Reported(j)'
      <3>1. j \in alive \ left /\ ~InHand(j) /\ j \in Cands
        BY <1>1, <1>2, <1>6, <2>3
      <3> QED
        BY <1>1, <1>10, <2>3, <3>1 DEF IInv, RoundOK
    <2>4. Survivors' = Survivors
      <3>1. \A j \in alive : j \in left' \/ InHand(j)' <=> j \in left \/ InHand(j)
        BY <1>1, <1>2, <1>3, <1>6
      <3> QED
        BY <1>1, <3>1 DEF Survivors
    <2> QED
      BY <1>1, <2>1, <2>2, <2>3, <2>4 DEF IInv, RoundOK
  <1>12. BetweenOK' /\ WindowOK' /\ ListsOK' /\ AnswerOK'
    BY <1>1, SoundStays DEF IInv, BetweenOK, WindowOK, ListsOK, AnswerOK
  <1>13. GivenOK' /\ EarliestOfTested' /\ DroppedHadToBeSilent'
    BY <1>1 DEF IInv, GivenOK, EarliestOfTested, DroppedHadToBeSilent, Whole
  <1> QED
    BY <1>7, <1>8, <1>9, <1>11, <1>12, <1>13 DEF IInv

LEMMA ReportKeeps == ASSUME IInv, NEW w \in Workers, Report(w) PROVE IInv'
  <1> DEFINE i == held[w]
             c == cand[i]
  <1>1. /\ UNCHANGED <<behaviour, limit, size, ctxDone, answer, cand, alive, lastDeath, firstErr,
                      tried, untested, window, target, left, main, held, ferr>>
        /\ step[w] = "report" /\ step' = [step EXCEPT ![w] = "idle"]
    BY DEF Report, Goto, given, elim
  <1>2. /\ w \in Feeders /\ w # Caller /\ Busy(w) /\ alive \subseteq Cands /\ left \subseteq alive
        /\ step \in [Feeders -> Steps] /\ survived \in Nat /\ roundErr \in Errs
    BY <1>1, CallerFacts DEF IInv, TypeOK, Busy
  <1>3. i \in alive \ left /\ i \in Cands /\ main = "round"
    BY <1>2 DEF IInv, FeedersOK
  <1>4. /\ step'[w] = "idle" /\ \A g \in Feeders \ {w} : step'[g] = step[g]
    BY <1>1, <1>2
  <1>5. /\ ~Busy(w)' /\ \A g \in Feeders \ {w} : Busy(g)' <=> Busy(g)
    BY <1>4 DEF Busy
  <1>6. /\ InHand(i)
        /\ \A j \in Cands : InHand(j)' <=> InHand(j) /\ j # i
    BY <1>1, <1>2, <1>5 DEF InHand, IInv, FeedersOK
  <1>7. /\ ferr[w] # "nil" => /\ roundErr' # "nil" /\ stop' = TRUE
                              /\ survived' = survived /\ fallback' = fallback
        /\ ferr[w] = "nil" => roundErr' = roundErr
        /\ ferr[w] = "nil" /\ (c.dead \/ ~c.tested) =>
             survived' = survived /\ stop' = stop /\ fallback' = fallback
        /\ ferr[w] = "nil" /\ ~c.dead /\ c.tested =>
             /\ survived' = survived + 1
             /\ IF survived + 1 > MaxLockstep THEN stop' = TRUE /\ fallback' = TRUE
                                              ELSE stop' = stop /\ fallback' = fallback
    BY DEF Report, TooMany
  <1>8. /\ survived' \in Nat /\ (stop' = stop \/ stop' = TRUE) /\ (fallback' = fallback \/ fallback' = TRUE)
        /\ roundErr' \in Errs
    <2>1. roundErr' = roundErr \/ roundErr' = ferr[w]
      BY DEF Report
    <2>2. ferr[w] \in Errs
      BY <1>2 DEF IInv, TypeOK
    <2> QED
      BY <1>2, <1>7, <2>1, <2>2
  <1>9. TypeOK'
    <2>1. step' \in [Feeders -> Steps]
      BY <1>1, <1>2 DEF Steps
    <2>2. stop' \in BOOLEAN /\ fallback' \in BOOLEAN
      BY <1>8 DEF IInv, TypeOK
    <2> QED
      BY <1>1, <1>8, <2>1, <2>2 DEF IInv, TypeOK
  <1>10. SoundOK'
    BY <1>1, SoundStays DEF IInv, SoundOK
  <1>11. FeedersOK'
    <2>1. \A g \in Feeders : Busy(g)' => Busy(g) /\ g # w
      BY <1>5
    <2>2. \A g \in Feeders : Feeding(g)' => Feeding(g)
      BY <1>4 DEF Feeding
    <2>3. ASSUME NEW g \in Feeders
          PROVE  /\ Feeding(g)' => ferr'[g] = "nil" /\ ~cand'[held'[g]].dead
                 /\ step'[g] \in {"feed", "close"} => cand'[held'[g]].open
      BY <1>1, <1>4, <2>2 DEF IInv, FeedersOK
    <2> QED
      BY <1>1, <1>3, <2>1, <2>3 DEF IInv, FeedersOK
  <1>12. \A j \in Cands : Reported(j)' <=> Reported(j)
    BY <1>1, SoundStays DEF Reported
  <1>13. RoundOK'
    <2>1. \A j \in left' : ~cand'[j].dead /\ (cand'[j].started => cand'[j].open)
      BY <1>1, <1>3 DEF IInv, RoundOK
    <2>2. ASSUME NEW v \in Workers, step'[v] = "report", ferr'[v] = "nil" PROVE Reported(held[v])'
      <3>1. v \in Feeders /\ step[v] = "report" /\ ferr[v] = "nil"
        BY <1>1, <1>4, <2>2, CallerFacts
      <3>2. held[v] \in Cands
        BY <1>2, <3>1 DEF IInv, FeedersOK, Busy
      <3> QED
        BY <1>1, <1>3, <1>12, <3>1, <3>2 DEF IInv, RoundOK
    <2>3. ASSUME roundErr' = "nil", NEW j \in alive \ left, ~InHand(j)' PROVE Reported(j)'
      <3>1. roundErr = "nil" /\ ferr[w] = "nil"
        BY <1>7, <2>3
      <3>2. j \in Cands /\ (~InHand(j) \/ j = i)
        BY <1>2, <1>6, <2>3
      <3>3. Reported(j)
        BY <1>1, <1>3, <2>3, <3>1, <3>2 DEF IInv, RoundOK
      <3> QED
        BY <1>12, <3>2, <3>3
    <2>4. roundErr' = "nil" => survived' = Cardinality(Survivors')
      <3> SUFFICES ASSUME roundErr' = "nil" PROVE survived' = Cardinality(Survivors')
        OBVIOUS
      <3>1. ferr[w] = "nil" /\ survived = Cardinality(Survivors)
        BY <1>3, <1>7 DEF IInv, RoundOK
      <3>2. i \notin Survivors /\ IsFiniteSet(Survivors)
        <4>1. Survivors \subseteq Cands
          BY <1>2 DEF Survivors
        <4> QED
          BY <1>6, <4>1, SizeOfSome DEF Survivors
      <3>3. CASE ~c.dead /\ c.tested
        <4>1. Survivors' = Survivors \cup {i}
          BY <1>1, <1>2, <1>3, <1>6, <3>3 DEF Survivors
        <4> QED
          BY <1>7, <3>1, <3>2, <3>3, <4>1, FS_AddElement
      <3>4. CASE c.dead \/ ~c.tested
        <4>1. Survivors' = Survivors
          BY <1>1, <1>2, <1>3, <1>6, <3>4 DEF Survivors
        <4> QED
          BY <1>7, <3>1, <3>4, <4>1
      <3> QED
        BY <3>3, <3>4
    <2>5. stop' => fallback' \/ roundErr' # "nil"
      <3>1. stop => fallback \/ roundErr # "nil"
        BY <1>3 DEF IInv, RoundOK
      <3>2. \/ roundErr' # "nil"
            \/ fallback' = TRUE
            \/ roundErr' = roundErr /\ stop' = stop /\ fallback' = fallback
        BY <1>7
      <3> QED
        BY <3>1, <3>2, Zenon
    <2>6. ~fallback' => survived' <= MaxLockstep
      BY <1>3, <1>7, <1>8, <1>2 DEF IInv, RoundOK
    <2>7. target' = window'
      BY <1>1, <1>3 DEF IInv, RoundOK
    <2> QED
      BY <1>1, <2>1, <2>2, <2>3, <2>4, <2>5, <2>6, <2>7 DEF RoundOK
  <1>14. BetweenOK' /\ WindowOK' /\ ListsOK' /\ AnswerOK'
    BY <1>1, <1>3, SoundStays DEF IInv, BetweenOK, WindowOK, ListsOK, AnswerOK
  <1>15. GivenOK' /\ EarliestOfTested' /\ DroppedHadToBeSilent'
    BY <1>1 DEF IInv, GivenOK, EarliestOfTested, DroppedHadToBeSilent, Whole
  <1> QED
    BY <1>9, <1>10, <1>11, <1>13, <1>14, <1>15 DEF IInv

-----------------------------------------------------------------------------
(* The caller, who is on its own once the workers have joined.             *)

LEMMA NoneBusy ==
  ASSUME IInv, main # "settle", main = "round" => \A w \in Workers : step[w] = "idle"
  PROVE  \A f \in Feeders : ~Busy(f)
  BY DEF IInv, FeedersOK, Busy, Feeders

\* retire, for candidates whose deaths are bounded by b.
LEMMA RetireFacts ==
  ASSUME IInv, NEW cs \in [Cands -> CandType], Retire(cs), NEW b \in Int, lastDeath <= b,
         \A i \in alive : cs[i].dead => cs[i].deathPos <= b
  PROVE  /\ alive' = {i \in alive : ~cs[i].dead}
         /\ tried' = tried \cup {i \in alive : cs[i].started}
         /\ lastDeath' \in Int /\ lastDeath' <= b
         /\ firstErr' \in Int
         /\ firstErr' >= 0 => \/ firstErr' = firstErr
                              \/ firstErr' \in alive /\ cs[firstErr'].err # "nil"
         /\ firstErr' < 0 => /\ firstErr < 0
                             /\ \A i \in alive : cs[i].dead => cs[i].err = "nil"
  <1> DEFINE dead == {i \in alive : cs[i].dead}
             failed == {i \in dead : cs[i].err # "nil"}
             deaths == {lastDeath} \cup {cs[i].deathPos : i \in dead}
  <1>1. /\ alive' = alive \ dead
        /\ tried' = tried \cup {i \in alive : cs[i].started}
        /\ lastDeath' = Max(deaths)
        /\ firstErr' = IF firstErr < 0 /\ failed # {} THEN Min(failed) ELSE firstErr
    BY DEF Retire
  <1>2. alive \subseteq Cands /\ lastDeath \in Int /\ firstErr \in Int
    BY DEF IInv, TypeOK
  <1>3. deaths \subseteq Int /\ deaths # {} /\ \A x \in deaths : x <= b
    BY <1>2 DEF CandType
  <1>4. lastDeath' \in Int /\ lastDeath' <= b
    <2> HIDE DEF deaths
    <2> QED
      BY <1>1, <1>3, MaxFacts
  <1>5. CASE firstErr < 0 /\ failed # {}
    <2>1. failed \subseteq Nat
      BY <1>2, CandsFacts
    <2>2. Min(failed) \in failed
      BY <1>5, <2>1, MinFacts
    <2> HIDE DEF deaths
    <2> QED
      BY <1>1, <1>4, <1>5, <2>1, <2>2
  <1>6. CASE ~(firstErr < 0 /\ failed # {})
    <2> HIDE DEF deaths
    <2> QED
      BY <1>1, <1>2, <1>4, <1>6
  <1> QED
    BY <1>5, <1>6

\* Eliminate returns, and closes the engines of the candidates alive.
LEMMA AnswerKeeps ==
  ASSUME IInv, UNCHANGED <<given, ctxDone, untested, round, held, ferr>>,
         main' = "returned", answer' # Srch!Pending, cand' = CloseAll(cand, alive),
         step' \in [Feeders -> Steps], \A f \in Feeders : ~Busy(f)',
         left \subseteq alive', alive' \subseteq alive, tried' \subseteq Cands,
         lastDeath' \in Int, firstErr' \in Int, ListsOK', EarliestOfTested'
  PROVE  IInv'
  <1>1. UNCHANGED <<behaviour, limit, size, window, target, left, survived, stop, fallback, roundErr>>
    BY DEF given, round
  <1>2. /\ cand' \in [Cands -> CandType]
        /\ \A i \in Cands :
             /\ ~cand'[i].open
             /\ cand'[i].started = cand[i].started /\ cand'[i].pos = cand[i].pos
             /\ cand'[i].tested = cand[i].tested /\ cand'[i].complete = cand[i].complete
             /\ cand'[i].dead = cand[i].dead /\ cand'[i].deathPos = cand[i].deathPos
             /\ cand'[i].err = cand[i].err /\ cand'[i].cw = cand[i].cw
             /\ cand'[i].broken = cand[i].broken
    <2>1. cand \in [Cands -> CandType] /\ \A i \in Cands : cand[i].open => i \in alive
      BY DEF IInv, TypeOK, FeedersOK
    <2>2. cand' \in [Cands -> CandType]
      <3>1. \A c \in CandType : [c EXCEPT !.open = FALSE] \in CandType
        BY DEF CandType
      <3> QED BY <2>1, <3>1 DEF CloseAll
    <2>3. \A i \in Cands : cand'[i] = IF i \in alive THEN [cand[i] EXCEPT !.open = FALSE] ELSE cand[i]
      BY DEF CloseAll
    <2>4. ASSUME NEW i \in Cands
          PROVE  /\ ~cand'[i].open
                 /\ cand'[i].started = cand[i].started /\ cand'[i].pos = cand[i].pos
                 /\ cand'[i].tested = cand[i].tested /\ cand'[i].complete = cand[i].complete
                 /\ cand'[i].dead = cand[i].dead /\ cand'[i].deathPos = cand[i].deathPos
                 /\ cand'[i].err = cand[i].err /\ cand'[i].cw = cand[i].cw
                 /\ cand'[i].broken = cand[i].broken
      <3>1. cand[i] \in CandType
        BY <2>1
      <3>2. CASE i \in alive
        BY <2>3, <3>1, <3>2 DEF CandType
      <3>3. CASE i \notin alive
        BY <2>1, <2>3, <3>1, <3>3 DEF CandType
      <3> QED BY <3>2, <3>3
    <2> QED
      BY <2>2, <2>4
  <1>3. TypeOK'
    BY <1>1, <1>2 DEF IInv, TypeOK
  <1>4. SoundOK'
    <2>1. ASSUME NEW i \in Cands PROVE Sound(i, cand'[i])
      <3>1. Sound(i, cand[i])
        BY DEF IInv, SoundOK
      <3> QED
        BY <1>2, <3>1 DEF Sound, Silent
    <2> QED
      BY <1>1, <2>1, SoundStays DEF SoundOK
  <1>5. FeedersOK'
    BY <1>2 DEF FeedersOK, Busy, Feeding
  <1>6. RoundOK' /\ BetweenOK'
    BY DEF RoundOK, BetweenOK
  <1>7. WindowOK'
    BY <1>1, <1>2 DEF IInv, WindowOK
  <1>8. AnswerOK'
    BY <1>2 DEF AnswerOK
  <1>9. GivenOK' /\ DroppedHadToBeSilent'
    BY <1>1 DEF IInv, GivenOK, DroppedHadToBeSilent
  <1> QED
    BY <1>3, <1>4, <1>5, <1>6, <1>7, <1>8, <1>9 DEF IInv

\* The same when nothing is retired first.
LEMMA AnswerHereKeeps ==
  ASSUME IInv, UNCHANGED <<given, ctxDone, alive, lastDeath, firstErr, untested, round, held, ferr>>,
         tried \subseteq tried', tried' \subseteq Cands,
         main' = "returned", answer' # Srch!Pending, cand' = CloseAll(cand, alive),
         step' \in [Feeders -> Steps], \A f \in Feeders : ~Busy(f)',
         EarliestOfTested'
  PROVE  IInv'
  <1>1. alive \subseteq Cands /\ left \subseteq alive /\ lastDeath \in Int /\ firstErr \in Int
    BY DEF IInv, TypeOK
  <1>2. \A i \in Cands : cand'[i].err = cand[i].err
    <2>1. cand \in [Cands -> CandType]
      BY DEF IInv, TypeOK
    <2>2. \A i \in Cands : cand'[i] = IF i \in alive THEN [cand[i] EXCEPT !.open = FALSE] ELSE cand[i]
      BY DEF CloseAll
    <2> QED
      BY <2>1, <2>2 DEF CandType
  <1>3. ListsOK'
    BY <1>1, <1>2, SoundStays DEF IInv, ListsOK, given, Whole
  <1> QED
    BY <1>1, <1>3, AnswerKeeps

LEMMA NoneLeftKeeps == ASSUME IInv, NoneLeft PROVE IInv'
  <1>1. /\ main = "decide" /\ alive = {} /\ answer' = Srch!NoMatch /\ main' = "returned"
        /\ cand' = CloseAll(cand, alive)
        /\ UNCHANGED <<given, ctxDone, elim, round, feeder>>
    BY DEF NoneLeft, Answer
  <1>2. \A f \in Feeders : ~Busy(f)'
    BY <1>1, NoneBusy DEF Busy, feeder
  <1>3. EarliestOfTested'
    <2>1. \A j \in Cands : Whole(j) => j \in untested
      BY <1>1 DEF IInv, ListsOK
    <2> QED
      BY <1>1, <2>1 DEF EarliestOfTested, Whole, given, elim, Srch!NoMatch
  <1> QED
    BY <1>1, <1>2, <1>3, AnswerHereKeeps DEF elim, feeder, IInv, TypeOK, Srch!NoMatch, Srch!Pending

LEMMA FinishedKeeps == ASSUME IInv, Finished PROVE IInv'
  <1> DEFINE i == Min(alive)
  <1>1. /\ main = "decide" /\ alive # {} /\ cand[i].complete
        /\ answer' = Srch!Match(i, Verified(i)) /\ tried' = tried \cup {i}
        /\ main' = "returned" /\ cand' = CloseAll(cand, alive)
        /\ UNCHANGED <<given, ctxDone, alive, lastDeath, firstErr, untested, round, feeder>>
    BY DEF Finished, Complete, Result, Answer
  <1>2. i \in alive /\ i \in Cands /\ alive \subseteq Cands /\ \A j \in alive : i <= j
    BY <1>1, CandsFacts, MinFacts DEF IInv, TypeOK
  <1> HIDE DEF i
  <1>3. \A f \in Feeders : ~Busy(f)'
    BY <1>1, NoneBusy DEF Busy, feeder
  <1>4. Whole(i)
    BY <1>1, <1>2 DEF IInv, SoundOK, Sound
  <1>5. answer'.kind = "match" /\ answer'.index = i /\ answer'.verified = cand[i].complete
    BY <1>1 DEF Srch!Match, Verified
  <1>6. EarliestOfTested'
    <2>1. \A j \in Cands \ (untested \cup {i}) : Whole(j) => j > i
      <3>1. \A j \in Cands : Whole(j) => j \in alive \cup untested
        BY DEF IInv, ListsOK
      <3>2. Cands \subseteq Nat
        BY CandsFacts
      <3> QED
        BY <1>2, <3>1, <3>2
    <2>2. answer'.verified
      BY <1>1, <1>5
    <2>3. answer' # Srch!NoMatch
      BY <1>5 DEF Srch!NoMatch
    <2> QED
      BY <1>1, <1>4, <1>5, <2>1, <2>2, <2>3 DEF EarliestOfTested, Whole, given
  <1>7. tried' \subseteq Cands
    BY <1>1, <1>2 DEF IInv, TypeOK
  <1>8. answer' # Srch!Pending
    BY <1>5 DEF Srch!Pending
  <1> QED
    BY <1>1, <1>3, <1>6, <1>7, <1>8, AnswerHereKeeps DEF feeder, IInv, TypeOK

\* The answer that the last candidate alive gives.
LEMMA LoneAnswer ==
  ASSUME IInv, NEW i \in Cands, alive = {i}, UNCHANGED <<behaviour, limit, untested>>,
         answer' = Srch!Match(i, Verified(i))
  PROVE  EarliestOfTested' /\ answer' # Srch!Pending
  <1>1. answer'.kind = "match" /\ answer'.index = i /\ answer'.verified = cand[i].complete
    BY DEF Srch!Match, Verified
  <1>2. cand[i].complete => Whole(i)
    BY DEF IInv, SoundOK, Sound
  <1>3. \A j \in Cands : Whole(j) => j \in {i} \cup untested
    BY DEF IInv, ListsOK
  <1>4. answer' # Srch!NoMatch /\ answer' # Srch!Pending
    BY <1>1 DEF Srch!NoMatch, Srch!Pending
  <1> QED
    BY <1>1, <1>2, <1>3, <1>4 DEF EarliestOfTested, Whole

LEMMA SettleKeeps == ASSUME IInv, Settle PROVE IInv'
  <1> DEFINE i == Min(alive)
  <1>1. /\ main = "decide" /\ Lone
        /\ UNCHANGED <<given, ctxDone, alive, lastDeath, firstErr, untested,
                       window, left, survived, stop, fallback, roundErr>>
    BY DEF Settle
  <1>2. i \in Cands /\ alive = {i} /\ left = {} /\ cand[i].open /\ ~cand[i].dead
    <2>1. PICK j \in alive : alive = {j}
      BY <1>1 DEF Lone
    <2>2. alive \subseteq Cands
      BY DEF IInv, TypeOK
    <2>3. i = j
      BY <2>1, <2>2, CandsFacts, MinFacts
    <2> HIDE DEF i
    <2> QED
      BY <1>1, <2>1, <2>2, <2>3 DEF IInv, BetweenOK, SoundOK, Sound
  <1>3. \A f \in Feeders : ~Busy(f)
    BY <1>1, NoneBusy
  <1>4. CASE Result(i) /\ UNCHANGED <<target, feeder>>
    <2>1. /\ answer' = Srch!Match(i, Verified(i)) /\ tried' = tried \cup {i}
          /\ main' = "returned" /\ cand' = CloseAll(cand, alive)
      BY <1>4 DEF Result, Answer
    <2> HIDE DEF i
    <2>2. EarliestOfTested' /\ answer' # Srch!Pending
      BY <1>1, <1>2, <2>1, LoneAnswer DEF given
    <2>3. \A f \in Feeders : ~Busy(f)'
      BY <1>3, <1>4 DEF Busy, feeder
    <2>4. UNCHANGED round /\ UNCHANGED <<held, ferr, step>> /\ tried' \subseteq Cands
      BY <1>1, <1>2, <1>4, <2>1 DEF round, feeder, IInv, TypeOK
    <2> QED
      BY <1>1, <2>1, <2>2, <2>3, <2>4, AnswerHereKeeps DEF IInv, TypeOK
  <1>5. CASE /\ target' = Least(size, lastDeath + Margin)
             /\ main' = "settle"
             /\ step' = [step EXCEPT ![Caller] = "feed"]
             /\ held' = [held EXCEPT ![Caller] = i]
             /\ UNCHANGED <<answer, cand, tried, ferr>>
    <2> HIDE DEF i
    <2>1. UNCHANGED <<behaviour, limit, size>>
      BY <1>1 DEF given
    <2>2. /\ step \in [Feeders -> Steps] /\ held \in [Feeders -> -1 .. N-1] /\ Caller \in Feeders
          /\ lastDeath \in Int /\ size \in Nat /\ i \in -1 .. N-1
      BY <1>2, CallerFacts DEF IInv, TypeOK, Cands
    <2>3. /\ step'[Caller] = "feed" /\ held'[Caller] = i
          /\ \A f \in Feeders \ {Caller} : ~Busy(f)' /\ ~Feeding(f)'
      BY <1>3, <1>5, <2>2 DEF Busy, Feeding
    <2>4. target' \in Int /\ target' <= lastDeath + Margin
      BY <1>5, <2>2 DEF Least
    <2>5. TypeOK'
      <3>1. step' \in [Feeders -> Steps] /\ held' \in [Feeders -> -1 .. N-1]
        BY <1>5, <2>2 DEF Steps
      <3> QED
        BY <1>1, <1>5, <2>1, <2>4, <3>1 DEF IInv, TypeOK
    <2>6. SoundOK'
      BY <1>1, <1>5, <2>1, SoundStays DEF IInv, SoundOK
    <2>7. FeedersOK'
      <3>1. ASSUME NEW f \in Feeders, Busy(f)' PROVE f = Caller
        BY <2>3, <3>1
      <3>2. \A f \in Feeders : Busy(f)' => /\ held'[f] \in alive' \ left'
                                           /\ main' = IF f = Caller THEN "settle" ELSE "round"
        BY <1>1, <1>2, <1>5, <2>3, <3>1
      <3>3. ASSUME NEW f \in Feeders
            PROVE  /\ Feeding(f)' => ferr'[f] = "nil" /\ ~cand'[held'[f]].dead
                   /\ step'[f] \in {"feed", "close"} => cand'[held'[f]].open
        <4>1. CASE f = Caller
          BY <1>1, <1>2, <1>5, <2>3, <4>1 DEF IInv, FeedersOK
        <4>2. CASE f # Caller
          BY <2>3, <4>2 DEF Feeding
        <4> QED
          BY <4>1, <4>2
      <3>4. Busy(Caller)'
        BY <2>3 DEF Busy
      <3>5. \A j \in Cands : cand'[j].open => j \in alive'
        BY <1>1, <1>5 DEF IInv, FeedersOK
      <3> QED
        BY <1>1, <1>2, <1>5, <2>3, <3>1, <3>2, <3>3, <3>4, <3>5 DEF FeedersOK
    <2>8. RoundOK' /\ BetweenOK'
      BY <1>5 DEF RoundOK, BetweenOK
    <2>9. WindowOK'
      BY <1>1, <1>5, <2>2, <2>4 DEF IInv, WindowOK, TypeOK
    <2>10. ListsOK' /\ AnswerOK'
      BY <1>1, <1>5, <2>1, SoundStays DEF IInv, ListsOK, AnswerOK
    <2>11. GivenOK' /\ EarliestOfTested' /\ DroppedHadToBeSilent'
      BY <1>1, <1>5, <2>1 DEF IInv, GivenOK, EarliestOfTested, DroppedHadToBeSilent, Whole
    <2> QED
      BY <2>5, <2>6, <2>7, <2>8, <2>9, <2>10, <2>11 DEF IInv
  <1> QED
    BY <1>4, <1>5 DEF Settle

LEMMA SettledKeeps == ASSUME IInv, Settled PROVE IInv'
  <1> DEFINE i == held[Caller]
  <1>1. /\ main = "settle" /\ step[Caller] = "report" /\ main' = "returned"
        /\ cand' = CloseAll(cand, alive)
        /\ step' = [step EXCEPT ![Caller] = "idle"] /\ UNCHANGED <<held, ferr>>
        /\ UNCHANGED <<given, ctxDone, round, untested>>
    BY DEF Settled, Goto, Answer, Result, elim
  <1>2. /\ alive = {i} /\ i \in Cands /\ i \notin left /\ Caller \in Feeders
        /\ step \in [Feeders -> Steps] /\ cand \in [Cands -> CandType]
        /\ lastDeath \in Int /\ firstErr \in Int /\ tried \subseteq Cands /\ left \subseteq alive
    BY <1>1, CallerFacts DEF IInv, FeedersOK, TypeOK
  <1>3. step' \in [Feeders -> Steps] /\ \A f \in Feeders : ~Busy(f)'
    <2>1. \A f \in Feeders \ {Caller} : ~Busy(f)
      BY <1>1 DEF IInv, FeedersOK
    <2> QED
      BY <1>1, <1>2, <2>1 DEF Busy, Steps
  <1>4. CASE Answer(Srch!CtxErr) /\ UNCHANGED elim
    <2>1. answer' = Srch!CtxErr /\ UNCHANGED <<alive, lastDeath, firstErr, tried>>
      BY <1>4 DEF Answer, elim
    <2>2. answer' # Srch!Pending /\ EarliestOfTested'
      BY <2>1 DEF Srch!CtxErr, Srch!Pending, Srch!NoMatch, EarliestOfTested
    <2> QED
      BY <1>1, <1>2, <1>3, <2>1, <2>2, AnswerHereKeeps
  <1>5. CASE Result(i) /\ UNCHANGED <<alive, lastDeath, firstErr, untested>>
    <2>1. answer' = Srch!Match(i, Verified(i)) /\ tried' = tried \cup {i}
      BY <1>5 DEF Result, Answer
    <2> HIDE DEF i
    <2>2. answer' # Srch!Pending /\ EarliestOfTested'
      BY <1>1, <1>2, <2>1, LoneAnswer DEF given
    <2>3. tried' \subseteq Cands /\ tried \subseteq tried'
      BY <1>2, <2>1
    <2> QED
      BY <1>1, <1>3, <1>5, <2>2, <2>3, AnswerHereKeeps
  <1>6. CASE cand[i].dead /\ Answer(Srch!NoMatch) /\ Retire(cand) /\ UNCHANGED untested
    <2> DEFINE b == IF cand[i].deathPos > lastDeath THEN cand[i].deathPos ELSE lastDeath
    <2>1. b \in Int /\ lastDeath <= b /\ \A j \in alive : cand[j].dead => cand[j].deathPos <= b
      BY <1>2 DEF CandType
    <2> HIDE DEF b, i
    <2>2. /\ alive' = {j \in alive : ~cand[j].dead}
          /\ tried' = tried \cup {j \in alive : cand[j].started}
          /\ lastDeath' \in Int /\ firstErr' \in Int
          /\ firstErr' >= 0 => \/ firstErr' = firstErr
                               \/ firstErr' \in alive /\ cand[firstErr'].err # "nil"
          /\ firstErr' < 0 => /\ firstErr < 0
                              /\ \A j \in alive : cand[j].dead => cand[j].err = "nil"
      BY <1>2, <1>6, <2>1, RetireFacts
    <2>3. alive' = {} /\ tried' \subseteq Cands /\ left \subseteq alive'
      BY <1>2, <1>6, <2>2
    <2>4. Sound(i, cand[i])
      BY <1>2 DEF IInv, SoundOK
    <2>5. \A j \in Cands : Whole(j) => j \in untested
      BY <1>2, <1>6, <2>4 DEF IInv, ListsOK, Sound
    <2>6. answer' = Srch!NoMatch /\ answer' # Srch!Pending
      BY <1>6 DEF Answer, Srch!Pending, Srch!NoMatch
    <2>7. EarliestOfTested'
      BY <1>1, <2>5, <2>6 DEF EarliestOfTested, Whole, given, Srch!NoMatch
    <2>8. ListsOK'
      <3>1. \A j \in Cands : cand'[j].err = cand[j].err
        <4>1. \A j \in Cands : cand'[j] = IF j \in alive THEN [cand[j] EXCEPT !.open = FALSE] ELSE cand[j]
          BY <1>1 DEF CloseAll
        <4> TAKE j \in Cands
        <4>2. cand[j] \in CandType
          BY <1>2 DEF IInv, TypeOK
        <4> QED
          BY <4>1, <4>2 DEF CandType
      <3>2. Cands \subseteq tried' \cup untested
        BY <1>2, <1>6, <2>2, <2>4 DEF IInv, ListsOK, Sound
      <3>3. firstErr' >= 0 => /\ firstErr' \in Cands
                              /\ behaviour[firstErr'].then \in {"fails", "unopenable", "unreadable"}
        BY <1>2, <2>2, <2>4 DEF IInv, ListsOK, Sound
      <3>4. firstErr' < 0 => \A j \in Cands : cand'[j].err = "nil"
        BY <1>2, <1>6, <2>2, <3>1 DEF IInv, ListsOK
      <3> QED
        BY <1>1, <2>5, <3>2, <3>3, <3>4 DEF ListsOK, Whole, given
    <2> QED
      BY <1>1, <1>2, <1>3, <2>2, <2>3, <2>6, <2>7, <2>8, AnswerKeeps
  <1> QED
    BY <1>4, <1>5, <1>6 DEF Settled

LEMMA FallbackKeeps == ASSUME IInv, Fallback PROVE IInv'
  <1> DEFINE v == [i \in Cands |-> VerdictUnder(behaviour[i], limit, RefLen)]
  <1>1. /\ main = "fallback" /\ main' = "returned" /\ cand' = CloseAll(cand, alive)
        /\ answer' \in IF ctxDone THEN {Srch!CtxErr} ELSE Srch!Answers(v, alive)
        /\ UNCHANGED <<given, ctxDone, elim, round, feeder>>
    BY DEF Fallback
  <1>2. alive \subseteq Cands /\ Cands \subseteq Nat
    BY CandsFacts DEF IInv, TypeOK
  <1>3. \A f \in Feeders : ~Busy(f)'
    BY <1>1, NoneBusy DEF Busy, feeder
  <1>4. \A i \in Cands : /\ Whole(i) => v[i] # "no"
                         /\ v[i] = "whole" => Whole(i)
                         /\ v[i] \in {"whole", "limited", "no"}
    BY DEF Whole, VerdictUnder
  <1>5. \A j \in Cands : Whole(j) => j \in alive \cup untested
    BY DEF IInv, ListsOK
  <1>6. EarliestOfTested' /\ answer' # Srch!Pending
    <2>1. CASE answer' = Srch!CtxErr
      BY <2>1 DEF Srch!CtxErr, Srch!Pending, Srch!NoMatch, EarliestOfTested
    <2>2. CASE answer' = Srch!NoMatch /\ \A j \in alive : v[j] = "no"
      <3>1. \A j \in Cands : Whole(j) => j \in untested
        BY <1>2, <1>4, <1>5, <2>2
      <3> QED
        BY <1>1, <2>2, <3>1 DEF Srch!Pending, Srch!NoMatch, EarliestOfTested, Whole, given, elim
    <2>3. ASSUME NEW i \in alive, Srch!Earliest(i, v, alive), answer' = Srch!Match(i, v[i] = "whole")
          PROVE  EarliestOfTested' /\ answer' # Srch!Pending
      <3>1. i \in Cands /\ v[i] # "no" /\ \A j \in alive : v[j] # "no" => i <= j
        BY <1>2, <2>3 DEF Srch!Earliest
      <3>2. answer'.kind = "match" /\ answer'.index = i /\ (answer'.verified <=> v[i] = "whole")
        BY <2>3 DEF Srch!Match
      <3>3. answer' # Srch!NoMatch /\ answer' # Srch!Pending
        BY <3>2 DEF Srch!NoMatch, Srch!Pending
      <3>5. v[i] = "whole" \/ VerdictUnder(behaviour[i], limit, RefLen) = "limited"
        BY <1>4, <3>1
      <3> HIDE DEF v
      <3>4. ASSUME NEW j \in Cands \ (untested \cup {i}), Whole(j) PROVE j > i
        <4>1. j \in alive /\ j \in Nat /\ i \in Nat /\ j # i
          BY <1>2, <1>5, <3>4
        <4>2. i <= j
          BY <1>4, <3>1, <3>4, <4>1
        <4> QED
          BY <4>1, <4>2
      <3> QED
        BY <1>1, <1>4, <3>1, <3>2, <3>3, <3>4, <3>5 DEF EarliestOfTested, Whole, given, elim
    <2>4. ~ctxDone => \/ answer' = Srch!NoMatch /\ \A j \in alive : v[j] = "no"
                      \/ \E i \in alive : /\ Srch!Earliest(i, v, alive)
                                          /\ answer' = Srch!Match(i, v[i] = "whole")
      <3> HIDE DEF v
      <3> QED
        BY <1>1 DEF Srch!Answers
    <2> QED
      BY <1>1, <2>1, <2>2, <2>3, <2>4
  <1> QED
    BY <1>1, <1>3, <1>6, AnswerHereKeeps DEF elim, feeder, IInv, TypeOK

LEMMA AgreeKeeps == ASSUME IInv, Agree PROVE IInv'
  <1>1. /\ UNCHANGED <<behaviour, limit, size, ctxDone, answer, cand, alive, lastDeath, firstErr,
                      tried, untested, window, target, left, survived, stop, fallback, roundErr,
                      step, held, ferr>>
        /\ main = "decide" /\ main' = "fallback"
    BY DEF Agree, given, elim, round, feeder
  <1>2. \A f \in Feeders : ~Busy(f) /\ ~Busy(f)' /\ ~Feeding(f)'
    BY <1>1, NoneBusy DEF Busy, Feeding
  <1>3. TypeOK'
    BY <1>1 DEF IInv, TypeOK
  <1>4. SoundOK'
    BY <1>1, SoundStays DEF IInv, SoundOK
  <1>5. FeedersOK'
    BY <1>1, <1>2 DEF IInv, FeedersOK, Feeding
  <1>6. RoundOK' /\ BetweenOK'
    BY <1>1 DEF RoundOK, BetweenOK
  <1>7. WindowOK' /\ ListsOK' /\ AnswerOK'
    BY <1>1, SoundStays DEF IInv, WindowOK, ListsOK, AnswerOK
  <1>8. GivenOK' /\ EarliestOfTested' /\ DroppedHadToBeSilent'
    BY <1>1 DEF IInv, GivenOK, EarliestOfTested, DroppedHadToBeSilent, Whole
  <1> QED
    BY <1>3, <1>4, <1>5, <1>6, <1>7, <1>8 DEF IInv

LEMMA GrowKeeps == ASSUME IInv, Grow PROVE IInv'
  <1>1. /\ UNCHANGED <<behaviour, limit, size, ctxDone, answer, cand, alive, lastDeath, firstErr,
                      tried, untested, step, held, ferr>>
        /\ main = "decide" /\ main' = "round" /\ ~(AllTested /\ window >= AgreeLimit)
        /\ window' = NextWindow /\ target' = window' /\ left' = alive /\ survived' = 0
        /\ stop' = FALSE /\ fallback' = FALSE /\ roundErr' = "nil"
    BY DEF Grow, given, elim, feeder
  <1>2. \A f \in Feeders : ~Busy(f)' /\ ~Feeding(f)'
    BY <1>1, NoneBusy DEF Busy, Feeding
  <1>3. window' \in Nat /\ window' <= UntestedLimit
    <2> DEFINE g == window * WindowGrowth
    <2>1. window \in Nat /\ size \in Nat /\ WindowGrowth \in Nat /\ UntestedLimit \in Nat /\ AgreeLimit \in Nat
      BY DEF IInv, TypeOK
    <2>2. g \in Nat
      BY <2>1
    <2>3. AllTested => g <= UntestedLimit
      <3>1. AllTested => window <= AgreeLimit - 1
        BY <1>1, <2>1
      <3>2. \A a, k, m \in Nat : a <= m => a * k <= k * m
        OBVIOUS
      <3>3. window <= AgreeLimit - 1 => AgreeLimit - 1 \in Nat
        BY <2>1
      <3>4. window <= AgreeLimit - 1 => g <= WindowGrowth * (AgreeLimit - 1)
        BY <2>1, <3>2, <3>3
      <3>5. WindowGrowth * (AgreeLimit - 1) <= UntestedLimit /\ WindowGrowth * (AgreeLimit - 1) \in Int
        BY <2>1
      <3> QED
        BY <2>1, <2>2, <3>1, <3>4, <3>5
    <2>4. window' = IF AllTested THEN Least(size, g) ELSE Least(Least(size, g), UntestedLimit)
      BY <1>1 DEF NextWindow
    <2> HIDE DEF g
    <2> QED
      BY <2>1, <2>2, <2>3, <2>4 DEF Least
  <1>4. TypeOK'
    <2>1. stop' \in BOOLEAN /\ fallback' \in BOOLEAN
      BY <1>1
    <2>2. left' \subseteq alive' /\ roundErr' \in Errs /\ survived' \in Nat /\ target' \in Int
      BY <1>1, <1>3 DEF Errs
    <2> QED
      BY <1>1, <1>3, <2>1, <2>2 DEF IInv, TypeOK
  <1>5. SoundOK'
    BY <1>1, SoundStays DEF IInv, SoundOK
  <1>6. FeedersOK'
    BY <1>1, <1>2 DEF IInv, FeedersOK, Feeding
  <1>7. RoundOK'
    <2>1. \A i \in left' : ~cand'[i].dead /\ (cand'[i].started => cand'[i].open)
      BY <1>1 DEF IInv, BetweenOK, SoundOK, Sound, TypeOK
    <2>2. \A w \in Workers : step'[w] # "report"
      BY <1>2, CallerFacts DEF Busy
    <2>3. alive' \ left' = {} /\ Survivors' = {}
      BY <1>1 DEF Survivors
    <2>4. survived' = Cardinality(Survivors') /\ survived' <= MaxLockstep
      BY <1>1, <2>3, FS_EmptySet
    <2> QED
      BY <1>1, <2>1, <2>2, <2>3, <2>4 DEF RoundOK
  <1>8. BetweenOK'
    BY <1>1 DEF BetweenOK
  <1>9. WindowOK' /\ ListsOK' /\ AnswerOK'
    BY <1>1, <1>3, SoundStays DEF IInv, WindowOK, ListsOK, AnswerOK
  <1>10. GivenOK' /\ EarliestOfTested' /\ DroppedHadToBeSilent'
    BY <1>1 DEF IInv, GivenOK, EarliestOfTested, DroppedHadToBeSilent, Whole
  <1> QED
    BY <1>4, <1>5, <1>6, <1>7, <1>8, <1>9, <1>10 DEF IInv

LEMMA CancelKeeps == ASSUME IInv, Cancel PROVE IInv'
  <1>1. /\ UNCHANGED <<behaviour, limit, size, answer, cand, alive, lastDeath, firstErr, main,
                      tried, untested, window, target, left, survived, stop, fallback, roundErr,
                      step, held, ferr>>
        /\ ctxDone' = TRUE
    BY DEF Cancel, given, elim, round, feeder
  <1>2. TypeOK'
    BY <1>1 DEF IInv, TypeOK
  <1>3. SoundOK'
    BY <1>1, SoundStays DEF IInv, SoundOK
  <1>4. FeedersOK'
    BY <1>1 DEF IInv, FeedersOK, Busy, Feeding
  <1>5. RoundOK'
    <2>1. \A i \in Cands : /\ Reported(i) => Reported(i)'
                           /\ InHand(i)' <=> InHand(i)
      BY <1>1 DEF Reported, InHand, Busy, Mute
    <2>2. Survivors' = Survivors
      BY <1>1, <2>1 DEF Survivors, IInv, TypeOK
    <2>3. \A w \in Workers : step[w] = "report" => held[w] \in Cands
      BY CallerFacts DEF IInv, TypeOK, FeedersOK, Busy
    <2> QED
      BY <1>1, <2>1, <2>2, <2>3 DEF IInv, RoundOK, TypeOK
  <1>6. BetweenOK'
    BY <1>1 DEF IInv, BetweenOK, Slow
  <1>7. WindowOK' /\ ListsOK' /\ AnswerOK'
    BY <1>1, SoundStays DEF IInv, WindowOK, ListsOK, AnswerOK
  <1>8. GivenOK' /\ EarliestOfTested' /\ DroppedHadToBeSilent'
    BY <1>1 DEF IInv, GivenOK, EarliestOfTested, DroppedHadToBeSilent, Whole
  <1> QED
    BY <1>2, <1>3, <1>4, <1>5, <1>6, <1>7, <1>8 DEF IInv

LEMMA JoinKeeps == ASSUME IInv, Join PROVE IInv'
  <1>1. /\ main = "round" /\ NoneToHand /\ \A w \in Workers : step[w] = "idle"
        /\ UNCHANGED <<behaviour, limit, size, ctxDone, untested, window, target, left, survived,
                      stop, fallback, roundErr, step, held, ferr>>
    BY DEF Join, given, round, feeder, elim
  <1>2. \A f \in Feeders : ~Busy(f) /\ ~Busy(f)' /\ ~Feeding(f)'
    BY <1>1, NoneBusy DEF Busy, Feeding
  <1>3. /\ alive \subseteq Cands /\ left \subseteq alive /\ cand \in [Cands -> CandType]
        /\ tried \subseteq Cands /\ step \in [Feeders -> Steps]
    BY DEF IInv, TypeOK
  <1>4. \A i \in Cands : ~InHand(i)
    BY <1>2 DEF InHand
  <1>5. ASSUME Answer(IF roundErr = "inputErr" THEN InputErr ELSE Srch!CtxErr), UNCHANGED elim
        PROVE  IInv'
    <2>1. /\ answer'.kind \in {"inputErr", "ctxErr"} /\ main' = "returned"
          /\ cand' = CloseAll(cand, alive) /\ UNCHANGED <<alive, lastDeath, firstErr, tried>>
      BY <1>5 DEF Answer, InputErr, Srch!CtxErr, elim
    <2>2. EarliestOfTested' /\ answer' # Srch!Pending
      BY <2>1 DEF EarliestOfTested, Srch!NoMatch, Srch!Pending
    <2> QED
      BY <1>1, <1>2, <1>3, <2>1, <2>2, AnswerHereKeeps DEF given, round
  <1>6. ASSUME roundErr = "nil", ~ctxDone, Retire(cand), UNCHANGED <<cand, answer>>,
               main' = IF fallback THEN "fallback" ELSE IF AtUntestedLimit THEN "drop" ELSE "decide"
        PROVE  IInv'
    <2>1. \A i \in alive : cand[i].dead => cand[i].deathPos <= UntestedLimit
      <3>1. ASSUME NEW i \in alive, cand[i].dead PROVE cand[i].deathPos <= UntestedLimit
        <4>1. i \in Cands /\ cand[i].deathPos <= cand[i].pos /\ cand[i].pos <= UntestedLimit
          BY <1>1, <1>3, <3>1 DEF IInv, WindowOK, SoundOK, Sound, CandType
        <4>2. cand[i].deathPos \in Int /\ cand[i].pos \in Int
          BY <1>3, <4>1 DEF CandType
        <4> QED
          BY <4>1, <4>2
      <3> QED
        BY <3>1
    <2>2. lastDeath <= UntestedLimit /\ UntestedLimit \in Int
      BY <1>1 DEF IInv, WindowOK
    <2>3. /\ alive' = {i \in alive : ~cand[i].dead}
          /\ tried' = tried \cup {i \in alive : cand[i].started}
          /\ lastDeath' \in Int /\ lastDeath' <= UntestedLimit
          /\ firstErr' \in Int
          /\ firstErr' >= 0 => \/ firstErr' = firstErr
                               \/ firstErr' \in alive /\ cand[firstErr'].err # "nil"
          /\ firstErr' < 0 => /\ firstErr < 0
                              /\ \A i \in alive : cand[i].dead => cand[i].err = "nil"
      BY <1>3, <1>6, <2>1, <2>2, RetireFacts
    <2>4. alive' \subseteq Cands /\ left' \subseteq alive' /\ tried' \subseteq Cands
      BY <1>1, <1>3, <2>3 DEF IInv, RoundOK
    <2>5. main' \in {"fallback", "drop", "decide"}
      BY <1>6
    <2>6. TypeOK'
      BY <1>1, <1>6, <2>3, <2>4, <2>5 DEF IInv, TypeOK
    <2>7. SoundOK'
      BY <1>1, <1>6, SoundStays DEF IInv, SoundOK
    <2>8. FeedersOK'
      <3>1. \A i \in Cands : cand'[i].open => i \in alive'
        BY <1>6, <2>3 DEF IInv, FeedersOK, SoundOK, Sound
      <3>2. ferr'[Caller] = "nil"
        BY <1>1 DEF IInv, FeedersOK
      <3> QED
        BY <1>2, <2>5, <3>1, <3>2 DEF FeedersOK, Feeding, Busy
    <2>9. RoundOK'
      BY <2>5 DEF RoundOK
    <2>10. BetweenOK'
      <3> SUFFICES ASSUME ~fallback PROVE BetweenOK'
        BY <1>6 DEF BetweenOK
      <3>1. left = {}
        BY <1>1, <1>6 DEF IInv, RoundOK, NoneToHand
      <3>2. \A i \in alive : Reported(i)
        BY <1>1, <1>3, <1>4, <1>6, <3>1 DEF IInv, RoundOK
      <3>3. \A i \in alive' : cand'[i].open
        BY <1>6, <2>3, <3>2 DEF Reported
      <3>4. Survivors = {i \in alive' : cand'[i].tested}
        BY <1>3, <1>4, <1>6, <2>3, <3>1 DEF Survivors
      <3>5. Cardinality({i \in alive' : cand'[i].tested}) <= MaxLockstep
        BY <1>1, <1>6, <3>4 DEF IInv, RoundOK
      <3>6. ASSUME main' = "drop", NEW i \in alive', ~cand[i].tested
            PROVE  Slow(i) \/ ~HasWrite(behaviour[i], 0)
        <4>1. i \in Cands /\ cand[i].pos >= window /\ Mute(i, cand[i]) /\ window >= UntestedLimit
          BY <1>1, <1>3, <1>6, <2>3, <3>2, <3>6 DEF Reported, IInv, RoundOK, AtUntestedLimit
        <4>2. cand[i].pos \in Int /\ window \in Int /\ UntestedLimit \in Int
              /\ behaviour[i].lag \in Int /\ Lead \in Nat
          BY <1>3, <4>1 DEF CandType, IInv, TypeOK, AllBehaviours
        <4> QED
          BY <4>1, <4>2 DEF Mute, Slow
      <3> QED
        BY <1>1, <1>6, <3>1, <3>3, <3>5, <3>6 DEF BetweenOK, Slow
    <2>11. WindowOK'
      BY <1>1, <1>6, <2>3, <2>5 DEF IInv, WindowOK
    <2>12. ListsOK'
      <3>1. ASSUME NEW i \in Cands
            PROVE  i \in alive' \cup tried' \cup untested' /\ (Whole(i) => i \in alive' \cup untested')
        <4>1. Sound(i, cand[i]) /\ i \in alive \cup tried \cup untested
              /\ (Whole(i) => i \in alive \cup untested)
          BY DEF IInv, SoundOK, ListsOK
        <4> QED
          BY <1>1, <2>3, <4>1 DEF Sound
      <3>2. firstErr' >= 0 => /\ firstErr' \in Cands
                              /\ behaviour[firstErr'].then \in {"fails", "unopenable", "unreadable"}
        BY <1>3, <2>3 DEF IInv, ListsOK, SoundOK, Sound
      <3>3. firstErr' < 0 => \A i \in Cands \ alive' : cand[i].err = "nil"
        BY <2>3 DEF IInv, ListsOK
      <3> QED
        BY <1>1, <1>6, <3>1, <3>2, <3>3 DEF ListsOK, Whole
    <2>13. AnswerOK'
      BY <1>1, <1>6, <2>5 DEF IInv, AnswerOK
    <2>14. GivenOK' /\ EarliestOfTested' /\ DroppedHadToBeSilent'
      BY <1>1, <1>6 DEF IInv, GivenOK, EarliestOfTested, DroppedHadToBeSilent, Whole
    <2> QED
      BY <2>6, <2>7, <2>8, <2>9, <2>10, <2>11, <2>12, <2>13, <2>14 DEF IInv
  <1> QED
    BY <1>5, <1>6 DEF Join

LEMMA DropUntestedKeeps == ASSUME IInv, DropUntested PROVE IInv'
  <1> DEFINE silent == {i \in alive : ~cand[i].tested}
             cs == [i \in Cands |-> IF i \in silent
                                    THEN [cand[i] EXCEPT !.dead = TRUE, !.open = FALSE,
                                                         !.deathPos = cand[i].pos]
                                    ELSE cand[i]]
  <1>1. /\ UNCHANGED <<behaviour, limit, size, ctxDone, answer, window, target, left, survived,
                      stop, fallback, roundErr, step, held, ferr>>
        /\ main = "drop" /\ main' = "decide" /\ cand' = cs
        /\ untested' = untested \cup silent /\ Retire(cs)
    BY DEF DropUntested, given, round, feeder
  <1>2. \A f \in Feeders : ~Busy(f) /\ ~Busy(f)' /\ ~Feeding(f)'
    BY <1>1, NoneBusy DEF Busy, Feeding
  <1>3. /\ alive \subseteq Cands /\ cand \in [Cands -> CandType] /\ tried \subseteq Cands
        /\ untested \subseteq Cands /\ answer = Srch!Pending
    BY <1>1 DEF IInv, TypeOK, AnswerOK
  <1>4. \A i \in alive : cand[i].open /\ ~cand[i].dead
    BY <1>1, <1>3 DEF IInv, BetweenOK, SoundOK, Sound
  <1>5. cs \in [Cands -> CandType]
    <2>1. \A c \in CandType :
            [c EXCEPT !.dead = TRUE, !.open = FALSE, !.deathPos = c.pos] \in CandType
      BY DEF CandType
    <2> QED BY <1>3, <2>1
  <1>6. \A i \in Cands : /\ cs[i].started = cand[i].started /\ cs[i].pos = cand[i].pos
                         /\ cs[i].tested = cand[i].tested /\ cs[i].complete = cand[i].complete
                         /\ cs[i].cw = cand[i].cw /\ cs[i].broken = cand[i].broken
                         /\ cs[i].err = cand[i].err
    <2> TAKE i \in Cands
    <2>1. cand[i] \in CandType
      BY <1>3
    <2>2. cs[i] = IF i \in silent THEN [cand[i] EXCEPT !.dead = TRUE, !.open = FALSE,
                                                       !.deathPos = cand[i].pos]
                  ELSE cand[i]
      OBVIOUS
    <2> HIDE DEF cs, silent
    <2> QED BY <2>1, <2>2 DEF CandType
  <1>7. /\ \A i \in silent : cs[i].dead /\ ~cs[i].open /\ cs[i].deathPos = cs[i].pos
        /\ \A i \in Cands \ silent : cs[i] = cand[i]
    <2>1. ASSUME NEW i \in silent PROVE cs[i].dead /\ ~cs[i].open /\ cs[i].deathPos = cs[i].pos
      <3>1. i \in Cands /\ cand[i] \in CandType
        BY <1>3
      <3>2. cs[i] = [cand[i] EXCEPT !.dead = TRUE, !.open = FALSE, !.deathPos = cand[i].pos]
        BY <3>1
      <3> HIDE DEF cs, silent
      <3> QED BY <3>1, <3>2 DEF CandType
    <2> QED BY <2>1
  <1> HIDE DEF cs
  <1>8. /\ alive' = {i \in alive : ~cs[i].dead}
        /\ tried' = tried \cup {i \in alive : cs[i].started}
        /\ lastDeath' \in Int /\ lastDeath' <= UntestedLimit
        /\ firstErr' \in Int
        /\ firstErr' >= 0 => \/ firstErr' = firstErr
                             \/ firstErr' \in alive /\ cs[firstErr'].err # "nil"
        /\ firstErr' < 0 => /\ firstErr < 0
                            /\ \A i \in alive : cs[i].dead => cs[i].err = "nil"
    <2>1. \A i \in alive : cs[i].dead => cs[i].deathPos <= UntestedLimit
      <3>1. ASSUME NEW i \in alive, cs[i].dead PROVE cs[i].deathPos <= UntestedLimit
        <4>1. i \in Cands /\ i \in silent
          BY <1>3, <1>4, <1>7, <3>1
        <4>2. cs[i].deathPos = cand[i].pos
          BY <1>6, <1>7, <4>1
        <4>3. cand[i].pos \in Int /\ cand[i].pos <= UntestedLimit
          BY <1>1, <1>3, <4>1 DEF IInv, WindowOK, CandType
        <4> QED
          BY <4>2, <4>3
      <3> QED
        BY <3>1
    <2>2. lastDeath <= UntestedLimit /\ UntestedLimit \in Int
      BY <1>1 DEF IInv, WindowOK
    <2> QED
      BY <1>1, <1>5, <2>1, <2>2, RetireFacts
  <1>9. alive' = {i \in alive : cand[i].tested} /\ \A i \in alive' : cs[i] = cand[i]
    BY <1>3, <1>4, <1>7, <1>8
  <1>10. left = {} /\ left' \subseteq alive'
    BY <1>1 DEF IInv, BetweenOK
  <1>11. TypeOK'
    BY <1>1, <1>3, <1>5, <1>8, <1>9, <1>10 DEF IInv, TypeOK
  <1>12. SoundOK'
    <2>1. ASSUME NEW i \in Cands PROVE Sound(i, cand[i])'
      <3>1. Sound(i, cand[i])
        BY DEF IInv, SoundOK
      <3>2. CASE i \in silent
        <4>1. cs[i].pos \in Int /\ cs[i].deathPos = cs[i].pos
          BY <1>5, <1>7, <3>2 DEF CandType
        <4> QED
          BY <1>1, <1>6, <1>7, <3>1, <3>2, <4>1 DEF Sound, Silent, Silence, Whole
      <3>3. CASE i \notin silent
        BY <1>1, <1>7, <3>1, <3>3 DEF Sound, Silent, Silence, Whole
      <3> QED
        BY <3>2, <3>3
    <2> QED
      BY <2>1 DEF SoundOK
  <1>13. FeedersOK'
    <2>1. \A i \in Cands : cand'[i].open => i \in alive'
      BY <1>1, <1>7, <1>9 DEF IInv, FeedersOK
    <2>2. ferr'[Caller] = "nil"
      BY <1>1 DEF IInv, FeedersOK
    <2> QED
      BY <1>1, <1>2, <2>1, <2>2 DEF FeedersOK, Feeding, Busy
  <1>14. RoundOK'
    BY <1>1 DEF RoundOK
  <1>15. BetweenOK'
    <2>1. \A i \in alive' : cand'[i].open
      BY <1>1, <1>4, <1>9
    <2>2. {i \in alive' : cand'[i].tested} = {i \in alive : cand[i].tested}
      BY <1>1, <1>9
    <2> QED
      BY <1>1, <1>10, <2>1, <2>2 DEF IInv, BetweenOK
  <1>16. WindowOK'
    BY <1>1, <1>6, <1>8 DEF IInv, WindowOK
  <1>17. ListsOK'
    <2>1. ASSUME NEW i \in Cands
          PROVE  /\ i \in alive' \cup tried' \cup untested'
                 /\ Whole(i) => i \in alive' \cup untested'
                 /\ cs[i].err = cand[i].err
      <3>1. i \in alive \cup tried \cup untested /\ (Whole(i) => i \in alive \cup untested)
        BY DEF IInv, ListsOK
      <3> QED
        BY <1>1, <1>6, <1>8, <1>9, <3>1
    <2>2. firstErr' >= 0 => /\ firstErr' \in Cands
                            /\ behaviour[firstErr'].then \in {"fails", "unopenable", "unreadable"}
      BY <1>3, <1>6, <1>8 DEF IInv, ListsOK, SoundOK, Sound
    <2>3. firstErr' < 0 => \A i \in Cands \ alive' : cs[i].err = "nil"
      BY <1>6, <1>8 DEF IInv, ListsOK
    <2> QED
      BY <1>1, <2>1, <2>2, <2>3 DEF ListsOK, Whole
  <1>18. AnswerOK'
    BY <1>1 DEF IInv, AnswerOK
  <1>19. DroppedHadToBeSilent'
    BY <1>1, <1>3 DEF IInv, DroppedHadToBeSilent, BetweenOK, Slow
  <1>20. GivenOK' /\ EarliestOfTested'
    BY <1>1, <1>3 DEF IInv, GivenOK, EarliestOfTested, Srch!Pending, Srch!NoMatch
  <1> QED
    BY <1>11, <1>12, <1>13, <1>14, <1>15, <1>16, <1>17, <1>18, <1>19, <1>20 DEF IInv

LEMMA InitHolds == Init => IInv
  <1> SUFFICES ASSUME Init PROVE IInv
    OBVIOUS
  <1>1. PICK c \in Cases : limit = c.limit /\ size = c.size /\ behaviour \in [Cands -> c.behaviours]
    BY DEF Init
  <1>2. /\ limit \in Nat /\ size \in Nat /\ behaviour \in [Cands -> AllBehaviours] /\ GivenOK
    BY <1>1 DEF GivenOK
  <1>3. /\ ctxDone = FALSE /\ answer = Srch!Pending
        /\ cand = [i \in Cands |-> Fresh]
        /\ alive = {i \in Cands : Concurrent => Eligible(i)} /\ untested = Cands \ alive
        /\ lastDeath = 0 /\ firstErr = -1 /\ tried = {}
        /\ window = Least(size, FirstWindow) /\ target = window
        /\ left = alive /\ survived = 0 /\ stop = FALSE /\ fallback = FALSE /\ roundErr = "nil"
        /\ main = IF ~Concurrent THEN "fallback"
                  ELSE IF alive = {} THEN "decide" ELSE "round"
        /\ step = [f \in Feeders |-> "idle"]
        /\ held = [f \in Feeders |-> -1]
        /\ ferr = [f \in Feeders |-> "nil"]
    BY DEF Init
  <1>4. /\ Fresh \in CandType /\ ~Fresh.started /\ ~Fresh.open /\ Fresh.pos = 0 /\ ~Fresh.tested
        /\ ~Fresh.complete /\ ~Fresh.dead /\ Fresh.err = "nil" /\ ~Fresh.broken
        /\ Fresh.cw.n = 0 /\ Fresh.cw.err = "nil" /\ ~Fresh.cw.limited
    BY DEF Fresh, CandType, NewCompare, CompareType
  <1>5. \A i \in Cands : cand[i] = Fresh
    BY <1>3
  <1>6. window \in Nat /\ window <= FirstWindow /\ FirstWindow <= UntestedLimit
    BY <1>2, <1>3 DEF Least
  <1>7. \A f \in Feeders : ~Busy(f) /\ ~Feeding(f) /\ ferr[f] = "nil"
    BY <1>3 DEF Busy, Feeding
  <1>8. main \in {"round", "decide", "fallback"} /\ (main = "decide" => alive = {})
    BY <1>3
  <1>9. TypeOK
    <2>1. /\ cand \in [Cands -> CandType] /\ step \in [Feeders -> Steps] /\ ferr \in [Feeders -> Errs]
          /\ held \in [Feeders -> -1 .. N-1]
      BY <1>3, <1>4 DEF Steps, Errs
    <2>2. ctxDone \in BOOLEAN /\ stop \in BOOLEAN /\ fallback \in BOOLEAN
      BY <1>3
    <2>3. alive \subseteq Cands /\ left \subseteq alive /\ tried \subseteq Cands /\ untested \subseteq Cands
      BY <1>3
    <2>4. lastDeath \in Int /\ firstErr \in Int /\ target \in Int /\ survived \in Nat /\ roundErr \in Errs
      BY <1>3, <1>6 DEF Errs
    <2> QED
      BY <1>2, <1>6, <1>8, <2>1, <2>2, <2>3, <2>4 DEF TypeOK
  <1>10. SoundOK
    <2>1. ASSUME NEW i \in Cands PROVE Sound(i, Fresh)
      <3>1. behaviour[i] \in AllBehaviours /\ behaviour[i].lag > 0
        BY <1>2 DEF GivenOK
      <3>2. 0 <= Silence(i) /\ 0 <= behaviour[i].good
        BY <3>1 DEF Silence, AllBehaviours
      <3> QED
        BY <1>4, <3>2 DEF Sound, Silent, Done
    <2> QED
      BY <1>5, <2>1 DEF SoundOK
  <1>11. FeedersOK
    <2>1. \A f \in Feeders : step[f] \notin {"feed", "close"}
      BY <1>7 DEF Feeding
    <2> QED
      BY <1>4, <1>5, <1>7, <1>8, <2>1, CallerFacts DEF FeedersOK
  <1>12. RoundOK
    <2>1. Survivors = {} /\ alive \ left = {}
      BY <1>3 DEF Survivors
    <2>2. \A w \in Workers : step[w] # "report"
      BY <1>7, CallerFacts DEF Busy
    <2>3. \A i \in left : ~cand[i].dead /\ ~cand[i].started
      BY <1>3, <1>4, <1>5
    <2> QED
      BY <1>3, <2>1, <2>2, <2>3, FS_EmptySet DEF RoundOK
  <1>13. BetweenOK
    <2> SUFFICES ASSUME main = "decide" PROVE BetweenOK
      BY <1>8 DEF BetweenOK
    <2>1. alive = {} /\ left = {}
      BY <1>3, <1>8
    <2>2. Cardinality({i \in alive : cand[i].tested}) = 0
      <3>1. {i \in alive : cand[i].tested} = {}
        BY <2>1
      <3> QED
        BY <3>1, FS_EmptySet
    <2> QED
      BY <2>1, <2>2 DEF BetweenOK
  <1>14. WindowOK
    BY <1>3, <1>4, <1>5, <1>6, <1>8 DEF WindowOK
  <1>15. ListsOK
    BY <1>3, <1>4, <1>5 DEF ListsOK
  <1>16. AnswerOK /\ EarliestOfTested
    BY <1>3, <1>4, <1>5, <1>8 DEF AnswerOK, EarliestOfTested, Srch!Pending, Srch!NoMatch
  <1>17. DroppedHadToBeSilent
    <2>1. ASSUME NEW i \in untested
          PROVE  IF behaviour[i].async THEN behaviour[i].lag + Lead >= UntestedLimit
                                       ELSE behaviour[i].lag > UntestedLimit
      <3>1. i \in Cands /\ ~Eligible(i)
        BY <1>3
      <3>2. behaviour[i] \in AllBehaviours /\ behaviour[i].buffered \in {0, behaviour[i].lag}
        BY <1>2, <3>1 DEF GivenOK
      <3>3. behaviour[i].lag > UntestedLimit
        BY <1>2, <3>1, <3>2 DEF Eligible, Least, AllBehaviours
      <3> QED
        BY <3>2, <3>3 DEF AllBehaviours
    <2> QED
      BY <2>1 DEF DroppedHadToBeSilent
  <1> QED
    BY <1>2, <1>9, <1>10, <1>11, <1>12, <1>13, <1>14, <1>15, <1>16, <1>17 DEF IInv

LEMMA StepHolds == IInv /\ [Next]_vars => IInv'
  <1> SUFFICES ASSUME IInv, [Next]_vars PROVE IInv'
    OBVIOUS
  <1>1. CASE Main
    BY <1>1, JoinKeeps, DropUntestedKeeps, NoneLeftKeeps, FinishedKeeps, SettleKeeps, SettledKeeps,
       AgreeKeeps, GrowKeeps, FallbackKeeps DEF Main
  <1>2. CASE Feed(Caller)
    BY <1>2, FeedKeeps, CallerFacts
  <1>3. CASE Cancel
    BY <1>3, CancelKeeps
  <1>4. ASSUME NEW w \in Workers, Worker(w) PROVE IInv'
    BY <1>4, HandOutKeeps, FeedKeeps, ReportKeeps, CallerFacts DEF Worker
  <1>5. ASSUME NEW i \in Cands, Emit(i) PROVE IInv'
    BY <1>5, EmitKeeps
  <1>6. CASE UNCHANGED vars
    <2>1. UNCHANGED <<behaviour, limit, size, ctxDone, answer, cand, alive, lastDeath, firstErr, main,
                     tried, untested, window, target, left, survived, stop, fallback, roundErr,
                     step, held, ferr>>
      BY <1>6 DEF vars, given, elim, round, feeder
    <2> QED
      BY <2>1 DEF IInv, TypeOK, GivenOK, SoundOK, Sound, Silent, Mute, Silence, Slow, Whole, FeedersOK, Feeding,
                  Busy, InHand, Reported, Survivors, RoundOK, BetweenOK, WindowOK, ListsOK, AnswerOK,
                  EarliestOfTested, DroppedHadToBeSilent
  <1> QED
    BY <1>1, <1>2, <1>3, <1>4, <1>5, <1>6 DEF Next

\* What ties the candidates' records, the round's counters and the lists of
\* an elimination together holds in every state, whatever the workers, the
\* engines and the context do and in whatever order.
THEOREM Invariance == Spec => []IInv
  <1> QED
    BY InitHolds, StepHolds, PTL DEF Spec

-----------------------------------------------------------------------------
\* Eliminate answers with the earliest candidate that reproduces the input,
\* but for those that could not be tested within UntestedLimit, and says that
\* there is none only when there is none: whatever the number of candidates,
\* the lengths of their output and the limits, through every round, drop and
\* fallback and in settling on a lone survivor.
THEOREM AnswersEarliest == Spec => []EarliestOfTested
  <1>1. IInv => EarliestOfTested
    BY DEF IInv
  <1> QED
    BY <1>1, Invariance, PTL

\* A candidate is given up untested only if its engine's buffering, and an
\* asynchronous one's arrears, had to keep it silent to UntestedLimit.
THEOREM OnlySilentDropped == Spec => []DroppedHadToBeSilent
  <1>1. IInv => DroppedHadToBeSilent
    BY DEF IInv
  <1> QED
    BY <1>1, Invariance, PTL

\* No engine is fed past UntestedLimit while it has a competitor, nor more
\* than Margin past it ever, and at most MaxLockstep tested candidates go
\* from one round into the next.
THEOREM LockstepBounded == Spec => []LockstepBound
  <1>1. IInv => LockstepBound
    BY DEF IInv, LockstepBound, WindowOK, BetweenOK
  <1> QED
    BY <1>1, Invariance, PTL

\* Whichever way Eliminate comes to ErrNoMatch, every candidate was tried, was
\* counted as untested or was handed to Run, and whoever the message leaves out
\* had been given up for a reason; the error noMatch quotes is of a candidate
\* that failed.
THEOREM AccountsForAll == Spec => []NoMatchAccounts
  <1>1. IInv => NoMatchAccounts
    <2> SUFFICES ASSUME IInv, answer = Srch!NoMatch PROVE NoMatchAccounts
      BY DEF NoMatchAccounts
    <2>1. CASE ByRun
      <3>1. ASSUME NEW i \in Cands \ (Said.tried \cup Said.untested)
            PROVE  i \in untested \/ (i \in tried /\ ~Whole(i))
        <4>1. i \in Cands \ alive
          BY <2>1, <3>1 DEF Said
        <4> QED
          BY <4>1 DEF IInv, ListsOK
      <3> QED
        BY <2>1, <3>1 DEF NoMatchAccounts
    <2>2. CASE ~ByRun
      <3>1. Said.tried \cup Said.untested = tried \cup untested /\ alive = {}
        BY <2>2 DEF Said, ByRun
      <3>2. Cands \ (Said.tried \cup Said.untested) = {}
        BY <3>1 DEF IInv, ListsOK
      <3> QED
        BY <2>2, <3>1, <3>2 DEF NoMatchAccounts, IInv, ListsOK
    <2> QED
      BY <2>1, <2>2
  <1> QED
    BY <1>1, Invariance, PTL

\* Once Eliminate has returned no engine it opened is still open.
THEOREM EnginesClosed == Spec => []NoEngineLeft
  <1>1. IInv => NoEngineLeft
    BY DEF IInv, NoEngineLeft, AnswerOK
  <1> QED
    BY <1>1, Invariance, PTL
==============================================================================
