------------------------------- MODULE PigzCut -------------------------------
(***************************************************************************)
(* Where the pigz engine (engine/pigz/pigz.go) ends a job: cutJobs with    *)
(* its juggling of input buffers.                                          *)
(*                                                                         *)
(* A byte is its place in the input, 1, 2, ...; what the rolling hash does *)
(* is the set of bytes at which it hits, so that a byte hashed twice, not  *)
(* at all or out of order shows in the order of those hashed.              *)
(***************************************************************************)
EXTENDS Integers, Sequences, FiniteSets, SequencesExt, FiniteSetsExt

CONSTANTS Block,      \* c.block
          DictSize,   \* dictSize
          Longest,    \* the longest input
          MinGap      \* bytes from a hit to the next, at least

ASSUME CutAssumption == Block \in Nat \ {0} /\ DictSize \in 1 .. Block /\ Longest \in Nat

VARIABLES cfg,        \* the input and the options; None before they are chosen
          par, jobs   \* cutJobs' locals, and what it has emitted

cutVars == <<cfg, par, jobs>>

None == [chosen |-> FALSE]
Size == cfg.size
Bytes(from, n) == [k \in 1 .. n |-> from + k - 1]

\* readn: a whole block unless the input ends first.
Readn(read) == Bytes(read + 1, Min({Block, Size - read}))

-----------------------------------------------------------------------------
(* cutJobs.  A space is the sequence of its bytes, <<>> for hold = nil.    *)

\* The places of hits in a space behind index from, up to index to.
HitsIn(space, from, to) ==
    LET hits[k \in 0 .. to] ==
            IF k <= from THEN <<>>
            ELSE IF space[k] \in cfg.hits THEN Append(hits[k-1], k) ELSE hits[k-1]
    IN  hits[to]

Gaps(ends, last) == [k \in DOMAIN ends |-> ends[k] - (IF k = 1 THEN last ELSE ends[k-1])]

\* The hits in curr, unless they were found when it was next.
ScanCurr(s) ==
    LET hits == HitsIn(s.curr, s.scan, Len(s.curr))
    IN  IF s.left # 0 THEN s
        ELSE [s EXCEPT !.lens = Gaps(hits, 0), !.scan = 0,
                       !.left = Len(s.curr) - (IF hits = <<>> THEN 0 ELSE Last(hits)),
                       !.hashed = @ \o SubSeq(s.curr, s.scan + 1, Len(s.curr))]

\* The hits in as much of next as would fill curr.
ScanNext(s) ==
    LET end  == Max({s.scan, Min({Block - Len(s.curr), Len(s.next)})})
        hits == HitsIn(s.next, s.scan, end)
    IN  [s EXCEPT !.lens = @ \o Gaps(hits, -s.left), !.scan = end,
                  !.left = IF hits = <<>> THEN @ ELSE 0,
                  !.last = IF hits = <<>> THEN 0 ELSE Last(hits),
                  !.hashed = @ \o SubSeq(s.next, s.scan + 1, end)]

\* The job up to the last hit, or the whole buffer if there is none; the rest
\* is kept in next and possibly hold.
Divide(s) ==
    LET cut == IF s.lens = <<>> THEN s.scan ELSE s.last
    IN  IF cut > 0
        THEN [s EXCEPT !.curr = @ \o SubSeq(s.next, 1, cut), !.scan = @ - cut, !.left = 0,
                       !.next = SubSeq(@, cut + 1, Len(@))]
        ELSE IF s.lens # <<>> /\ s.left # 0 /\ s.next # <<>>
        THEN [s EXCEPT !.hold = s.next, !.next = SubSeq(s.curr, Len(s.curr) - s.left + 1, Len(s.curr)),
                       !.curr = SubSeq(@, 1, Len(@) - s.left)]
        ELSE [s EXCEPT !.left = 0]

\* The n bytes at the end.
LastOf(s, n) == SubSeq(s, Len(s) - n + 1, Len(s))

\* The dictionary of the job after one of curr.
NextDict_Curr(dict, curr) == curr
NextDict(dict, curr) ==
    IF Len(curr) >= DictSize \/ dict = <<>> THEN curr
    ELSE LastOf(dict, Min({DictSize - Len(curr), Len(dict)})) \o curr

CutInit == cfg = None /\ par = None /\ jobs = <<>>

\* Any input with hits anywhere, but none right behind another.
Begin == /\ cfg = None
         /\ \E n \in 0 .. Longest, rsync, setdict \in BOOLEAN :
            \E hits \in SUBSET (1 .. n) :
               /\ \A i, j \in hits : i < j => j - i >= MinGap
               /\ ~rsync => hits = {}
               /\ cfg' = [chosen |-> TRUE, size |-> n, hits |-> hits, rsync |-> rsync,
                          setdict |-> setdict]
               /\ par' = [next |-> Bytes(1, Min({Block, n})), read |-> Min({Block, n}),
                          hold |-> <<>>, scan |-> 0, left |-> 0, dict |-> <<>>, hashed |-> <<>>]
         /\ UNCHANGED jobs

Cutting == cfg # None /\ (jobs # <<>> => Last(jobs).more)

\* One round of cutJobs' loop, with the job it emits.
CutJob ==
    /\ Cutting
    /\ LET fresh == par.hold = <<>>
           s0 == [curr |-> par.next, next |-> IF fresh THEN Readn(par.read) ELSE par.hold,
                  hold |-> <<>>, scan |-> par.scan, left |-> par.left, last |-> 0, lens |-> <<>>,
                  hashed |-> par.hashed]
           s == IF cfg.rsync /\ s0.curr # <<>> THEN Divide(ScanNext(ScanCurr(s0))) ELSE s0
           more == s.next # <<>>
       IN  /\ jobs' = Append(jobs, [curr |-> s.curr, lens |-> s.lens, dict |-> par.dict, more |-> more])
           /\ par' = [next |-> s.next, hold |-> s.hold, scan |-> s.scan, left |-> s.left,
                      hashed |-> s.hashed,
                      read |-> IF fresh THEN par.read + Len(Readn(par.read)) ELSE par.read,
                      dict |-> IF more /\ cfg.setdict THEN NextDict(par.dict, s.curr) ELSE par.dict]
    /\ UNCHANGED cfg

CutNext == Begin \/ CutJob
CutSpec == CutInit /\ [][CutNext]_cutVars

-----------------------------------------------------------------------------
\* The byte at which the k-th job ends, 0 before the first.
End(k) == IF k = 0 THEN 0 ELSE IF jobs[k].curr = <<>> THEN 0 ELSE Last(jobs[k].curr)

\* Whatever branch cuts them, the jobs are the input in order: each begins
\* behind the one before and the last ends with the input, none is longer than
\* a block and none empty unless the input is; the hash goes over each byte
\* once, in order, and with --rsyncable over all; and each job is primed with
\* the DictSize bytes before it, or all there are.
JobsAreInput ==
    /\ \A k \in DOMAIN jobs :
          /\ jobs[k].curr = Bytes(End(k - 1) + 1, Len(jobs[k].curr))
          /\ Len(jobs[k].curr) <= Block /\ (jobs[k].curr = <<>> => Size = 0)
          /\ LET dict == LastOf(jobs[k].dict, Min({DictSize, Len(jobs[k].dict)}))
             IN  dict = IF cfg.setdict THEN LET n == Min({DictSize, End(k - 1)})
                                            IN  Bytes(End(k - 1) - n + 1, n)
                        ELSE <<>>
    /\ cfg # None => par.hashed = Bytes(1, Len(par.hashed))
    /\ cfg # None /\ ~Cutting => End(Len(jobs)) = Size /\ (cfg.rsync => Len(par.hashed) = Size)
=============================================================================
