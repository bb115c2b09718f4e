----------------------------- MODULE PigzParallel -----------------------------
(***************************************************************************)
(* The parallel path of the pigz engine (engine/pigz/pigz.go): a caller    *)
(* feeds a goroutine through an io.Pipe; the goroutine cuts the input into *)
(* jobs and hands them to workers; another goroutine, the printer, writes  *)
(* their output in job order.  The first job runs alone and writes to the  *)
(* destination as it goes; the other workers are created once that output  *)
(* was accepted.  Input is counted in blocks, one job each; what is in a   *)
(* job, and where --rsyncable cuts it, is PigzCut's.                       *)
(*                                                                         *)
(* A definition named X_Bug is X with a bug one could plausibly write into *)
(* the code, as in Run.                                                    *)
(***************************************************************************)
EXTENDS Naturals, Sequences, FiniteSets, SequencesExt

CONSTANTS Blocks,    \* the most input a caller has
          Workers,   \* Engine.workers()
          Chunks     \* how many writes the first job's output takes

ASSUME PigzAssumption == Blocks \in Nat /\ Workers \in Nat \ {0} /\ Chunks \in Nat \ {0}

VARIABLES
    writeFails,  \* the destination's write that fails, counting from 1; 0: none
    allocFails,  \* which newCompressor of the extra ones fails; 0: none
    caller,      \* "ready", "writing", "closing" or "closed"
    fed,         \* how many blocks Write has accepted
    ret,         \* what Close returned
    \* the goroutine: newWriter's, parallel and cutJobs
    pc,          \* "read", "gate", "spawn", "send", "queue", "join", "collect" or "done"
    have, eof,   \* blocks read from the pipe; its end was read
    cut,         \* jobs handed to a worker
    err,         \* cutJobs' error, then parallel's
    jobsClosed, stop, accepted,   \* the channels jobs, stop and accepted are closed
    \* the workers
    wstate,      \* "absent", "idle", "look", "work", "finish" or "gone"
    job,         \* the job each worker has
    chunk,       \* how many writes the first job has made
    failed,      \* the first job's err
    done,        \* jobs whose done channel is closed
    \* the printer
    order, orderClosed,
    ppc,         \* "next", "wait", "write" or "gone"
    printing,    \* the job it has taken from order
    perr, first, \* its locals
    dest         \* what has been written: <<job, chunk>>

input == <<caller, fed, ret>>
cutter == <<pc, have, eof, cut, err>>
signals == <<jobsClosed, stop, accepted>>
pool == <<wstate, job, chunk, failed, done>>
printer == <<order, orderClosed, ppc, printing, perr, first>>
faults == <<writeFails, allocFails>>
vars == <<faults, input, cutter, signals, pool, printer, dest>>

W == 1 .. Workers

Init ==
    /\ writeFails \in 0 .. Chunks + Blocks /\ allocFails \in 0 .. Workers - 1
    /\ caller = "ready" /\ fed = 0 /\ ret = "pending"
    /\ pc = "read" /\ have = 0 /\ eof = FALSE /\ cut = 0 /\ err = "nil"
    /\ jobsClosed = FALSE /\ stop = FALSE /\ accepted = FALSE
    /\ wstate = [w \in W |-> IF w = 1 THEN "idle" ELSE "absent"]
    /\ job = [w \in W |-> 0] /\ chunk = 0 /\ failed = FALSE /\ done = {}
    /\ order = <<>> /\ orderClosed = FALSE /\ ppc = "next" /\ printing = 0
    /\ perr = FALSE /\ first = TRUE
    /\ dest = <<>>

\* The next write to the destination is the one that fails.
Refused == Len(dest) + 1 = writeFails

-----------------------------------------------------------------------------
(* The caller, one Write at a time; io.Pipe hands over a write as a whole. *)

Write == /\ caller = "ready" /\ fed < Blocks
         /\ caller' = "writing"
         /\ UNCHANGED <<faults, fed, ret, cutter, signals, pool, printer, dest>>

\* The goroutine has closed its end with an error; Feed gives up and closes.
WriteBroken == /\ caller = "writing" /\ pc = "done"
               /\ caller' = "closing"
               /\ UNCHANGED <<faults, fed, ret, cutter, signals, pool, printer, dest>>

Close == /\ caller = "ready"
         /\ caller' = "closing"
         /\ UNCHANGED <<faults, fed, ret, cutter, signals, pool, printer, dest>>

CloseReturns == /\ caller = "closing" /\ pc = "done"
                /\ caller' = "closed" /\ ret' = err
                /\ UNCHANGED <<faults, fed, cutter, signals, pool, printer, dest>>

-----------------------------------------------------------------------------
(* cutJobs and emit.                                                       *)

\* A job is emitted once what follows it is known: a block, or the end.
Known == eof \/ have >= cut + 2

Emitting == IF cut = 1 THEN "gate" ELSE "send"

\* readn for a whole block, or the end of the pipe.
ReadBlock ==
    /\ pc = "read"
    /\ \/ Known /\ pc' = Emitting /\ UNCHANGED <<have, eof, caller, fed>>
       \/ /\ ~Known /\ caller = "writing"
          /\ have' = have + 1 /\ fed' = fed + 1 /\ caller' = "ready"
          /\ UNCHANGED <<pc, eof>>
       \/ /\ ~Known /\ caller = "closing"
          /\ eof' = TRUE
          /\ UNCHANGED <<pc, have, caller, fed>>
    /\ UNCHANGED <<faults, ret, cut, err, signals, pool, printer, dest>>

\* emit returns e and cutJobs with it: parallel closes jobs.
Leave(e) == pc' = "join" /\ err' = e /\ jobsClosed' = TRUE

\* Bug: the cutter does not watch stop.
Stopped_Never == FALSE

Stopped == /\ pc \in {"gate", "send", "queue"} /\ stop
           /\ Leave("errStopped")
           /\ UNCHANGED <<faults, input, have, eof, cut, stop, accepted, pool, printer, dest>>

\* Bug: the second job does not wait for the first one's output.
MayGoOn_AtOnce == TRUE

MayGoOn == accepted

Gate == /\ pc = "gate" /\ MayGoOn
        /\ pc' = "spawn"
        /\ UNCHANGED <<faults, input, have, eof, cut, err, signals, pool, printer, dest>>

\* The extra workers, up to the one that cannot be allocated.
Spawn ==
    /\ pc = "spawn"
    /\ wstate' = [w \in W |-> IF w = 1 \/ (allocFails > 0 /\ w > allocFails)
                              THEN wstate[w] ELSE "idle"]
    /\ IF allocFails > 0 THEN Leave("alloc")
                         ELSE pc' = "send" /\ UNCHANGED <<err, jobsClosed>>
    /\ UNCHANGED <<faults, input, have, eof, cut, stop, accepted,
                   job, chunk, failed, done, printer, dest>>

Send(w) ==
    /\ pc = "send" /\ wstate[w] = "idle"
    /\ wstate' = [wstate EXCEPT ![w] = "look"]
    /\ job' = [job EXCEPT ![w] = cut]
    /\ cut' = cut + 1
    /\ pc' = "queue"
    /\ UNCHANGED <<faults, input, have, eof, err, signals, chunk, failed, done, printer, dest>>

\* more: the job just sent is not the last one.
More == have > cut

\* Bug: a queue of one more.
Room_OneMore == Len(order) <= 2 * Workers

Room == Len(order) < 2 * Workers

Queue ==
    /\ pc = "queue" /\ Room
    /\ order' = Append(order, cut - 1)
    /\ IF More THEN pc' = "read" /\ UNCHANGED <<err, jobsClosed>> ELSE Leave("nil")
    /\ UNCHANGED <<faults, input, have, eof, cut, stop, accepted, pool,
                   orderClosed, ppc, printing, perr, first, dest>>

\* wg.Wait returns.
Joined == \A w \in W : wstate[w] \in {"absent", "gone"}

Join == /\ pc = "join" /\ Joined
        /\ orderClosed' = TRUE /\ pc' = "collect"
        /\ UNCHANGED <<faults, input, have, eof, cut, err, signals, pool,
                       order, ppc, printing, perr, first, dest>>

\* Bug: the cutting error is looked at first.
Outcome_CutFirst == IF err # "nil" THEN err ELSE IF perr THEN "write" ELSE "nil"

\* The output's error is what parallel reports.
Outcome == IF perr THEN "write" ELSE err

Collect == /\ pc = "collect" /\ ppc = "gone"
           /\ err' = Outcome
           /\ pc' = "done"
           /\ UNCHANGED <<faults, input, have, eof, cut, signals, pool, printer, dest>>

Cutter == \/ ReadBlock \/ Stopped \/ Gate \/ Spawn \/ Queue \/ Join \/ Collect
          \/ \E w \in W : Send(w)

-----------------------------------------------------------------------------
(* A worker.                                                               *)

Look(w) == /\ wstate[w] = "look"
           /\ wstate' = [wstate EXCEPT ![w] = IF stop THEN "finish" ELSE "work"]
           /\ UNCHANGED <<faults, input, cutter, signals, job, chunk, failed, done, printer, dest>>

\* The first job writes its output as it goes; the others keep theirs.
Work(w) ==
    /\ wstate[w] = "work"
    /\ IF job[w] # 0
       THEN wstate' = [wstate EXCEPT ![w] = "finish"] /\ UNCHANGED <<chunk, failed, dest>>
       ELSE /\ failed' = Refused
            /\ chunk' = IF Refused THEN chunk ELSE chunk + 1
            /\ dest' = IF Refused THEN dest ELSE Append(dest, <<0, chunk'>>)
            /\ wstate' = [wstate EXCEPT ![w] = IF Refused \/ chunk' = Chunks
                                               THEN "finish" ELSE "work"]
    /\ UNCHANGED <<faults, input, cutter, signals, job, done, printer>>

Finish(w) == /\ wstate[w] = "finish"
             /\ wstate' = [wstate EXCEPT ![w] = "idle"]
             /\ done' = done \cup {job[w]}
             /\ UNCHANGED <<faults, input, cutter, signals, job, chunk, failed, printer, dest>>

\* The range over jobs ends.
Go(w) == /\ wstate[w] = "idle" /\ jobsClosed
         /\ wstate' = [wstate EXCEPT ![w] = "gone"]
         /\ UNCHANGED <<faults, input, cutter, signals, job, chunk, failed, done, printer, dest>>

Worker(w) == Look(w) \/ Work(w) \/ Finish(w) \/ Go(w)

-----------------------------------------------------------------------------
(* The printer.                                                            *)

\* The range over order: the next job, or the end.
TakeOrder ==
    /\ ppc = "next"
    /\ \/ /\ order # <<>>
          /\ printing' = Head(order) /\ order' = Tail(order) /\ ppc' = "wait"
       \/ /\ order = <<>> /\ orderClosed
          /\ ppc' = "gone" /\ UNCHANGED <<order, printing>>
    /\ UNCHANGED <<faults, input, cutter, signals, pool, orderClosed, perr, first, dest>>

\* After an error the rest of the jobs are only waited for.
Await == /\ ppc = "wait" /\ printing \in done
         /\ ppc' = IF perr THEN "next" ELSE "write"
         /\ UNCHANGED <<faults, input, cutter, signals, pool, order, orderClosed,
                        printing, perr, first, dest>>

\* Bug: the first job's output is written again.
Kept_Always(j) == TRUE

\* A job's output is the printer's to write, unless it is the first.
Kept(j) == j # 0

\* A failure, its own or the first job's, stops the cutting and the workers;
\* success lets the second job go on.
WriteOut ==
    LET fails == IF Kept(printing) THEN Refused ELSE failed IN
    /\ ppc = "write"
    /\ perr' = fails
    /\ dest' = IF Kept(printing) /\ ~fails THEN Append(dest, <<printing, 1>>) ELSE dest
    /\ stop' = (stop \/ fails)
    /\ first' = (first /\ fails)
    /\ accepted' = (accepted \/ (first /\ ~fails))
    /\ ppc' = "next"
    /\ UNCHANGED <<faults, input, cutter, jobsClosed, pool, order, orderClosed, printing>>

Printer == TakeOrder \/ Await \/ WriteOut

-----------------------------------------------------------------------------
Caller == Write \/ WriteBroken \/ CloseReturns

Next == Caller \/ Close \/ Cutter \/ Printer \/ \E w \in W : Worker(w)

\* Goroutines that can run are run, and every engine is closed in the end:
\* see Elimination's NoEngineLeft, Confirm and Run, which close theirs.
Fairness == /\ WF_vars(WriteBroken) /\ WF_vars(CloseReturns) /\ WF_vars(Close)
            /\ WF_vars(Cutter) /\ WF_vars(Printer)
            /\ \A w \in W : WF_vars(Worker(w))

Spec == Init /\ [][Next]_vars /\ Fairness

-----------------------------------------------------------------------------
\* The output of n jobs, one after the other.
OutputOf(n) == [k \in 1 .. Chunks |-> <<0, k>>] \o [k \in 1 .. n - 1 |-> <<k, 1>>]

\* The jobs are written each once, in order and none before the one before it
\* is complete, however the workers finish: the stream is what one worker
\* would write.
InJobOrder == IsPrefix(dest, OutputOf(Blocks + 1))

\* What Close returns is the truth about the stream: nil only if everything
\* the caller fed is at the destination, the destination's error if it
\* refused a write, and never errStopped, the internal consequence of one.
CloseIsHonest ==
    caller = "closed" =>
        /\ ret = "nil" => dest = OutputOf(IF fed = 0 THEN 1 ELSE fed)
        /\ ret = "write" <=> perr
        /\ ret # "errStopped"

\* The engine runs ahead of the destination by so much and no more.  Before
\* the first job's output was accepted nothing else is compressed and at most
\* three blocks are taken, so that a rejected candidate costs one job; and as
\* long as the destination takes what it is given, the jobs that hold input or
\* output, those cut and not yet written, are the order queue's, the printer's
\* and the one just handed out.
BoundedAhead ==
    /\ ~accepted => /\ \A w \in W : wstate[w] = "work" => job[w] = 0
                    /\ \A w \in W \ {1} : wstate[w] = "absent"
                    /\ have <= 3
    /\ ~stop => cut - (IF first THEN 0 ELSE dest[Len(dest)][1] + 1) <= 2 * Workers + 2

\* Close returns, and so does a Write that waits for the goroutine: neither
\* the channels between cutter, workers and printer nor an error on one side
\* of them leave anyone waiting.
Termination == <>(caller = "closed")
===============================================================================
