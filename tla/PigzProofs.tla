------------------------------ MODULE PigzProofs ------------------------------
(***************************************************************************)
(* Theorems about the pigz engine: the goroutines of its parallel path,    *)
(* for any amount of input, number of workers and size of the first job's  *)
(* output; cutJobs, for any input, place of the hash's hits, block and     *)
(* dictionary size; the space of a job's output, whatever deflate puts     *)
(* out; and the single path against the parallel one.                      *)
(***************************************************************************)
EXTENDS PigzParallel, PigzPieces, SequenceTheorems, NaturalsInduction, WellFoundedInduction, TLAPS

\* The types of the variables.
TypeOK ==
    /\ writeFails \in Nat /\ allocFails \in Nat
    /\ caller \in {"ready", "writing", "closing", "closed"}
    /\ fed \in Nat /\ ret \in {"pending", "nil", "errStopped", "alloc", "write"}
    /\ pc \in {"read", "gate", "spawn", "send", "queue", "join", "collect", "done"}
    /\ have \in Nat /\ eof \in BOOLEAN /\ cut \in Nat
    /\ err \in {"nil", "errStopped", "alloc", "write"}
    /\ jobsClosed \in BOOLEAN /\ stop \in BOOLEAN /\ accepted \in BOOLEAN
    /\ wstate \in [W -> {"absent", "idle", "look", "work", "finish", "gone"}]
    /\ job \in [W -> Nat] /\ chunk \in Nat /\ failed \in BOOLEAN /\ done \in SUBSET Nat
    /\ order \in Seq(Nat) /\ orderClosed \in BOOLEAN
    /\ ppc \in {"next", "wait", "write", "gone"} /\ printing \in Nat
    /\ perr \in BOOLEAN /\ first \in BOOLEAN
    /\ dest \in Seq(Nat \X Nat)

-----------------------------------------------------------------------------
(* The caller and the cutter: what was read is what was accepted, and a    *)
(* job is cut only when what follows it is known.                          *)

InputOK ==
    /\ have = fed /\ fed <= Blocks /\ (caller = "writing" => fed < Blocks)
    /\ have <= cut + 2
    /\ cut <= 1 \/ cut <= have
    /\ pc = "read" => cut = 0 \/ have > cut
    /\ pc \in {"gate", "spawn", "send"} => (eof \/ have >= cut + 2) /\ (cut = 0 \/ have > cut)
    /\ pc \in {"gate", "spawn"} => cut = 1
    /\ pc = "queue" => cut >= 1 /\ (eof \/ have >= cut + 1) /\ (cut = 1 \/ have >= cut)
    /\ pc \in {"join", "collect", "done"} /\ err = "nil" =>
         eof /\ cut >= 1 /\ (have = cut \/ (have = 0 /\ cut = 1))

-----------------------------------------------------------------------------
(* The workers: a job is one worker's until it is done.                    *)

Busy(w) == wstate[w] \in {"look", "work", "finish"}

\* Nobody but the first worker exists yet.
Alone == \/ ~accepted
         \/ cut = 0
         \/ cut = 1 /\ pc \in {"read", "gate", "spawn", "queue"}

PoolOK ==
    /\ Alone => \A w \in W \ {1} : wstate[w] = "absent"
    /\ ~accepted => cut <= 1 /\ pc # "spawn" /\ (pc = "send" => cut = 0)
    /\ \A w \in W : Busy(w) => job[w] < cut /\ job[w] \notin done
    /\ \A v, w \in W : Busy(v) /\ Busy(w) /\ job[v] = job[w] => v = w
    /\ \A j \in done : j < cut

\* The first job's output is complete or refused when it is done.
FirstOK ==
    /\ chunk <= Chunks
    /\ \A w \in W : job[w] = 0 => /\ wstate[w] \in {"look", "work"} => chunk < Chunks /\ ~failed
                                  /\ wstate[w] = "finish" => failed \/ chunk = Chunks
    /\ 0 \in done => failed \/ chunk = Chunks
    /\ cut = 0 => chunk < Chunks /\ ~failed
    /\ perr \/ ~first => 0 \in done

-----------------------------------------------------------------------------
(* The printer: as long as nothing was refused, the jobs cut and not yet   *)
(* written are the one just handed out, the queue's and its own.           *)

Queued == IF pc = "queue" THEN cut - 1 ELSE cut
Taken == Queued - Len(order)
Completed == IF ppc \in {"wait", "write"} THEN Taken - 1 ELSE Taken

OrderOK ==
    /\ stop <=> perr
    /\ Len(order) <= 2 * Workers
    /\ ppc = "write" => ~perr /\ printing \in done
    /\ ~perr => /\ Len(order) <= Queued
                /\ \A i \in 1 .. Len(order) : order[i] = Taken + i - 1
                /\ ppc \in {"wait", "write"} => Taken >= 1 /\ printing = Taken - 1
    /\ ~perr => (accepted <=> ~first)

\* What is at the destination is the beginning of the jobs' output, and as
\* long as nothing was refused it is that of the jobs completed.
DestOK ==
    /\ Len(dest) <= Chunks + Blocks
    /\ \A k \in 1 .. Len(dest) : dest[k] = IF k <= Chunks THEN <<0, k>> ELSE <<k - Chunks, 1>>
    /\ ~perr => IF first THEN Completed = 0 /\ Len(dest) = chunk
                ELSE Completed >= 1 /\ chunk = Chunks /\ Len(dest) = Chunks + Completed - 1

-----------------------------------------------------------------------------
(* The end: parallel returns once the printer is gone, with its error.     *)

EndOK ==
    /\ orderClosed <=> pc \in {"collect", "done"}
    /\ ppc = "gone" => orderClosed /\ order = <<>>
    /\ err = "errStopped" => perr
    /\ err = "write" => pc = "done"
    /\ pc = "done" => ppc = "gone" /\ err # "errStopped" /\ (err = "write" <=> perr)
    /\ caller = "closed" => pc = "done" /\ ret = err

IInv == TypeOK /\ InputOK /\ PoolOK /\ FirstOK /\ OrderOK /\ DestOK /\ EndOK

-----------------------------------------------------------------------------
USE PigzAssumption

\* The initial states satisfy the invariant.
LEMMA InitHolds == Init => IInv
  <1> SUFFICES ASSUME Init PROVE IInv
    OBVIOUS
  <1>1. TypeOK
    <2>1. writeFails \in Nat /\ allocFails \in Nat
      BY DEF Init
    <2>2. order \in Seq(Nat) /\ dest \in Seq(Nat \X Nat)
      BY DEF Init
    <2>3. wstate \in [W -> {"absent", "idle", "look", "work", "finish", "gone"}]
      BY DEF Init
    <2>4. job \in [W -> Nat]
      BY DEF Init
    <2> QED
      BY <2>1, <2>2, <2>3, <2>4 DEF Init, TypeOK
  <1>2. InputOK /\ PoolOK /\ FirstOK /\ EndOK
    BY DEF Init, InputOK, PoolOK, FirstOK, EndOK, Busy, Alone, W
  <1>3. OrderOK /\ DestOK
    <2>1. Len(order) = 0
      BY DEF Init
    <2>0. Len(dest) = 0
      BY DEF Init
    <2>2. OrderOK
      BY <2>1 DEF Init, OrderOK, Taken, Queued
    <2>3. DestOK
      <3>1. pc = "read" /\ ppc = "next" /\ cut = 0 /\ chunk = 0
        BY DEF Init
      <3>3. Completed = 0
        BY <2>1, <3>1 DEF Completed, Taken, Queued
      <3>2. Len(dest) <= Chunks + Blocks
        BY <2>0
      <3> QED
        BY <2>0, <3>2, <3>3 DEF Init, DestOK
    <2> QED
      BY <2>2, <2>3
  <1> QED
    BY <1>1, <1>2, <1>3 DEF IInv

-----------------------------------------------------------------------------
(* Every step keeps the invariant: the caller's, then the cutter's, the    *)
(* workers' and the printer's, one lemma for each.                         *)

\* Write, its failure, and Close.
LEMMA CallerKeeps == ASSUME IInv, Caller \/ Close PROVE IInv'
  <1> USE DEF input, cutter, signals, pool, printer, faults
  <1>1. TypeOK'
    <2>1. CASE Write
      BY <2>1 DEF IInv, TypeOK, Write
    <2>2. CASE WriteBroken
      BY <2>2 DEF IInv, TypeOK, WriteBroken
    <2>3. CASE Close
      BY <2>3 DEF IInv, TypeOK, Close
    <2>4. CASE CloseReturns
      BY <2>4 DEF IInv, TypeOK, CloseReturns
    <2> QED
      BY <2>1, <2>2, <2>3, <2>4 DEF Caller
  <1>2. InputOK'
    BY DEF IInv, InputOK, TypeOK, Caller, Write, WriteBroken, Close, CloseReturns
  <1>3. PoolOK' /\ FirstOK'
    BY DEF IInv, PoolOK, FirstOK, Busy, Alone, Caller, Write, WriteBroken, Close, CloseReturns
  <1>4. OrderOK' /\ DestOK'
    BY DEF IInv, OrderOK, DestOK, Completed, Taken, Queued, Caller, Write, WriteBroken, Close, CloseReturns
  <1>5. EndOK'
    BY DEF IInv, TypeOK, EndOK, Caller, Write, WriteBroken, Close, CloseReturns
  <1> QED
    BY <1>1, <1>2, <1>3, <1>4, <1>5 DEF IInv
\* readn.
LEMMA ReadBlockKeeps == ASSUME IInv, ReadBlock PROVE IInv'
  <1> USE DEF IInv, input, cutter, signals, pool, printer, faults, ReadBlock, Known, Emitting
  <1>1. TypeOK'
    <2>1. have' \in Nat /\ fed' \in Nat
      BY DEF TypeOK
    <2>2. eof' \in BOOLEAN
      BY Zenon DEF TypeOK
    <2>3. caller' \in {"ready", "writing", "closing"} \cup {caller} /\ pc' \in {"read", "gate", "send"}
      BY Zenon
    <2> QED
      BY <2>1, <2>2, <2>3 DEF TypeOK
  <1>2. InputOK'
    BY DEF TypeOK, InputOK
  <1>3. PoolOK'
    BY DEF TypeOK, PoolOK, Busy, Alone, InputOK
  <1>4. FirstOK'
    BY DEF TypeOK, FirstOK, PoolOK, Busy
  <1>5. OrderOK'
    BY DEF TypeOK, OrderOK, InputOK, Taken, Queued
  <1>6. DestOK'
    BY DEF TypeOK, DestOK, OrderOK, FirstOK, InputOK, Completed, Taken, Queued
  <1>7. EndOK'
    BY DEF TypeOK, EndOK, OrderOK
  <1> QED
    BY <1>1, <1>2, <1>3, <1>4, <1>5, <1>6, <1>7

\* emit gives up on stop.
LEMMA StoppedKeeps == ASSUME IInv, Stopped PROVE IInv'
  <1> USE DEF IInv, input, cutter, signals, pool, printer, faults, Stopped, Leave
  <1>1. TypeOK'
    BY DEF TypeOK
  <1>2. InputOK'
    BY DEF TypeOK, InputOK
  <1>3. PoolOK'
    BY DEF TypeOK, PoolOK, Busy, Alone, InputOK
  <1>4. FirstOK'
    BY DEF TypeOK, FirstOK, PoolOK, Busy
  <1>5. OrderOK'
    BY DEF TypeOK, OrderOK, InputOK, Taken, Queued
  <1>6. DestOK'
    BY DEF TypeOK, DestOK, OrderOK, FirstOK, InputOK, Completed, Taken, Queued
  <1>7. EndOK'
    BY DEF TypeOK, EndOK, OrderOK
  <1> QED
    BY <1>1, <1>2, <1>3, <1>4, <1>5, <1>6, <1>7

\* emit waits for the first job.
LEMMA GateKeeps == ASSUME IInv, Gate PROVE IInv'
  <1> USE DEF IInv, input, cutter, signals, pool, printer, faults, Gate, MayGoOn
  <1>1. TypeOK'
    BY DEF TypeOK
  <1>2. InputOK'
    BY DEF TypeOK, InputOK
  <1>3. PoolOK'
    BY DEF TypeOK, PoolOK, Busy, Alone, InputOK
  <1>4. FirstOK'
    BY DEF TypeOK, FirstOK, PoolOK, Busy
  <1>5. OrderOK'
    BY DEF TypeOK, OrderOK, InputOK, Taken, Queued
  <1>6. DestOK'
    BY DEF TypeOK, DestOK, OrderOK, FirstOK, InputOK, Completed, Taken, Queued
  <1>7. EndOK'
    BY DEF TypeOK, EndOK, OrderOK
  <1> QED
    BY <1>1, <1>2, <1>3, <1>4, <1>5, <1>6, <1>7

\* The extra workers.
LEMMA SpawnKeeps == ASSUME IInv, Spawn PROVE IInv'
  <1> USE DEF IInv, input, cutter, signals, pool, printer, faults, Spawn, Leave, W
  <1>1. TypeOK'
    <2>1. wstate' \in [W -> {"absent", "idle", "look", "work", "finish", "gone"}]
      BY DEF TypeOK
    <2>2. jobsClosed' \in BOOLEAN
      BY Zenon DEF TypeOK
    <2>3. pc' \in {"join", "send"} /\ err' \in {err, "alloc"}
      BY Zenon
    <2> QED
      BY <2>1, <2>2, <2>3 DEF TypeOK
  <1>2. InputOK'
    BY DEF TypeOK, InputOK
  <1>3. PoolOK'
    BY DEF TypeOK, PoolOK, Busy, Alone, InputOK
  <1>4. FirstOK'
    BY DEF TypeOK, FirstOK, PoolOK, Busy
  <1>5. OrderOK'
    BY DEF TypeOK, OrderOK, InputOK, Taken, Queued
  <1>6. DestOK'
    BY DEF TypeOK, DestOK, OrderOK, FirstOK, InputOK, Completed, Taken, Queued
  <1>7. EndOK'
    BY DEF TypeOK, EndOK, OrderOK
  <1> QED
    BY <1>1, <1>2, <1>3, <1>4, <1>5, <1>6, <1>7

\* A job is handed to a worker ...
LEMMA SendKeeps == ASSUME IInv, NEW w \in W, Send(w) PROVE IInv'
  <1> USE DEF IInv, input, cutter, signals, pool, printer, faults, Send, W
  <1>1. TypeOK'
    BY DEF TypeOK
  <1>2. InputOK'
    BY DEF TypeOK, InputOK
  <1>3. PoolOK'
    <2>1. Alone' => \A v \in W \ {1} : wstate'[v] = "absent"
      BY DEF TypeOK, PoolOK, Alone, InputOK
    <2>2. ~accepted' => cut' <= 1 /\ pc' # "spawn" /\ (pc' = "send" => cut' = 0)
      BY DEF TypeOK, PoolOK
    <2>3. \A v \in W : Busy(v)' => job'[v] < cut' /\ job'[v] \notin done
      BY DEF TypeOK, PoolOK, Busy
    <2>4. \A u, v \in W : Busy(u)' /\ Busy(v)' /\ job'[u] = job'[v] => u = v
      BY DEF TypeOK, PoolOK, Busy
    <2>5. \A j \in done' : j < cut'
      BY DEF TypeOK, PoolOK
    <2> QED BY <2>1, <2>2, <2>3, <2>4, <2>5 DEF PoolOK
  <1>4. FirstOK'
    BY DEF TypeOK, FirstOK, PoolOK, Busy
  <1>5. OrderOK'
    BY DEF TypeOK, OrderOK, InputOK, Taken, Queued
  <1>6. DestOK'
    BY DEF TypeOK, DestOK, OrderOK, FirstOK, InputOK, Completed, Taken, Queued
  <1>7. EndOK'
    BY DEF TypeOK, EndOK, OrderOK
  <1> QED
    BY <1>1, <1>2, <1>3, <1>4, <1>5, <1>6, <1>7

\* ... and to the printer.
LEMMA QueueKeeps == ASSUME IInv, Queue PROVE IInv'
  <1> USE DEF IInv, input, cutter, signals, pool, printer, faults, Queue, Room, More, Leave
  <1>1. TypeOK'
    <2>1. order' \in Seq(Nat)
      BY DEF TypeOK, InputOK
    <2>2. CASE More
      BY <2>1, <2>2 DEF TypeOK
    <2>3. CASE ~More
      BY <2>1, <2>3 DEF TypeOK
    <2> QED
      BY <2>2, <2>3
  <1>2. InputOK'
    BY DEF TypeOK, InputOK
  <1>3. PoolOK'
    BY DEF TypeOK, PoolOK, Busy, Alone, InputOK
  <1>4. FirstOK'
    BY DEF TypeOK, FirstOK, PoolOK, Busy
  <1>5. OrderOK'
    <2>0. order \in Seq(Nat) /\ cut - 1 \in Nat /\ order' = Append(order, cut - 1)
      BY DEF TypeOK, InputOK
    <2>1. cut \in Nat /\ cut >= 1 /\ Len(order) \in Nat /\ pc = "queue" /\ pc' # "queue"
      BY DEF TypeOK, InputOK
    <2>2. Len(order') = Len(order) + 1
      BY DEF TypeOK
    <2>3. Queued' = Queued + 1 /\ Taken' = Taken /\ Queued = cut - 1 /\ Queued \in Nat
      BY <2>1, <2>2 DEF Queued, Taken
    <2>4. Len(order') <= 2 * Workers
      BY <2>1, <2>2
    <2>5. ASSUME ~perr, NEW i \in 1 .. Len(order')
          PROVE  order'[i] = Taken' + i - 1
      <3>1. CASE i = Len(order')
        <4>1. order'[i] = cut - 1
          BY <2>2, <3>1 DEF TypeOK
        <4> QED
          BY <2>1, <2>2, <2>3, <3>1, <4>1 DEF Taken
      <3>2. CASE i # Len(order')
        <4>0. i \in 1 .. Len(order)
          BY <2>1, <2>2, <3>2
        <4>1. order'[i] = order[i]
          BY <2>0, <4>0, AppendProperties
        <4> QED
          BY <2>3, <2>5, <4>0, <4>1 DEF OrderOK
      <3> QED
        BY <3>1, <3>2
    <2> QED
      BY <2>1, <2>2, <2>3, <2>4, <2>5 DEF OrderOK
  <1>6. DestOK'
    <2>1. Queued' = Queued + 1 /\ Len(order') = Len(order) + 1 /\ Queued \in Int /\ Len(order) \in Nat
      BY DEF TypeOK, Queued
    <2>2. Completed' = Completed
      BY <2>1 DEF Completed, Taken
    <2>3. DestOK
      OBVIOUS
    <2>4. dest' = dest /\ perr' = perr /\ first' = first /\ chunk' = chunk
      OBVIOUS
    <2> QED BY <2>2, <2>3, <2>4 DEF DestOK
  <1>7. EndOK'
    BY DEF TypeOK, EndOK, OrderOK
  <1> QED
    BY <1>1, <1>2, <1>3, <1>4, <1>5, <1>6, <1>7

\* wg.Wait.
LEMMA JoinKeeps == ASSUME IInv, Join PROVE IInv'
  <1> USE DEF IInv, input, cutter, signals, pool, printer, faults, Join, Joined
  <1>1. TypeOK'
    BY DEF TypeOK
  <1>2. InputOK'
    BY DEF TypeOK, InputOK
  <1>3. PoolOK'
    BY DEF TypeOK, PoolOK, Busy, Alone, InputOK
  <1>4. FirstOK'
    BY DEF TypeOK, FirstOK, PoolOK, Busy
  <1>5. OrderOK'
    BY DEF TypeOK, OrderOK, InputOK, Taken, Queued
  <1>6. DestOK'
    BY DEF TypeOK, DestOK, OrderOK, FirstOK, InputOK, Completed, Taken, Queued
  <1>7. EndOK'
    BY DEF TypeOK, EndOK, OrderOK
  <1> QED
    BY <1>1, <1>2, <1>3, <1>4, <1>5, <1>6, <1>7

\* parallel returns.
LEMMA CollectKeeps == ASSUME IInv, Collect PROVE IInv'
  <1> USE DEF IInv, input, cutter, signals, pool, printer, faults, Collect, Outcome
  <1>1. TypeOK'
    BY DEF TypeOK
  <1>2. InputOK'
    BY DEF TypeOK, InputOK
  <1>3. PoolOK'
    BY DEF TypeOK, PoolOK, Busy, Alone, InputOK
  <1>4. FirstOK'
    BY DEF TypeOK, FirstOK, PoolOK, Busy
  <1>5. OrderOK'
    BY DEF TypeOK, OrderOK, InputOK, Taken, Queued
  <1>6. DestOK'
    BY DEF TypeOK, DestOK, OrderOK, FirstOK, InputOK, Completed, Taken, Queued
  <1>7. EndOK'
    BY DEF TypeOK, EndOK, OrderOK
  <1> QED
    BY <1>1, <1>2, <1>3, <1>4, <1>5, <1>6, <1>7

\* A worker looks at stop.
LEMMA LookKeeps == ASSUME IInv, NEW w \in W, Look(w) PROVE IInv'
  <1> USE DEF IInv, input, cutter, signals, pool, printer, faults, Look
  <1>1. TypeOK'
    BY DEF TypeOK
  <1>2. InputOK'
    BY DEF TypeOK, InputOK
  <1>3. PoolOK'
    BY DEF TypeOK, PoolOK, Busy, Alone, InputOK
  <1>4. FirstOK'
    <2>1. wstate' = [wstate EXCEPT ![w] = IF stop THEN "finish" ELSE "work"]
      OBVIOUS
    <2>2. ASSUME stop, job[w] = 0 PROVE FALSE
      BY <2>2 DEF TypeOK, OrderOK, PoolOK, FirstOK, Busy
    <2> QED
      BY <2>2 DEF TypeOK, FirstOK
  <1>5. OrderOK'
    BY DEF TypeOK, OrderOK, InputOK, Taken, Queued
  <1>6. DestOK'
    BY DEF TypeOK, DestOK, OrderOK, FirstOK, InputOK, Completed, Taken, Queued
  <1>7. EndOK'
    BY DEF TypeOK, EndOK, OrderOK
  <1> QED
    BY <1>1, <1>2, <1>3, <1>4, <1>5, <1>6, <1>7

\* A worker compresses; the first job writes to the destination.
LEMMA WorkKeeps == ASSUME IInv, NEW w \in W, Work(w) PROVE IInv'
  <1> USE DEF IInv, input, cutter, signals, pool, printer, faults, Work, Refused
  <1>1. TypeOK'
    <2>1. wstate' \in [W -> {"absent", "idle", "look", "work", "finish", "gone"}]
      BY DEF TypeOK
    <2>2. chunk' \in Nat
      BY DEF TypeOK
    <2>4. dest \in Seq(Nat \X Nat) /\ <<0, chunk'>> \in Nat \X Nat
      BY <2>2 DEF TypeOK
    <2>5. dest' = dest \/ dest' = Append(dest, <<0, chunk'>>)
      BY Zenon
    <2>6. dest' \in Seq(Nat \X Nat)
      <3>1. Append(dest, <<0, chunk'>>) \in Seq(Nat \X Nat)
        BY <2>4, AppendProperties
      <3> QED
        BY <2>4, <2>5, <3>1, Zenon
    <2>3. failed' \in BOOLEAN
      BY Zenon DEF TypeOK
    <2> QED
      BY <2>1, <2>2, <2>3, <2>6 DEF TypeOK
  <1>2. InputOK'
    BY DEF TypeOK, InputOK
  <1>3. PoolOK'
    <2>1. wstate' = [wstate EXCEPT ![w] = wstate'[w]] /\ wstate'[w] \in {"work", "finish"}
      BY DEF TypeOK
    <2>2. \A v \in W : Busy(v)' = Busy(v)
      BY <2>1 DEF TypeOK, Busy
    <2>3. \A v \in W : wstate[v] = "absent" => wstate'[v] = "absent"
      BY <2>1 DEF TypeOK
    <2> QED
      BY <2>2, <2>3 DEF TypeOK, PoolOK, Alone
  <1>4. FirstOK'
    BY DEF TypeOK, FirstOK, PoolOK, Busy
  <1>5. OrderOK'
    BY DEF TypeOK, OrderOK, InputOK, Taken, Queued
  <1>6. DestOK'
    <2>1. CASE job[w] # 0
      BY <2>1 DEF TypeOK, DestOK, Completed, Taken, Queued
    <2>2. CASE job[w] = 0 /\ Refused
      BY <2>2 DEF TypeOK, DestOK, Completed, Taken, Queued
    <2>3. CASE job[w] = 0 /\ ~Refused
      <3>1. ~perr /\ first /\ chunk < Chunks
        BY <2>3 DEF TypeOK, PoolOK, FirstOK, Busy
      <3>2. Len(dest) = chunk /\ chunk \in Nat /\ Completed = 0
        BY <3>1 DEF DestOK, TypeOK
      <3>3. dest' = Append(dest, <<0, chunk + 1>>) /\ chunk' = chunk + 1
        BY <2>3
      <3>4. Len(dest') = chunk' /\ Len(dest') <= Chunks
        BY <3>1, <3>2, <3>3 DEF TypeOK
      <3>5. ASSUME NEW k \in 1 .. Len(dest') PROVE dest'[k] = <<0, k>> /\ k <= Chunks
        <4>1. CASE k = Len(dest')
          BY <3>2, <3>3, <3>4, <4>1 DEF TypeOK
        <4>2. CASE k # Len(dest')
          <5>1. k \in 1 .. Len(dest) /\ dest'[k] = dest[k] /\ k <= Chunks
            BY <3>1, <3>2, <3>3, <3>4, <4>2 DEF TypeOK
          <5> QED
            BY <5>1 DEF DestOK
        <4> QED
          BY <4>1, <4>2
      <3>6. Completed' = Completed
        BY DEF Completed, Taken, Queued
      <3>7. Len(dest') <= Chunks + Blocks
        BY <3>2, <3>4
      <3>8. first' /\ ~perr'
        BY <3>1
      <3> QED
        BY <3>2, <3>4, <3>5, <3>6, <3>7, <3>8 DEF DestOK
    <2> QED
      BY <2>1, <2>2, <2>3
  <1>7. EndOK'
    BY DEF TypeOK, EndOK, OrderOK
  <1> QED
    BY <1>1, <1>2, <1>3, <1>4, <1>5, <1>6, <1>7

\* A job's done channel is closed.
LEMMA FinishKeeps == ASSUME IInv, NEW w \in W, Finish(w) PROVE IInv'
  <1> USE DEF IInv, input, cutter, signals, pool, printer, faults, Finish
  <1>1. TypeOK'
    <2>1. wstate' \in [W -> {"absent", "idle", "look", "work", "finish", "gone"}]
      BY DEF TypeOK
    <2>2. done' \in SUBSET Nat
      BY DEF TypeOK
    <2> QED
      BY <2>1, <2>2 DEF TypeOK
  <1>2. InputOK'
    BY DEF TypeOK, InputOK
  <1>3. PoolOK'
    BY DEF TypeOK, PoolOK, Busy, Alone, InputOK
  <1>4. FirstOK'
    BY DEF TypeOK, FirstOK, PoolOK, Busy
  <1>5. OrderOK'
    BY DEF TypeOK, OrderOK, InputOK, Taken, Queued
  <1>6. DestOK'
    BY DEF TypeOK, DestOK, OrderOK, FirstOK, InputOK, Completed, Taken, Queued
  <1>7. EndOK'
    BY DEF TypeOK, EndOK, OrderOK
  <1> QED
    BY <1>1, <1>2, <1>3, <1>4, <1>5, <1>6, <1>7

\* A worker ends.
LEMMA GoKeeps == ASSUME IInv, NEW w \in W, Go(w) PROVE IInv'
  <1> USE DEF IInv, input, cutter, signals, pool, printer, faults, Go
  <1>1. TypeOK'
    BY DEF TypeOK
  <1>2. InputOK'
    BY DEF TypeOK, InputOK
  <1>3. PoolOK'
    BY DEF TypeOK, PoolOK, Busy, Alone, InputOK
  <1>4. FirstOK'
    BY DEF TypeOK, FirstOK, PoolOK, Busy
  <1>5. OrderOK'
    BY DEF TypeOK, OrderOK, InputOK, Taken, Queued
  <1>6. DestOK'
    BY DEF TypeOK, DestOK, OrderOK, FirstOK, InputOK, Completed, Taken, Queued
  <1>7. EndOK'
    BY DEF TypeOK, EndOK, OrderOK
  <1> QED
    BY <1>1, <1>2, <1>3, <1>4, <1>5, <1>6, <1>7

\* The printer takes the next job.
LEMMA TakeOrderKeeps == ASSUME IInv, TakeOrder PROVE IInv'
  <1> USE DEF IInv, input, cutter, signals, pool, printer, faults, TakeOrder
  <1>1. TypeOK'
    <2>1. order \in Seq(Nat) /\ printing \in Nat
      BY DEF TypeOK
    <2>2. order' \in Seq(Nat) /\ printing' \in Nat
      <3>1. CASE order = <<>>
        BY <2>1, <3>1
      <3>2. CASE order # <<>>
        BY <2>1, <3>2, HeadTailProperties
      <3> QED
        BY <3>1, <3>2
    <2> QED
      BY <2>2 DEF TypeOK
  <1>2. InputOK'
    BY DEF TypeOK, InputOK
  <1>3. PoolOK'
    BY DEF TypeOK, PoolOK, Busy, Alone, InputOK
  <1>4. FirstOK'
    BY DEF TypeOK, FirstOK, PoolOK, Busy
  <1>5. OrderOK'
    <2>1. CASE order = <<>>
      BY <2>1 DEF TypeOK, OrderOK, Taken, Queued
    <2>2. CASE order # <<>>
      <3>1. order' = Tail(order) /\ printing' = order[1] /\ ppc' = "wait"
        BY <2>2
      <3>2. Len(order) \in Nat \ {0} /\ Len(order') = Len(order) - 1
        BY <2>2, <3>1 DEF TypeOK
      <3>3. Queued' = Queued /\ Queued \in Int /\ Taken' = Taken + 1 /\ Taken \in Int
        BY <3>2 DEF Queued, Taken, TypeOK
      <3>4. ASSUME ~perr
            PROVE  /\ Len(order') <= Queued' /\ Taken' >= 1 /\ printing' = Taken' - 1
                   /\ \A i \in 1 .. Len(order') : order'[i] = Taken' + i - 1
        <4>1. Len(order) <= Queued /\ order[1] = Taken
          BY <3>2, <3>3, <3>4 DEF OrderOK
        <4>2. ASSUME NEW i \in 1 .. Len(order') PROVE order'[i] = Taken' + i - 1
          <5>1. i + 1 \in 1 .. Len(order) /\ order'[i] = order[i + 1]
            BY <2>2, <3>1, <3>2 DEF TypeOK
          <5> QED
            BY <3>3, <3>4, <5>1 DEF OrderOK
        <4> QED
          BY <3>1, <3>2, <3>3, <4>1, <4>2 DEF Taken
      <3> QED
        BY <3>1, <3>2, <3>4 DEF OrderOK
    <2> QED
      BY <2>1, <2>2
  <1>6. DestOK'
    <2>1. Completed' = Completed
      <3>1. CASE order = <<>>
        BY <3>1 DEF Completed, Taken, Queued
      <3>2. CASE order # <<>>
        <4>1. Len(order) \in Nat /\ Len(order') = Len(order) - 1 /\ ppc = "next" /\ ppc' = "wait"
          BY <3>2 DEF TypeOK
        <4> QED
          BY <4>1 DEF Completed, Taken, Queued, TypeOK
      <3> QED
        BY <3>1, <3>2
    <2> QED
      BY <2>1 DEF TypeOK, DestOK
  <1>7. EndOK'
    BY DEF TypeOK, EndOK, OrderOK
  <1> QED
    BY <1>1, <1>2, <1>3, <1>4, <1>5, <1>6, <1>7

\* The printer waits for the job.
LEMMA AwaitKeeps == ASSUME IInv, Await PROVE IInv'
  <1> USE DEF IInv, input, cutter, signals, pool, printer, faults, Await
  <1>1. TypeOK'
    BY DEF TypeOK
  <1>2. InputOK'
    BY DEF TypeOK, InputOK
  <1>3. PoolOK'
    BY DEF TypeOK, PoolOK, Busy, Alone, InputOK
  <1>4. FirstOK'
    BY DEF TypeOK, FirstOK, PoolOK, Busy
  <1>5. OrderOK'
    BY DEF TypeOK, OrderOK, InputOK, Taken, Queued
  <1>6. DestOK'
    BY DEF TypeOK, DestOK, OrderOK, FirstOK, InputOK, Completed, Taken, Queued
  <1>7. EndOK'
    BY DEF TypeOK, EndOK, OrderOK
  <1> QED
    BY <1>1, <1>2, <1>3, <1>4, <1>5, <1>6, <1>7

\* The printer writes the job's output.
LEMMA WriteOutKeeps == ASSUME IInv, WriteOut PROVE IInv'
  <1> USE DEF IInv, input, cutter, signals, pool, printer, faults, WriteOut, Kept, Refused
  <1>1. TypeOK'
    <2>0. dest \in Seq(Nat \X Nat) /\ <<printing, 1>> \in Nat \X Nat
      BY DEF TypeOK
    <2>3. dest' = dest \/ dest' = Append(dest, <<printing, 1>>)
      BY Zenon
    <2>1. dest' \in Seq(Nat \X Nat)
      BY <2>0, <2>3, AppendProperties
    <2>2. perr' \in BOOLEAN /\ stop' \in BOOLEAN /\ first' \in BOOLEAN /\ accepted' \in BOOLEAN
      BY Zenon DEF TypeOK
    <2> QED
      BY <2>1, <2>2 DEF TypeOK
  <1>2. InputOK'
    BY DEF TypeOK, InputOK
  <1>3. PoolOK'
    BY DEF TypeOK, PoolOK, Busy, Alone, InputOK
  <1>4. FirstOK'
    <2>1. 0 \in done
      <3>1. CASE first
        BY <3>1 DEF TypeOK, OrderOK, DestOK, Completed
      <3>2. CASE ~first
        BY <3>2 DEF FirstOK
      <3> QED
        BY <3>1, <3>2
    <2> QED
      BY <2>1 DEF FirstOK
  <1>5. OrderOK'
    BY DEF TypeOK, OrderOK, InputOK, Taken, Queued
  <1>6. DestOK'
    <2>1. ~perr /\ printing = Taken - 1 /\ Taken >= 1 /\ Taken \in Int /\ printing \in done
      BY DEF OrderOK, TypeOK, Taken, Queued
    <2>2. Completed = Taken - 1 /\ Taken' = Taken /\ Completed' = Completed + 1
      BY <2>1 DEF Completed, Taken, Queued
    <2>3. CASE perr'
      BY <2>3 DEF DestOK, TypeOK
    <2>4. CASE ~perr' /\ first
      <3>1. Completed = 0 /\ Len(dest) = chunk /\ printing = 0
        BY <2>1, <2>2, <2>4 DEF DestOK
      <3>2. ~failed /\ dest' = dest /\ ~first'
        BY <2>4, <3>1
      <3>3. chunk = Chunks
        BY <2>1, <3>1, <3>2 DEF FirstOK
      <3>4. Completed' = 1 /\ Len(dest') = Chunks + Completed' - 1 /\ chunk' = Chunks
        BY <2>2, <3>1, <3>2, <3>3
      <3>5. /\ Len(dest) <= Chunks + Blocks
            /\ \A k \in 1 .. Len(dest) : dest[k] = IF k <= Chunks THEN <<0, k>> ELSE <<k - Chunks, 1>>
        BY DEF DestOK
      <3>6. Completed' >= 1
        BY <3>4
      <3> HIDE DEF IInv, WriteOut, input, cutter, signals, pool, printer, faults
      <3> QED
        BY <3>2, <3>4, <3>5, <3>6, Zenon DEF DestOK
    <2>5. CASE ~perr' /\ ~first
      <3>1. Completed >= 1 /\ chunk = Chunks /\ Len(dest) = Chunks + Completed - 1
        BY <2>1, <2>5 DEF DestOK
      <3>0. printing # 0
        BY <2>1, <2>2, <3>1
      <3>2. dest' = Append(dest, <<printing, 1>>) /\ ~first'
        BY <2>5, <3>0
      <3>9. dest \in Seq(Nat \X Nat) /\ <<printing, 1>> \in Nat \X Nat
        BY DEF TypeOK
      <3>3. Len(dest') = Len(dest) + 1 /\ Len(dest') = Chunks + Completed' - 1
        BY <2>1, <2>2, <3>1, <3>2 DEF TypeOK
      <3>4. Len(dest') <= Chunks + Blocks
        <4>1. Taken <= cut
          BY <2>1 DEF Taken, Queued, TypeOK
        <4> QED
          BY <2>1, <2>2, <3>1, <3>3, <4>1 DEF InputOK, TypeOK
      <3>5. ASSUME NEW k \in 1 .. Len(dest')
            PROVE  dest'[k] = IF k <= Chunks THEN <<0, k>> ELSE <<k - Chunks, 1>>
        <4>1. CASE k = Len(dest')
          <5>1. dest'[k] = <<printing, 1>>
            BY <3>2, <3>3, <4>1 DEF TypeOK
          <5>2. k > Chunks /\ k - Chunks = printing
            BY <2>1, <2>2, <3>1, <3>3, <4>1
          <5> QED
            BY <5>1, <5>2
        <4>2. CASE k # Len(dest')
          <5>1. k \in 1 .. Len(dest)
            BY <3>3, <3>9, <4>2, LenProperties
          <5>2. dest'[k] = dest[k]
            BY <3>2, <3>9, <5>1, AppendProperties
          <5> QED
            BY <5>1, <5>2 DEF DestOK
        <4> QED
          BY <4>1, <4>2
      <3>6. Completed' >= 1 /\ chunk' = Chunks
        BY <2>1, <2>2, <3>1
      <3> QED
        BY <3>2, <3>3, <3>4, <3>5, <3>6 DEF DestOK
    <2> QED
      BY <2>3, <2>4, <2>5
  <1>7. EndOK'
    BY DEF TypeOK, EndOK, OrderOK
  <1> QED
    BY <1>1, <1>2, <1>3, <1>4, <1>5, <1>6, <1>7

-----------------------------------------------------------------------------
\* With these, every step of the specification keeps the invariant.
LEMMA StepKeeps == IInv /\ [Next]_vars => IInv'
  <1> SUFFICES ASSUME IInv, [Next]_vars PROVE IInv'
    OBVIOUS
  <1>1. CASE Caller \/ Close
    BY <1>1, CallerKeeps
  <1>2. CASE Cutter
    BY <1>2, ReadBlockKeeps, StoppedKeeps, GateKeeps, SpawnKeeps, SendKeeps, QueueKeeps,
       JoinKeeps, CollectKeeps DEF Cutter
  <1>3. CASE Printer
    BY <1>3, TakeOrderKeeps, AwaitKeeps, WriteOutKeeps DEF Printer
  <1>4. ASSUME NEW w \in W, Worker(w) PROVE IInv'
    BY <1>4, LookKeeps, WorkKeeps, FinishKeeps, GoKeeps DEF Worker
  <1>5. CASE UNCHANGED vars
    <2> USE <1>5 DEF vars, input, cutter, signals, pool, printer, faults
    <2>1. TypeOK' /\ InputOK' /\ EndOK'
      BY DEF IInv, TypeOK, InputOK, EndOK
    <2>2. PoolOK' /\ FirstOK'
      BY DEF IInv, PoolOK, FirstOK, Busy, Alone
    <2>3. OrderOK' /\ DestOK'
      BY DEF IInv, OrderOK, DestOK, Completed, Taken, Queued
    <2> QED
      BY <2>1, <2>2, <2>3 DEF IInv
  <1> QED
    BY <1>1, <1>2, <1>3, <1>4, <1>5 DEF Next

\* The inductive invariant holds throughout: jobs are cut, queued and printed
\* in step, whatever the workers and errors do.
THEOREM Invariance == Spec => []IInv
  BY InitHolds, StepKeeps, PTL DEF Spec

-----------------------------------------------------------------------------
\* The output of n jobs, as one function.
LEMMA OutputFacts ==
  ASSUME NEW n \in Nat \ {0}
  PROVE  /\ OutputOf(n) \in Seq(Nat \X Nat)
         /\ Len(OutputOf(n)) = Chunks + n - 1
         /\ \A k \in 1 .. Chunks + n - 1 :
              OutputOf(n)[k] = IF k <= Chunks THEN <<0, k>> ELSE <<k - Chunks, 1>>
  <1> DEFINE s == [k \in 1 .. Chunks |-> <<0, k>>]
             t == [k \in 1 .. n - 1 |-> <<k, 1>>]
  <1>1. s \in Seq(Nat \X Nat) /\ Len(s) = Chunks
    OBVIOUS
  <1>2. t \in Seq(Nat \X Nat) /\ Len(t) = n - 1
    OBVIOUS
  <1>3. OutputOf(n) = s \o t
    BY DEF OutputOf
  <1> QED
    BY <1>1, <1>2, <1>3, ConcatProperties

\* What is known of the destination puts it into its place in that output.
LEMMA PrefixOfOutput ==
  ASSUME IInv, NEW n \in Nat \ {0}, Len(dest) <= Chunks + n - 1
  PROVE  IsPrefix(dest, OutputOf(n))
  <1>1. dest \in Seq(Nat \X Nat)
    BY DEF IInv, TypeOK
  <1>2. \A k \in 1 .. Len(dest) : dest[k] = OutputOf(n)[k]
    <2> TAKE k \in 1 .. Len(dest)
    <2>1. k \in 1 .. Chunks + n - 1
      BY <1>1, LenProperties
    <2>2. OutputOf(n)[k] = IF k <= Chunks THEN <<0, k>> ELSE <<k - Chunks, 1>>
      BY <2>1, OutputFacts
    <2> QED
      BY <2>2 DEF IInv, DestOK
  <1>3. SubSeq(dest, 1, Len(dest)) = SubSeq(OutputOf(n), 1, Len(dest))
    <2> DEFINE m == Len(dest)
    <2>0. m \in Nat /\ OutputOf(n) \in Seq(Nat \X Nat) /\ Len(OutputOf(n)) = Chunks + n - 1
      BY <1>1, OutputFacts, LenProperties
    <2>1. m <= Len(OutputOf(n))
      BY <2>0
    <2>2. /\ SubSeq(dest, 1, m) \in Seq(Nat \X Nat) /\ Len(SubSeq(dest, 1, m)) = m
          /\ \A k \in 1 .. m : SubSeq(dest, 1, m)[k] = dest[k]
      BY <1>1
    <2>3. /\ SubSeq(OutputOf(n), 1, m) \in Seq(Nat \X Nat) /\ Len(SubSeq(OutputOf(n), 1, m)) = m
          /\ \A k \in 1 .. m : SubSeq(OutputOf(n), 1, m)[k] = OutputOf(n)[k]
      <3> DEFINE w == OutputOf(n)
      <3>1. w \in Seq(Nat \X Nat) /\ m \in Nat /\ m <= Len(w)
        BY <2>0, <2>1
      <3> HIDE DEF w, m
      <3>2. /\ SubSeq(w, 1, m) \in Seq(Nat \X Nat) /\ Len(SubSeq(w, 1, m)) = m
            /\ \A k \in 1 .. m : SubSeq(w, 1, m)[k] = w[k]
        BY <3>1
      <3> QED BY <3>2 DEF w
    <2> HIDE DEF m
    <2>4. \A k \in 1 .. m : SubSeq(dest, 1, m)[k] = SubSeq(OutputOf(n), 1, m)[k]
      BY <1>2, <2>2, <2>3 DEF m
    <2>5. SubSeq(dest, 1, m) = SubSeq(OutputOf(n), 1, m)
      BY <2>2, <2>3, <2>4, SeqEqual
    <2> QED
      BY <2>5 DEF m
  <1> QED
    BY <1>3, OutputFacts DEF IsPrefix

\* What the parallel path writes is at any time the beginning of the jobs'
\* output in order, each once, for any amount of input and any workers.
THEOREM DestInJobOrder == Spec => []InJobOrder
  <1>1. IInv => InJobOrder
    BY PrefixOfOutput DEF IInv, DestOK, InJobOrder
  <1> QED
    BY <1>1, Invariance, PTL

\* Close returns nil only if everything written to the engine is at the
\* destination, and the destination's error exactly if it refused a write.
THEOREM HonestClose == Spec => []CloseIsHonest
  <1>1. ASSUME IInv PROVE CloseIsHonest
    <2> SUFFICES ASSUME caller = "closed"
                 PROVE  /\ ret = "nil" => dest = OutputOf(IF fed = 0 THEN 1 ELSE fed)
                        /\ ret = "write" <=> perr
                        /\ ret # "errStopped"
      BY DEF CloseIsHonest
    <2>1. pc = "done" /\ ppc = "gone" /\ ret = err /\ order = <<>>
      BY <1>1 DEF IInv, EndOK
    <2>2. (ret = "write" <=> perr) /\ ret # "errStopped"
      BY <1>1, <2>1 DEF IInv, EndOK
    <2>3. ASSUME ret = "nil" PROVE dest = OutputOf(IF fed = 0 THEN 1 ELSE fed)
      <3>1. ~perr
        BY <2>2, <2>3
      <3>2. cut \in Nat \ {0} /\ cut = IF fed = 0 THEN 1 ELSE fed
        BY <1>1, <2>1, <2>3 DEF IInv, InputOK, TypeOK
      <3>3. Completed = cut
        BY <2>1, <3>2 DEF Completed, Taken, Queued
      <3>4. Len(dest) = Chunks + cut - 1 /\ dest \in Seq(Nat \X Nat)
        BY <1>1, <3>1, <3>2, <3>3 DEF IInv, DestOK, TypeOK
      <3>5. \A k \in 1 .. Len(dest) : dest[k] = OutputOf(cut)[k]
        BY <1>1, <3>2, <3>4, OutputFacts DEF IInv, DestOK
      <3>6. dest = OutputOf(cut)
        BY <3>2, <3>4, <3>5, OutputFacts, SeqEqual
      <3> QED
        BY <3>2, <3>6
    <2> QED
      BY <2>2, <2>3
  <1> QED
    BY <1>1, Invariance, PTL

\* Nothing but the first job is compressed before its output was accepted,
\* and never more than the queue, the printer and one job are in flight.
THEOREM RunsAheadBounded == Spec => []BoundedAhead
  <1>1. ASSUME IInv PROVE BoundedAhead
    <2>1. ASSUME ~accepted
          PROVE  /\ \A w \in W : wstate[w] = "work" => job[w] = 0
                 /\ \A w \in W \ {1} : wstate[w] = "absent"
                 /\ have <= 3
      BY <1>1, <2>1 DEF IInv, PoolOK, Alone, Busy, InputOK, TypeOK
    <2>2. ASSUME ~stop
          PROVE  cut - (IF first THEN 0 ELSE dest[Len(dest)][1] + 1) <= 2 * Workers + 2
      <3>1. ~perr /\ Len(order) <= 2 * Workers /\ Len(order) \in Nat /\ cut \in Nat
        BY <1>1, <2>2 DEF IInv, OrderOK, TypeOK
      <3>2. cut - Completed <= 2 * Workers + 2 /\ Completed \in Int
        <4>1. Queued \in Int /\ cut - Queued <= 1
          BY <3>1 DEF Queued
        <4>2. Taken \in Int /\ cut - Taken <= 1 + Len(order)
          BY <3>1, <4>1 DEF Taken
        <4>3. Completed \in Int /\ Taken - Completed <= 1
          BY <4>2 DEF Completed
        <4> QED
          BY <3>1, <4>2, <4>3
      <3>3. CASE first
        BY <1>1, <3>1, <3>2, <3>3 DEF IInv, DestOK
      <3>4. CASE ~first
        <4>1. Completed >= 1 /\ Len(dest) = Chunks + Completed - 1
          BY <1>1, <3>1, <3>4 DEF IInv, DestOK
        <4>2. dest[Len(dest)] = IF Len(dest) <= Chunks THEN <<0, Len(dest)>>
                                ELSE <<Len(dest) - Chunks, 1>>
          BY <1>1, <3>2, <4>1 DEF IInv, DestOK
        <4>3. dest[Len(dest)][1] = Completed - 1
          BY <3>2, <4>1, <4>2
        <4> QED
          BY <3>2, <3>4, <4>3
      <3> QED
        BY <3>3, <3>4
    <2> QED
      BY <2>1, <2>2 DEF BoundedAhead
  <1> QED
    BY <1>1, Invariance, PTL

-----------------------------------------------------------------------------
(* Where cutJobs ends a job.                                               *)

HIDE PigzAssumption

\* Induction over the members of a set.
LEMMA SetInduction ==
    ASSUME NEW S, 0 \in S, \A n \in Nat : n \in S => n + 1 \in S
    PROVE  Nat \subseteq S
  <1> DEFINE R == OpToRel(<, Nat)
             T == Nat \ S
  <1>1. IsWellFoundedOn(R, Nat)
    BY NatLessThanWellFounded
  <1>2. SUFFICES ASSUME T # {} PROVE FALSE
    OBVIOUS
  <1>3. T \subseteq Nat
    OBVIOUS
  <1> HIDE DEF R
  <1>4. PICK x \in T : \A y \in T : ~(<<y, x>> \in R)
    BY <1>1, <1>2, <1>3, WFMin
  <1>5. x \in Nat /\ x \notin S /\ x # 0
    BY <1>4
  <1>6. x - 1 \in Nat /\ x - 1 \in S
    <2>1. x - 1 \in Nat /\ <<x - 1, x>> \in R
      BY <1>5 DEF R, OpToRel
    <2> QED BY <1>4, <2>1
  <1> QED BY <1>5, <1>6

\* One byte of the loop over a space.
Scanned(space, from, f, k) ==
    IF k <= from THEN <<>>
    ELSE IF space[k] \in cfg.hits THEN Append(f[k-1], k) ELSE f[k-1]

ScanOf(f, space, from, n) == f = [k \in 0 .. n |-> Scanned(space, from, f, k)]

LEMMA ScanExists ==
    ASSUME NEW space, NEW from \in Nat, NEW n \in Nat
    PROVE  \E f : ScanOf(f, space, from, n)
  <1> DEFINE S == {i \in Nat : \E f : f = [k \in 0 .. i |-> Scanned(space, from, f, k)]}
  <1>1. 0 \in S
    <2> DEFINE f == [k \in 0 .. 0 |-> <<>>]
    <2>1. f = [k \in 0 .. 0 |-> Scanned(space, from, f, k)]
      BY DEF Scanned
    <2> QED BY <2>1
  <1>2. \A i \in Nat : i \in S => i + 1 \in S
    <2> SUFFICES ASSUME NEW i \in Nat, i \in S PROVE i + 1 \in S
      OBVIOUS
    <2>1. PICK f : f = [k \in 0 .. i |-> Scanned(space, from, f, k)]
      OBVIOUS
    <2> DEFINE g == [k \in 0 .. i + 1 |-> IF k = i + 1 THEN Scanned(space, from, f, i + 1) ELSE f[k]]
    <2>2. \A k \in 0 .. i + 1 : g[k] = Scanned(space, from, g, k)
      <3> SUFFICES ASSUME NEW k \in 0 .. i + 1 PROVE g[k] = Scanned(space, from, g, k)
        OBVIOUS
      <3>1. k > from => k - 1 \in 0 .. i /\ g[k - 1] = f[k - 1]
        OBVIOUS
      <3>2. Scanned(space, from, g, k) = Scanned(space, from, f, k)
        BY <3>1 DEF Scanned
      <3>3. k # i + 1 => f[k] = Scanned(space, from, f, k)
        <4>1. \A q \in 0 .. i : f[q] = Scanned(space, from, f, q)
          BY <2>1, Zenon
        <4>2. k # i + 1 => k \in 0 .. i
          OBVIOUS
        <4> QED BY <4>1, <4>2
      <3> QED BY <3>2, <3>3
    <2>3. g = [k \in 0 .. i + 1 |-> Scanned(space, from, g, k)]
      BY <2>2
    <2> HIDE DEF g
    <2> QED BY <2>3
  <1> HIDE DEF S
  <1>3. n \in S
    BY <1>1, <1>2, SetInduction
  <1>4. PICK f : f = [k \in 0 .. n |-> Scanned(space, from, f, k)]
    BY <1>3 DEF S
  <1> QED BY <1>4 DEF ScanOf

LEMMA LastOfAppend ==
    ASSUME NEW s \in Seq(Nat), NEW n \in Nat
    PROVE  Append(s, n) \in Seq(Nat) /\ Append(s, n) # <<>> /\ Last(Append(s, n)) = n
  BY DEF Last

\* Hits are found behind from and not beyond to.
LEMMA HitsAre ==
    ASSUME NEW space, NEW from \in Nat, NEW to \in Nat, from <= to
    PROVE  /\ HitsIn(space, from, to) \in Seq(Nat)
           /\ HitsIn(space, from, to) # <<>> => Last(HitsIn(space, from, to)) \in from + 1 .. to
  <1> DEFINE f == CHOOSE g : g = [k \in 0 .. to |-> Scanned(space, from, g, k)]
  <1>1. HitsIn(space, from, to) = f[to]
    BY DEF HitsIn, Scanned
  <1>2. f = [k \in 0 .. to |-> Scanned(space, from, f, k)]
    <2>1. PICK g : ScanOf(g, space, from, to)
      BY ScanExists
    <2>2. \E q : q = [k \in 0 .. to |-> Scanned(space, from, q, k)]
      BY <2>1, Zenon DEF ScanOf
    <2> QED BY <2>2, Zenon
  <1> HIDE DEF f
  <1> DEFINE Good(k) == f[k] \in Seq(Nat) /\ (f[k] # <<>> => Last(f[k]) \in from + 1 .. k)
             S == {k \in Nat : k <= to => Good(k)}
  <1>3. \A k \in 0 .. to : f[k] = Scanned(space, from, f, k)
    BY <1>2
  <1>4. 0 \in S
    <2>1. f[0] = <<>>
      BY <1>3 DEF Scanned
    <2>2. Good(0)
      BY <2>1
    <2> HIDE DEF Good
    <2> QED BY <2>2
  <1>5. \A k \in Nat : k \in S => k + 1 \in S
    <2> HIDE DEF Good
    <2> SUFFICES ASSUME NEW k \in Nat, k <= to => Good(k), k + 1 <= to PROVE Good(k + 1)
      OBVIOUS
    <2>1. f[k + 1] = Scanned(space, from, f, k + 1) /\ Good(k) /\ k + 1 \in Nat
      BY <1>3
    <2> USE DEF Good
    <2>2. CASE k + 1 <= from
      <3>1. f[k + 1] = <<>>
        BY <2>1, <2>2 DEF Scanned
      <3> QED BY <3>1
    <2>3. CASE ~(k + 1 <= from) /\ space[k + 1] \in cfg.hits
      <3>1. f[k + 1] = Append(f[k], k + 1)
        BY <2>1, <2>3 DEF Scanned
      <3>2. f[k + 1] \in Seq(Nat) /\ Last(f[k + 1]) = k + 1
        <4>1. f[k] \in Seq(Nat) /\ k + 1 \in Nat
          BY <2>1
        <4> HIDE DEF Good
        <4> QED BY <3>1, <4>1, LastOfAppend
      <3> QED BY <2>3, <3>2
    <2>4. CASE ~(k + 1 <= from) /\ space[k + 1] \notin cfg.hits
      <3>1. f[k + 1] = f[k]
        BY <2>1, <2>4 DEF Scanned
      <3> QED BY <2>1, <3>1
    <2> QED BY <2>2, <2>3, <2>4
  <1> HIDE DEF S
  <1>6. to \in S
    BY <1>4, <1>5, SetInduction
  <1> QED BY <1>1, <1>6 DEF S

-----------------------------------------------------------------------------
(* Stretches of the input.                                                 *)

\* s is the n bytes from f on.
Runs(s, f, n) == f \in Nat /\ n \in Nat /\ s = Bytes(f, n)

LEMMA RunIs ==
    ASSUME NEW s, NEW f, NEW n, Runs(s, f, n)
    PROVE  /\ s \in Seq(Nat) /\ Len(s) = n /\ (s = <<>> <=> n = 0)
           /\ \A k \in 1 .. n : s[k] = f + k - 1
  <1>1. f \in Nat /\ n \in Nat /\ s = [k \in 1 .. n |-> f + k - 1]
    BY DEF Runs, Bytes
  <1>2. s \in Seq(Nat) /\ Len(s) = n /\ \A k \in 1 .. n : s[k] = f + k - 1
    <2>1. \A k \in 1 .. n : f + k - 1 \in Nat
      BY <1>1
    <2> QED BY <1>1, <2>1
  <1> QED BY <1>2, EmptySeq

LEMMA RunLen == \A s, f, n : Runs(s, f, n) => Len(s) = n /\ (s = <<>> <=> n = 0) /\ s \in Seq(Nat)
  BY RunIs

LEMMA IsRun ==
    ASSUME NEW s \in Seq(Nat), NEW f \in Nat, \A k \in 1 .. Len(s) : s[k] = f + k - 1
    PROVE  Runs(s, f, Len(s))
  <1>1. Len(s) \in Nat /\ s = [k \in 1 .. Len(s) |-> s[k]]
    OBVIOUS
  <1>2. s = [k \in 1 .. Len(s) |-> f + k - 1]
    BY <1>1
  <1> QED BY <1>1, <1>2 DEF Runs, Bytes

\* Stretches that meet are one, and a part of one is one.
LEMMA JoinRuns ==
    ASSUME NEW s, NEW t, NEW f, NEW n, NEW m, NEW g, Runs(s, f, n), Runs(t, g, m), g = f + n
    PROVE  Runs(s \o t, f, n + m)
  <1>1. f \in Nat /\ n \in Nat /\ m \in Nat /\ s \in Seq(Nat) /\ t \in Seq(Nat) /\ Len(s) = n /\ Len(t) = m
        /\ (\A k \in 1 .. n : s[k] = f + k - 1) /\ (\A k \in 1 .. m : t[k] = g + k - 1)
    <2>1. f \in Nat /\ n \in Nat /\ m \in Nat
      BY DEF Runs
    <2> QED BY <2>1, RunIs
  <1> DEFINE u == s \o t
  <1>2. /\ u \in Seq(Nat) /\ Len(u) = n + m
        /\ \A k \in 1 .. n + m : u[k] = IF k <= n THEN s[k] ELSE t[k - n]
    <2>1. s \in Seq(Nat) /\ t \in Seq(Nat)
      BY <1>1
    <2>2. /\ u \in Seq(Nat) /\ Len(u) = Len(s) + Len(t)
          /\ \A k \in 1 .. Len(s) + Len(t) : u[k] = IF k <= Len(s) THEN s[k] ELSE t[k - Len(s)]
      BY <2>1, ConcatProperties, Zenon
    <2> HIDE DEF u
    <2> QED BY <1>1, <2>2
  <1> HIDE DEF u
  <1>3. \A k \in 1 .. Len(u) : u[k] = f + k - 1
    <2> SUFFICES ASSUME NEW k \in 1 .. n + m PROVE u[k] = f + k - 1
      BY <1>2
    <2>1. CASE k <= n
      BY <1>1, <1>2, <2>1
    <2>2. CASE ~(k <= n)
      <3>1. k - n \in 1 .. m
        BY <1>1, <2>2
      <3>2. t[k - n] = g + (k - n) - 1
        BY <1>1, <3>1
      <3> QED BY <1>1, <1>2, <2>2, <3>2
    <2> QED BY <2>1, <2>2
  <1>4. Runs(u, f, n + m)
    BY <1>1, <1>2, <1>3, IsRun
  <1> QED BY <1>4 DEF u

LEMMA PartOfRun ==
    ASSUME NEW s, NEW f, NEW n, Runs(s, f, n), NEW a \in Nat, NEW b \in Nat, 1 <= a, a <= b + 1, b <= n
    PROVE  Runs(SubSeq(s, a, b), f + a - 1, b - a + 1)
  <1>1. f \in Nat /\ n \in Nat /\ s \in Seq(Nat) /\ Len(s) = n /\ (\A k \in 1 .. n : s[k] = f + k - 1)
    <2>1. f \in Nat /\ n \in Nat
      BY DEF Runs
    <2>2. s \in Seq(Nat) /\ Len(s) = n /\ (\A k \in 1 .. n : s[k] = f + k - 1)
      BY RunIs, Zenon
    <2> QED BY <2>1, <2>2
  <1> DEFINE u == SubSeq(s, a, b)
  <1>2. /\ u \in Seq(Nat) /\ Len(u) = b - a + 1
        /\ \A k \in 1 .. b - a + 1 : u[k] = s[a + k - 1]
    BY <1>1, SubSeqProperties
  <1> HIDE DEF u
  <1>3. \A k \in 1 .. Len(u) : u[k] = (f + a - 1) + k - 1
    <2> SUFFICES ASSUME NEW k \in 1 .. b - a + 1 PROVE u[k] = (f + a - 1) + k - 1
      BY <1>2
    <2>1. a + k - 1 \in 1 .. n
      BY <1>1
    <2> QED BY <1>1, <1>2, <2>1
  <1>4. f + a - 1 \in Nat
    BY <1>1
  <1>5. Runs(u, f + a - 1, Len(u))
    BY <1>2, <1>3, <1>4, IsRun
  <1> QED BY <1>2, <1>5 DEF u

\* The hash goes on with the bytes of a space behind the k it has been over.
LEMMA HashOn ==
    ASSUME NEW s, NEW h, Runs(s, 1, h), NEW t, NEW f, NEW n, Runs(t, f, n),
           NEW k \in Nat, NEW e \in Nat, k <= e, e <= n, f + k = h + 1
    PROVE  Runs(s \o SubSeq(t, k + 1, e), 1, h + e - k)
  <1> DEFINE a == k + 1
             u == SubSeq(t, a, e)
  <1>1. a \in Nat /\ 1 <= a /\ a <= e + 1 /\ h \in Nat /\ f \in Nat
    BY DEF Runs
  <1>2. f + a - 1 = 1 + h /\ e - a + 1 = e - k /\ h + (e - k) = h + e - k
    BY <1>1
  <1> HIDE DEF a
  <1>3. Runs(u, f + a - 1, e - a + 1)
    BY <1>1, PartOfRun
  <1>4. Runs(u, 1 + h, e - k)
    BY <1>2, <1>3
  <1> HIDE DEF u
  <1>5. Runs(s \o u, 1, h + (e - k))
    BY <1>4, JoinRuns
  <1> QED BY <1>2, <1>5 DEF u, a

LEMMA MinIs == \A a, b \in Int : Min({a, b}) = IF a <= b THEN a ELSE b
  <1> SUFFICES ASSUME NEW a \in Int, NEW b \in Int PROVE Min({a, b}) = IF a <= b THEN a ELSE b
    OBVIOUS
  <1> DEFINE m == IF a <= b THEN a ELSE b
  <1>1. m \in {a, b} /\ \A y \in {a, b} : m <= y
    OBVIOUS
  <1>2. \A x \in {a, b} : (\A y \in {a, b} : x <= y) => x = m
    OBVIOUS
  <1> HIDE DEF m
  <1>3. Min({a, b}) = m
    BY <1>1, <1>2 DEF Min
  <1> QED BY <1>3 DEF m

LEMMA MaxIs == \A a, b \in Int : Max({a, b}) = IF a >= b THEN a ELSE b
  <1> SUFFICES ASSUME NEW a \in Int, NEW b \in Int PROVE Max({a, b}) = IF a >= b THEN a ELSE b
    OBVIOUS
  <1> DEFINE m == IF a >= b THEN a ELSE b
  <1>1. m \in {a, b} /\ \A y \in {a, b} : m >= y
    OBVIOUS
  <1>2. \A x \in {a, b} : (\A y \in {a, b} : x >= y) => x = m
    OBVIOUS
  <1> HIDE DEF m
  <1>3. Max({a, b}) = m
    BY <1>1, <1>2 DEF Max
  <1> QED BY <1>3 DEF m

LEMMA GapsAre ==
    ASSUME NEW ends \in Seq(Nat), NEW last \in Int
    PROVE  Gaps(ends, last) \in Seq(Int) /\ (Gaps(ends, last) = <<>> <=> ends = <<>>)
  <1> DEFINE Gap(k) == ends[k] - (IF k = 1 THEN last ELSE ends[k-1])
  <1>1. \A k \in 1 .. Len(ends) : Gap(k) \in Int
    <2> SUFFICES ASSUME NEW k \in 1 .. Len(ends) PROVE Gap(k) \in Int
      OBVIOUS
    <2>1. ends[k] \in Nat /\ (k # 1 => ends[k-1] \in Nat)
      OBVIOUS
    <2> QED BY <2>1
  <1> HIDE DEF Gap
  <1>2. Gaps(ends, last) = [k \in 1 .. Len(ends) |-> Gap(k)]
    BY DEF Gaps, Gap
  <1>3. Gaps(ends, last) \in Seq(Int) /\ Len(Gaps(ends, last)) = Len(ends)
    BY <1>1, <1>2
  <1> QED BY <1>3, EmptySeq

-----------------------------------------------------------------------------
(* A round of cutJobs, its buffers behind the byte p where the job before  *)
(* ended.                                                                  *)

Rounds == [curr : Seq(Nat), next : Seq(Nat), hold : Seq(Nat), scan : Nat, left : Nat, last : Nat,
           lens : Seq(Int), hashed : Seq(Nat)]

Laid(s, p) ==
    /\ s \in Rounds
    /\ Runs(s.curr, p + 1, Len(s.curr)) /\ Len(s.curr) \in 1 .. Block
    /\ Runs(s.next, p + Len(s.curr) + 1, Len(s.next)) /\ Len(s.next) <= Block
    /\ Runs(s.hashed, 1, Len(s.hashed))

\* The hash is in next.
Ahead(s, p) ==
    /\ s.scan <= Len(s.next) /\ s.scan + Len(s.curr) <= Block
    /\ Len(s.hashed) = p + Len(s.curr) + s.scan

\* left is from the last hit in curr to its end.
LeftIs(s) == /\ s.lens = <<>> => s.left = Len(s.curr)
             /\ s.lens # <<>> => s.left < Len(s.curr)

Entered(s, p) ==
    /\ Laid(s, p) /\ s.hold = <<>> /\ s.lens = <<>> /\ s.last = 0
    /\ \/ s.left = 0 /\ s.scan <= Len(s.curr) /\ Len(s.hashed) = p + s.scan
       \/ s.left = Len(s.curr) /\ Ahead(s, p)

\* Behind ScanCurr, and behind ScanNext.
CurrScanned(s, p) == Laid(s, p) /\ s.hold = <<>> /\ s.last = 0 /\ Ahead(s, p) /\ LeftIs(s)
BothScanned(s, p) ==
    /\ Laid(s, p) /\ s.hold = <<>> /\ Ahead(s, p) /\ s.last <= s.scan
    /\ s.last = 0 => LeftIs(s)
    /\ s.last > 0 => s.lens # <<>> /\ s.left = 0

\* curr and next are all that is read up to r.
ReadUpTo(s, p, r) == p + Len(s.curr) + Len(s.next) = r /\ (Len(s.next) = Block \/ r = Size)

\* ScanCurr hashes what is left of curr.
LEMMA ScanCurrIs ==
    ASSUME NEW s, NEW p \in Nat, Entered(s, p)
    PROVE  LET t == ScanCurr(s)
           IN  CurrScanned(t, p) /\ t.curr = s.curr /\ t.next = s.next
  <1> DEFINE t == ScanCurr(s)
             c == Len(s.curr)
             hits == HitsIn(s.curr, s.scan, c)
             left == c - (IF hits = <<>> THEN 0 ELSE Last(hits))
             hashed == s.hashed \o SubSeq(s.curr, s.scan + 1, c)
  <1>1. CASE s.left # 0
    <2>1. t = s
      BY <1>1 DEF ScanCurr
    <2> QED BY <1>1, <2>1 DEF Entered, LeftIs, CurrScanned
  <1>2. CASE s.left = 0
    <2>1. /\ s \in Rounds /\ s.curr \in Seq(Nat) /\ s.scan \in Nat /\ s.hashed \in Seq(Nat)
          /\ c \in 1 .. Block /\ s.scan <= c /\ Len(s.hashed) = p + s.scan
          /\ Runs(s.curr, p + 1, c) /\ Runs(s.hashed, 1, p + s.scan)
          /\ Len(s.next) \in Nat /\ s.next \in Seq(Nat)
      BY <1>2 DEF Entered, Laid, Rounds, Ahead
    <2>2. c \in Nat /\ c > 0 /\ s.scan \in Nat /\ s.scan <= c
      BY <2>1
    <2> HIDE DEF c
    <2>3. hits \in Seq(Nat) /\ (hits # <<>> => Last(hits) \in s.scan + 1 .. c)
      BY <2>2, HitsAre
    <2> HIDE DEF hits
    <2>4. left \in Nat /\ left <= c /\ (hits = <<>> => left = c) /\ (hits # <<>> => left < c)
      <3>1. hits # <<>> => Last(hits) \in Nat /\ 0 < Last(hits) /\ Last(hits) <= c
        BY <2>2, <2>3
      <3> QED BY <2>2, <3>1
    <2>5. Runs(hashed, 1, p + c)
      <3>1. Runs(hashed, 1, (p + s.scan) + c - s.scan)
        <4>1. c <= c /\ (p + 1) + s.scan = (p + s.scan) + 1
          BY <2>2
        <4> QED BY <2>1, <2>2, <4>1, HashOn
      <3>2. (p + s.scan) + c - s.scan = p + c
        BY <2>2
      <3> QED BY <3>1, <3>2
    <2>6. hashed \in Seq(Nat) /\ Len(hashed) = p + c
      BY <2>5, RunIs
    <2>61. Gaps(hits, 0) \in Seq(Int) /\ (Gaps(hits, 0) = <<>> <=> hits = <<>>)
      <3>1. 0 \in Int
        OBVIOUS
      <3> QED BY <2>3, <3>1, GapsAre, Zenon
    <2>7. t = [s EXCEPT !.lens = Gaps(hits, 0), !.scan = 0, !.left = left, !.hashed = hashed]
      BY <1>2 DEF ScanCurr, hits, c
    <2> HIDE DEF t, left, hashed
    <2>8. t \in Rounds /\ t.curr = s.curr /\ t.next = s.next /\ t.hold = s.hold /\ t.last = s.last
          /\ t.lens = Gaps(hits, 0) /\ t.scan = 0 /\ t.left = left /\ t.hashed = hashed
      BY <2>1, <2>4, <2>6, <2>61, <2>7 DEF Rounds
    <2>9. Laid(t, p) /\ t.hold = <<>> /\ t.last = 0
      BY <2>5, <2>6, <2>8 DEF Entered, Laid
    <2>10. Ahead(t, p)
      <3>1. 0 <= Len(s.next) /\ 0 + c <= Block /\ p + c = p + c + 0
        <4>1. Len(s.next) \in Nat /\ c \in Nat /\ c <= Block
          BY <2>1, <2>2 DEF c
        <4> QED BY <4>1
      <3>2. Len(t.curr) = c /\ t.next = s.next /\ t.scan = 0 /\ Len(t.hashed) = p + c
        BY <2>6, <2>8 DEF c
      <3> HIDE DEF c
      <3> QED BY <3>1, <3>2, Zenon DEF Ahead
    <2>11. LeftIs(t)
      BY <2>4, <2>61, <2>8 DEF LeftIs, c
    <2> QED BY <2>8, <2>9, <2>10, <2>11 DEF t, CurrScanned
  <1> QED BY <1>1, <1>2

LEMMA LaidIs ==
    ASSUME NEW s, NEW p, Laid(s, p)
    PROVE  /\ s \in Rounds /\ Block \in Nat
           /\ s.scan \in Nat /\ s.left \in Nat /\ s.last \in Nat /\ s.lens \in Seq(Int)
           /\ Len(s.curr) \in Nat /\ Len(s.curr) > 0 /\ Len(s.curr) <= Block
           /\ Len(s.next) \in Nat /\ Len(s.next) <= Block
  <1>1. Block \in Nat
    BY CutAssumption
  <1>2. s \in Rounds /\ Len(s.curr) \in 1 .. Block /\ Len(s.next) <= Block
    BY DEF Laid
  <1>3. /\ s.scan \in Nat /\ s.left \in Nat /\ s.last \in Nat /\ s.lens \in Seq(Int)
        /\ s.next \in Seq(Nat)
    BY <1>2 DEF Rounds
  <1> QED BY <1>1, <1>2, <1>3

\* ScanNext hashes on in next, never past what fills a block.
LEMMA ScanNextIs ==
    ASSUME NEW s, NEW p \in Nat, CurrScanned(s, p)
    PROVE  LET t == ScanNext(s)
           IN  BothScanned(t, p) /\ t.curr = s.curr /\ t.next = s.next
  <1> DEFINE t == ScanNext(s)
             c == Len(s.curr)
             n == Len(s.next)
             end == Max({s.scan, Min({Block - c, n})})
             hits == HitsIn(s.next, s.scan, end)
             left == IF hits = <<>> THEN s.left ELSE 0
             last == IF hits = <<>> THEN 0 ELSE Last(hits)
             lens == s.lens \o Gaps(hits, -s.left)
             hashed == s.hashed \o SubSeq(s.next, s.scan + 1, end)
  <1>0. Laid(s, p) /\ s.hold = <<>> /\ s.last = 0 /\ Ahead(s, p) /\ LeftIs(s)
    BY DEF CurrScanned
  <1>1. /\ s \in Rounds /\ s.scan \in Nat /\ s.left \in Nat /\ s.lens \in Seq(Int)
        /\ c \in Nat /\ c > 0 /\ n \in Nat /\ Block \in Nat /\ c <= Block /\ s.scan <= n /\ s.scan + c <= Block
        /\ Runs(s.next, p + c + 1, n) /\ Runs(s.hashed, 1, p + c + s.scan)
    <2>1. /\ s \in Rounds /\ s.scan \in Nat /\ s.left \in Nat /\ s.lens \in Seq(Int)
          /\ c \in Nat /\ c > 0 /\ n \in Nat /\ Block \in Nat /\ c <= Block
      BY <1>0, LaidIs
    <2>2. s.scan <= n /\ s.scan + c <= Block /\ Len(s.hashed) = p + c + s.scan
      BY <1>0 DEF Ahead
    <2>3. Runs(s.next, p + c + 1, n) /\ Runs(s.hashed, 1, Len(s.hashed))
      BY <1>0 DEF Laid
    <2> QED BY <2>1, <2>2, <2>3
  <1> HIDE DEF c, n
  <1>2. end \in Nat /\ s.scan <= end /\ end <= n /\ end + c <= Block
    <2>1. Block - c \in Int /\ n \in Int /\ s.scan \in Int /\ Min({Block - c, n}) \in Int
      <3>1. Block - c \in Int /\ n \in Int /\ s.scan \in Int
        BY <1>1
      <3>2. Min({Block - c, n}) = IF Block - c <= n THEN Block - c ELSE n
        BY <3>1, MinIs
      <3> QED BY <3>1, <3>2
    <2>2. Min({Block - c, n}) = IF Block - c <= n THEN Block - c ELSE n
      BY <2>1, MinIs
    <2>3. end = IF s.scan >= Min({Block - c, n}) THEN s.scan ELSE Min({Block - c, n})
      BY <2>1, MaxIs
    <2> HIDE DEF end
    <2> QED BY <1>1, <2>2, <2>3
  <1> HIDE DEF end
  <1>3. hits \in Seq(Nat) /\ (hits # <<>> => Last(hits) \in s.scan + 1 .. end)
    BY <1>1, <1>2, HitsAre
  <1>4. Gaps(hits, -s.left) \in Seq(Int) /\ (Gaps(hits, -s.left) = <<>> <=> hits = <<>>)
    <2>1. -s.left \in Int
      BY <1>1
    <2> HIDE DEF hits
    <2> QED BY <1>3, <2>1, GapsAre
  <1> HIDE DEF hits
  <1>5. lens \in Seq(Int) /\ (lens = <<>> <=> s.lens = <<>> /\ hits = <<>>)
    <2> DEFINE g == Gaps(hits, -s.left)
    <2> HIDE DEF g
    <2>1. g \in Seq(Int) /\ (g = <<>> <=> hits = <<>>)
      BY <1>4 DEF g
    <2>2. s.lens \o g \in Seq(Int) /\ (s.lens \o g = <<>> <=> s.lens = <<>> /\ g = <<>>)
      BY <1>1, <2>1, ConcatProperties, EmptySeq
    <2> QED BY <2>1, <2>2 DEF g
  <1>6. last \in Nat /\ last <= end /\ (last = 0 <=> hits = <<>>)
    <2>0. s.scan \in Nat /\ end \in Nat
      BY <1>1, <1>2
    <2>1. hits # <<>> => Last(hits) \in Nat /\ 0 < Last(hits) /\ Last(hits) <= end
      BY <2>0, <1>3
    <2> QED BY <1>2, <2>1
  <1>7. Runs(hashed, 1, p + c + end)
    <2>1. (p + c + 1) + s.scan = (p + c + s.scan) + 1 /\ (p + c + s.scan) + end - s.scan = p + c + end
      BY <1>1, <1>2
    <2>2. Runs(hashed, 1, (p + c + s.scan) + end - s.scan)
      BY <1>1, <1>2, <2>1, HashOn
    <2> QED BY <2>1, <2>2
  <1>8. hashed \in Seq(Nat) /\ Len(hashed) = p + c + end
    BY <1>7, RunLen
  <1>9. t = [s EXCEPT !.lens = lens, !.scan = end, !.left = left, !.last = last, !.hashed = hashed]
    BY DEF ScanNext, end, hits, c, n
  <1> HIDE DEF t, lens, hashed
  <1>10. t \in Rounds /\ t.curr = s.curr /\ t.next = s.next /\ t.hold = s.hold /\ t.last = last
         /\ t.lens = lens /\ t.scan = end /\ t.left = left /\ t.hashed = hashed
    <2>1. left \in Nat
      BY <1>1
    <2> HIDE DEF left, last
    <2> QED BY <1>1, <1>2, <1>5, <1>6, <1>8, <1>9, <2>1 DEF Rounds
  <1>11. Laid(t, p)
    BY <1>0, <1>7, <1>8, <1>10 DEF Laid
  <1>12. Ahead(t, p)
    BY <1>1, <1>2, <1>8, <1>10 DEF Ahead, c, n
  <1>13. t.last <= t.scan /\ (t.last = 0 => LeftIs(t)) /\ (t.last > 0 => t.lens # <<>> /\ t.left = 0)
    BY <1>0, <1>2, <1>5, <1>6, <1>10 DEF LeftIs
  <1> QED BY <1>0, <1>10, <1>11, <1>12, <1>13 DEF t, BothScanned

\* What is read and not cut off, behind the byte e where the last job ended:
\* next and behind it hold, up to byte r, and how far the hash is.
Held(v, e, r) ==
    LET n == Len(v.next)
        m == Len(v.hold)
    IN  /\ v.scan \in Nat /\ v.left \in Nat
        /\ Runs(v.next, e + 1, n) /\ n <= Block
        /\ Runs(v.hold, e + n + 1, m) /\ m <= Block
        /\ e + n + m = r /\ (m > 0 => m = Block \/ r = Size)
        /\ Runs(v.hashed, 1, Len(v.hashed))
        /\ cfg.rsync => Len(v.hashed) = e + v.scan + (IF m = 0 THEN 0 ELSE n)
        /\ ~cfg.rsync => m = 0 /\ v.scan = 0
        /\ m = 0 => v.left = 0 /\ v.scan <= n
        /\ m > 0 => n > 0 /\ v.left = n /\ v.scan <= m /\ v.scan + n <= Block

\* A job behind byte p, and what the round keeps of the r bytes read.
CutOff(s, p, r) ==
    /\ Runs(s.curr, p + 1, Len(s.curr)) /\ Len(s.curr) <= Block
    /\ s.curr = <<>> => Size = 0
    /\ s.lens \in Seq(Int)
    /\ Held(s, p + Len(s.curr), r)
    /\ s.next = <<>> => s.hold = <<>> /\ s.scan = 0 /\ r = Size

\* The same with the lengths named.
Numbered(t, p, r, a, n, m, h) ==
    /\ t.scan \in Nat /\ t.left \in Nat /\ t.lens \in Seq(Int)
    /\ Runs(t.curr, p + 1, a) /\ a \in 1 .. Block /\ Runs(t.next, p + a + 1, n) /\ n <= Block
    /\ Runs(t.hold, p + a + n + 1, m) /\ m <= Block /\ p + a + n + m = r /\ (m > 0 => m = Block \/ r = Size)
    /\ Runs(t.hashed, 1, h) /\ h = p + a + t.scan + (IF m = 0 THEN 0 ELSE n)
    /\ m = 0 => t.left = 0 /\ t.scan <= n
    /\ m > 0 => n > 0 /\ t.left = n /\ t.scan <= m /\ t.scan + n <= Block
    /\ n = 0 => m = 0 /\ t.scan = 0 /\ r = Size

LEMMA CutOffIs ==
    ASSUME NEW t, NEW p \in Nat, NEW r, NEW a, NEW n, NEW m, NEW h, cfg.rsync = TRUE,
           Numbered(t, p, r, a, n, m, h)
    PROVE  CutOff(t, p, r)
  <1> DEFINE A == Len(t.curr)
             N == Len(t.next)
             M == Len(t.hold)
             H == Len(t.hashed)
  <1>1. /\ Runs(t.curr, p + 1, a) /\ Runs(t.next, p + a + 1, n) /\ Runs(t.hold, p + a + n + 1, m)
        /\ Runs(t.hashed, 1, h)
    BY DEF Numbered
  <1>2. A = a /\ N = n /\ M = m /\ H = h
    BY <1>1, RunLen
  <1>3. (t.curr = <<>> <=> a = 0) /\ (t.next = <<>> <=> n = 0) /\ (t.hold = <<>> <=> m = 0)
    <2>1. t.curr = <<>> <=> a = 0
      BY <1>1, RunLen
    <2>2. t.next = <<>> <=> n = 0
      BY <1>1, RunLen
    <2>3. t.hold = <<>> <=> m = 0
      BY <1>1, RunLen
    <2> QED BY <2>1, <2>2, <2>3
  <1>4. a # 0 /\ a <= Block
    BY CutAssumption DEF Numbered
  <1> HIDE DEF A, N, M, H
  <1>5. Held(t, p + A, r)
    BY <1>2, Zenon DEF Held, Numbered, N, M, H
  <1>6. Runs(t.curr, p + 1, A)
    BY <1>1, <1>2
  <1> QED BY <1>2, <1>3, <1>4, <1>5, <1>6, Zenon DEF CutOff, Numbered, A

\* Divide's three ways keep the bytes in order and the hash in place.
LEMMA DivideIs ==
    ASSUME NEW s, NEW p \in Nat, NEW r \in Nat, cfg.rsync = TRUE, BothScanned(s, p), ReadUpTo(s, p, r)
    PROVE  CutOff(Divide(s), p, r)
  <1> DEFINE t == Divide(s)
             c == Len(s.curr)
             n == Len(s.next)
             take == IF s.lens = <<>> THEN s.scan ELSE s.last
             z == s.scan
  <1>0. /\ Laid(s, p) /\ s.hold = <<>> /\ Ahead(s, p) /\ s.last <= s.scan
        /\ s.last = 0 => LeftIs(s)
        /\ s.last > 0 => s.lens # <<>> /\ s.left = 0
    BY DEF BothScanned
  <1>1. /\ s \in Rounds /\ s.scan \in Nat /\ s.left \in Nat /\ s.last \in Nat
        /\ c \in Nat /\ c > 0 /\ n \in Nat /\ Block \in Nat /\ c <= Block /\ n <= Block
    BY <1>0, LaidIs
  <1>2. s.scan <= n /\ s.scan + c <= Block /\ Len(s.hashed) = p + c + s.scan
    BY <1>0 DEF Ahead
  <1>3. Runs(s.curr, p + 1, c) /\ Runs(s.next, p + c + 1, n) /\ Runs(s.hashed, 1, p + c + s.scan)
    BY <1>0, <1>2 DEF Laid
  <1>4. p + c + n = r /\ (n = Block \/ r = Size)
    BY DEF ReadUpTo
  <1>5. s.lens \in Seq(Int) /\ s.hold = <<>> /\ Len(<<>>) = 0
    BY <1>0, <1>1 DEF Rounds
  <1>6. /\ s.last <= s.scan /\ (s.last = 0 /\ s.lens # <<>> => s.left < c)
        /\ (s.last > 0 => s.lens # <<>>)
    BY <1>0 DEF LeftIs
  <1>7. n > 0 <=> s.next # <<>>
    BY <1>3, RunIs
  <1> HIDE DEF c, n
  <1>8. take \in Nat /\ take <= s.scan
    BY <1>1, <1>6
  <1> HIDE DEF t, take
  <1>81. /\ c \in Nat /\ n \in Nat /\ Block \in Nat /\ z \in Nat /\ take \in Nat
         /\ c > 0 /\ c <= Block /\ n <= Block /\ z <= n /\ z + c <= Block /\ take <= z
    BY <1>1, <1>2, <1>8
  <1> HIDE DEF z
  <1>9. CASE take > 0
    <2> DEFINE curr == s.curr \o SubSeq(s.next, 1, take)
               next == SubSeq(s.next, take + 1, n)
               scan == s.scan - take
    <2>1. t = [s EXCEPT !.curr = curr, !.scan = scan, !.left = 0, !.next = next]
      BY <1>9 DEF Divide, t, n, take
    <2>2. 1 \in Nat /\ 1 <= take + 1 /\ take <= n /\ take + 1 <= n + 1 /\ n <= n /\ 1 <= 1 /\ take + 1 \in Nat
          /\ 1 <= take
      BY <1>81, <1>9
    <2>3. Runs(SubSeq(s.next, 1, take), p + c + 1, take)
      <3>1. Runs(SubSeq(s.next, 1, take), p + c + 1 + 1 - 1, take - 1 + 1)
        BY <1>3, <1>8, <2>2, PartOfRun
      <3>2. p + c + 1 + 1 - 1 = p + c + 1 /\ take - 1 + 1 = take
        BY <1>1, <1>8
      <3> QED BY <3>1, <3>2
    <2>4. Runs(curr, p + 1, c + take)
      <3>1. p + c + 1 = (p + 1) + c
        BY <1>1
      <3> QED BY <1>3, <2>3, <3>1, JoinRuns
    <2>5. Runs(next, p + (c + take) + 1, n - take)
      <3>1. Runs(next, p + c + 1 + (take + 1) - 1, n - (take + 1) + 1)
        BY <1>1, <1>3, <2>2, PartOfRun
      <3>2. p + c + 1 + (take + 1) - 1 = p + (c + take) + 1 /\ n - (take + 1) + 1 = n - take
        BY <1>1, <1>8
      <3> QED BY <3>1, <3>2
    <2>6. curr \in Seq(Nat) /\ Len(curr) = c + take /\ next \in Seq(Nat) /\ Len(next) = n - take
      BY <2>4, <2>5, RunLen
    <2> HIDE DEF curr, next
    <2>7. scan \in Nat /\ scan <= n - take
      <3>1. z - take \in Nat /\ z - take <= n - take
        BY <1>81
      <3> QED BY <3>1 DEF z
    <2> HIDE DEF scan
    <2>8. /\ t.curr = curr /\ t.next = next /\ t.scan = scan /\ t.left = 0 /\ t.hold = s.hold
          /\ t.lens = s.lens /\ t.hashed = s.hashed
      BY <1>1, <2>1 DEF Rounds
    <2> DEFINE a == c + take
               k == n - take
    <2>9. /\ a \in 1 .. Block /\ k \in Nat /\ k <= Block /\ p + a + k = r /\ p + a + scan = p + c + s.scan
          /\ (k = 0 => scan = 0 /\ r = Size)
      <3>1. /\ c + take \in 1 .. Block /\ n - take \in Nat /\ n - take <= Block
            /\ p + (c + take) + (n - take) = p + c + n
            /\ p + (c + take) + (z - take) = p + c + z
            /\ n - take = 0 => z - take = 0 /\ n # Block
        BY <1>81
      <3> QED BY <1>4, <3>1 DEF scan, z
    <2> HIDE DEF a, k
    <2>10. Runs(<<>>, p + a + k + 1, 0)
      <3>1. p + a + k + 1 \in Nat
        BY <2>9
      <3> QED BY <3>1 DEF Runs, Bytes
    <2>11. /\ Runs(t.curr, p + 1, a) /\ Len(t.curr) = a /\ Runs(t.next, p + a + 1, k) /\ Len(t.next) = k
           /\ Runs(t.hold, p + a + k + 1, 0) /\ Len(t.hold) = 0 /\ Runs(t.hashed, 1, p + a + scan)
      BY <1>3, <1>5, <2>4, <2>5, <2>6, <2>8, <2>9, <2>10 DEF a, k
    <2>12. t.scan \in Nat /\ t.left = 0 /\ t.lens \in Seq(Int) /\ t.scan = scan
      BY <1>5, <2>7, <2>8
    <2>13. scan <= k
      BY <2>7 DEF k
    <2>14. /\ 0 <= Block /\ p + a + k + 0 = r /\ p + c + s.scan = p + a + t.scan + 0
           /\ 0 \in Nat /\ ~(0 > 0)
      <3>1. /\ p \in Nat /\ a \in Nat /\ k \in Nat /\ scan \in Nat /\ Block \in Nat /\ p + a + k = r
            /\ p + a + scan = p + c + s.scan /\ t.scan = scan
        BY <1>1, <1>8, <2>7, <2>9, <2>12 DEF a
      <3> QED BY <3>1
    <2>15. /\ t.scan \in Nat /\ t.left \in Nat /\ p + a + scan = p + a + t.scan + (IF 0 = 0 THEN 0 ELSE k)
           /\ t.scan <= k /\ (k = 0 => 0 = 0 /\ t.scan = 0 /\ r = Size)
      <3>1. p + a + scan = p + a + scan + 0
        BY <1>1, <2>7, <2>9
      <3> QED BY <2>9, <2>12, <2>13, <3>1
    <2>16. Numbered(t, p, r, a, k, 0, p + a + scan)
      BY <2>9, <2>11, <2>12, <2>14, <2>15, Zenon DEF Numbered
    <2>17. CutOff(t, p, r)
      BY <2>16, CutOffIs
    <2> QED BY <2>17 DEF t
  <1>10. CASE take = 0 /\ s.lens # <<>> /\ s.left # 0 /\ s.next # <<>>
    <2> DEFINE left == s.left
               next == SubSeq(s.curr, c - left + 1, c)
               curr == SubSeq(s.curr, 1, c - left)
    <2>1. t = [s EXCEPT !.hold = s.next, !.next = next, !.curr = curr]
      BY <1>10 DEF Divide, t, c, take
    <2>2. left \in Nat /\ left > 0 /\ left < c /\ n > 0
      BY <1>1, <1>6, <1>7, <1>10 DEF take
    <2>21. left = s.left
      OBVIOUS
    <2> HIDE DEF left
    <2>3. /\ c - left \in 1 .. Block /\ c - left + 1 \in Nat /\ 1 <= c - left + 1 /\ c - left + 1 <= c + 1
          /\ c - left <= c /\ 1 \in Nat /\ 1 <= 1 /\ c <= c /\ c - left \in Nat
      BY <1>1, <2>2
    <2>4. Runs(curr, p + 1, c - left)
      <3>1. Runs(curr, p + 1 + 1 - 1, c - left - 1 + 1)
        BY <1>1, <1>3, <2>3, PartOfRun
      <3>2. p + 1 + 1 - 1 = p + 1 /\ c - left - 1 + 1 = c - left
        BY <1>1, <2>2
      <3> QED BY <3>1, <3>2
    <2>5. Runs(next, p + (c - left) + 1, left)
      <3>1. Runs(next, p + 1 + (c - left + 1) - 1, c - (c - left + 1) + 1)
        BY <1>1, <1>3, <2>3, PartOfRun
      <3>2. p + 1 + (c - left + 1) - 1 = p + (c - left) + 1 /\ c - (c - left + 1) + 1 = left
        BY <1>1, <2>2
      <3> QED BY <3>1, <3>2
    <2> HIDE DEF curr, next
    <2>6. /\ t.curr = curr /\ t.next = next /\ t.scan = s.scan /\ t.left = s.left /\ t.hold = s.next
          /\ t.lens = s.lens /\ t.hashed = s.hashed
      BY <1>1, <2>1 DEF Rounds
    <2> DEFINE a == c - left
    <2>7. /\ a \in 1 .. Block /\ left <= Block /\ p + a + left + 1 = p + c + 1 /\ p + a + left + n = p + c + n
          /\ p + c + s.scan = p + a + s.scan + left /\ s.scan + left <= Block /\ n # 0 /\ left # 0
      <3>1. /\ a \in 1 .. Block /\ left <= Block /\ p + a + left + 1 = p + c + 1 /\ p + a + left + n = p + c + n
            /\ p + c + z = p + a + z + left /\ z + left <= Block /\ n # 0 /\ left # 0
        BY <1>81, <2>2, <2>3
      <3> QED BY <3>1 DEF z
    <2> HIDE DEF a
    <2>8. Runs(t.hold, p + a + left + 1, n)
      BY <1>3, <2>6, <2>7
    <2>9. Runs(t.curr, p + 1, a) /\ Runs(t.next, p + a + 1, left) /\ Runs(t.hashed, 1, p + c + s.scan)
      BY <1>3, <2>4, <2>5, <2>6 DEF a
    <2>10. /\ t.scan \in Nat /\ t.left \in Nat /\ t.lens \in Seq(Int) /\ t.left = left /\ t.scan <= n
           /\ t.scan + left <= Block /\ p + c + s.scan = p + a + t.scan + (IF n = 0 THEN 0 ELSE left)
           /\ p + a + left + n = r
      BY <1>1, <1>2, <1>4, <1>5, <2>21, <2>6, <2>7
    <2>11. Numbered(t, p, r, a, left, n, p + c + s.scan)
      BY <1>1, <1>4, <2>2, <2>7, <2>8, <2>9, <2>10, Zenon DEF Numbered
    <2>12. CutOff(t, p, r)
      BY <2>11, CutOffIs
    <2> QED BY <2>12 DEF t
  <1>11. CASE ~(take > 0) /\ ~(take = 0 /\ s.lens # <<>> /\ s.left # 0 /\ s.next # <<>>)
    <2>1. t = [s EXCEPT !.left = 0]
      BY <1>8, <1>11 DEF Divide, t, take
    <2>2. /\ t.curr = s.curr /\ t.next = s.next /\ t.scan = s.scan /\ t.left = 0 /\ t.hold = s.hold
          /\ t.lens = s.lens /\ t.hashed = s.hashed
      BY <1>1, <2>1 DEF Rounds
    <2>3. p + c + n + 1 \in Nat
      BY <1>1
    <2>4. Runs(<<>>, p + c + n + 1, 0)
      BY <2>3 DEF Runs, Bytes
    <2>5. Runs(t.hold, p + c + n + 1, 0) /\ Runs(t.curr, p + 1, c) /\ Runs(t.next, p + c + 1, n)
          /\ Runs(t.hashed, 1, p + c + s.scan)
      BY <1>3, <1>5, <2>2, <2>4
    <2>6. /\ t.scan \in Nat /\ t.left \in Nat /\ t.lens \in Seq(Int) /\ t.left = 0 /\ t.scan <= n
          /\ p + c + s.scan = p + c + t.scan + (IF 0 = 0 THEN 0 ELSE n) /\ c \in 1 .. Block /\ 0 <= Block
          /\ p + c + n + 0 = r /\ ~(0 > 0) /\ (n = 0 => t.scan = 0 /\ r = Size)
      BY <1>1, <1>2, <1>4, <1>5, <2>2
    <2>7. Numbered(t, p, r, c, n, 0, p + c + s.scan)
      BY <1>1, <2>5, <2>6, Zenon DEF Numbered
    <2>8. CutOff(t, p, r)
      BY <2>7, CutOffIs
    <2> QED BY <2>8 DEF t
  <1> QED BY <1>8, <1>9, <1>10, <1>11

\* The scans and the division, one after the other.
LEMMA RoundIs ==
    ASSUME NEW s, NEW p \in Nat, NEW r \in Nat, cfg.rsync = TRUE, Entered(s, p), ReadUpTo(s, p, r)
    PROVE  CutOff(Divide(ScanNext(ScanCurr(s))), p, r)
  <1> DEFINE t == ScanCurr(s)
             u == ScanNext(t)
  <1>1. CurrScanned(t, p) /\ t.curr = s.curr /\ t.next = s.next
    BY ScanCurrIs
  <1> HIDE DEF t
  <1>2. BothScanned(u, p) /\ u.curr = t.curr /\ u.next = t.next
    BY <1>1, ScanNextIs
  <1> HIDE DEF u
  <1>3. ReadUpTo(u, p, r)
    BY <1>1, <1>2 DEF ReadUpTo
  <1>4. CutOff(Divide(u), p, r)
    BY <1>2, <1>3, DivideIs
  <1> QED BY <1>4 DEF t, u

-----------------------------------------------------------------------------
(* The inductive invariant.                                                *)

IsDict(dict, ended) ==
    IF cfg.setdict
    THEN LET d == Len(dict)
         IN  Runs(dict, ended - d + 1, d) /\ d <= ended /\ (d >= DictSize \/ d = ended)
    ELSE dict = <<>>

JobOK(j, e) ==
    /\ e \in Nat /\ Runs(j.curr, e + 1, Len(j.curr)) /\ Len(j.curr) <= Block
    /\ j.curr = <<>> => Size = 0
    /\ IsDict(j.dict, e)

CutTypeOK ==
    /\ cfg = None => jobs = <<>>
    /\ cfg # None => /\ cfg.size \in Nat /\ cfg.rsync \in BOOLEAN /\ cfg.setdict \in BOOLEAN
                     /\ jobs \in Seq([curr : Seq(Nat), lens : Seq(Int), dict : Seq(Nat), more : BOOLEAN])

Ended == End(Len(jobs))

\* What the next round starts from.
Entry(e) == /\ e \in Nat /\ Held(par, e, par.read) /\ par.read <= Size
            /\ par.next = <<>> => Size = 0
            /\ IsDict(par.dict, e)

\* The jobs so far are right, and the buffers hold what is read and not cut.
CutInv ==
    /\ CutTypeOK
    /\ \A k \in 1 .. Len(jobs) : JobOK(jobs[k], End(k - 1))
    /\ cfg # None => Runs(par.hashed, 1, Len(par.hashed))
    /\ Cutting => Entry(Ended)
    /\ cfg # None /\ ~Cutting => Ended = Size /\ (cfg.rsync => Len(par.hashed) = Size)

LEMMA DictIs ==
    ASSUME NEW dict, NEW e \in Nat, cfg.setdict = TRUE, IsDict(dict, e)
    PROVE  /\ dict \in Seq(Nat) /\ Len(dict) \in Nat /\ Len(dict) <= e /\ e - Len(dict) + 1 \in Nat
           /\ Runs(dict, e - Len(dict) + 1, Len(dict)) /\ (Len(dict) >= DictSize \/ Len(dict) = e)
           /\ dict = <<>> <=> Len(dict) = 0
  <1>1. Runs(dict, e - Len(dict) + 1, Len(dict)) /\ Len(dict) <= e /\ (Len(dict) >= DictSize \/ Len(dict) = e)
    BY DEF IsDict
  <1>2. e - Len(dict) + 1 \in Nat /\ Len(dict) \in Nat
    BY <1>1 DEF Runs
  <1>3. dict \in Seq(Nat) /\ (dict = <<>> <=> Len(dict) = 0)
    BY <1>1, RunLen
  <1> QED BY <1>1, <1>2, <1>3

\* The last n of the bytes up to e.
LEMMA LastOfIs ==
    ASSUME NEW s, NEW e \in Nat, NEW d \in Nat, Runs(s, e - d + 1, d), d <= e, NEW n \in Nat, n <= d
    PROVE  Runs(LastOf(s, n), e - n + 1, n)
  <1> DEFINE f == e - d + 1
             a == d - n + 1
  <1>1. f \in Nat /\ a \in Nat /\ 1 <= a /\ a <= d + 1 /\ d <= d /\ f + a - 1 = e - n + 1 /\ d - a + 1 = n
    OBVIOUS
  <1>2. Len(s) = d
    BY RunLen
  <1>3. Runs(s, f, d)
    OBVIOUS
  <1> HIDE DEF f, a
  <1>4. Runs(SubSeq(s, a, d), f + a - 1, d - a + 1)
    BY <1>1, <1>3, PartOfRun
  <1>5. LastOf(s, n) = SubSeq(s, a, d)
    BY <1>2 DEF LastOf, a
  <1> QED BY <1>1, <1>4, <1>5

\* The next dictionary ends with the job, and is long enough if the input is.
LEMMA NextDictIs ==
    ASSUME NEW dict, NEW curr, NEW p \in Nat, cfg.setdict = TRUE, IsDict(dict, p),
           NEW a \in Nat, a > 0, Runs(curr, p + 1, a)
    PROVE  IsDict(NextDict(dict, curr), p + a)
  <1> DEFINE d == Len(dict)
             k == Min({DictSize - a, d})
             new == NextDict(dict, curr)
  <1>1. /\ dict \in Seq(Nat) /\ d \in Nat /\ d <= p /\ Runs(dict, p - d + 1, d) /\ (d >= DictSize \/ d = p)
        /\ dict = <<>> <=> d = 0
    BY DictIs
  <1>2. Len(curr) = a /\ DictSize \in Nat /\ DictSize > 0
    <2>1. Len(curr) = a
      BY RunLen
    <2>2. DictSize \in Nat /\ DictSize > 0
      BY CutAssumption
    <2> QED BY <2>1, <2>2
  <1>3. CASE a >= DictSize \/ dict = <<>>
    <2>1. new = curr
      BY <1>2, <1>3 DEF NextDict
    <2>2. (p + a) - a + 1 = p + 1 /\ a <= p + a /\ (a >= DictSize \/ a = p + a)
      BY <1>1, <1>2, <1>3
    <2>3. Runs(new, (p + a) - a + 1, a) /\ Len(new) = a
      BY <1>2, <2>1, <2>2
    <2> HIDE DEF new
    <2>4. IsDict(new, p + a)
      BY <2>2, <2>3 DEF IsDict
    <2> QED BY <2>4 DEF new
  <1>4. CASE ~(a >= DictSize \/ dict = <<>>)
    <2>1. new = LastOf(dict, k) \o curr
      BY <1>2, <1>4 DEF NextDict
    <2> HIDE DEF new, d
    <2>2. k = (IF DictSize - a <= d THEN DictSize - a ELSE d)
      <3>1. DictSize - a \in Int /\ d \in Int
        BY <1>1, <1>2
      <3> QED BY <3>1, MinIs
    <2> HIDE DEF k
    <2>3. /\ k \in Nat /\ k <= d /\ p - k + 1 \in Nat /\ (p - k + 1) + k = p + 1 /\ k + a \in Nat
          /\ (p + a) - (k + a) + 1 = p - k + 1 /\ k + a <= p + a
          /\ (k + a >= DictSize \/ k + a = p + a)
      BY <1>1, <1>2, <1>4, <2>2
    <2>4. Runs(LastOf(dict, k), p - k + 1, k)
      BY <1>1, <2>3, LastOfIs
    <2>5. Runs(new, p - k + 1, k + a)
      BY <2>1, <2>3, <2>4, JoinRuns
    <2>6. Len(new) = k + a
      BY <2>5, RunLen
    <2>7. Runs(new, (p + a) - (k + a) + 1, k + a)
      BY <2>3, <2>5
    <2>8. IsDict(new, p + a)
      BY <2>3, <2>6, <2>7 DEF IsDict
    <2> QED BY <2>8 DEF new
  <1> QED BY <1>3, <1>4

\* What deflate uses of such a dictionary.
LEMMA DictEnds ==
    ASSUME NEW dict, NEW e \in Nat, IsDict(dict, e)
    PROVE  LastOf(dict, Min({DictSize, Len(dict)}))
           = IF cfg.setdict THEN LET n == Min({DictSize, e}) IN Bytes(e - n + 1, n) ELSE <<>>
  <1> DEFINE d == Len(dict)
             k == Min({DictSize, d})
             n == Min({DictSize, e})
  <1>1. DictSize \in Nat /\ DictSize > 0
    BY CutAssumption
  <1>2. CASE cfg.setdict = TRUE
    <2>1. d \in Nat /\ d <= e /\ Runs(dict, e - d + 1, d) /\ (d >= DictSize \/ d = e)
      BY <1>2, DictIs
    <2> HIDE DEF d
    <2>2. k = (IF DictSize <= d THEN DictSize ELSE d) /\ n = (IF DictSize <= e THEN DictSize ELSE e)
      <3>1. DictSize \in Int /\ d \in Int /\ e \in Int
        BY <1>1, <2>1
      <3> QED BY <3>1, MinIs
    <2> HIDE DEF k, n
    <2>3. k = n /\ k \in Nat /\ k <= d
      BY <1>1, <2>1, <2>2
    <2>4. Runs(LastOf(dict, k), e - k + 1, k)
      BY <2>1, <2>3, LastOfIs
    <2>5. LastOf(dict, k) = Bytes(e - n + 1, n)
      BY <2>3, <2>4 DEF Runs
    <2> QED BY <1>2, <2>5 DEF k, n, d
  <1>3. CASE ~cfg.setdict
    <2>1. dict = <<>> /\ d = 0
      BY <1>3 DEF IsDict
    <2>2. k = 0
      <3>1. 0 \in Int /\ DictSize \in Int
        BY <1>1
      <3>2. Min({DictSize, 0}) = 0
        BY <1>1, <3>1, MinIs
      <3> QED BY <2>1, <3>2
    <2> HIDE DEF k
    <2>3. LastOf(dict, k) = SubSeq(<<>>, 1, 0)
      BY <2>1, <2>2 DEF LastOf
    <2>4. SubSeq(<<>>, 1, 0) = <<>>
      OBVIOUS
    <2> QED BY <1>3, <2>3, <2>4 DEF k
  <1>4. cfg.setdict = TRUE \/ ~cfg.setdict
    OBVIOUS
  <1> QED BY <1>2, <1>3, <1>4

-----------------------------------------------------------------------------
\* No buffers are laid out before the options are chosen ...
LEMMA CutInitHolds == CutInit => CutInv
  <1> SUFFICES ASSUME CutInit PROVE CutInv
    OBVIOUS
  <1>1. cfg = None /\ jobs = <<>>
    BY DEF CutInit
  <1>2. Len(jobs) = 0
    BY <1>1
  <1>3. ~Cutting
    BY <1>1 DEF Cutting
  <1> QED BY <1>1, <1>2, <1>3 DEF CutInv, CutTypeOK

\* ... the first block read lays them out ...
LEMMA BeginKeeps == CutInv /\ Begin => CutInv'
  <1> SUFFICES ASSUME CutInv, Begin PROVE CutInv'
    OBVIOUS
  <1>1. cfg = None /\ jobs' = jobs
    BY DEF Begin
  <1>2. jobs = <<>>
    BY <1>1 DEF CutInv, CutTypeOK
  <1>21. PICK n \in 0 .. Longest, rsync \in BOOLEAN, setdict \in BOOLEAN :
            \E hits \in SUBSET (1 .. n) :
               /\ \A i, k \in hits : i < k => k - i >= MinGap
               /\ ~rsync => hits = {}
               /\ cfg' = [chosen |-> TRUE, size |-> n, hits |-> hits, rsync |-> rsync,
                          setdict |-> setdict]
               /\ par' = [next |-> Bytes(1, Min({Block, n})), read |-> Min({Block, n}),
                          hold |-> <<>>, scan |-> 0, left |-> 0, dict |-> <<>>, hashed |-> <<>>]
    BY Zenon DEF Begin
  <1>3. PICK hits \in SUBSET (1 .. n) :
           /\ cfg' = [chosen |-> TRUE, size |-> n, hits |-> hits, rsync |-> rsync, setdict |-> setdict]
           /\ par' = [next |-> Bytes(1, Min({Block, n})), read |-> Min({Block, n}),
                      hold |-> <<>>, scan |-> 0, left |-> 0, dict |-> <<>>, hashed |-> <<>>]
    BY <1>21, Zenon
  <1> DEFINE m == Min({Block, n})
  <1>4. n \in Nat /\ Block \in Nat /\ Block > 0
    BY CutAssumption
  <1>5. m \in Nat /\ m <= n /\ m <= Block /\ (m = 0 => n = 0) /\ (m = Block \/ m = n)
    <2>1. m = IF Block <= n THEN Block ELSE n
      <3>1. Block \in Int /\ n \in Int
        BY <1>4
      <3> QED BY <3>1, MinIs
    <2> HIDE DEF m
    <2> QED BY <1>4, <2>1
  <1> HIDE DEF m
  <1>6. /\ cfg'.size = n /\ cfg'.rsync = rsync /\ cfg'.setdict = setdict /\ cfg'.chosen = TRUE
        /\ par'.next = Bytes(1, m) /\ par'.read = m /\ par'.hold = <<>> /\ par'.scan = 0 /\ par'.left = 0
        /\ par'.dict = <<>> /\ par'.hashed = <<>>
    BY <1>3 DEF m
  <1>7. cfg' # None
    BY <1>6 DEF None
  <1>8. Len(jobs') = 0 /\ jobs' = <<>> /\ Ended' = 0
    BY <1>1, <1>2 DEF Ended, End
  <1>9. Cutting'
    BY <1>7, <1>8 DEF Cutting
  <1>10. Runs(par'.next, 1, m) /\ Runs(<<>>, m + 1, 0) /\ Runs(<<>>, 1, 0)
    BY <1>5, <1>6 DEF Runs, Bytes
  <1>11. Len(par'.next) = m /\ (par'.next = <<>> <=> m = 0) /\ Len(par'.hold) = 0 /\ Len(par'.hashed) = 0
         /\ Len(par'.dict) = 0
    BY <1>6, <1>10, RunLen
  <1>12. Size' = n
    BY <1>6 DEF Size
  <1>13. CutTypeOK'
    BY <1>1, <1>2, <1>4, <1>6, <1>7 DEF CutTypeOK
  <1>14. IsDict(par.dict, Ended)'
    <2>1. Runs(<<>>, 0 - 0 + 1, 0) /\ 0 <= 0
      BY <1>10
    <2> QED BY <1>6, <1>8, <1>11, <2>1 DEF IsDict
  <1>15. Held(par, Ended, par.read)'
    <2>1. /\ 0 + 1 = 1 /\ 0 + m + 1 = m + 1 /\ 0 <= Block /\ 0 + m + 0 = m /\ ~(0 > 0)
          /\ 0 + 0 + 0 = 0 /\ 0 <= m /\ 0 \in Nat
      BY <1>4, <1>5
    <2>2. Runs(par'.next, 0 + 1, m) /\ Runs(par'.hold, 0 + m + 1, 0) /\ Runs(par'.hashed, 1, 0)
      BY <1>6, <1>10, <2>1
    <2> QED BY <1>5, <1>6, <1>8, <1>11, <1>12, <2>1, <2>2 DEF Held
  <1>16. Entry(Ended)'
    BY <1>4, <1>5, <1>6, <1>8, <1>11, <1>12, <1>14, <1>15 DEF Entry
  <1>17. \A k \in 1 .. Len(jobs') : JobOK(jobs[k], End(k - 1))'
    BY <1>8
  <1>18. Runs(par'.hashed, 1, Len(par'.hashed))
    BY <1>6, <1>10, <1>11
  <1> QED BY <1>9, <1>13, <1>16, <1>17, <1>18 DEF CutInv

\* What CutJob's LET names.
FreshRound == par.hold = <<>>
Entering == [curr |-> par.next, next |-> IF FreshRound THEN Readn(par.read) ELSE par.hold,
             hold |-> <<>>, scan |-> par.scan, left |-> par.left, last |-> 0, lens |-> <<>>,
             hashed |-> par.hashed]
Leaving == IF cfg.rsync /\ Entering.curr # <<>> THEN Divide(ScanNext(ScanCurr(Entering))) ELSE Entering
ReadTo == IF FreshRound THEN par.read + Len(Readn(par.read)) ELSE par.read

\* What a round enters with: all that is read up to r, and where the hash is.
Starts(s, p, r) ==
    /\ p \in Nat /\ r \in Nat /\ r <= Size /\ Size \in Nat
    /\ Runs(s.curr, p + 1, Len(s.curr)) /\ Len(s.curr) <= Block
    /\ Runs(s.next, p + Len(s.curr) + 1, Len(s.next)) /\ Len(s.next) <= Block
    /\ p + Len(s.curr) + Len(s.next) = r
    /\ Len(s.next) = Block \/ r = Size
    /\ r = Size \/ s.next # <<>>
    /\ s.curr = <<>> => Size = 0
    /\ Runs(s.hashed, 1, Len(s.hashed))
    /\ s.hold = <<>> /\ s.lens = <<>> /\ s.last = 0
    /\ s.scan \in Nat /\ s.left \in Nat
    /\ ~cfg.rsync => FreshRound /\ s.scan = 0 /\ s.left = 0
    /\ FreshRound => /\ s.left = 0 /\ s.scan <= Len(s.curr)
                     /\ (cfg.rsync => Len(s.hashed) = p + s.scan)
    /\ ~FreshRound => /\ Len(s.curr) > 0 /\ s.left = Len(s.curr)
                      /\ s.scan <= Len(s.next) /\ s.scan + Len(s.curr) <= Block
                      /\ (cfg.rsync => Len(s.hashed) = p + s.scan + Len(s.curr))

\* A round enters with what the one before kept and, if hold is empty, one more
\* block read.
LEMMA EnteringIs ==
    ASSUME CutInv, Cutting
    PROVE  Starts(Entering, Ended, ReadTo)
  <1> DEFINE e == Ended
             n == Len(par.next)
             m == Len(par.hold)
             k == Min({Block, Size - par.read})
  <1>1. /\ e \in Nat /\ Held(par, e, par.read) /\ par.read <= Size
        /\ par.next = <<>> => Size = 0
    BY DEF CutInv, Entry
  <1>2. cfg # None /\ Size \in Nat
    BY DEF CutInv, CutTypeOK, Cutting, Size
  <1>3. /\ par.scan \in Nat /\ par.left \in Nat
        /\ Runs(par.next, e + 1, n) /\ n <= Block
        /\ Runs(par.hold, e + n + 1, m) /\ m <= Block
        /\ e + n + m = par.read /\ (m > 0 => m = Block \/ par.read = Size)
        /\ Runs(par.hashed, 1, Len(par.hashed))
        /\ cfg.rsync => Len(par.hashed) = e + par.scan + (IF m = 0 THEN 0 ELSE n)
        /\ ~cfg.rsync => m = 0 /\ par.scan = 0
        /\ m = 0 => par.left = 0 /\ par.scan <= n
        /\ m > 0 => n > 0 /\ par.left = n /\ par.scan <= m /\ par.scan + n <= Block
    BY <1>1 DEF Held
  <1>4. n \in Nat /\ m \in Nat /\ (FreshRound <=> m = 0) /\ Block \in Nat /\ Block > 0
    <2>1. n \in Nat /\ m \in Nat
      BY <1>3 DEF Runs
    <2>2. par.hold = <<>> <=> m = 0
      BY <1>3, RunLen
    <2> QED BY <2>1, <2>2, CutAssumption DEF FreshRound
  <1>5. /\ Entering.curr = par.next /\ Entering.hold = <<>> /\ Entering.lens = <<>> /\ Entering.last = 0
        /\ Entering.scan = par.scan /\ Entering.left = par.left /\ Entering.hashed = par.hashed
        /\ Entering.next = IF FreshRound THEN Readn(par.read) ELSE par.hold
    BY DEF Entering
  <1> HIDE DEF e, n, m
  <1>6. par.read \in Nat
    <2>1. e \in Nat /\ n \in Nat /\ m \in Nat /\ par.read = e + n + m
      BY <1>1, <1>3, <1>4
    <2> QED BY <2>1
  <1>7. /\ k \in Nat /\ k <= Block /\ par.read + k <= Size /\ par.read + k \in Nat
        /\ (k = Block \/ par.read + k = Size) /\ (par.read + k = Size \/ k # 0)
    <2>1. k = IF Block <= Size - par.read THEN Block ELSE Size - par.read
      <3>1. Block \in Int /\ Size - par.read \in Int
        BY <1>2, <1>4, <1>6
      <3> QED BY <3>1, MinIs
    <2> HIDE DEF k
    <2> QED BY <1>1, <1>2, <1>4, <1>6, <2>1
  <1> HIDE DEF k
  <1>8. CASE FreshRound
    <2>1. Entering.next = Bytes(par.read + 1, k)
      BY <1>5, <1>8 DEF Readn, k
    <2>2. Runs(Entering.next, par.read + 1, k)
      BY <1>6, <1>7, <2>1 DEF Runs
    <2>3. Len(Entering.next) = k /\ (Entering.next = <<>> <=> k = 0)
      BY <2>2, RunLen
    <2>4. ReadTo = par.read + k
      BY <1>8, <1>5, <2>3 DEF ReadTo
    <2>5. m = 0 /\ par.read = e + n /\ e + n + k = par.read + k
      BY <1>1, <1>3, <1>4, <1>8
    <2>6. cfg.rsync => Len(par.hashed) = e + par.scan
      <3>1. e + par.scan + 0 = e + par.scan
        BY <1>1, <1>3
      <3> QED BY <1>3, <2>5, <3>1
    <2>7. Runs(Entering.next, e + n + 1, k)
      BY <2>2, <2>5
    <2>8. par.left = 0 /\ par.scan <= n /\ (~cfg.rsync => par.scan = 0)
      BY <1>3, <2>5
    <2>9. Len(par.next) = n /\ Ended = e
      BY DEF n, e
    <2> QED BY <1>1, <1>2, <1>3, <1>5, <1>7, <1>8, <2>3, <2>4, <2>5, <2>6, <2>7, <2>8, <2>9, Zenon DEF Starts
  <1>9. CASE ~FreshRound
    <2>1. Entering.next = par.hold /\ ReadTo = par.read
      BY <1>5, <1>9 DEF ReadTo
    <2>2. m > 0 /\ m # 0 /\ (m = Block \/ par.read = Size)
      BY <1>3, <1>4, <1>9
    <2>3. cfg.rsync => Len(par.hashed) = e + par.scan + n
      BY <1>3, <2>2
    <2>4. par.hold # <<>> /\ (~cfg.rsync => FALSE)
      BY <1>3, <1>9, <2>2 DEF FreshRound
    <2>5. n > 0 /\ par.left = n /\ par.scan <= m /\ par.scan + n <= Block
      BY <1>3, <2>2
    <2>9. Len(par.next) = n /\ Ended = e /\ Len(par.hold) = m
      BY DEF n, e, m
    <2> QED BY <1>1, <1>2, <1>3, <1>5, <1>6, <1>9, <2>1, <2>2, <2>3, <2>4, <2>5, <2>9, Zenon DEF Starts
  <1> QED BY <1>8, <1>9

LEMMA EnteredIs ==
    ASSUME CutInv, Cutting, cfg.rsync = TRUE, Entering.curr # <<>>
    PROVE  Entered(Entering, Ended) /\ Ended \in Nat /\ ReadTo \in Nat /\ ReadUpTo(Entering, Ended, ReadTo)
  <1> DEFINE s == Entering
             p == Ended
             r == ReadTo
             c == Len(s.curr)
  <1>1. /\ p \in Nat /\ r \in Nat
        /\ Runs(s.curr, p + 1, c) /\ c <= Block
        /\ Runs(s.next, p + c + 1, Len(s.next)) /\ Len(s.next) <= Block
        /\ p + c + Len(s.next) = r
        /\ Len(s.next) = Block \/ r = Size
        /\ Runs(s.hashed, 1, Len(s.hashed))
        /\ s.hold = <<>> /\ s.lens = <<>> /\ s.last = 0
        /\ s.scan \in Nat /\ s.left \in Nat
        /\ FreshRound => s.left = 0 /\ s.scan <= c /\ Len(s.hashed) = p + s.scan
        /\ ~FreshRound => /\ s.left = c /\ s.scan <= Len(s.next) /\ s.scan + c <= Block
                          /\ Len(s.hashed) = p + s.scan + c
    BY EnteringIs DEF Starts
  <1>2. c \in Nat /\ c # 0 /\ s.curr \in Seq(Nat) /\ s.next \in Seq(Nat) /\ s.hashed \in Seq(Nat)
    <2>1. c \in Nat
      BY <1>1 DEF Runs
    <2>2. s.curr \in Seq(Nat) /\ (s.curr = <<>> <=> c = 0)
      BY <1>1, RunLen
    <2>3. s.next \in Seq(Nat)
      BY <1>1, RunLen
    <2>4. s.hashed \in Seq(Nat)
      BY <1>1, RunLen
    <2> QED BY <2>1, <2>2, <2>3, <2>4
  <1>3. s \in Rounds
    <2>1. s = [curr |-> s.curr, next |-> s.next, hold |-> s.hold, scan |-> s.scan, left |-> s.left,
               last |-> s.last, lens |-> s.lens, hashed |-> s.hashed]
      BY DEF Entering
    <2>2. s.hold \in Seq(Nat) /\ s.last \in Nat /\ s.lens \in Seq(Int)
      BY <1>1
    <2> HIDE DEF s
    <2> QED BY <1>1, <1>2, <2>1, <2>2 DEF Rounds
  <1> HIDE DEF s, p, r
  <1>4. c \in 1 .. Block
    BY <1>1, <1>2, CutAssumption
  <1>5. Laid(s, p)
    BY <1>1, <1>3, <1>4 DEF Laid
  <1>6. \/ s.left = 0 /\ s.scan <= Len(s.curr) /\ Len(s.hashed) = p + s.scan
        \/ s.left = Len(s.curr) /\ Ahead(s, p)
    <2>1. p + s.scan + c = p + c + s.scan
      BY <1>1, <1>2
    <2>2. CASE FreshRound
      BY <1>1, <2>2
    <2>3. CASE ~FreshRound
      BY <1>1, <2>1, <2>3 DEF Ahead
    <2> QED BY <2>2, <2>3
  <1>7. Entered(s, p)
    BY <1>1, <1>5, <1>6 DEF Entered
  <1>8. ReadUpTo(s, p, r)
    BY <1>1 DEF ReadUpTo
  <1> QED BY <1>1, <1>7, <1>8 DEF s, p, r

LEMMA RoundSums ==
    \A p, c, n \in Nat : /\ p + c + n + 1 \in Nat /\ p + c + n + 0 = p + c + n /\ p + c + 0 + 0 = p + c + 0
                         /\ 0 <= n /\ ~(0 > 0)
  OBVIOUS

\* It leaves with a job cut off, with and without --rsyncable.
LEMMA LeavingIs ==
    ASSUME CutInv, Cutting
    PROVE  CutOff(Leaving, Ended, ReadTo)
  <1> DEFINE s == Entering
             p == Ended
             r == ReadTo
             c == Len(s.curr)
  <1>1. /\ p \in Nat /\ r \in Nat /\ r <= Size /\ Size \in Nat
        /\ Runs(s.curr, p + 1, c) /\ c <= Block
        /\ Runs(s.next, p + c + 1, Len(s.next)) /\ Len(s.next) <= Block
        /\ p + c + Len(s.next) = r
        /\ Len(s.next) = Block \/ r = Size
        /\ r = Size \/ s.next # <<>>
        /\ s.curr = <<>> => Size = 0
        /\ Runs(s.hashed, 1, Len(s.hashed))
        /\ s.hold = <<>> /\ s.lens = <<>> /\ s.last = 0
        /\ s.scan \in Nat /\ s.left \in Nat
        /\ ~cfg.rsync => FreshRound /\ s.scan = 0 /\ s.left = 0
        /\ FreshRound => s.left = 0 /\ s.scan <= c /\ (cfg.rsync => Len(s.hashed) = p + s.scan)
        /\ ~FreshRound => /\ c > 0 /\ s.left = c /\ s.scan <= Len(s.next) /\ s.scan + c <= Block
                          /\ (cfg.rsync => Len(s.hashed) = p + s.scan + c)
    BY EnteringIs DEF Starts
  <1>2. c \in Nat /\ (s.curr = <<>> <=> c = 0) /\ s.curr \in Seq(Nat) /\ s.next \in Seq(Nat) /\ s.hashed \in Seq(Nat)
        /\ Len(s.next) \in Nat /\ (s.next = <<>> <=> Len(s.next) = 0)
    <2>1. c \in Nat
      BY <1>1 DEF Runs
    <2>2. s.curr \in Seq(Nat) /\ (s.curr = <<>> <=> c = 0)
      BY <1>1, RunLen
    <2>3. s.next \in Seq(Nat) /\ (s.next = <<>> <=> Len(s.next) = 0)
      BY <1>1, RunLen
    <2>4. s.hashed \in Seq(Nat)
      BY <1>1, RunLen
    <2>5. Len(s.next) \in Nat
      BY <1>1 DEF Runs
    <2> QED BY <2>1, <2>2, <2>3, <2>4, <2>5
  <1>4. cfg.rsync \in BOOLEAN
    BY DEF CutInv, CutTypeOK, Cutting
  <1> HIDE DEF s, p, r
  <1>5. CASE cfg.rsync = TRUE /\ s.curr # <<>>
    <2>1. Leaving = Divide(ScanNext(ScanCurr(s)))
      BY <1>5 DEF Leaving, s
    <2>2. Entered(s, p) /\ p \in Nat /\ r \in Nat /\ ReadUpTo(s, p, r)
      BY <1>5, EnteredIs DEF s, p, r
    <2>3. CutOff(Divide(ScanNext(ScanCurr(s))), p, r)
      BY <1>5, <2>2, RoundIs
    <2> QED BY <2>1, <2>3 DEF p, r
  <1>6. CASE ~(cfg.rsync = TRUE /\ s.curr # <<>>)
    <2>1. Leaving = s
      BY <1>4, <1>6 DEF Leaving, s
    <2>2. FreshRound /\ s.left = 0 /\ s.scan = 0 /\ (cfg.rsync => Len(s.hashed) = p + c + 0)
      <3>1. CASE cfg.rsync = FALSE
        BY <1>1, <3>1
      <3>2. CASE cfg.rsync = TRUE
        <4>1. c = 0
          BY <1>2, <1>6, <3>2
        <4>2. FreshRound /\ s.scan <= 0 /\ Len(s.hashed) = p + s.scan /\ s.left = 0
          BY <1>1, <3>2, <4>1
        <4>3. s.scan = 0 /\ p + 0 = p + c + 0
          BY <1>1, <1>2, <4>1, <4>2
        <4> QED BY <4>2, <4>3
      <3> QED BY <1>4, <3>1, <3>2
    <2>3. Runs(s.hold, p + c + Len(s.next) + 1, 0) /\ Len(s.hold) = 0
      <3>1. p + c + Len(s.next) + 1 \in Nat /\ 0 \in Nat
        <4>1. p \in Nat /\ c \in Nat /\ Len(s.next) \in Nat
          BY <1>1, <1>2
        <4> QED BY <4>1, RoundSums
      <3>2. Runs(<<>>, p + c + Len(s.next) + 1, 0)
        BY <3>1 DEF Runs, Bytes
      <3> QED BY <1>1, <3>2
    <2>4. /\ 0 <= Block /\ p + c + Len(s.next) + 0 = r /\ ~(0 > 0) /\ 0 <= Len(s.next) /\ p + c + 0 + 0 = p + c + 0
      <3>1. p \in Nat /\ c \in Nat /\ Len(s.next) \in Nat /\ p + c + Len(s.next) = r
        BY <1>1, <1>2
      <3>2. 0 <= Block
        BY CutAssumption
      <3>3. /\ p + c + Len(s.next) + 0 = p + c + Len(s.next) /\ p + c + 0 + 0 = p + c + 0
            /\ 0 <= Len(s.next) /\ ~(0 > 0)
        <4> DEFINE n == Len(s.next)
        <4>1. p \in Nat /\ c \in Nat /\ n \in Nat
          BY <3>1
        <4> HIDE DEF c, n
        <4>2. p + c + n + 0 = p + c + n /\ p + c + 0 + 0 = p + c + 0 /\ 0 <= n /\ ~(0 > 0)
          BY <4>1
        <4> QED BY <4>2 DEF n
      <3> QED BY <3>1, <3>2, <3>3, Zenon
    <2>5. Held(s, p + c, r)
      BY <1>1, <1>2, <2>2, <2>3, <2>4 DEF Held
    <2>6. s.lens \in Seq(Int)
      BY <1>1
    <2>7. CutOff(s, p, r)
      BY <1>1, <1>2, <2>2, <2>5, <2>6 DEF CutOff
    <2> QED BY <2>1, <2>7 DEF p, r
  <1> QED BY <1>5, <1>6

JobRecs == [curr : Seq(Nat), lens : Seq(Int), dict : Seq(Nat), more : BOOLEAN]

\* The byte at which a stretch behind p ends.
LEMMA EndOfRun ==
    ASSUME NEW s, NEW p \in Nat, NEW n, Runs(s, p + 1, n), s # <<>>
    PROVE  Last(s) = p + n
  <1>1. n \in Nat /\ n # 0 /\ Len(s) = n
    BY RunLen DEF Runs
  <1>2. s[n] = p + 1 + n - 1
    <2>1. \A k \in 1 .. n : s[k] = p + 1 + k - 1
      BY RunIs
    <2> QED BY <1>1, <2>1
  <1>3. p + 1 + n - 1 = p + n
    BY <1>1
  <1> QED BY <1>1, <1>2, <1>3 DEF Last

LEMMA CutOffSums == \A p, c, n, m \in Nat : p + c <= p + c + n + m /\ (n # 0 => p + c + n + m > 0)
  OBVIOUS

\* The job a round emits.
Emitted == [curr |-> Leaving.curr, lens |-> Leaving.lens, dict |-> par.dict, more |-> Leaving.next # <<>>]

LEMMA LeftBehind ==
    ASSUME CutInv, Cutting
    PROVE  LET s == Leaving
               p == Ended
               r == ReadTo
               c == Len(s.curr)
           IN  /\ p \in Nat /\ r \in Nat /\ r <= Size /\ Size \in Nat /\ IsDict(par.dict, p)
               /\ Runs(s.curr, p + 1, c) /\ c <= Block
               /\ s.curr = <<>> => Size = 0
               /\ s.lens \in Seq(Int) /\ Held(s, p + c, r)
               /\ s.next = <<>> => s.hold = <<>> /\ s.scan = 0 /\ r = Size
               /\ s.curr \in Seq(Nat) /\ c \in Nat /\ (s.curr = <<>> <=> c = 0)
               /\ p + c <= r
  <1> DEFINE s == Leaving
             p == Ended
             r == ReadTo
             c == Len(s.curr)
  <1>1. CutOff(s, p, r)
    BY LeavingIs
  <1>2. p \in Nat /\ r \in Nat /\ r <= Size /\ Size \in Nat /\ IsDict(par.dict, p)
    <2>1. IsDict(par.dict, p)
      BY DEF CutInv, Entry
    <2>2. p \in Nat /\ r \in Nat /\ r <= Size /\ Size \in Nat
      BY EnteringIs DEF Starts
    <2> QED BY <2>1, <2>2
  <1> HIDE DEF s, p, r
  <1>3. /\ Runs(s.curr, p + 1, c) /\ c <= Block
        /\ s.curr = <<>> => Size = 0
        /\ s.lens \in Seq(Int) /\ Held(s, p + c, r)
        /\ s.next = <<>> => s.hold = <<>> /\ s.scan = 0 /\ r = Size
    BY <1>1 DEF CutOff
  <1>4. s.curr \in Seq(Nat) /\ c \in Nat /\ (s.curr = <<>> <=> c = 0)
    BY <1>3, RunLen DEF Runs
  <1>5. p + c <= r
    <2>1. /\ Len(s.next) \in Nat /\ Len(s.hold) \in Nat
          /\ p + c + Len(s.next) + Len(s.hold) = r
      BY <1>3 DEF Held, Runs
    <2> QED BY <1>2, <1>4, <2>1, CutOffSums
  <1> QED BY <1>2, <1>3, <1>4, <1>5 DEF s, p, r

LEMMA CutJobIs ==
    ASSUME CutInv, CutJob
    PROVE  /\ Cutting /\ cfg' = cfg /\ cfg # None /\ Size' = Size
           /\ jobs' \in Seq(JobRecs) /\ Len(jobs') = Len(jobs) + 1 /\ Len(jobs) \in Nat /\ jobs' # <<>>
           /\ \A k \in 1 .. Len(jobs) : jobs'[k] = jobs[k]
           /\ jobs'[Len(jobs) + 1] = Emitted
           /\ \A k \in 0 .. Len(jobs) : End(k)' = End(k)
           /\ par'.next = Leaving.next /\ par'.hold = Leaving.hold /\ par'.scan = Leaving.scan
           /\ par'.left = Leaving.left /\ par'.hashed = Leaving.hashed /\ par'.read = ReadTo
           /\ par'.dict = IF Leaving.next # <<>> /\ cfg.setdict THEN NextDict(par.dict, Leaving.curr) ELSE par.dict
           /\ Ended' = Ended + Len(Leaving.curr)
           /\ Cutting' <=> Leaving.next # <<>>
  <1> DEFINE s == Leaving
             p == Ended
             r == ReadTo
             c == Len(s.curr)
             more == s.next # <<>>
             emitted == [curr |-> s.curr, lens |-> s.lens, dict |-> par.dict, more |-> more]
             dict == IF more /\ cfg.setdict THEN NextDict(par.dict, s.curr) ELSE par.dict
             j == Len(jobs)
  <1>1. Cutting /\ cfg' = cfg /\ cfg # None
    BY DEF CutJob, Cutting
  <1>2. /\ jobs' = Append(jobs, emitted)
        /\ par' = [next |-> s.next, hold |-> s.hold, scan |-> s.scan, left |-> s.left,
                   hashed |-> s.hashed, read |-> r, dict |-> dict]
    BY DEF CutJob, Leaving, Entering, ReadTo, FreshRound
  <1>4. /\ p \in Nat /\ r \in Nat /\ IsDict(par.dict, p)
        /\ Runs(s.curr, p + 1, c) /\ (s.curr = <<>> => Size = 0) /\ s.lens \in Seq(Int) /\ r <= Size
        /\ s.curr \in Seq(Nat) /\ c \in Nat /\ (s.curr = <<>> <=> c = 0) /\ p + c <= r
    BY <1>1, LeftBehind
  <1>5. /\ cfg.rsync \in BOOLEAN /\ cfg.setdict \in BOOLEAN /\ cfg.size \in Nat
        /\ jobs \in Seq(JobRecs)
    BY <1>1 DEF CutInv, CutTypeOK, JobRecs
  <1>61. emitted = Emitted
    BY DEF Emitted
  <1> HIDE DEF s, p, r
  <1>9. par.dict \in Seq(Nat)
    <2>1. CASE cfg.setdict = TRUE
      BY <1>4, <2>1, DictIs
    <2>2. CASE cfg.setdict = FALSE
      <3>1. par.dict = <<>>
        BY <1>4, <2>2 DEF IsDict
      <3> QED BY <3>1
    <2> QED BY <1>5, <2>1, <2>2
  <1>10. emitted \in JobRecs
    <2>1. more \in BOOLEAN
      OBVIOUS
    <2> HIDE DEF more
    <2> QED BY <1>4, <1>9, <2>1 DEF JobRecs
  <1>11. emitted.curr = s.curr /\ emitted.dict = par.dict /\ (emitted.more <=> more)
    OBVIOUS
  <1> HIDE DEF emitted
  <1>12. /\ jobs' \in Seq(JobRecs) /\ Len(jobs') = j + 1 /\ j \in Nat /\ jobs' # <<>>
         /\ \A k \in 1 .. j : jobs'[k] = jobs[k]
         /\ jobs'[j + 1] = emitted
    BY <1>2, <1>5, <1>10, AppendProperties
  <1>13. \A k \in 0 .. j : End(k)' = End(k)
    <2> SUFFICES ASSUME NEW k \in 0 .. j PROVE End(k)' = End(k)
      OBVIOUS
    <2>1. CASE k = 0
      BY <2>1 DEF End
    <2>2. CASE k # 0
      <3>1. jobs'[k] = jobs[k]
        BY <1>12, <2>2
      <3> QED BY <3>1 DEF End
    <2> QED BY <2>1, <2>2
  <1>14. /\ par'.next = s.next /\ par'.hold = s.hold /\ par'.scan = s.scan /\ par'.left = s.left
         /\ par'.hashed = s.hashed /\ par'.read = r /\ par'.dict = dict
    BY <1>2
  <1>15. Size' = Size
    BY <1>1 DEF Size
  <1>17. Ended' = p + c
    <2>1. Ended' = IF Len(jobs') = 0 THEN 0
                   ELSE IF jobs'[Len(jobs')].curr = <<>> THEN 0 ELSE Last(jobs'[Len(jobs')].curr)
      BY DEF Ended, End
    <2>2. Ended' = IF s.curr = <<>> THEN 0 ELSE Last(s.curr)
      <3>1. Len(jobs') # 0 /\ jobs'[Len(jobs')].curr = s.curr
        BY <1>11, <1>12
      <3> QED BY <2>1, <3>1, Zenon
    <2>3. CASE s.curr = <<>>
      <3>1. p + c = 0
        BY <1>4, <1>5, <2>3 DEF Size
      <3> QED BY <2>2, <2>3, <3>1
    <2>4. CASE s.curr # <<>>
      <3>1. Last(s.curr) = p + c
        BY <1>4, <2>4, EndOfRun
      <3> QED BY <2>2, <2>4, <3>1
    <2> QED BY <2>3, <2>4
  <1>18. Cutting' <=> more
    <2>1. Last(jobs') = emitted
      BY <1>12 DEF Last
    <2> QED BY <1>1, <1>11, <1>12, <2>1 DEF Cutting
  <1> QED BY <1>1, <1>12, <1>13, <1>14, <1>15, <1>17, <1>18, <1>61 DEF s, p, r

\* ... and every round keeps them so.
LEMMA CutJobKeeps == CutInv /\ CutJob => CutInv'
  <1> SUFFICES ASSUME CutInv, CutJob PROVE CutInv'
    OBVIOUS
  <1> DEFINE s == Leaving
             p == Ended
             r == ReadTo
             c == Len(s.curr)
             more == s.next # <<>>
             emitted == Emitted
             dict == IF more /\ cfg.setdict THEN NextDict(par.dict, s.curr) ELSE par.dict
             j == Len(jobs)
  <1>1. Cutting /\ cfg' = cfg /\ cfg # None
    BY CutJobIs
  <1>4. p \in Nat /\ r \in Nat /\ r <= Size /\ Size \in Nat /\ IsDict(par.dict, p)
    BY <1>1, LeftBehind
  <1>5. /\ cfg.rsync \in BOOLEAN /\ cfg.setdict \in BOOLEAN /\ cfg.size \in Nat
    BY <1>1 DEF CutInv, CutTypeOK
  <1>6. \A k \in 1 .. j : JobOK(jobs[k], End(k - 1))
    BY DEF CutInv
  <1>7. /\ Runs(s.curr, p + 1, c) /\ c <= Block
        /\ s.curr = <<>> => Size = 0
        /\ s.lens \in Seq(Int) /\ Held(s, p + c, r)
        /\ s.next = <<>> => s.hold = <<>> /\ s.scan = 0 /\ r = Size
    BY <1>1, LeftBehind
  <1>8. s.curr \in Seq(Nat) /\ c \in Nat /\ (s.curr = <<>> <=> c = 0)
    BY <1>1, LeftBehind
  <1>11. emitted.curr = s.curr /\ emitted.dict = par.dict /\ (emitted.more <=> more)
    BY DEF Emitted
  <1>12. /\ jobs' \in Seq(JobRecs) /\ Len(jobs') = j + 1 /\ j \in Nat /\ jobs' # <<>>
         /\ \A k \in 1 .. j : jobs'[k] = jobs[k]
         /\ jobs'[j + 1] = emitted
    BY CutJobIs
  <1>13. \A k \in 0 .. j : End(k)' = End(k)
    BY CutJobIs
  <1>14. /\ par'.next = s.next /\ par'.hold = s.hold /\ par'.scan = s.scan /\ par'.left = s.left
         /\ par'.hashed = s.hashed /\ par'.read = r /\ par'.dict = dict
    BY CutJobIs
  <1>15. Size' = Size
    BY CutJobIs
  <1>17. Ended' = p + c
    BY CutJobIs
  <1>18. Cutting' <=> more
    BY CutJobIs
  <1> HIDE DEF s, p, r, emitted
  <1>19. CutTypeOK'
    BY <1>1, <1>5, <1>12 DEF CutTypeOK, JobRecs
  <1>20. \A k \in 1 .. Len(jobs') : JobOK(jobs[k], End(k - 1))'
    <2> SUFFICES ASSUME NEW k \in 1 .. j + 1 PROVE JobOK(jobs[k], End(k - 1))'
      BY <1>12
    <2>1. CASE k \in 1 .. j
      <3>1. k - 1 \in 0 .. j
        BY <1>12, <2>1
      <3>2. jobs'[k] = jobs[k] /\ End(k - 1)' = End(k - 1) /\ JobOK(jobs[k], End(k - 1))
        BY <1>6, <1>12, <1>13, <2>1, <3>1
      <3> QED BY <1>1, <1>15, <3>2 DEF JobOK, IsDict
    <2>2. CASE k = j + 1
      <3>1. jobs'[k] = emitted /\ End(k - 1)' = End(k - 1) /\ End(k - 1) = p
        <4>1. k - 1 = j /\ j \in 0 .. j
          BY <1>12, <2>2
        <4>2. End(j) = p
          BY DEF Ended, p
        <4> QED BY <1>12, <1>13, <2>2, <4>1, <4>2
      <3> QED BY <1>1, <1>4, <1>7, <1>11, <1>15, <3>1 DEF JobOK, IsDict
    <2> QED BY <1>12, <2>1, <2>2
  <1>21. Runs(par'.hashed, 1, Len(par'.hashed))
    BY <1>7, <1>14 DEF Held
  <1>22. CASE more
    <2>1. c > 0
      <3>1. Len(s.next) \in Nat /\ Len(s.hold) \in Nat /\ p + c + Len(s.next) + Len(s.hold) = r
            /\ Runs(s.next, p + c + 1, Len(s.next))
        BY <1>7 DEF Held, Runs
      <3>2. Len(s.next) # 0
        BY <1>22, <3>1, RunLen
      <3>3. r > 0
        BY <1>4, <1>8, <3>1, <3>2, CutOffSums
      <3> QED BY <1>4, <1>7, <1>8, <3>3
    <2>2. IsDict(dict, p + c)
      <3>1. CASE cfg.setdict = TRUE
        <4>1. dict = NextDict(par.dict, s.curr)
          BY <1>22, <3>1
        <4>2. IsDict(NextDict(par.dict, s.curr), p + c)
          BY <1>4, <1>7, <1>8, <2>1, <3>1, NextDictIs
        <4> QED BY <4>1, <4>2
      <3>2. CASE cfg.setdict = FALSE
        <4>1. dict = par.dict
          BY <3>2
        <4> QED BY <1>4, <3>2, <4>1 DEF IsDict
      <3> QED BY <1>5, <3>1, <3>2
    <2> HIDE DEF dict
    <2>3. IsDict(par.dict, Ended)'
      BY <1>1, <1>14, <1>17, <2>2 DEF IsDict
    <2>4. Held(par, Ended, par.read)'
      BY <1>1, <1>7, <1>14, <1>15, <1>17, Zenon DEF Held
    <2>5. Ended' \in Nat /\ (par.read <= Size)' /\ par'.next # <<>>
      BY <1>4, <1>8, <1>14, <1>15, <1>17, <1>22
    <2>6. Entry(Ended)'
      BY <2>3, <2>4, <2>5 DEF Entry
    <2> QED BY <1>18, <1>19, <1>20, <1>21, <1>22, <2>6 DEF CutInv
  <1>23. CASE ~more
    <2>1. /\ Len(s.next) = 0 /\ Len(s.hold) = 0 /\ s.scan = 0 /\ r = Size
          /\ p + c + Len(s.next) + Len(s.hold) = r
          /\ cfg.rsync => Len(s.hashed) = p + c + s.scan + (IF Len(s.hold) = 0 THEN 0 ELSE Len(s.next))
      BY <1>7, <1>23 DEF Held
    <2>2. p + c + 0 + 0 = p + c
      BY <1>4, <1>8
    <2>3. p + c = Size /\ (cfg.rsync => Len(s.hashed) = Size)
      BY <2>1, <2>2
    <2>4. Ended' = Size' /\ (cfg'.rsync => Len(par'.hashed) = Size')
      BY <1>1, <1>14, <1>15, <1>17, <2>3
    <2> QED BY <1>18, <1>19, <1>20, <1>21, <1>23, <2>4 DEF CutInv
  <1> QED BY <1>22, <1>23

LEMMA CutStutterKeeps == CutInv /\ UNCHANGED cutVars => CutInv'
  <1> SUFFICES ASSUME CutInv, cfg' = cfg /\ par' = par /\ jobs' = jobs PROVE CutInv'
    BY DEF cutVars
  <1>1. Size' = Size /\ (Cutting' <=> Cutting) /\ Ended' = Ended /\ \A k : End(k)' = End(k)
    BY DEF Size, Cutting, Ended, End
  <1>2. \A e : (Entry(e)' <=> Entry(e)) /\ \A k : JobOK(jobs[k], e)' <=> JobOK(jobs[k], e)
    BY <1>1 DEF Entry, Held, JobOK, IsDict
  <1> QED BY <1>1, <1>2, Zenon DEF CutInv, CutTypeOK

\* cutJobs' buffers always hold what is read and not cut, in order, with the
\* hash where its branches expect it, whatever the input and its hits.
THEOREM CutInvariance == CutSpec => []CutInv
  <1>1. CutInv /\ [CutNext]_cutVars => CutInv'
    BY BeginKeeps, CutJobKeeps, CutStutterKeeps DEF CutNext
  <1> QED BY <1>1, CutInitHolds, PTL DEF CutSpec

\* The jobs of cutJobs are the input in order, no byte lost or twice, whichever
\* branches cut them; the hash goes once over every byte; and each job is
\* primed with the bytes right before it.
THEOREM JobsComeOutAsInput == CutSpec => []JobsAreInput
  <1>1. CutInv => JobsAreInput
    <2> SUFFICES ASSUME CutInv PROVE JobsAreInput
      OBVIOUS
    <2>1. DOMAIN jobs = 1 .. Len(jobs)
      <3>1. CASE cfg = None
        BY <3>1 DEF CutInv, CutTypeOK
      <3>2. CASE cfg # None
        BY <3>2 DEF CutInv, CutTypeOK
      <3> QED BY <3>1, <3>2
    <2>2. ASSUME NEW k \in DOMAIN jobs
          PROVE  /\ jobs[k].curr = Bytes(End(k - 1) + 1, Len(jobs[k].curr))
                 /\ Len(jobs[k].curr) <= Block /\ (jobs[k].curr = <<>> => Size = 0)
                 /\ LET dict == LastOf(jobs[k].dict, Min({DictSize, Len(jobs[k].dict)}))
                    IN  dict = IF cfg.setdict THEN LET n == Min({DictSize, End(k - 1)})
                                                   IN  Bytes(End(k - 1) - n + 1, n)
                               ELSE <<>>
      <3>1. JobOK(jobs[k], End(k - 1))
        BY <2>1, <2>2 DEF CutInv
      <3>2. End(k - 1) \in Nat /\ Runs(jobs[k].curr, End(k - 1) + 1, Len(jobs[k].curr))
            /\ Len(jobs[k].curr) <= Block /\ (jobs[k].curr = <<>> => Size = 0)
            /\ IsDict(jobs[k].dict, End(k - 1))
        BY <3>1 DEF JobOK
      <3>3. jobs[k].curr = Bytes(End(k - 1) + 1, Len(jobs[k].curr))
        BY <3>2 DEF Runs
      <3> QED BY <3>2, <3>3, DictEnds
    <2>3. cfg # None => par.hashed = Bytes(1, Len(par.hashed))
      BY DEF CutInv, Runs
    <2>4. cfg # None /\ ~Cutting => End(Len(jobs)) = Size /\ (cfg.rsync => Len(par.hashed) = Size)
      BY DEF CutInv, Ended
    <2> QED BY <2>2, <2>3, <2>4, Zenon DEF JobsAreInput
  <1> QED BY <1>1, CutInvariance, PTL

-----------------------------------------------------------------------------
(* The space a job's output is given.                                      *)

\* grow's power of two, or 0 when the size is near none.
Halved(f, k) == IF k > 7 THEN 2 * f[k \div 2] ELSE IF k = 7 THEN 8 ELSE 0

LEMMA NearExists ==
    ASSUME NEW n \in Nat
    PROVE  \E f : f = [k \in 0 .. n |-> Halved(f, k)]
  <1> DEFINE S == {i \in Nat : \E f : f = [k \in 0 .. i |-> Halved(f, k)]}
  <1>1. 0 \in S
    <2> DEFINE f == [k \in 0 .. 0 |-> 0]
    <2>1. f = [k \in 0 .. 0 |-> Halved(f, k)]
      BY DEF Halved
    <2> QED BY <2>1
  <1>2. \A i \in Nat : i \in S => i + 1 \in S
    <2> SUFFICES ASSUME NEW i \in Nat, i \in S PROVE i + 1 \in S
      OBVIOUS
    <2>1. PICK f : f = [k \in 0 .. i |-> Halved(f, k)]
      OBVIOUS
    <2> DEFINE g == [k \in 0 .. i + 1 |-> IF k = i + 1 THEN Halved(f, k) ELSE f[k]]
    <2>2. \A k \in 0 .. i + 1 : g[k] = Halved(g, k)
      <3> SUFFICES ASSUME NEW k \in 0 .. i + 1 PROVE g[k] = Halved(g, k)
        OBVIOUS
      <3>1. k > 7 => k \div 2 \in 0 .. i /\ g[k \div 2] = f[k \div 2]
        OBVIOUS
      <3>2. Halved(g, k) = Halved(f, k)
        BY <3>1 DEF Halved
      <3>3. k # i + 1 => f[k] = Halved(f, k)
        <4>1. \A q \in 0 .. i : f[q] = Halved(f, q)
          BY <2>1, Zenon
        <4> QED BY <4>1
      <3> QED BY <3>2, <3>3
    <2>3. g = [k \in 0 .. i + 1 |-> Halved(g, k)]
      BY <2>2
    <2> HIDE DEF g
    <2> QED BY <2>3
  <1> HIDE DEF S
  <1>3. n \in S
    BY <1>1, <1>2, SetInduction
  <1> QED BY <1>3 DEF S

\* A buffer that grows is a quarter larger at least.
LEMMA GrowIs ==
    ASSUME NEW size \in Nat
    PROVE  Grow(size) \in Nat /\ Grow(size) > size /\ Grow(size) - size >= size \div 4
  <1> DEFINE larger == size + size \div 4
             near == CHOOSE f : f = [k \in 0 .. larger |-> Halved(f, k)]
  <1>1. Grow(size) = Max({16, IF near[larger] # 0 THEN near[larger] ELSE larger})
    BY DEF Grow, Halved
  <1>2. larger \in Nat /\ larger >= size /\ (size >= 4 => larger > size)
    OBVIOUS
  <1> HIDE DEF larger
  <1>3. near = [k \in 0 .. larger |-> Halved(near, k)]
    BY <1>2, NearExists, Zenon
  <1> HIDE DEF near
  <1> DEFINE Good(k) == near[k] \in Nat /\ (near[k] = 0 \/ near[k] > k)
             S == {i \in Nat : \A k \in 0 .. i : k <= larger => Good(k)}
  <1>4. \A k \in 0 .. larger : near[k] = Halved(near, k)
    BY <1>3, Zenon
  <1>5. 0 \in S
    <2>1. near[0] = 0
      BY <1>2, <1>4 DEF Halved
    <2> QED BY <2>1
  <1>6. \A i \in Nat : i \in S => i + 1 \in S
    <2> HIDE DEF Good
    <2> SUFFICES ASSUME NEW i \in Nat, \A k \in 0 .. i : k <= larger => Good(k), i + 1 <= larger
                 PROVE  Good(i + 1)
      OBVIOUS
    <2>1. near[i + 1] = Halved(near, i + 1)
      BY <1>2, <1>4
    <2>2. CASE i + 1 > 7
      <3>1. (i + 1) \div 2 \in 0 .. i /\ (i + 1) \div 2 <= larger /\ 2 * ((i + 1) \div 2) + 2 > i + 1
        BY <1>2
      <3>2. Good((i + 1) \div 2)
        BY <3>1
      <3>3. near[i + 1] = 2 * near[(i + 1) \div 2]
        BY <2>1, <2>2 DEF Halved
      <3> QED BY <3>1, <3>2, <3>3 DEF Good
    <2>3. CASE ~(i + 1 > 7)
      BY <2>1, <2>3 DEF Halved, Good
    <2> QED BY <2>2, <2>3
  <1> HIDE DEF S
  <1>7. larger \in S
    BY <1>2, <1>5, <1>6, SetInduction
  <1>8. near[larger] \in Nat /\ (near[larger] = 0 \/ near[larger] > larger)
    BY <1>2, <1>7 DEF S
  <1> DEFINE m == IF near[larger] # 0 THEN near[larger] ELSE larger
  <1>9. m \in Nat /\ m >= larger
    BY <1>2, <1>8
  <1>10. Grow(size) = Max({16, m})
    BY <1>1
  <1> HIDE DEF m
  <1>11. Grow(size) = IF 16 >= m THEN 16 ELSE m
    BY <1>9, <1>10, MaxIs
  <1>12. larger - size = size \div 4
    BY DEF larger
  <1> QED BY <1>2, <1>9, <1>11, <1>12

LEMMA GrownIs ==
    ASSUME NEW out \in Spaces
    PROVE  /\ Grown(out) \in Spaces /\ Grown(out).n = out.n /\ Grown(out).n < Grown(out).size
           /\ Grown(Grown(out)) = Grown(out)
           /\ Grown(out).size >= out.size
           /\ out.n = out.size => Grown(out).size > out.size
                                  /\ Grown(out).size - out.size >= out.size \div 4
  <1>1. out.size \in Nat /\ out.n \in Nat /\ out.n <= out.size /\ out = [size |-> out.size, n |-> out.n]
    BY DEF Spaces
  <1>2. CASE out.size = out.n
    <2> DEFINE g == Grow(out.size)
    <2>1. g \in Nat /\ g > out.size /\ g - out.size >= out.size \div 4
      BY <1>1, GrowIs
    <2>2. Grown(out) = [out EXCEPT !.size = g]
      BY <1>2 DEF Grown
    <2> HIDE DEF g
    <2>3. Grown(out) = [size |-> g, n |-> out.n]
      BY <1>1, <2>2
    <2>4. Grown(out) \in Spaces
      BY <1>1, <2>1, <2>3 DEF Spaces
    <2>5. Grown(Grown(out)) = Grown(out)
      BY <1>1, <1>2, <2>1, <2>3 DEF Grown
    <2> QED BY <1>1, <1>2, <2>1, <2>3, <2>4, <2>5
  <1>3. CASE out.size # out.n
    <2>1. Grown(out) = out
      BY <1>3 DEF Grown
    <2> QED BY <1>1, <1>3, <2>1
  <1> QED BY <1>2, <1>3

\* A call of deflate: the room it has, what it writes and what is then the space
\* and still to write.
RoomOf(s, most) == CallRoom(Grown(s.out), most)
Wrote(s, most)  == Min({RoomOf(s, most), s.owed})
After(s, most)  == [Grown(s.out) EXCEPT !.n = @ + Wrote(s, most)]
Still(s, again, most) == IF Wrote(s, most) = s.owed THEN again ELSE s.owed - Wrote(s, most)
Called(s, again, most) == [out |-> After(s, most), owed |-> Still(s, again, most)]
LastCall(s, most) == Wrote(s, most) < RoomOf(s, most)
Made(f, s, again, most) == IF LastCall(s, most) THEN After(s, most) ELSE f[Called(s, again, most)]
Calls(m) == [out : Spaces, owed : 0 .. m]

LEMMA RoomIs ==
    ASSUME NEW out \in Spaces, NEW most \in Nat
    PROVE  LET g == Grown(out)
           IN  /\ CallRoom(g, most) \in Nat \ {0}
               /\ CallRoom(g, most) <= g.size - g.n
               /\ most = 0 => CallRoom(g, most) = g.size - g.n
               /\ CallRoom(g, most) # g.size - g.n => CallRoom(g, most) = most
  <1> DEFINE g == Grown(out)
  <1>1. g \in Spaces /\ g.n < g.size
    BY GrownIs
  <1> HIDE DEF g
  <1>2. g.n \in Nat /\ g.size \in Nat
    BY <1>1 DEF Spaces
  <1>3. CallRoom(g, most) = IF most # 0 /\ g.size - g.n > most THEN most ELSE g.size - g.n
    BY DEF CallRoom
  <1>4. /\ CallRoom(g, most) \in Nat \ {0}
        /\ CallRoom(g, most) <= g.size - g.n
        /\ most = 0 => CallRoom(g, most) = g.size - g.n
        /\ CallRoom(g, most) # g.size - g.n => CallRoom(g, most) = most
    BY <1>1, <1>2, <1>3
  <1> QED BY <1>4 DEF g

LEMMA CallIs ==
    ASSUME NEW s, NEW m \in Nat, s \in Calls(m), NEW again \in 0 .. m, NEW most \in Nat
    PROVE  /\ RoomOf(s, most) \in Nat \ {0} /\ Wrote(s, most) \in 0 .. s.owed
           /\ Wrote(s, most) <= RoomOf(s, most)
           /\ Wrote(s, most) = IF RoomOf(s, most) <= s.owed THEN RoomOf(s, most) ELSE s.owed
           /\ After(s, most) \in Spaces /\ After(s, most).size = Grown(s.out).size
           /\ After(s, most).n = Grown(s.out).n + Wrote(s, most)
           /\ Called(s, again, most) \in Calls(m)
  <1> DEFINE g == Grown(s.out)
             r == RoomOf(s, most)
             w == Wrote(s, most)
             o == s.owed
  <1>1. s.out \in Spaces /\ o \in 0 .. m
    BY DEF Calls
  <1>2. g \in Spaces /\ g.n < g.size
    BY <1>1, GrownIs
  <1>3. r \in Nat \ {0} /\ r <= g.size - g.n
    BY <1>1, RoomIs DEF RoomOf
  <1>4. w = Min({r, o})
    BY DEF Wrote
  <1> HIDE DEF r, w, o
  <1>5. w = IF r <= o THEN r ELSE o
    BY <1>1, <1>3, <1>4, MinIs
  <1>6. w \in 0 .. o /\ w <= r /\ w \in Nat
    BY <1>1, <1>3, <1>5
  <1>7. After(s, most) = [g EXCEPT !.n = @ + w]
    BY DEF After, w
  <1> HIDE DEF g
  <1>8. g.size \in Nat /\ g.n \in Nat /\ g = [size |-> g.size, n |-> g.n]
    BY <1>2 DEF Spaces
  <1>9. After(s, most) = [size |-> g.size, n |-> g.n + w]
    BY <1>7, <1>8
  <1>10. g.n + w \in Nat /\ g.n + w <= g.size
    BY <1>3, <1>6, <1>8
  <1>11. After(s, most) \in Spaces /\ After(s, most).size = g.size /\ After(s, most).n = g.n + w
    BY <1>8, <1>9, <1>10 DEF Spaces
  <1>12. Still(s, again, most) \in 0 .. m
    <2>1. Still(s, again, most) = IF w = o THEN again ELSE o - w
      BY DEF Still, w, o
    <2> QED BY <1>1, <1>6, <2>1
  <1>13. Called(s, again, most) \in Calls(m)
    BY <1>11, <1>12 DEF Called, Calls
  <1> QED BY <1>3, <1>5, <1>6, <1>11, <1>13 DEF g, r, w, o

\* Calls come to an end: so many bytes are ahead at most.
Weight(size, again) == IF size < 4 * again + 4 THEN (4 * again + 4 - size) * (again + 1) ELSE 0
ToCome(s, again, most) == IF LastCall(s, most) THEN 0 ELSE s.owed + Weight(Grown(s.out).size, again)

LEMMA WeightFalls ==
    \A a, x, y \in Nat : /\ Weight(x, a) \in Nat
                         /\ x <= y => Weight(y, a) <= Weight(x, a)
                         /\ x < y /\ x < 4 * a + 4 => Weight(y, a) + a + 1 <= Weight(x, a)
  <1> SUFFICES ASSUME NEW a \in Nat, NEW x \in Nat, NEW y \in Nat
               PROVE  /\ Weight(x, a) \in Nat
                      /\ x <= y => Weight(y, a) <= Weight(x, a)
                      /\ x < y /\ x < 4 * a + 4 => Weight(y, a) + a + 1 <= Weight(x, a)
    OBVIOUS
  <1> DEFINE K == 4 * a + 4
             b == a + 1
  <1>1. K \in Nat /\ b \in Nat /\ K = 4 * a + 4 /\ b = a + 1
    OBVIOUS
  <1>2. \A z \in Nat : Weight(z, a) = IF z < K THEN (K - z) * b ELSE 0
    BY DEF Weight
  <1> HIDE DEF K, b
  <1>3. \A p, q \in Nat : /\ p * b \in Nat
                          /\ p <= q => p * b <= q * b
                          /\ p < q => p * b + b <= q * b
    <2>1. \A p, d \in Nat : p * b \in Nat /\ d * b \in Nat /\ (p + d) * b = p * b + d * b
      BY <1>1
    <2>2. \A d \in Nat : d >= 1 => d * b >= b
      <3>1. \A e \in Nat : (e + 1) * b = e * b + b /\ e * b \in Nat
        BY <1>1
      <3> SUFFICES ASSUME NEW d \in Nat, d >= 1 PROVE d * b >= b
        OBVIOUS
      <3>2. d - 1 \in Nat /\ (d - 1) + 1 = d
        OBVIOUS
      <3>3. d * b = (d - 1) * b + b /\ (d - 1) * b \in Nat
        BY <3>1, <3>2
      <3> QED BY <1>1, <3>3
    <2> SUFFICES ASSUME NEW p \in Nat, NEW q \in Nat
                 PROVE  /\ p * b \in Nat
                        /\ p <= q => p * b <= q * b
                        /\ p < q => p * b + b <= q * b
      OBVIOUS
    <2>3. p * b \in Nat /\ q * b \in Nat
      BY <1>1
    <2>4. ASSUME p <= q PROVE q - p \in Nat /\ (q - p) * b \in Nat /\ q * b = p * b + (q - p) * b
      <3>1. q - p \in Nat /\ p + (q - p) = q
        BY <2>4
      <3> QED BY <2>1, <3>1
    <2>5. ASSUME p < q PROVE (q - p) * b >= b
      BY <2>2, <2>5
    <2> QED BY <1>1, <2>3, <2>4, <2>5
  <1>4. \A z \in Nat : z < K => K - z \in Nat
    BY <1>1
  <1>5. Weight(x, a) \in Nat
    BY <1>1, <1>2, <1>3, <1>4
  <1>6. Weight(y, a) \in Nat
    BY <1>1, <1>2, <1>3, <1>4
  <1>7. x <= y => Weight(y, a) <= Weight(x, a)
    <2>1. CASE x <= y /\ y < K
      <3>1. K - y \in Nat /\ K - x \in Nat /\ K - y <= K - x /\ x < K
        BY <1>1, <2>1
      <3> QED BY <1>2, <1>3, <2>1, <3>1
    <2>2. CASE ~(y < K)
      BY <1>2, <1>5, <2>2
    <2> QED BY <2>1, <2>2
  <1>8. x < y /\ x < K => Weight(y, a) + b <= Weight(x, a)
    <2>1. CASE x < y /\ y < K
      <3>1. K - y \in Nat /\ K - x \in Nat /\ K - y < K - x /\ x < K
        BY <1>1, <2>1
      <3> QED BY <1>2, <1>3, <2>1, <3>1
    <2>2. CASE x < K /\ ~(y < K)
      <3>1. K - x \in Nat /\ 0 < K - x /\ 0 \in Nat
        BY <1>1, <2>2
      <3>2. 0 * b + b <= (K - x) * b
        BY <1>3, <3>1
      <3>3. 0 * b = 0
        BY <1>1
      <3> QED BY <1>1, <1>2, <2>2, <3>2, <3>3
    <2> QED BY <2>1, <2>2
  <1>9. x < y /\ x < 4 * a + 4 => Weight(y, a) + a + 1 <= Weight(x, a)
    BY <1>1, <1>5, <1>6, <1>8
  <1> QED BY <1>5, <1>7, <1>9

LEMMA ToComeFalls ==
    ASSUME NEW m \in Nat, NEW s, s \in Calls(m), NEW again \in 0 .. m, NEW most \in Nat,
           again = 0 \/ most = 0, ~LastCall(s, most)
    PROVE  /\ ToCome(s, again, most) \in Nat
           /\ ToCome(Called(s, again, most), again, most) \in Nat
           /\ ToCome(Called(s, again, most), again, most) < ToCome(s, again, most)
  <1> DEFINE t  == Called(s, again, most)
             r  == RoomOf(s, most)
             w  == Wrote(s, most)
             o  == s.owed
             p  == t.owed
             zs == Grown(s.out).size
             ys == Grown(s.out).n
             zt == Grown(t.out).size
             ws == Weight(zs, again)
             wt == Weight(zt, again)
  <1>1. t \in Calls(m)
    BY CallIs
  <1>2. s.out \in Spaces /\ t.out \in Spaces /\ o \in 0 .. m /\ p \in 0 .. m /\ t.out = After(s, most)
    BY <1>1 DEF Calls, Called
  <1>3. Grown(s.out) \in Spaces /\ Grown(t.out) \in Spaces
    BY <1>2, GrownIs
  <1>4. zs \in Nat /\ zt \in Nat /\ ys \in Nat
    BY <1>3 DEF Spaces
  <1>5. w = o \/ w < o
    <2>1. w \in 0 .. o
      BY CallIs
    <2> HIDE DEF w, o
    <2> QED BY <1>2, <2>1
  <1>6. r \in Nat \ {0} /\ w \in Nat /\ w = r /\ w <= o
    <2>1. r \in Nat \ {0} /\ w \in 0 .. o /\ w <= r
      BY CallIs
    <2>2. ~(w < r)
      BY DEF LastCall
    <2> QED BY <1>2, <2>1, <2>2
  <1>7. t.out.size = zs /\ t.out.n = ys + w /\ zs <= zt
    <2>1. t.out.size = zs /\ t.out.n = ys + w
      BY <1>2, CallIs
    <2>2. Grown(t.out).size >= t.out.size
      BY <1>2, GrownIs
    <2> HIDE DEF t, zs, ys, w
    <2> QED BY <1>4, <2>1, <2>2 DEF zt
  <1>8. p = IF w = o THEN again ELSE o - w
    BY DEF Called, Still
  <1>9. ToCome(s, again, most) = o + ws
    BY DEF ToCome
  <1>10. ToCome(t, again, most) = IF LastCall(t, most) THEN 0 ELSE p + wt
    BY DEF ToCome
  <1>11. /\ ws \in Nat /\ wt \in Nat /\ wt <= ws
         /\ zs < zt /\ zs < 4 * again + 4 => wt + again + 1 <= ws
    <2>1. again \in Nat
      OBVIOUS
    <2> HIDE DEF zs, zt, t, ys, w
    <2> QED BY <1>4, <1>7, <2>1, WeightFalls
  <1>12. CASE w # o \/ again = 0
    <2>1. p < o
      <3> HIDE DEF p, w, o, r
      <3> QED BY <1>2, <1>5, <1>6, <1>8, <1>12
    <2> HIDE DEF p, w, o, r, ws, wt, t, zs, zt
    <2> QED BY <1>2, <1>9, <1>10, <1>11, <2>1 DEF t
  <1>13. CASE w = o /\ most = 0
    <2>1. r = zs - ys
      BY <1>2, <1>13, RoomIs DEF RoomOf
    <2>2. t.out.n = t.out.size
      <3> HIDE DEF t, r, zs, ys, w
      <3> QED BY <1>4, <1>6, <1>7, <2>1
    <2>3. zt > zs /\ zt - zs >= zs \div 4
      <3>1. zt > t.out.size /\ zt - t.out.size >= t.out.size \div 4
        BY <1>2, <2>2, GrownIs
      <3> HIDE DEF t, zt, zs
      <3> QED BY <1>7, <3>1
    <2>4. CASE zs < 4 * again + 4
      <3> HIDE DEF p, w, o, r, ws, wt, t, zs, zt
      <3>1. wt + again + 1 <= ws
        BY <1>4, <1>11, <2>3, <2>4
      <3>2. p = again
        BY <1>8, <1>13
      <3> QED BY <1>2, <1>6, <1>9, <1>10, <1>11, <3>1, <3>2 DEF t
    <2>5. CASE ~(zs < 4 * again + 4)
      <3>1. RoomOf(t, most) = zt - Grown(t.out).n /\ RoomOf(t, most) \in Nat
        BY <1>2, <1>13, RoomIs DEF RoomOf
      <3>2. Grown(t.out).n = t.out.n
        BY <1>2, GrownIs
      <3>3. Wrote(t, most) <= p
        BY <1>1, CallIs
      <3>4. Wrote(t, most) < RoomOf(t, most)
        <4> DEFINE x == RoomOf(t, most)
                   y == Wrote(t, most)
        <4>1. y \in Nat
          BY <1>1, CallIs
        <4>2. x = zt - zs
          BY <1>7, <2>2, <3>1, <3>2
        <4>3. y <= again
          BY <1>8, <1>13, <3>3
        <4> HIDE DEF x, y, zt, zs, t
        <4>4. zs \div 4 >= again + 1
          BY <1>4, <2>5
        <4>5. y < x
          BY <1>4, <2>3, <4>1, <4>2, <4>3, <4>4
        <4> QED BY <4>5 DEF x, y
      <3>5. ToCome(t, again, most) = 0
        BY <1>10, <3>4 DEF LastCall
      <3> HIDE DEF p, w, o, r, ws, wt, t, zs, zt
      <3> QED BY <1>2, <1>6, <1>9, <1>11, <3>5 DEF t
    <2> QED BY <2>4, <2>5
  <1> QED BY <1>12, <1>13

LEMMA ToComeBounded ==
    ASSUME NEW m \in Nat, NEW again \in 0 .. m, NEW most \in Nat, again = 0 \/ most = 0,
           NEW s, s \in Calls(m)
    PROVE  /\ ToCome(s, again, most) \in Nat
           /\ ToCome(s, again, most) <= m + Weight(0, again)
           /\ ~LastCall(s, most) => ToCome(s, again, most) > 0
  <1>1. s.out \in Spaces /\ s.owed \in 0 .. m /\ again \in Nat
    BY DEF Calls
  <1>2. Grown(s.out) \in Spaces
    BY <1>1, GrownIs
  <1> DEFINE z == Grown(s.out).size
             w == Weight(z, again)
             v == Weight(0, again)
  <1>3. z \in Nat
    BY <1>2 DEF Spaces
  <1>4. ToCome(s, again, most) = IF LastCall(s, most) THEN 0 ELSE s.owed + w
    BY DEF ToCome
  <1> HIDE DEF z
  <1>5. w \in Nat /\ v \in Nat /\ w <= v
    <2>1. 0 \in Nat /\ again \in Nat /\ z \in Nat /\ 0 <= z
      BY <1>1, <1>3
    <2> QED BY <2>1, WeightFalls
  <1> HIDE DEF w, v
  <1>6. ToCome(s, again, most) \in Nat /\ ToCome(s, again, most) <= m + v
    BY <1>1, <1>4, <1>5
  <1>7. ~LastCall(s, most) => ToCome(s, again, most) > 0
    <2> SUFFICES ASSUME ~LastCall(s, most) PROVE ToCome(s, again, most) > 0
      OBVIOUS
    <2> DEFINE x == ToCome(s, again, most)
               y == ToCome(Called(s, again, most), again, most)
    <2>1. x \in Nat /\ y \in Nat /\ y < x
      BY ToComeFalls
    <2> HIDE DEF x, y
    <2>2. x > 0
      BY <2>1
    <2> QED BY <2>2 DEF x
  <1> QED BY <1>6, <1>7 DEF v

Engines(f, m, again, most) == f = [s \in Calls(m) |-> Made(f, s, again, most)]

\* deflate_engine returns.
LEMMA EngineExists ==
    ASSUME NEW m \in Nat, NEW again \in 0 .. m, NEW most \in Nat, again = 0 \/ most = 0
    PROVE  \E f : Engines(f, m, again, most)
  <1> DEFINE Upto(f, i) == \A s \in Calls(m) : ToCome(s, again, most) <= i => f[s] = Made(f, s, again, most)
             S == {i \in Nat : \E f : DOMAIN f = Calls(m) /\ Upto(f, i)}
  <1>1. \A s \in Calls(m) : /\ ToCome(s, again, most) \in Nat
                            /\ ToCome(s, again, most) <= m + Weight(0, again)
                            /\ ~LastCall(s, most) => ToCome(s, again, most) > 0
    BY ToComeBounded
  <1>2. 0 \in S
    <2> DEFINE f == [s \in Calls(m) |-> After(s, most)]
    <2>1. Upto(f, 0)
      <3> SUFFICES ASSUME NEW s \in Calls(m), ToCome(s, again, most) <= 0
                   PROVE  f[s] = Made(f, s, again, most)
        OBVIOUS
      <3>1. LastCall(s, most)
        <4> DEFINE x == ToCome(s, again, most)
        <4>1. x \in Nat /\ (~LastCall(s, most) => x > 0) /\ x <= 0
          BY <1>1
        <4> HIDE DEF x
        <4> QED BY <4>1
      <3> QED BY <3>1 DEF Made
    <2>2. DOMAIN f = Calls(m)
      OBVIOUS
    <2> HIDE DEF f, Upto
    <2> QED BY <2>1, <2>2
  <1>3. \A i \in Nat : i \in S => i + 1 \in S
    <2> SUFFICES ASSUME NEW i \in Nat, i \in S PROVE i + 1 \in S
      OBVIOUS
    <2>1. PICK f : DOMAIN f = Calls(m) /\ Upto(f, i)
      OBVIOUS
    <2> DEFINE g == [s \in Calls(m) |-> Made(f, s, again, most)]
    <2>2. Upto(g, i + 1)
      <3> SUFFICES ASSUME NEW s \in Calls(m), ToCome(s, again, most) <= i + 1
                   PROVE  g[s] = Made(g, s, again, most)
        OBVIOUS
      <3>1. g[s] = Made(f, s, again, most)
        OBVIOUS
      <3>2. CASE LastCall(s, most)
        BY <3>1, <3>2 DEF Made
      <3>3. CASE ~LastCall(s, most)
        <4> DEFINE t == Called(s, again, most)
                   x == ToCome(s, again, most)
                   y == ToCome(t, again, most)
        <4>1. x \in Nat /\ y \in Nat /\ y < x
          BY <3>3, ToComeFalls
        <4>2. t \in Calls(m)
          BY CallIs
        <4>3. y <= i
          <5>1. x <= i + 1
            OBVIOUS
          <5> HIDE DEF x, y
          <5> QED BY <4>1, <5>1
        <4>4. f[t] = Made(f, t, again, most)
          BY <2>1, <4>2, <4>3, Zenon
        <4> HIDE DEF t
        <4>5. g[t] = f[t]
          BY <4>2, <4>4
        <4>6. g[s] = f[t]
          BY <3>1, <3>3 DEF Made, t
        <4>7. Made(g, s, again, most) = g[t]
          <5> HIDE DEF g
          <5> QED BY <3>3 DEF Made, t
        <4> QED BY <4>5, <4>6, <4>7
      <3> QED BY <3>2, <3>3
    <2>3. DOMAIN g = Calls(m)
      OBVIOUS
    <2> HIDE DEF g, Upto
    <2> QED BY <2>2, <2>3
  <1> DEFINE b == m + Weight(0, again)
  <1>4. b \in Nat
    <2>1. again \in Nat /\ 0 \in Nat
      OBVIOUS
    <2>2. Weight(0, again) \in Nat
      BY <2>1, WeightFalls
    <2> QED BY <2>2
  <1> HIDE DEF S, b
  <1>5. b \in S
    BY <1>2, <1>3, <1>4, SetInduction
  <1>6. PICK f : DOMAIN f = Calls(m) /\ Upto(f, b)
    BY <1>5 DEF S
  <1>7. \A s \in Calls(m) : f[s] = Made(f, s, again, most)
    BY <1>1, <1>6 DEF b
  <1>8. PICK g : g = [s \in Calls(m) |-> f[s]]
    OBVIOUS
  <1>9. \A s \in Calls(m) : Made(g, s, again, most) = Made(f, s, again, most)
    <2> SUFFICES ASSUME NEW s \in Calls(m)
                 PROVE  Made(g, s, again, most) = Made(f, s, again, most)
      OBVIOUS
    <2>1. Called(s, again, most) \in Calls(m)
      BY CallIs
    <2>2. g[Called(s, again, most)] = f[Called(s, again, most)]
      BY <1>8, <2>1
    <2> QED BY <2>2 DEF Made
  <1>10. g = [s \in Calls(m) |-> Made(g, s, again, most)]
    BY <1>7, <1>8, <1>9
  <1> QED BY <1>10 DEF Engines

\* What deflate_engine leaves is a space.
LEMMA EngineTyped ==
    ASSUME NEW m \in Nat, NEW again \in 0 .. m, NEW most \in Nat, again = 0 \/ most = 0,
           NEW f, Engines(f, m, again, most)
    PROVE  \A s \in Calls(m) : f[s] \in Spaces /\ f[s] = Made(f, s, again, most)
  <1>1. \A s \in Calls(m) : f[s] = Made(f, s, again, most)
    BY Zenon DEF Engines
  <1> DEFINE S == {i \in Nat : \A s \in Calls(m) : ToCome(s, again, most) <= i => f[s] \in Spaces}
  <1>2. \A s \in Calls(m) : LastCall(s, most) => f[s] \in Spaces
    <2> SUFFICES ASSUME NEW s \in Calls(m), LastCall(s, most) PROVE f[s] \in Spaces
      OBVIOUS
    <2>1. After(s, most) \in Spaces
      BY CallIs
    <2>2. f[s] = After(s, most)
      BY <1>1 DEF Made
    <2> QED BY <2>1, <2>2
  <1>3. \A s \in Calls(m) : /\ ToCome(s, again, most) \in Nat
                            /\ ToCome(s, again, most) <= m + Weight(0, again)
                            /\ ~LastCall(s, most) => ToCome(s, again, most) > 0
    BY ToComeBounded
  <1>4. 0 \in S
    <2> SUFFICES ASSUME NEW s \in Calls(m), ToCome(s, again, most) <= 0, ~LastCall(s, most) PROVE FALSE
      BY <1>2
    <2> DEFINE x == ToCome(s, again, most)
    <2>1. x \in Nat /\ x > 0 /\ x <= 0
      BY <1>3
    <2> HIDE DEF x
    <2> QED BY <2>1
  <1>5. \A i \in Nat : i \in S => i + 1 \in S
    <2> SUFFICES ASSUME NEW i \in Nat, i \in S, NEW s \in Calls(m), ToCome(s, again, most) <= i + 1,
                        ~LastCall(s, most)
                 PROVE  f[s] \in Spaces
      BY <1>2
    <2> DEFINE t == Called(s, again, most)
               x == ToCome(s, again, most)
               y == ToCome(t, again, most)
    <2>1. x \in Nat /\ y \in Nat /\ y < x
      BY ToComeFalls
    <2>2. t \in Calls(m)
      BY CallIs
    <2>3. y <= i
      <3>1. x <= i + 1
        OBVIOUS
      <3> HIDE DEF x, y
      <3> QED BY <2>1, <3>1
    <2>4. f[t] \in Spaces
      BY <2>2, <2>3
    <2>5. f[s] = f[t]
      BY <1>1 DEF Made
    <2> QED BY <2>4, <2>5
  <1> DEFINE b == m + Weight(0, again)
  <1>6. b \in Nat
    <2>1. again \in Nat /\ 0 \in Nat
      OBVIOUS
    <2>2. Weight(0, again) \in Nat
      BY <2>1, WeightFalls
    <2> QED BY <2>2
  <1> HIDE DEF S, b
  <1>7. b \in S
    BY <1>4, <1>5, <1>6, SetInduction
  <1> QED BY <1>1, <1>3, <1>7 DEF S, b

LEMMA EngineIs ==
    ASSUME NEW out \in Spaces, NEW owed \in Nat, NEW again \in Nat, NEW most \in Nat,
           again = 0 \/ most = 0
    PROVE  \E f : LET m == IF owed >= again THEN owed ELSE again
                  IN  /\ Engines(f, m, again, most)
                      /\ Engine(out, owed, again, most) = f[[out |-> out, owed |-> owed]]
  <1> DEFINE m == IF owed >= again THEN owed ELSE again
             f == CHOOSE g : g = [s \in Calls(Max({owed, again})) |-> Made(g, s, again, most)]
  <1>1. Max({owed, again}) = m /\ m \in Nat /\ again \in 0 .. m
    BY MaxIs
  <1>2. Engine(out, owed, again, most) = f[[out |-> out, owed |-> owed]]
    BY DEF Engine, Calls, Made, LastCall, Called, After, Still, Wrote, RoomOf
  <1>3. Engines(f, m, again, most)
    <2>1. \E g : Engines(g, m, again, most)
      <3> HIDE DEF m
      <3> QED BY <1>1, EngineExists
    <2>2. f = CHOOSE g : Engines(g, m, again, most)
      <3> HIDE DEF m
      <3> QED BY <1>1 DEF Engines
    <2> HIDE DEF f, m
    <2> QED BY <2>1, <2>2
  <1> HIDE DEF f
  <1> QED BY <1>2, <1>3

\* A call that is given only a part leaves the rest of what there was to the
\* next.
LEMMA ChunkFirst ==
    ASSUME NEW m \in Nat, NEW s, s \in Calls(m), NEW most \in Nat, ~LastCall(s, most),
           RoomOf(s, most) # RoomOf(s, 0), NEW g
    PROVE  Made(g, Called(s, 0, most), 0, 0) = Made(g, s, 0, 0)
  <1> DEFINE t == Called(s, 0, most)
             c == RoomOf(s, most)
             a == RoomOf(s, 0)
             b == RoomOf(t, 0)
             o == s.owed
             p == t.owed
             w == Wrote(s, 0)
             v == Wrote(t, 0)
             h == Grown(s.out)
             z == h.size
             y == h.n
  <1>1. 0 \in Nat /\ 0 \in 0 .. m
    OBVIOUS
  <1>2. s.out \in Spaces /\ o \in 0 .. m /\ t \in Calls(m)
    BY <1>1, CallIs DEF Calls
  <1>3. h \in Spaces /\ y < z
    BY <1>2, GrownIs
  <1>4. y \in Nat /\ z \in Nat /\ h = [size |-> z, n |-> y]
    <2> HIDE DEF h
    <2> QED BY <1>3 DEF Spaces
  <1>5. a = z - y /\ c \in Nat \ {0} /\ c <= z - y
    <2>1. a = h.size - h.n
      BY <1>1, <1>2, RoomIs DEF RoomOf
    <2>2. c \in Nat \ {0} /\ c <= h.size - h.n
      BY <1>2, RoomIs DEF RoomOf
    <2> QED BY <2>1, <2>2
  <1>6. c # a
    OBVIOUS
  <1>7. Wrote(s, most) = c /\ c <= o
    <2> DEFINE u == Wrote(s, most)
    <2>1. u \in 0 .. o /\ u <= c /\ ~(u < c)
      BY <1>1, CallIs DEF LastCall
    <2> HIDE DEF u, c, o
    <2>2. u = c /\ c <= o
      BY <1>2, <1>5, <2>1
    <2> QED BY <2>2 DEF u
  <1>8. t.out = After(s, most) /\ p = IF c = o THEN 0 ELSE o - c
    BY <1>7 DEF Called, Still
  <1>9. p = o - c
    <2> HIDE DEF c, o, p
    <2> QED BY <1>2, <1>5, <1>8
  <1>10. t.out = [size |-> z, n |-> y + c]
    <2>1. t.out = [h EXCEPT !.n = @ + c]
      BY <1>7, <1>8 DEF After
    <2> HIDE DEF h, c, t
    <2> QED BY <1>4, <2>1
  <1>11. Grown(t.out) = [size |-> z, n |-> y + c]
    <2> HIDE DEF t, c, z, y
    <2>1. z # y + c
      BY <1>4, <1>5, <1>6
    <2> QED BY <1>10, <2>1 DEF Grown
  <1>12. b = z - (y + c)
    <2> HIDE DEF t, c, z, y
    <2>1. b = CallRoom([size |-> z, n |-> y + c], 0)
      BY <1>11 DEF RoomOf
    <2> HIDE DEF b
    <2> QED BY <2>1 DEF CallRoom
  <1>13. w = IF a <= o THEN a ELSE o
    BY <1>1, CallIs
  <1>14. v = IF b <= p THEN b ELSE p
    BY <1>1, <1>2, CallIs
  <1>15. /\ w = v + c /\ (w < a <=> v < b) /\ (w = o <=> v = p) /\ y + w = (y + c) + v
         /\ o - w = p - v
    <2> HIDE DEF a, b, c, o, p, v, w, y, z
    <2> QED BY <1>2, <1>4, <1>5, <1>9, <1>12, <1>13, <1>14
  <1>16. After(s, 0) = [size |-> z, n |-> y + w]
    <2>1. After(s, 0) = [h EXCEPT !.n = @ + w]
      BY DEF After
    <2> HIDE DEF h, w
    <2> QED BY <1>4, <2>1
  <1>17. After(t, 0) = [size |-> z, n |-> (y + c) + v]
    <2>1. After(t, 0) = [Grown(t.out) EXCEPT !.n = @ + v]
      BY DEF After
    <2> HIDE DEF v, t, c, z, y
    <2> QED BY <1>11, <2>1
  <1>18. After(s, 0) = After(t, 0)
    BY <1>15, <1>16, <1>17
  <1>19. Still(s, 0, 0) = Still(t, 0, 0)
    <2>1. Still(s, 0, 0) = IF w = o THEN 0 ELSE o - w
      BY DEF Still
    <2>2. Still(t, 0, 0) = IF v = p THEN 0 ELSE p - v
      BY DEF Still
    <2> HIDE DEF v, w, o, p
    <2> QED BY <1>15, <2>1, <2>2
  <1>20. LastCall(s, 0) <=> LastCall(t, 0)
    BY <1>15 DEF LastCall
  <1>21. Called(s, 0, 0) = Called(t, 0, 0)
    BY <1>18, <1>19 DEF Called
  <1> HIDE DEF t
  <1> QED BY <1>18, <1>20, <1>21 DEF Made, t

\* How much a call may write has no effect on the space that is left.
LEMMA ChunksAlike ==
    ASSUME NEW m \in Nat, NEW most \in Nat,
           NEW f, Engines(f, m, 0, most), NEW g, Engines(g, m, 0, 0)
    PROVE  \A s \in Calls(m) : f[s] = g[s]
  <1>1. 0 \in Nat /\ 0 \in 0 .. m
    OBVIOUS
  <1>2. \A s \in Calls(m) : f[s] = Made(f, s, 0, most)
    BY Zenon DEF Engines
  <1>3. \A s \in Calls(m) : g[s] = Made(g, s, 0, 0)
    BY Zenon DEF Engines
  <1>4. \A s \in Calls(m) : /\ ToCome(s, 0, most) \in Nat
                            /\ ToCome(s, 0, most) <= m + Weight(0, 0)
                            /\ ~LastCall(s, most) => ToCome(s, 0, most) > 0
    BY <1>1, ToComeBounded
  <1>5. ASSUME NEW s \in Calls(m), ~LastCall(s, most) => f[Called(s, 0, most)] = g[Called(s, 0, most)]
        PROVE  f[s] = g[s]
    <2>1. f[s] = Made(f, s, 0, most) /\ g[s] = Made(g, s, 0, 0)
      BY <1>2, <1>3
    <2>2. CASE RoomOf(s, most) = RoomOf(s, 0)
      <3>1. Wrote(s, most) = Wrote(s, 0)
        BY <2>2 DEF Wrote
      <3>2. After(s, most) = After(s, 0) /\ Called(s, 0, most) = Called(s, 0, 0)
            /\ (LastCall(s, most) <=> LastCall(s, 0))
        BY <2>2, <3>1 DEF After, Called, Still, LastCall
      <3>3. Made(f, s, 0, most) = Made(g, s, 0, 0)
        <4> CASE LastCall(s, most)
          BY <3>2 DEF Made
        <4> CASE ~LastCall(s, most)
          BY <1>5, <3>2 DEF Made
        <4> QED OBVIOUS
      <3> QED BY <2>1, <3>3
    <2>3. CASE RoomOf(s, most) # RoomOf(s, 0) /\ LastCall(s, most)
      <3> DEFINE c == RoomOf(s, most)
                 a == RoomOf(s, 0)
                 u == Wrote(s, most)
                 w == Wrote(s, 0)
                 o == s.owed
      <3>1. o \in Nat /\ s.out \in Spaces
        BY DEF Calls
      <3>2. c \in Nat /\ a \in Nat /\ c <= a
        <4>1. a \in Nat /\ a = Grown(s.out).size - Grown(s.out).n
          BY <1>1, <3>1, RoomIs DEF RoomOf
        <4>2. c \in Nat /\ c <= Grown(s.out).size - Grown(s.out).n
          BY <3>1, RoomIs DEF RoomOf
        <4> QED BY <4>1, <4>2
      <3>3. u = IF c <= o THEN c ELSE o
        BY <1>1, CallIs
      <3>4. w = IF a <= o THEN a ELSE o
        BY <1>1, CallIs
      <3>5. u < c
        BY <2>3 DEF LastCall
      <3>6. w = u /\ w < a
        <4> HIDE DEF c, a, u, w, o
        <4> QED BY <3>1, <3>2, <3>3, <3>4, <3>5
      <3>7. After(s, most) = After(s, 0) /\ LastCall(s, 0)
        BY <3>6 DEF After, LastCall
      <3> QED BY <2>1, <2>3, <3>7 DEF Made
    <2>4. CASE RoomOf(s, most) # RoomOf(s, 0) /\ ~LastCall(s, most)
      <3> DEFINE t == Called(s, 0, most)
      <3>1. t \in Calls(m)
        BY <1>1, CallIs
      <3>2. f[s] = f[t]
        BY <2>1, <2>4 DEF Made
      <3>3. g[t] = Made(g, t, 0, 0)
        BY <1>3, <3>1
      <3>4. Made(g, t, 0, 0) = Made(g, s, 0, 0)
        BY <2>4, ChunkFirst
      <3>5. f[t] = g[t]
        BY <1>5, <2>4
      <3> HIDE DEF t
      <3> QED BY <2>1, <3>2, <3>3, <3>4, <3>5
    <2> QED BY <2>2, <2>3, <2>4
  <1> DEFINE S == {i \in Nat : \A s \in Calls(m) : ToCome(s, 0, most) <= i => f[s] = g[s]}
  <1>6. 0 \in S
    <2> SUFFICES ASSUME NEW s \in Calls(m), ToCome(s, 0, most) <= 0 PROVE f[s] = g[s]
      OBVIOUS
    <2> DEFINE x == ToCome(s, 0, most)
    <2>1. x \in Nat /\ (~LastCall(s, most) => x > 0) /\ x <= 0
      BY <1>4
    <2> HIDE DEF x
    <2>2. LastCall(s, most)
      BY <2>1
    <2> QED BY <1>5, <2>2
  <1>7. \A i \in Nat : i \in S => i + 1 \in S
    <2> SUFFICES ASSUME NEW i \in Nat, i \in S, NEW s \in Calls(m), ToCome(s, 0, most) <= i + 1
                 PROVE  f[s] = g[s]
      OBVIOUS
    <2>1. ASSUME ~LastCall(s, most) PROVE f[Called(s, 0, most)] = g[Called(s, 0, most)]
      <3> DEFINE t == Called(s, 0, most)
                 x == ToCome(s, 0, most)
                 y == ToCome(t, 0, most)
      <3>1. x \in Nat /\ y \in Nat /\ y < x
        BY <1>1, <2>1, ToComeFalls
      <3>2. t \in Calls(m)
        BY <1>1, CallIs
      <3>3. y <= i
        <4>1. x <= i + 1
          OBVIOUS
        <4> HIDE DEF x, y
        <4> QED BY <3>1, <4>1
      <3> QED BY <3>2, <3>3
    <2> QED BY <1>5, <2>1
  <1> DEFINE b == m + Weight(0, 0)
  <1>8. b \in Nat
    <2>1. Weight(0, 0) \in Nat
      BY <1>1, WeightFalls
    <2> QED BY <2>1
  <1> HIDE DEF S, b
  <1>9. b \in S
    BY <1>6, <1>7, <1>8, SetInduction
  <1> QED BY <1>4, <1>9 DEF S, b

\* Handed out in chunks or whole, the space comes out the same; and it is one.
LEMMA EngineAlike ==
    ASSUME NEW out \in Spaces, NEW owed \in Nat, NEW most \in Nat
    PROVE  Engine(out, owed, 0, most) = Engine(out, owed, 0, 0)
  <1> DEFINE s == [out |-> out, owed |-> owed]
             m == IF owed >= 0 THEN owed ELSE 0
  <1>1. m = owed /\ 0 \in Nat
    OBVIOUS
  <1> HIDE DEF m
  <1>2. PICK f : Engines(f, m, 0, most) /\ Engine(out, owed, 0, most) = f[s]
    BY <1>1, EngineIs DEF m
  <1>3. PICK g : Engines(g, m, 0, 0) /\ Engine(out, owed, 0, 0) = g[s]
    BY <1>1, EngineIs DEF m
  <1>4. s \in Calls(m)
    BY <1>1 DEF Calls
  <1> HIDE DEF s
  <1>5. f[s] = g[s]
    BY <1>1, <1>2, <1>3, <1>4, ChunksAlike
  <1> QED BY <1>2, <1>3, <1>5

LEMMA EngineSpace ==
    ASSUME NEW out \in Spaces, NEW owed \in Nat, NEW again \in Nat
    PROVE  Engine(out, owed, again, 0) \in Spaces
  <1> DEFINE s == [out |-> out, owed |-> owed]
             m == IF owed >= again THEN owed ELSE again
  <1>1. m \in Nat /\ owed \in 0 .. m /\ again \in 0 .. m /\ 0 \in Nat
    OBVIOUS
  <1>2. PICK f : Engines(f, m, again, 0) /\ Engine(out, owed, again, 0) = f[s]
    BY <1>1, EngineIs
  <1> HIDE DEF m
  <1>3. s \in Calls(m)
    BY <1>1 DEF Calls
  <1> HIDE DEF s
  <1>4. f[s] \in Spaces
    BY <1>1, <1>2, <1>3, EngineTyped
  <1> QED BY <1>2, <1>4

-----------------------------------------------------------------------------
OutInv == streamed = plain /\ (plain = None \/ plain \in Spaces)

LEMMA MarkerIs == \A bits \in Nat : Marker(bits) \in Nat
  BY DEF Marker

LEMMA PrimedIs == ASSUME NEW bits \in 0 .. 7, bits % 2 = 0 PROVE Primed(bits) \div 8 \in Nat
  <1> DEFINE T == {b \in {bits + 10 * k : k \in 0 .. 3} : b % 8 = 0}
             d == IF bits = 0 THEN 0 ELSE IF bits = 2 THEN 32 ELSE IF bits = 4 THEN 24 ELSE 16
  <1>1. bits = 0 \/ bits = 2 \/ bits = 4 \/ bits = 6
    OBVIOUS
  <1>2. \A k \in 0 .. 3 : k = 0 \/ k = 1 \/ k = 2 \/ k = 3
    OBVIOUS
  <1>3. d \in T /\ \A x \in T : d <= x
    BY <1>1, <1>2
  <1>4. \A x \in T : (\A y \in T : x <= y) => x = d
    BY <1>1, <1>2, <1>3
  <1>5. Primed(bits) = d
    <2>1. Primed(bits) = CHOOSE x \in T : \A y \in T : x <= y
      BY DEF Primed, Min
    <2> HIDE DEF T, d
    <2> QED BY <1>3, <1>4, <2>1
  <1>6. d \in Nat
    OBVIOUS
  <1> HIDE DEF d
  <1> QED BY <1>5, <1>6

\* A piece of the job that streams leaves the space the buffered job's leaves.
LEMMA EndPieceAlike ==
    ASSUME NEW out \in Spaces, NEW owed \in Nat, NEW bits \in 0 .. 7
    PROVE  /\ EndPiece(out, owed, bits, 0) \in Spaces
           /\ EndPiece(out, owed, bits, Stream) = EndPiece(out, owed, bits, 0)
  <1> DEFINE ended  == Engine(out, owed, 0, 0)
             marked == Engine(ended, Marker(bits), Marker(0), 0)
             primed == Engine(ended, Primed(bits) \div 8, 0, 0)
             twice  == Engine(marked, Marker(0), Marker(0), 0)
  <1>1. Stream \in Nat /\ 0 \in Nat /\ Marker(bits) \in Nat /\ Marker(0) \in Nat
    BY PiecesAssumption, MarkerIs
  <1>2. ended \in Spaces /\ Engine(out, owed, 0, Stream) = ended
    BY <1>1, EngineSpace, EngineAlike
  <1> HIDE DEF ended
  <1>3. marked \in Spaces
    BY <1>1, <1>2, EngineSpace
  <1>4. twice \in Spaces
    BY <1>1, <1>3, EngineSpace
  <1>5. ASSUME bits % 2 = 0
        PROVE  primed \in Spaces /\ Engine(ended, Primed(bits) \div 8, 0, Stream) = primed
    <2>1. Primed(bits) \div 8 \in Nat
      BY <1>5, PrimedIs
    <2> QED BY <1>1, <1>2, <2>1, EngineSpace, EngineAlike
  <1>6. bits % 2 # 0 \/ bits % 2 = 0
    OBVIOUS
  <1>7. EndPiece(out, owed, bits, 0) = IF ~cfg.setdict THEN twice ELSE IF bits % 2 # 0 THEN marked
                                       ELSE IF bits = 0 THEN ended ELSE primed
    BY DEF EndPiece, ended
  <1>8. EndPiece(out, owed, bits, Stream) = IF ~cfg.setdict THEN twice ELSE IF bits % 2 # 0 THEN marked
                                            ELSE IF bits = 0 THEN ended
                                            ELSE Engine(ended, Primed(bits) \div 8, 0, Stream)
    BY <1>2 DEF EndPiece
  <1> HIDE DEF marked, twice, primed
  <1> QED BY <1>2, <1>3, <1>4, <1>5, <1>6, <1>7, <1>8

LEMMA OutPoolIs == OutPool \in Nat
  BY CutAssumption DEF OutPool

LEMMA OutKept == OutInv /\ [PiecesNext]_<<cutVars, pieceVars>> => OutInv'
  <1> SUFFICES ASSUME OutInv, [PiecesNext]_<<cutVars, pieceVars>> PROVE OutInv'
    OBVIOUS
  <1>1. ASSUME UNCHANGED <<plain, streamed>> PROVE OutInv'
    BY <1>1 DEF OutInv, None
  <1>2. CASE UNCHANGED <<cutVars, pieceVars>>
    BY <1>1, <1>2 DEF pieceVars
  <1>3. CASE CutNext /\ UNCHANGED pieceVars
    BY <1>1, <1>3 DEF pieceVars
  <1>4. CASE StartSingle
    BY <1>1, <1>4 DEF StartSingle
  <1>5. CASE SinglePiece
    BY <1>1, <1>5 DEF SinglePiece
  <1>6. CASE StartOut
    <2>1. plain' = [size |-> OutPool, n |-> 0] /\ streamed' = plain'
      BY <1>6 DEF StartOut
    <2>2. plain' \in Spaces
      BY <2>1, OutPoolIs DEF Spaces
    <2>3. Spaces' = Spaces
      BY DEF Spaces
    <2> QED BY <2>1, <2>2, <2>3 DEF OutInv
  <1>7. CASE CompressPiece
    <2>1. PICK owed \in Amounts, bits \in 0 .. 7 :
             /\ plain # None
             /\ plain' = EndPiece(plain, owed, bits, 0)
             /\ streamed' = EndPiece(streamed, owed, bits, Stream)
      BY <1>7 DEF CompressPiece
    <2>2. owed \in Nat /\ plain \in Spaces /\ streamed = plain
      BY <2>1, PiecesAssumption DEF OutInv
    <2>3. plain' \in Spaces /\ streamed' = plain'
      BY <2>1, <2>2, EndPieceAlike
    <2>4. Spaces' = Spaces
      BY DEF Spaces
    <2> QED BY <2>3, <2>4 DEF OutInv
  <1> QED BY <1>2, <1>3, <1>4, <1>5, <1>6, <1>7 DEF PiecesNext

\* deflate is given the same output space whether the first job streams or not,
\* whatever it writes: the bytes do not depend on it.
THEOREM ChunksLeaveNoTrace == PiecesSpec => []StreamedAsWhole
  <1>1. PiecesInit => OutInv
    BY DEF PiecesInit, OutInv
  <1>2. OutInv => StreamedAsWhole
    BY DEF OutInv, StreamedAsWhole
  <1> QED BY <1>1, <1>2, OutKept, PTL DEF PiecesSpec

-----------------------------------------------------------------------------
(* Where cutJobs ends a piece.                                             *)

\* Bytes behind a and up to b: no hit among them.
Clear(a, b) == \A h \in a + 1 .. b : h \notin cfg.hits

\* e is in order the places of the hits in a space that holds what is behind
\* byte p, of those behind a and up to b.
Rising(e, a, b, p) ==
    /\ e \in Seq(Nat)
    /\ \A k \in 1 .. Len(e) : e[k] \in a + 1 .. b /\ p + e[k] \in cfg.hits
    /\ \A i, k \in 1 .. Len(e) : i < k => e[i] < e[k]
    /\ \A h \in a + 1 .. b : p + h \in cfg.hits => \E k \in 1 .. Len(e) : e[k] = h

LastIn(e) == IF e = <<>> THEN 0 ELSE Last(e)

LEMMA AppendRises ==
    ASSUME NEW e, NEW a \in Nat, NEW b \in Nat, NEW p \in Nat, a <= b, Rising(e, a, b, p),
           p + (b + 1) \in cfg.hits
    PROVE  Rising(Append(e, b + 1), a, b + 1, p)
  <1> DEFINE f == Append(e, b + 1)
             n == Len(e)
  <1>1. /\ e \in Seq(Nat) /\ n \in Nat
        /\ \A k \in 1 .. n : e[k] \in a + 1 .. b /\ p + e[k] \in cfg.hits
        /\ \A i, k \in 1 .. n : i < k => e[i] < e[k]
        /\ \A h \in a + 1 .. b : p + h \in cfg.hits => \E k \in 1 .. n : e[k] = h
    BY DEF Rising
  <1>2. f \in Seq(Nat) /\ Len(f) = n + 1 /\ f[n + 1] = b + 1 /\ \A k \in 1 .. n : f[k] = e[k]
    BY <1>1
  <1> HIDE DEF f, n
  <1>3. \A k \in 1 .. n + 1 : f[k] \in a + 1 .. b + 1 /\ p + f[k] \in cfg.hits
    <2> SUFFICES ASSUME NEW k \in 1 .. n + 1 PROVE f[k] \in a + 1 .. b + 1 /\ p + f[k] \in cfg.hits
      OBVIOUS
    <2>1. CASE k = n + 1
      BY <1>2, <2>1
    <2>2. CASE k # n + 1
      <3>1. k \in 1 .. n
        BY <1>1, <2>2
      <3>2. f[k] \in a + 1 .. b /\ p + f[k] \in cfg.hits
        BY <1>1, <1>2, <3>1
      <3> QED BY <3>2
    <2> QED BY <2>1, <2>2
  <1>4. \A i, k \in 1 .. n + 1 : i < k => f[i] < f[k]
    <2> SUFFICES ASSUME NEW i \in 1 .. n + 1, NEW k \in 1 .. n + 1, i < k PROVE f[i] < f[k]
      OBVIOUS
    <2>1. i \in 1 .. n /\ f[i] = e[i] /\ e[i] \in a + 1 .. b
      BY <1>1, <1>2
    <2>2. CASE k = n + 1
      BY <1>2, <2>1, <2>2
    <2>3. CASE k # n + 1
      <3>1. n \in Nat
        BY <1>1
      <3>2. k \in 1 .. n
        BY <2>3, <3>1
      <3>3. e[i] < e[k] /\ f[k] = e[k]
        BY <1>1, <1>2, <2>1, <3>2
      <3> QED BY <2>1, <3>3
    <2> QED BY <2>2, <2>3
  <1>5. \A h \in a + 1 .. b + 1 : p + h \in cfg.hits => \E k \in 1 .. n + 1 : f[k] = h
    <2> SUFFICES ASSUME NEW h \in a + 1 .. b + 1, p + h \in cfg.hits PROVE \E k \in 1 .. n + 1 : f[k] = h
      OBVIOUS
    <2>1. CASE h = b + 1
      <3>1. n + 1 \in 1 .. n + 1
        BY <1>1
      <3> QED BY <1>2, <2>1, <3>1
    <2>2. CASE h # b + 1
      <3>1. h \in a + 1 .. b
        BY <2>2
      <3>2. PICK k \in 1 .. n : e[k] = h
        BY <1>1, <3>1
      <3>3. n \in Nat /\ f[k] = e[k]
        BY <1>1, <1>2
      <3>4. k \in 1 .. n + 1
        BY <3>3
      <3> QED BY <3>2, <3>3, <3>4
    <2> QED BY <2>1, <2>2
  <1> QED BY <1>2, <1>3, <1>4, <1>5 DEF Rising, f

\* Going on over a byte that is no hit.
LEMMA ClearRises ==
    ASSUME NEW e, NEW a \in Nat, NEW b \in Nat, NEW d \in Nat, NEW p \in Nat, b <= d, a <= b, Rising(e, a, b, p),
           Clear(p + b, p + d)
    PROVE  Rising(e, a, d, p)
  <1>1. \A h \in a + 1 .. d : p + h \in cfg.hits => h \in a + 1 .. b
    <2> SUFFICES ASSUME NEW h \in a + 1 .. d, p + h \in cfg.hits, ~(h <= b) PROVE FALSE
      OBVIOUS
    <2>1. p + h \in p + b + 1 .. p + d
      OBVIOUS
    <2> QED BY <2>1 DEF Clear
  <1>2. \A x : x \in a + 1 .. b => x \in a + 1 .. d
    OBVIOUS
  <1> QED BY <1>1, <1>2 DEF Rising

\* HitsIn finds all hits in a space, and in order.
LEMMA HitsRise ==
    ASSUME NEW space, NEW p \in Nat, NEW n, Runs(space, p + 1, n), NEW from \in Nat, NEW to \in Nat,
           from <= to, to <= n
    PROVE  Rising(HitsIn(space, from, to), from, to, p)
  <1> DEFINE f == CHOOSE g : g = [k \in 0 .. to |-> Scanned(space, from, g, k)]
  <1>1. HitsIn(space, from, to) = f[to]
    BY DEF HitsIn, Scanned
  <1>2. f = [k \in 0 .. to |-> Scanned(space, from, f, k)]
    <2>1. PICK g : ScanOf(g, space, from, to)
      BY ScanExists
    <2>2. \E q : q = [k \in 0 .. to |-> Scanned(space, from, q, k)]
      BY <2>1, Zenon DEF ScanOf
    <2> QED BY <2>2, Zenon
  <1> HIDE DEF f
  <1>3. \A k \in 0 .. to : f[k] = Scanned(space, from, f, k)
    BY <1>2
  <1>4. \A k \in 1 .. n : space[k] = p + k
    <2>1. \A k \in 1 .. n : space[k] = (p + 1) + k - 1
      BY RunIs
    <2> QED BY <2>1
  <1>5. n \in Nat
    BY DEF Runs
  <1>6. \A b \in Nat : Rising(<<>>, b, b, p)
    <2> SUFFICES ASSUME NEW b \in Nat PROVE Rising(<<>>, b, b, p)
      OBVIOUS
    <2>1. ASSUME NEW h \in b + 1 .. b PROVE FALSE
      OBVIOUS
    <2> QED BY <2>1 DEF Rising
  <1> DEFINE Good(k) == IF k <= from THEN f[k] = <<>> ELSE Rising(f[k], from, k, p)
             S == {k \in Nat : k <= to => Good(k)}
  <1>7. 0 \in S
    BY <1>3 DEF Scanned
  <1>8. \A k \in Nat : k \in S => k + 1 \in S
    <2> HIDE DEF Good
    <2> SUFFICES ASSUME NEW k \in Nat, k <= to => Good(k), k + 1 <= to PROVE Good(k + 1)
      OBVIOUS
    <2> USE DEF Good
    <2>1. f[k + 1] = Scanned(space, from, f, k + 1)
      BY <1>3
    <2>2. CASE k + 1 <= from
      BY <2>1, <2>2 DEF Scanned
    <2>3. CASE ~(k + 1 <= from)
      <3>1. Rising(f[k], from, k, p) /\ from <= k
        <4>1. CASE k <= from
          <5>1. k = from /\ f[k] = <<>>
            BY <2>3, <4>1
          <5> QED BY <1>6, <5>1
        <4>2. CASE ~(k <= from)
          BY <4>2
        <4> QED BY <4>1, <4>2
      <3>2. f[k + 1] = IF space[k + 1] \in cfg.hits THEN Append(f[k], k + 1) ELSE f[k]
        BY <2>1, <2>3 DEF Scanned
      <3>3. space[k + 1] = p + (k + 1)
        <4>1. k + 1 \in 1 .. n
          BY <1>5
        <4> QED BY <1>4, <4>1
      <3>4. CASE p + (k + 1) \in cfg.hits
        <4>1. Rising(Append(f[k], k + 1), from, k + 1, p)
          BY <3>1, <3>4, AppendRises
        <4> QED BY <2>3, <3>2, <3>3, <3>4, <4>1
      <3>5. CASE p + (k + 1) \notin cfg.hits
        <4>1. Clear(p + k, p + (k + 1))
          <5> SUFFICES ASSUME NEW h \in p + k + 1 .. p + (k + 1) PROVE h \notin cfg.hits
            BY DEF Clear
          <5>1. h = p + (k + 1)
            OBVIOUS
          <5> QED BY <3>5, <5>1
        <4>2. Rising(f[k], from, k + 1, p)
          <5>1. k <= k + 1 /\ k + 1 \in Nat
            OBVIOUS
          <5> QED BY <3>1, <4>1, <5>1, ClearRises
        <4> QED BY <2>3, <3>2, <3>3, <3>5, <4>2
      <3> QED BY <3>4, <3>5
    <2> QED BY <2>2, <2>3
  <1> HIDE DEF S
  <1>9. to \in S
    BY <1>7, <1>8, SetInduction
  <1>10. IF to <= from THEN f[to] = <<>> ELSE Rising(f[to], from, to, p)
    BY <1>9 DEF S
  <1>11. CASE to = from
    BY <1>1, <1>6, <1>10, <1>11
  <1>12. CASE to # from
    <2>1. ~(to <= from)
      BY <1>12
    <2> QED BY <1>1, <1>10, <2>1
  <1> QED BY <1>11, <1>12

\* The hits of two spaces, one behind the other.
Behind(e, g, c) == e \o [k \in 1 .. Len(g) |-> c + g[k]]

LEMMA BehindIs ==
    ASSUME NEW e \in Seq(Nat), NEW g \in Seq(Nat), NEW c \in Nat
    PROVE  /\ Behind(e, g, c) \in Seq(Nat) /\ Len(Behind(e, g, c)) = Len(e) + Len(g)
           /\ \A k \in 1 .. Len(e) : Behind(e, g, c)[k] = e[k]
           /\ \A k \in 1 .. Len(g) : Behind(e, g, c)[Len(e) + k] = c + g[k]
  <1> DEFINE t == [k \in 1 .. Len(g) |-> c + g[k]]
             f == e \o t
  <1>1. t \in Seq(Nat) /\ Len(t) = Len(g) /\ \A k \in 1 .. Len(g) : t[k] = c + g[k]
    <2>1. \A k \in 1 .. Len(g) : c + g[k] \in Nat
      OBVIOUS
    <2> QED BY <2>1
  <1> HIDE DEF t
  <1>2. /\ f \in Seq(Nat) /\ Len(f) = Len(e) + Len(t)
        /\ \A k \in 1 .. Len(e) + Len(t) : f[k] = IF k <= Len(e) THEN e[k] ELSE t[k - Len(e)]
    <2>1. t \in Seq(Nat) /\ e \in Seq(Nat)
      BY <1>1
    <2> QED BY <2>1, ConcatProperties, Zenon
  <1> HIDE DEF f
  <1>3. \A k \in 1 .. Len(e) : f[k] = e[k]
    BY <1>1, <1>2
  <1>4. \A k \in 1 .. Len(g) : f[Len(e) + k] = c + g[k]
    <2> SUFFICES ASSUME NEW k \in 1 .. Len(g) PROVE f[Len(e) + k] = c + g[k]
      OBVIOUS
    <2>1. Len(e) + k \in 1 .. Len(e) + Len(t) /\ ~(Len(e) + k <= Len(e)) /\ (Len(e) + k) - Len(e) = k
      BY <1>1
    <2>2. f[Len(e) + k] = t[(Len(e) + k) - Len(e)]
      BY <1>2, <2>1
    <2>3. f[Len(e) + k] = t[k]
      BY <2>1, <2>2
    <2> QED BY <1>1, <2>3
  <1> QED BY <1>1, <1>2, <1>3, <1>4 DEF Behind, f, t

LEMMA BehindRises ==
    ASSUME NEW e, NEW g, NEW c \in Nat, NEW z \in Nat, NEW d \in Nat, NEW p \in Nat, z <= d,
           Rising(e, 0, c, p), Rising(g, z, d, p + c), Clear(p + c, p + c + z)
    PROVE  Rising(Behind(e, g, c), 0, c + d, p)
  <1> DEFINE f == Behind(e, g, c)
             m == Len(e)
             n == Len(g)
  <1>1. /\ e \in Seq(Nat) /\ m \in Nat /\ g \in Seq(Nat) /\ n \in Nat
        /\ \A k \in 1 .. m : e[k] \in 0 + 1 .. c /\ p + e[k] \in cfg.hits
        /\ \A i, k \in 1 .. m : i < k => e[i] < e[k]
        /\ \A h \in 0 + 1 .. c : p + h \in cfg.hits => \E k \in 1 .. m : e[k] = h
        /\ \A k \in 1 .. n : g[k] \in z + 1 .. d /\ (p + c) + g[k] \in cfg.hits
        /\ \A i, k \in 1 .. n : i < k => g[i] < g[k]
        /\ \A h \in z + 1 .. d : (p + c) + h \in cfg.hits => \E k \in 1 .. n : g[k] = h
    BY DEF Rising
  <1>2. /\ f \in Seq(Nat) /\ Len(f) = m + n
        /\ \A k \in 1 .. m : f[k] = e[k]
        /\ \A k \in 1 .. n : f[m + k] = c + g[k]
    <2>1. e \in Seq(Nat) /\ g \in Seq(Nat)
      BY <1>1
    <2> QED BY <2>1, BehindIs
  <1> HIDE DEF f, m, n
  <1>3. \A k \in 1 .. m + n : (k \in 1 .. m) \/ (k - m \in 1 .. n /\ k = m + (k - m))
    BY <1>1
  <1>4. \A k \in 1 .. m + n : f[k] \in 0 + 1 .. c + d /\ p + f[k] \in cfg.hits
    <2> SUFFICES ASSUME NEW k \in 1 .. m + n PROVE f[k] \in 0 + 1 .. c + d /\ p + f[k] \in cfg.hits
      OBVIOUS
    <2>1. CASE k \in 1 .. m
      <3>1. f[k] \in 0 + 1 .. c /\ p + f[k] \in cfg.hits
        BY <1>1, <1>2, <2>1
      <3> QED BY <3>1
    <2>2. CASE k - m \in 1 .. n /\ k = m + (k - m)
      <3> DEFINE i == k - m
      <3>1. i \in 1 .. n /\ f[k] = c + g[i]
        BY <1>2, <2>2
      <3> HIDE DEF i
      <3>2. g[i] \in z + 1 .. d /\ (p + c) + g[i] \in cfg.hits
        BY <1>1, <3>1
      <3>3. (p + c) + g[i] = p + (c + g[i]) /\ c + g[i] \in 0 + 1 .. c + d
        BY <3>2
      <3> QED BY <3>1, <3>2, <3>3
    <2> QED BY <1>3, <2>1, <2>2
  <1>5. \A i, k \in 1 .. m + n : i < k => f[i] < f[k]
    <2> SUFFICES ASSUME NEW i \in 1 .. m + n, NEW k \in 1 .. m + n, i < k PROVE f[i] < f[k]
      OBVIOUS
    <2>1. CASE i \in 1 .. m /\ k \in 1 .. m
      BY <1>1, <1>2, <2>1
    <2>2. CASE i \in 1 .. m /\ k - m \in 1 .. n /\ k = m + (k - m)
      <3> DEFINE q == k - m
      <3>1. q \in 1 .. n /\ f[k] = c + g[q] /\ f[i] = e[i]
        BY <1>2, <2>2
      <3> HIDE DEF q
      <3>2. g[q] \in z + 1 .. d /\ e[i] \in 0 + 1 .. c
        BY <1>1, <2>2, <3>1
      <3> QED BY <3>1, <3>2
    <2>3. CASE i - m \in 1 .. n /\ i = m + (i - m) /\ k - m \in 1 .. n /\ k = m + (k - m)
      <3> DEFINE q == k - m
                 r == i - m
      <3>1. q \in 1 .. n /\ f[k] = c + g[q] /\ r \in 1 .. n /\ f[i] = c + g[r] /\ r < q
        <4>1. m + q = k /\ m + r = i /\ q \in 1 .. n /\ r \in 1 .. n
          BY <2>3
        <4>2. f[m + q] = c + g[q] /\ f[m + r] = c + g[r]
          BY <1>2, <4>1
        <4>3. r < q
          BY <1>1
        <4> HIDE DEF q, r
        <4> QED BY <4>1, <4>2, <4>3
      <3> HIDE DEF q, r
      <3>2. g[q] \in z + 1 .. d /\ g[r] \in z + 1 .. d /\ g[r] < g[q]
        BY <1>1, <3>1
      <3> QED BY <3>1, <3>2
    <2>4. ~(i - m \in 1 .. n /\ k \in 1 .. m)
      BY <1>1
    <2> QED BY <1>3, <2>1, <2>2, <2>3, <2>4
  <1>6. \A h \in 0 + 1 .. c + d : p + h \in cfg.hits => \E k \in 1 .. m + n : f[k] = h
    <2> SUFFICES ASSUME NEW h \in 0 + 1 .. c + d, p + h \in cfg.hits
                 PROVE  \E k \in 1 .. m + n : f[k] = h
      OBVIOUS
    <2>1. CASE h <= c
      <3>1. h \in 0 + 1 .. c
        BY <2>1
      <3>2. PICK k \in 1 .. m : e[k] = h
        BY <1>1, <3>1
      <3>3. f[k] = h
        BY <1>2, <3>2
      <3>4. k \in 1 .. m + n
        <4>1. m \in Nat /\ n \in Nat
          BY <1>1
        <4> QED BY <4>1
      <3> QED BY <3>3, <3>4
    <2>2. CASE ~(h <= c)
      <3>1. ~(h - c <= z)
        <4> SUFFICES ASSUME h - c <= z PROVE FALSE
          OBVIOUS
        <4>1. p + h \in p + c + 1 .. p + c + z
          BY <2>2
        <4> QED BY <4>1 DEF Clear
      <3>2. h - c \in z + 1 .. d /\ (p + c) + (h - c) = p + h
        BY <3>1
      <3>3. PICK k \in 1 .. n : g[k] = h - c
        BY <1>1, <3>2
      <3>4. f[m + k] = h
        <4>1. f[m + k] = c + g[k]
          BY <1>2
        <4> QED BY <3>3, <4>1
      <3>5. m + k \in 1 .. m + n
        <4>1. m \in Nat /\ n \in Nat
          BY <1>1
        <4> QED BY <4>1
      <3> QED BY <3>4, <3>5
    <2> QED BY <2>1, <2>2
  <1>7. /\ \A k \in 1 .. Len(f) : f[k] \in 0 + 1 .. c + d /\ p + f[k] \in cfg.hits
        /\ \A i, k \in 1 .. Len(f) : i < k => f[i] < f[k]
        /\ \A h \in 0 + 1 .. c + d : p + h \in cfg.hits => \E k \in 1 .. Len(f) : f[k] = h
    BY <1>2, <1>4, <1>5, <1>6
  <1> QED BY <1>2, <1>7 DEF Rising, f

\* The gaps before the hits of two spaces.
LEMMA GapsBehind ==
    ASSUME NEW e \in Seq(Nat), NEW g \in Seq(Nat), NEW c \in Nat, NEW left \in Int,
           left = c - LastIn(e)
    PROVE  Gaps(Behind(e, g, c), 0) = Gaps(e, 0) \o Gaps(g, -left)
  <1> DEFINE f == Behind(e, g, c)
             m == Len(e)
             n == Len(g)
             l == -left
             x == Gaps(e, 0)
             y == Gaps(g, l)
             u == x \o y
  <1>1. /\ m \in Nat /\ n \in Nat /\ f \in Seq(Nat) /\ Len(f) = m + n
        /\ \A k \in 1 .. m : f[k] = e[k]
        /\ \A k \in 1 .. n : f[m + k] = c + g[k]
    <2>1. m \in Nat /\ n \in Nat
      OBVIOUS
    <2> HIDE DEF f
    <2> QED BY <2>1, BehindIs DEF f
  <1>2. l \in Int /\ 0 \in Int
    OBVIOUS
  <1> HIDE DEF f
  <1>3. /\ x \in Seq(Int) /\ Len(x) = m
        /\ \A k \in 1 .. m : x[k] = e[k] - (IF k = 1 THEN 0 ELSE e[k-1])
    <2>1. x = [k \in 1 .. m |-> e[k] - (IF k = 1 THEN 0 ELSE e[k-1])]
      BY DEF Gaps
    <2>2. x \in Seq(Int)
      BY <1>2, GapsAre
    <2> QED BY <1>1, <2>1, <2>2
  <1>4. /\ y \in Seq(Int) /\ Len(y) = n
        /\ \A k \in 1 .. n : y[k] = g[k] - (IF k = 1 THEN l ELSE g[k-1])
    <2>1. y = [k \in 1 .. n |-> g[k] - (IF k = 1 THEN l ELSE g[k-1])]
      BY DEF Gaps
    <2>2. y \in Seq(Int)
      BY <1>2, GapsAre
    <2> QED BY <1>1, <2>1, <2>2
  <1>5. Gaps(f, 0) = [k \in 1 .. m + n |-> f[k] - (IF k = 1 THEN 0 ELSE f[k-1])]
    <2>1. DOMAIN f = 1 .. m + n
      BY <1>1
    <2> QED BY <2>1 DEF Gaps
  <1>6. LastIn(e) = IF m = 0 THEN 0 ELSE e[m]
    BY EmptySeq DEF LastIn, Last
  <1>61. -left = l /\ l = LastIn(e) - c
    <2>1. LastIn(e) \in Int
      <3>1. m # 0 => e[m] \in Nat
        BY <1>1
      <3> QED BY <1>6, <3>1
    <2> QED BY <2>1
  <1> HIDE DEF x, y, m, n, l
  <1>7. /\ u \in Seq(Int) /\ Len(u) = m + n
        /\ \A k \in 1 .. m + n : u[k] = IF k <= m THEN x[k] ELSE y[k - m]
    <2>1. x \in Seq(Int) /\ y \in Seq(Int)
      BY <1>3, <1>4
    <2>2. /\ u \in Seq(Int) /\ Len(u) = Len(x) + Len(y)
          /\ \A k \in 1 .. Len(x) + Len(y) : u[k] = IF k <= Len(x) THEN x[k] ELSE y[k - Len(x)]
      BY <2>1, ConcatProperties, Zenon
    <2> HIDE DEF u
    <2> QED BY <1>3, <1>4, <2>2
  <1> HIDE DEF u
  <1>8. \A k \in 1 .. m + n : u[k] = f[k] - (IF k = 1 THEN 0 ELSE f[k-1])
    <2> SUFFICES ASSUME NEW k \in 1 .. m + n PROVE u[k] = f[k] - (IF k = 1 THEN 0 ELSE f[k-1])
      OBVIOUS
    <2>1. CASE k <= m
      <3>1. k \in 1 .. m /\ (k # 1 => k - 1 \in 1 .. m)
        BY <1>1, <2>1
      <3>2. f[k] = e[k] /\ (k # 1 => f[k - 1] = e[k - 1])
        BY <1>1, <3>1
      <3>3. u[k] = x[k]
        BY <1>7, <2>1
      <3>4. x[k] = e[k] - (IF k = 1 THEN 0 ELSE e[k-1])
        BY <1>3, <3>1
      <3> QED BY <3>2, <3>3, <3>4
    <2>2. CASE ~(k <= m)
      <3> DEFINE i == k - m
      <3>1. i \in 1 .. n /\ k = m + i
        BY <1>1, <2>2
      <3>2. u[k] = y[i]
        BY <1>7, <2>2
      <3>3. y[i] = g[i] - (IF i = 1 THEN l ELSE g[i-1])
        BY <1>4, <3>1
      <3>4. f[k] = c + g[i] /\ g[i] \in Nat
        <4>1. f[m + i] = c + g[i]
          BY <1>1, <3>1
        <4>2. g[i] \in Nat
          BY <3>1 DEF n
        <4> QED BY <3>1, <4>1, <4>2
      <3>5. CASE i # 1
        <4>1. i - 1 \in 1 .. n /\ k - 1 = m + (i - 1) /\ k # 1
          BY <1>1, <3>1, <3>5
        <4>2. f[m + (i - 1)] = c + g[i - 1]
          BY <1>1, <4>1
        <4>3. g[i - 1] \in Nat
          BY <4>1 DEF n
        <4>4. f[k] = c + g[i] /\ f[k - 1] = c + g[i - 1] /\ u[k] = g[i] - g[i - 1]
          BY <3>2, <3>3, <3>4, <3>5, <4>1, <4>2
        <4>5. \A v, w \in Nat : v - w = (c + v) - (c + w)
          OBVIOUS
        <4> HIDE DEF i
        <4> QED BY <3>4, <4>1, <4>3, <4>4, <4>5
      <3>6. CASE i = 1 /\ m # 0
        <4>1. k # 1 /\ k - 1 = m /\ m \in 1 .. m
          BY <1>1, <3>1, <3>6
        <4>2. f[k - 1] = e[m] /\ l = e[m] - c
          BY <1>1, <1>6, <1>61, <3>6, <4>1
        <4>3. e[m] \in Nat
          BY <4>1 DEF m
        <4>4. u[k] = g[i] - l
          BY <3>2, <3>3, <3>6
        <4> HIDE DEF i
        <4>5. \A a, b \in Nat : (c + a) - b = a - (b - c)
          OBVIOUS
        <4>6. (c + g[i]) - e[m] = g[i] - (e[m] - c)
          BY <3>4, <4>3, <4>5
        <4>7. f[k] - f[k - 1] = g[i] - l
          BY <3>4, <4>2, <4>6, Zenon
        <4> QED BY <4>1, <4>4, <4>7
      <3>7. CASE i = 1 /\ m = 0
        <4>1. k = 1 /\ l = 0 - c
          BY <1>6, <1>61, <3>1, <3>7
        <4> HIDE DEF i
        <4> QED BY <3>2, <3>3, <3>4, <3>7, <4>1
      <3> QED BY <3>5, <3>6, <3>7
    <2> QED BY <2>1, <2>2
  <1>9. u = [k \in 1 .. m + n |-> u[k]]
    BY <1>7
  <1>10. u = Gaps(f, 0)
    BY <1>5, <1>8, <1>9
  <1> QED BY <1>10 DEF u, x, y, f, l

LEMMA NoneRise == \A b \in Nat, p \in Nat : Rising(<<>>, b, b, p)
  <1> SUFFICES ASSUME NEW b \in Nat, NEW p \in Nat PROVE Rising(<<>>, b, b, p)
    OBVIOUS
  <1>1. ASSUME NEW h \in b + 1 .. b PROVE FALSE
    OBVIOUS
  <1> QED BY <1>1 DEF Rising

LEMMA LastRises ==
    ASSUME NEW e, NEW a \in Nat, NEW b \in Nat, NEW p, Rising(e, a, b, p)
    PROVE  /\ e \in Seq(Nat) /\ LastIn(e) \in Nat /\ (e = <<>> <=> Len(e) = 0)
           /\ e = <<>> => LastIn(e) = 0
           /\ e # <<>> => LastIn(e) = e[Len(e)] /\ Len(e) \in 1 .. Len(e) /\ LastIn(e) \in a + 1 .. b
           /\ \A k \in 1 .. Len(e) : e[k] <= LastIn(e)
  <1>1. /\ e \in Seq(Nat)
        /\ \A k \in 1 .. Len(e) : e[k] \in a + 1 .. b
        /\ \A i, k \in 1 .. Len(e) : i < k => e[i] < e[k]
    BY DEF Rising
  <1>2. e = <<>> <=> Len(e) = 0
    BY <1>1, EmptySeq
  <1>3. e # <<>> => LastIn(e) = e[Len(e)] /\ Len(e) \in 1 .. Len(e)
    BY <1>1, <1>2 DEF LastIn, Last
  <1>4. \A k \in 1 .. Len(e) : e[k] <= LastIn(e)
    <2> SUFFICES ASSUME NEW k \in 1 .. Len(e) PROVE e[k] <= LastIn(e)
      OBVIOUS
    <2>1. e # <<>>
      BY <1>1, <1>2
    <2>2. LastIn(e) = e[Len(e)] /\ Len(e) \in 1 .. Len(e)
      BY <1>3, <2>1
    <2>3. CASE k = Len(e)
      BY <1>1, <2>2, <2>3
    <2>4. CASE k # Len(e)
      <3>1. k < Len(e)
        BY <1>1, <2>4
      <3>2. e[k] < e[Len(e)] /\ e[k] \in a + 1 .. b /\ e[Len(e)] \in a + 1 .. b
        BY <1>1, <2>2, <3>1
      <3> QED BY <2>2, <3>2
    <2> QED BY <2>3, <2>4
  <1>5. e # <<>> => LastIn(e) \in a + 1 .. b
    BY <1>1, <1>3
  <1>6. e = <<>> => LastIn(e) = 0
    BY DEF LastIn
  <1> QED BY <1>1, <1>2, <1>3, <1>4, <1>5, <1>6

\* What is clear before the first byte looked at does not matter.
LEMMA LowerRises ==
    ASSUME NEW e, NEW a \in Nat, NEW b \in Nat, NEW p \in Nat, a <= b, Rising(e, a, b, p), Clear(p, p + a)
    PROVE  Rising(e, 0, b, p)
  <1>1. \A h \in 0 + 1 .. b : p + h \in cfg.hits => h \in a + 1 .. b
    <2> SUFFICES ASSUME NEW h \in 0 + 1 .. b, p + h \in cfg.hits, h <= a PROVE FALSE
      OBVIOUS
    <2>1. p + h \in p + 1 .. p + a
      OBVIOUS
    <2> QED BY <2>1 DEF Clear
  <1>2. \A x : x \in a + 1 .. b => x \in 0 + 1 .. b
    OBVIOUS
  <1> QED BY <1>1, <1>2 DEF Rising

\* Behind the last hit all is clear.
LEMMA TopRises ==
    ASSUME NEW e, NEW b \in Nat, NEW d \in Nat, NEW p \in Nat, Rising(e, 0, b, p), LastIn(e) <= d, d <= b
    PROVE  Rising(e, 0, d, p) /\ Clear(p + d, p + b)
  <1>1. /\ e \in Seq(Nat)
        /\ \A k \in 1 .. Len(e) : e[k] \in 0 + 1 .. b /\ p + e[k] \in cfg.hits
        /\ \A i, k \in 1 .. Len(e) : i < k => e[i] < e[k]
        /\ \A h \in 0 + 1 .. b : p + h \in cfg.hits => \E k \in 1 .. Len(e) : e[k] = h
    BY DEF Rising
  <1>2. \A k \in 1 .. Len(e) : e[k] <= d
    <2> SUFFICES ASSUME NEW k \in 1 .. Len(e) PROVE e[k] <= d
      OBVIOUS
    <2>1. e[k] <= LastIn(e) /\ LastIn(e) \in Nat /\ e[k] \in Nat
      BY <1>1, LastRises
    <2> QED BY <2>1
  <1>3. \A k \in 1 .. Len(e) : e[k] \in 0 + 1 .. d
    <2> SUFFICES ASSUME NEW k \in 1 .. Len(e) PROVE e[k] \in 0 + 1 .. d
      OBVIOUS
    <2>1. e[k] <= d /\ e[k] \in 0 + 1 .. b
      BY <1>1, <1>2
    <2> QED BY <2>1
  <1>4. \A h \in 0 + 1 .. d : h \in 0 + 1 .. b
    OBVIOUS
  <1>5. Rising(e, 0, d, p)
    BY <1>1, <1>3, <1>4 DEF Rising
  <1>6. Clear(p + d, p + b)
    <2> SUFFICES ASSUME NEW h \in p + d + 1 .. p + b, h \in cfg.hits PROVE FALSE
      BY DEF Clear
    <2> DEFINE i == h - p
    <2>1. i \in 0 + 1 .. b /\ p + i = h /\ i > d
      OBVIOUS
    <2> HIDE DEF i
    <2>2. PICK k \in 1 .. Len(e) : e[k] = i
      BY <1>1, <2>1
    <2>3. e[k] <= d
      BY <1>2
    <2> QED BY <2>1, <2>2, <2>3
  <1> QED BY <1>5, <1>6

LEMMA ClearPart ==
    ASSUME NEW a \in Nat, NEW b \in Nat, NEW c \in Nat, NEW d \in Nat, a <= c, d <= b, Clear(a, b)
    PROVE  Clear(c, d)
  <1>1. \A h \in c + 1 .. d : h \in a + 1 .. b
    OBVIOUS
  <1> QED BY <1>1 DEF Clear

LEMMA ClearNone == \A a \in Nat : Clear(a, a)
  BY DEF Clear

LEMMA NoGaps == Gaps(<<>>, 0) = <<>>
  <1>1. <<>> \in Seq(Nat) /\ 0 \in Int
    OBVIOUS
  <1> QED BY <1>1, GapsAre

\* Where hits may be: on entering a round, and behind each scan.
EnterHits(s, p) == IF s.left = 0 THEN Clear(p, p + s.scan) ELSE Clear(p, p + Len(s.curr) + s.scan)

CurrHits(s, p) ==
    LET c == Len(s.curr)
    IN  /\ \E e : Rising(e, 0, c, p) /\ s.lens = Gaps(e, 0) /\ s.left = c - LastIn(e)
        /\ Clear(p + c, p + c + s.scan)

BothHits(s, p) ==
    LET c == Len(s.curr)
    IN  /\ \E e : /\ Rising(e, 0, c + s.scan, p) /\ s.lens = Gaps(e, 0)
                  /\ LastIn(e) = IF s.last = 0 THEN c - s.left ELSE c + s.last
        /\ s.scan + c = Block \/ s.scan = Len(s.next)

\* What a job is: it ends with the last hit in it or, without a hit, when it is
\* a block, if not with the input.
JobCut(lens, a, p) ==
    \E e : /\ Rising(e, 0, a, p) /\ lens = Gaps(e, 0)
           /\ p + a = Size \/ (e = <<>> /\ a = Block) \/ (e # <<>> /\ LastIn(e) = a)

KeptClear(v, e) == IF v.hold = <<>> THEN Clear(e, e + v.scan) ELSE Clear(e, e + Len(v.next) + v.scan)

LEMMA ScanCurrHits ==
    ASSUME NEW s, NEW p \in Nat, Entered(s, p), EnterHits(s, p)
    PROVE  CurrHits(ScanCurr(s), p)
  <1> DEFINE t == ScanCurr(s)
             c == Len(s.curr)
             hits == HitsIn(s.curr, s.scan, c)
             left == c - (IF hits = <<>> THEN 0 ELSE Last(hits))
             hashed == s.hashed \o SubSeq(s.curr, s.scan + 1, c)
             z == s.scan
  <1>1. /\ s \in Rounds /\ s.curr \in Seq(Nat) /\ z \in Nat /\ c \in Nat /\ s.lens = <<>>
        /\ Runs(s.curr, p + 1, c)
        /\ \/ s.left = 0 /\ z <= c
           \/ s.left = c
    <2>1. Laid(s, p) /\ s.lens = <<>> /\ ((s.left = 0 /\ s.scan <= Len(s.curr)) \/ s.left = Len(s.curr))
      BY DEF Entered
    <2>2. s \in Rounds /\ Runs(s.curr, p + 1, Len(s.curr))
      BY <2>1 DEF Laid
    <2>3. s.curr \in Seq(Nat) /\ z \in Nat /\ c \in Nat
      BY <2>2 DEF Rounds
    <2> QED BY <2>1, <2>2, <2>3
  <1> HIDE DEF c, z
  <1>2. p + c \in Nat /\ p + z \in Nat /\ p + c + z \in Nat
    BY <1>1
  <1>3. CASE s.left # 0
    <2>1. t = s /\ s.left = c
      BY <1>1, <1>3 DEF ScanCurr
    <2>2. Clear(p, p + c + z)
      BY <1>3 DEF EnterHits, c, z
    <2>3. Clear(p, p + c) /\ Clear(p + c, p + c + z)
      <3>1. p <= p /\ p + c <= p + c + z /\ p <= p + c
        BY <1>1
      <3>2. Clear(p, p + c)
        BY <1>2, <2>2, <3>1, ClearPart
      <3>3. p + c + z <= p + c + z
        BY <1>2
      <3>4. Clear(p + c, p + c + z)
        BY <1>2, <2>2, <3>1, <3>3, ClearPart
      <3> QED BY <3>2, <3>4
    <2>4. Rising(<<>>, 0, c, p)
      <3>1. Rising(<<>>, 0, 0, p) /\ 0 <= c /\ 0 <= 0 /\ p + 0 = p /\ 0 \in Nat
        BY <1>1, NoneRise
      <3>2. Clear(p + 0, p + c)
        BY <2>3, <3>1
      <3> QED BY <1>1, <3>1, <3>2, ClearRises
    <2>5. LastIn(<<>>) = 0 /\ c = c - 0
      BY <1>1 DEF LastIn
    <2>6. Rising(<<>>, 0, c, p) /\ s.lens = Gaps(<<>>, 0) /\ s.left = c - LastIn(<<>>)
      BY <1>1, <2>1, <2>4, <2>5, NoGaps
    <2>7. CurrHits(s, p)
      BY <2>3, <2>6, Zenon DEF CurrHits, c, z
    <2> QED BY <2>1, <2>7
  <1>4. CASE s.left = 0
    <2>1. z <= c
      <3>1. s.left = c => z <= c \/ c = 0
        BY <1>4
      <3>2. c > 0
        <4>1. Len(s.curr) \in 1 .. Block
          BY DEF Entered, Laid
        <4> QED BY <4>1 DEF c
      <3> QED BY <1>1, <1>4, <3>2
    <2>2. Clear(p, p + z)
      BY <1>4 DEF EnterHits, z
    <2>3. Rising(hits, z, c, p)
      <3>1. c <= c
        BY <1>1
      <3> QED BY <1>1, <2>1, <3>1, HitsRise DEF z
    <2>4. Rising(hits, 0, c, p)
      BY <1>1, <2>1, <2>2, <2>3, LowerRises
    <2>5. left = c - LastIn(hits)
      BY DEF LastIn
    <2>6. t = [s EXCEPT !.lens = Gaps(hits, 0), !.scan = 0, !.left = left, !.hashed = hashed]
      BY <1>4 DEF ScanCurr, c, z
    <2> HIDE DEF t, left, hashed, hits
    <2>7. t.curr = s.curr /\ t.lens = Gaps(hits, 0) /\ t.scan = 0 /\ t.left = left
      BY <1>1, <2>6 DEF Rounds
    <2>8. Clear(p + c, p + c + 0)
      <3>1. p + c + 0 = p + c
        BY <1>2
      <3> QED BY <1>2, <3>1, ClearNone
    <2>9. CurrHits(t, p)
      BY <2>4, <2>5, <2>7, <2>8, Zenon DEF CurrHits, c
    <2> QED BY <2>9 DEF t
  <1> QED BY <1>3, <1>4

LEMMA ScanNextHits ==
    ASSUME NEW s, NEW p \in Nat, CurrScanned(s, p), CurrHits(s, p)
    PROVE  BothHits(ScanNext(s), p)
  <1> DEFINE t == ScanNext(s)
             c == Len(s.curr)
             n == Len(s.next)
             z == s.scan
             end == Max({s.scan, Min({Block - c, n})})
             g == HitsIn(s.next, s.scan, end)
             left == IF g = <<>> THEN s.left ELSE 0
             last == IF g = <<>> THEN 0 ELSE Last(g)
             lens == s.lens \o Gaps(g, -s.left)
             hashed == s.hashed \o SubSeq(s.next, s.scan + 1, end)
  <1>0. Laid(s, p) /\ s.last = 0 /\ Ahead(s, p)
    BY DEF CurrScanned
  <1>1. /\ s \in Rounds /\ z \in Nat /\ s.left \in Nat
        /\ c \in Nat /\ n \in Nat /\ Block \in Nat /\ c <= Block /\ z <= n /\ z + c <= Block
        /\ Runs(s.next, p + c + 1, n)
    <2>1. s \in Rounds /\ s.scan \in Nat /\ s.left \in Nat /\ c \in Nat /\ n \in Nat /\ Block \in Nat /\ c <= Block
      BY <1>0, LaidIs
    <2>2. s.scan <= n /\ s.scan + c <= Block
      BY <1>0 DEF Ahead
    <2>3. Runs(s.next, p + c + 1, n)
      BY <1>0 DEF Laid
    <2> QED BY <2>1, <2>2, <2>3
  <1>2. PICK e : Rising(e, 0, c, p) /\ s.lens = Gaps(e, 0) /\ s.left = c - LastIn(e)
    BY DEF CurrHits
  <1>3. Clear(p + c, p + c + z)
    BY DEF CurrHits
  <1> HIDE DEF c, n, z
  <1>4. end \in Nat /\ z <= end /\ end <= n /\ (end + c = Block \/ end = n)
    <2>1. Block - c \in Int /\ n \in Int /\ z \in Int
      BY <1>1
    <2>2. Min({Block - c, n}) = IF Block - c <= n THEN Block - c ELSE n
      BY <2>1, MinIs
    <2>3. Min({Block - c, n}) \in Int
      BY <2>1, <2>2
    <2>4. end = IF z >= Min({Block - c, n}) THEN z ELSE Min({Block - c, n})
      BY <2>1, <2>3, MaxIs DEF z
    <2> HIDE DEF end
    <2> QED BY <1>1, <2>2, <2>4
  <1> HIDE DEF end
  <1>5. Rising(g, z, end, p + c)
    <2>1. p + c \in Nat /\ (p + c) + 1 = p + c + 1
      BY <1>1
    <2> QED BY <1>1, <1>4, <2>1, HitsRise DEF z
  <1>6. t = [s EXCEPT !.lens = lens, !.scan = end, !.left = left, !.last = last, !.hashed = hashed]
    BY DEF ScanNext, end, c, n
  <1> DEFINE f == Behind(e, g, c)
  <1>7. Rising(f, 0, c + end, p)
    <2> HIDE DEF g, f
    <2> QED BY <1>1, <1>2, <1>3, <1>4, <1>5, BehindRises DEF f
  <1>8. e \in Seq(Nat) /\ g \in Seq(Nat) /\ LastIn(e) \in Nat /\ LastIn(e) <= c
    <2>1. e \in Seq(Nat) /\ LastIn(e) \in Nat /\ (e # <<>> => LastIn(e) \in 0 + 1 .. c) /\ (e = <<>> => LastIn(e) = 0)
      BY <1>1, <1>2, LastRises
    <2>2. g \in Seq(Nat)
      BY <1>5 DEF Rising
    <2> HIDE DEF g
    <2> QED BY <1>1, <2>1, <2>2
  <1>9. Gaps(f, 0) = lens
    <2>1. s.left \in Int
      BY <1>1
    <2> HIDE DEF g
    <2>2. Gaps(Behind(e, g, c), 0) = Gaps(e, 0) \o Gaps(g, -s.left)
      BY <1>1, <1>2, <1>8, <2>1, GapsBehind
    <2> QED BY <1>2, <2>2
  <1> HIDE DEF g
  <1>10. LastIn(f) = IF last = 0 THEN c - left ELSE c + last
    <2>1. /\ f \in Seq(Nat) /\ Len(f) = Len(e) + Len(g)
          /\ \A k \in 1 .. Len(e) : f[k] = e[k]
          /\ \A k \in 1 .. Len(g) : f[Len(e) + k] = c + g[k]
      BY <1>1, <1>8, BehindIs
    <2> HIDE DEF f
    <2>2. CASE g = <<>>
      <3>1. Len(g) = 0 /\ Len(e) \in Nat
        BY <1>8, <2>2
      <3>2. Len(f) = Len(e)
        BY <2>1, <3>1
      <3>3. f = e
        <4>1. f = [k \in 1 .. Len(f) |-> f[k]] /\ e = [k \in 1 .. Len(e) |-> e[k]]
          BY <1>8, <2>1
        <4>2. [k \in 1 .. Len(f) |-> f[k]] = [k \in 1 .. Len(e) |-> e[k]]
          BY <2>1, <3>2
        <4> QED BY <4>1, <4>2
      <3>4. last = 0 /\ left = s.left
        BY <2>2
      <3>5. LastIn(e) = c - (c - LastIn(e))
        BY <1>1, <1>8
      <3> QED BY <1>2, <3>3, <3>4, <3>5
    <2>3. CASE g # <<>>
      <3>1. Len(g) \in 1 .. Len(g) /\ LastIn(g) = g[Len(g)] /\ LastIn(g) \in z + 1 .. end
        BY <1>1, <1>4, <1>5, <2>3, LastRises
      <3>2. last = LastIn(g) /\ last # 0
        <4>1. last = LastIn(g)
          BY <2>3 DEF LastIn
        <4> HIDE DEF last
        <4> QED BY <1>1, <3>1, <4>1
      <3>3. f # <<>> /\ Last(f) = f[Len(e) + Len(g)]
        <4>1. Len(f) # 0
          BY <1>8, <2>1, <3>1
        <4> QED BY <2>1, <4>1 DEF Last
      <3>4. f[Len(e) + Len(g)] = c + g[Len(g)]
        BY <2>1, <3>1
      <3>5. LastIn(f) = c + last
        BY <3>1, <3>2, <3>3, <3>4 DEF LastIn
      <3> QED BY <3>2, <3>5
    <2> QED BY <2>2, <2>3
  <1> HIDE DEF t, lens, hashed, left, last, f
  <1>11. /\ t.curr = s.curr /\ t.next = s.next /\ t.lens = lens /\ t.scan = end /\ t.left = left /\ t.last = last
    BY <1>1, <1>6 DEF Rounds
  <1>12. BothHits(t, p)
    BY <1>4, <1>7, <1>9, <1>10, <1>11, Zenon DEF BothHits, c, n
  <1> QED BY <1>12 DEF t

\* What Divide makes of a round.
Take(s) == IF s.lens = <<>> THEN s.scan ELSE s.last
Back(s) == Take(s) = 0 /\ s.lens # <<>> /\ s.left # 0 /\ s.next # <<>>

LEMMA DivideShape ==
    ASSUME NEW s, NEW p \in Nat, BothScanned(s, p)
    PROVE  LET t == Divide(s)
               c == Len(s.curr)
           IN  /\ t.lens = s.lens
               /\ Take(s) > 0 => Len(t.curr) = c + Take(s) /\ t.scan = s.scan - Take(s) /\ t.hold = <<>>
               /\ Back(s) => /\ Len(t.curr) = c - s.left /\ t.scan = s.scan /\ t.hold = s.next
                             /\ Len(t.next) = s.left
               /\ ~(Take(s) > 0) /\ ~Back(s) => t.curr = s.curr /\ t.scan = s.scan /\ t.hold = <<>>
  <1> DEFINE t == Divide(s)
             c == Len(s.curr)
             n == Len(s.next)
             take == Take(s)
             left == s.left
  <1>1. /\ s \in Rounds /\ s.curr \in Seq(Nat) /\ s.next \in Seq(Nat) /\ s.hold = <<>>
        /\ c \in Nat /\ n \in Nat /\ take \in Nat /\ take <= n /\ left \in Nat
        /\ Back(s) => left < c
    <2>1. Laid(s, p) /\ s.hold = <<>> /\ Ahead(s, p) /\ s.last <= s.scan /\ (s.last = 0 => LeftIs(s))
      BY DEF BothScanned
    <2>2. s \in Rounds /\ s.scan \in Nat /\ s.left \in Nat /\ s.last \in Nat /\ c \in Nat /\ n \in Nat
      BY <2>1, LaidIs
    <2>3. s.curr \in Seq(Nat) /\ s.next \in Seq(Nat)
      BY <2>2 DEF Rounds
    <2>4. s.scan <= n
      BY <2>1 DEF Ahead
    <2>5. take \in Nat /\ take <= n
      BY <2>1, <2>2, <2>4 DEF Take
    <2>6. Back(s) => left < c
      BY <2>1 DEF Back, Take, LeftIs
    <2> QED BY <2>1, <2>2, <2>3, <2>5, <2>6
  <1> HIDE DEF c, n, take, t, left
  <1>2. CASE take > 0
    <2> DEFINE new == SubSeq(s.next, 1, take)
               curr == s.curr \o new
               next == SubSeq(s.next, take + 1, n)
               scan == s.scan - take
    <2>1. t = [s EXCEPT !.curr = curr, !.scan = scan, !.left = 0, !.next = next]
      BY <1>2 DEF Divide, t, n, take, Take
    <2>2. Len(new) = take /\ new \in Seq(Nat)
      <3>1. 1 \in Nat /\ take \in 1 .. Len(s.next) /\ s.next \in Seq(Nat)
        BY <1>1, <1>2 DEF n
      <3> QED BY <3>1
    <2> HIDE DEF new
    <2>3. Len(curr) = c + take
      <3>1. s.curr \in Seq(Nat) /\ new \in Seq(Nat)
        BY <1>1, <2>2
      <3>2. Len(curr) = Len(s.curr) + Len(new)
        BY <3>1, ConcatProperties, Zenon
      <3> QED BY <2>2, <3>2 DEF c
    <2> HIDE DEF curr, next, scan
    <2>4. t.curr = curr /\ t.scan = scan /\ t.hold = s.hold /\ t.lens = s.lens
      BY <1>1, <2>1 DEF Rounds
    <2>5. ~Back(s)
      BY <1>1, <1>2 DEF Back, take
    <2> QED BY <1>1, <1>2, <2>3, <2>4, <2>5 DEF t, c, take, scan
  <1>3. CASE Back(s)
    <2> DEFINE next == SubSeq(s.curr, c - left + 1, c)
               curr == SubSeq(s.curr, 1, c - left)
    <2>1. t = [s EXCEPT !.hold = s.next, !.next = next, !.curr = curr]
      BY <1>3 DEF Divide, t, c, Back, Take, left
    <2>2. Len(curr) = c - left /\ Len(next) = left
      <3>1. /\ c - left + 1 \in 1 .. c + 1 /\ c \in Nat /\ c - left \in 0 .. c
            /\ c - (c - left + 1) + 1 = left
        BY <1>1, <1>3
      <3>2. Len(curr) = c - left
        BY <1>1, <3>1 DEF c
      <3>3. Len(next) = c - (c - left + 1) + 1
        BY <1>1, <3>1 DEF c
      <3> QED BY <3>1, <3>2, <3>3
    <2> HIDE DEF curr, next
    <2>3. t.curr = curr /\ t.scan = s.scan /\ t.hold = s.next /\ t.lens = s.lens /\ t.next = next
      BY <1>1, <2>1 DEF Rounds
    <2>4. ~(take > 0)
      BY <1>3 DEF Back, take
    <2> QED BY <1>3, <2>2, <2>3, <2>4 DEF t, c, take, left
  <1>4. CASE ~(take > 0) /\ ~Back(s)
    <2>1. take = 0
      BY <1>1, <1>4
    <2>2. t = [s EXCEPT !.left = 0]
      BY <1>4, <2>1 DEF Divide, t, Back, take, Take
    <2>3. t.curr = s.curr /\ t.scan = s.scan /\ t.hold = s.hold /\ t.lens = s.lens
      BY <1>1, <2>2 DEF Rounds
    <2> QED BY <1>1, <1>4, <2>3 DEF t, take
  <1> QED BY <1>2, <1>3, <1>4 DEF take

\* The job ends with a hit unless there is none, and what is kept of what was
\* hashed is clear.
LEMMA DivideHits ==
    ASSUME NEW s, NEW p \in Nat, NEW r \in Nat, BothScanned(s, p), BothHits(s, p), ReadUpTo(s, p, r)
    PROVE  LET t == Divide(s) IN JobCut(t.lens, Len(t.curr), p) /\ KeptClear(t, p + Len(t.curr))
  <1> DEFINE t == Divide(s)
             c == Len(s.curr)
             n == Len(s.next)
             z == s.scan
             take == Take(s)
             left == s.left
             last == s.last
             a == Len(t.curr)
  <1>1. /\ c \in Nat /\ n \in Nat /\ z \in Nat /\ left \in Nat /\ last \in Nat /\ Block \in Nat
        /\ c > 0 /\ z <= n /\ z + c <= Block /\ last <= z
        /\ z + c = Block \/ z = n
        /\ p + c + n = r /\ (n = Block \/ r = Size)
        /\ last = 0 /\ s.lens # <<>> => left < c
        /\ s.next = <<>> <=> n = 0
    <2>1. Laid(s, p) /\ Ahead(s, p) /\ s.last <= s.scan /\ (s.last = 0 => LeftIs(s))
      BY DEF BothScanned
    <2>2. /\ c \in Nat /\ n \in Nat /\ z \in Nat /\ left \in Nat /\ last \in Nat /\ Block \in Nat /\ c > 0
      BY <2>1, LaidIs
    <2>3. z <= n /\ z + c <= Block
      BY <2>1 DEF Ahead
    <2>4. last = 0 /\ s.lens # <<>> => left < c
      BY <2>1 DEF LeftIs
    <2>5. s.next = <<>> <=> n = 0
      BY <2>1, RunLen DEF Laid
    <2>6. z + c = Block \/ z = n
      BY DEF BothHits
    <2> QED BY <2>1, <2>2, <2>3, <2>4, <2>5, <2>6 DEF ReadUpTo
  <1>2. PICK e : /\ Rising(e, 0, c + z, p) /\ s.lens = Gaps(e, 0)
                 /\ LastIn(e) = IF last = 0 THEN c - left ELSE c + last
    BY DEF BothHits
  <1>3. e \in Seq(Nat) /\ (s.lens = <<>> <=> e = <<>>)
    <2>1. e \in Seq(Nat) /\ 0 \in Int
      BY <1>2 DEF Rising
    <2> QED BY <1>2, <2>1, GapsAre
  <1>4. /\ t.lens = s.lens
        /\ take > 0 => a = c + take /\ t.scan = z - take /\ t.hold = <<>>
        /\ Back(s) => a = c - left /\ t.scan = z /\ t.hold = s.next /\ Len(t.next) = left
        /\ ~(take > 0) /\ ~Back(s) => a = c /\ t.scan = z /\ t.hold = <<>>
    BY DivideShape
  <1>5. take = IF s.lens = <<>> THEN z ELSE last
    BY DEF Take
  <1>6. z = n => r = Size
    <2>1. c \in Nat /\ n \in Nat /\ z \in Nat /\ Block \in Nat /\ c > 0 /\ z + c <= Block
      BY <1>1
    <2> HIDE DEF c, n, z
    <2>2. z = n => n # Block
      BY <2>1
    <2> QED BY <1>1, <2>2 DEF n
  <1> SUFFICES JobCut(t.lens, a, p) /\ KeptClear(t, p + a)
    OBVIOUS
  <1> HIDE DEF t, c, n, z, take, left, last, a
  \* A job that ends with its last hit.
  <1>7. ASSUME NEW d \in Nat, LastIn(e) = d, d <= c + z, e # <<>>, a = d
        PROVE  JobCut(t.lens, a, p) /\ Clear(p + d, p + (c + z))
    <2>1. Rising(e, 0, d, p) /\ Clear(p + d, p + (c + z))
      <3>1. c + z \in Nat /\ LastIn(e) <= d
        BY <1>1, <1>7
      <3> QED BY <1>2, <1>7, <3>1, TopRises
    <2>2. JobCut(t.lens, a, p)
      BY <1>2, <1>4, <1>7, <2>1 DEF JobCut
    <2> QED BY <2>1, <2>2
  \* One that ends with all that was hashed.
  <1>8. ASSUME a = c + z, e = <<>> \/ p + a = Size, z = n \/ z + c = Block
        PROVE  JobCut(t.lens, a, p)
    <2>1. p + a = Size \/ (e = <<>> /\ a = Block)
      BY <1>1, <1>6, <1>8
    <2> QED BY <1>2, <1>4, <1>8, <2>1 DEF JobCut
  <1>9. CASE take > 0
    <2>1. a = c + take /\ t.scan = z - take /\ t.hold = <<>>
      BY <1>4, <1>9
    <2>2. CASE e = <<>>
      <3>1. take = z /\ a = c + z /\ t.scan = 0
        BY <1>1, <1>3, <1>5, <2>1, <2>2
      <3>2. JobCut(t.lens, a, p)
        BY <1>1, <1>8, <2>2, <3>1
      <3>3. p + a \in Nat /\ p + a + t.scan = p + a
        BY <1>1, <3>1
      <3>4. KeptClear(t, p + a)
        BY <2>1, <3>3, ClearNone DEF KeptClear
      <3> QED BY <3>2, <3>4
    <2>3. CASE e # <<>>
      <3>1. take = last /\ last # 0
        BY <1>1, <1>3, <1>5, <1>9, <2>3
      <3>2. LastIn(e) = c + last /\ c + last \in Nat /\ c + last <= c + z /\ a = c + last
        BY <1>1, <1>2, <2>1, <3>1
      <3>3. JobCut(t.lens, a, p) /\ Clear(p + (c + last), p + (c + z))
        BY <1>7, <2>3, <3>2
      <3>4. p + (c + last) = p + a /\ p + a + t.scan = p + (c + z)
        BY <1>1, <2>1, <3>1, <3>2
      <3>5. KeptClear(t, p + a)
        BY <2>1, <3>3, <3>4 DEF KeptClear
      <3> QED BY <3>3, <3>5
    <2> QED BY <2>2, <2>3
  <1>10. CASE Back(s)
    <2>1. last = 0 /\ s.lens # <<>> /\ s.next # <<>> /\ left # 0
      BY <1>5, <1>10 DEF Back, take, left
    <2>2. a = c - left /\ t.scan = z /\ t.hold # <<>> /\ Len(t.next) = left
      BY <1>4, <1>10, <2>1
    <2>3. LastIn(e) = c - left /\ c - left \in Nat /\ c - left <= c + z /\ e # <<>>
      BY <1>1, <1>2, <1>3, <2>1
    <2>4. JobCut(t.lens, a, p) /\ Clear(p + (c - left), p + (c + z))
      BY <1>7, <2>2, <2>3
    <2>5. p + (c - left) = p + a /\ p + a + Len(t.next) + t.scan = p + (c + z)
      BY <1>1, <2>2, <2>3
    <2>6. KeptClear(t, p + a)
      BY <2>2, <2>4, <2>5 DEF KeptClear
    <2> QED BY <2>4, <2>6
  <1>11. CASE ~(take > 0) /\ ~Back(s)
    <2>1. a = c /\ t.scan = z /\ t.hold = <<>> /\ take = 0
      BY <1>1, <1>4, <1>5, <1>11
    <2>2. CASE e = <<>>
      <3>1. z = 0 /\ a = c + z
        BY <1>1, <1>3, <1>5, <2>1, <2>2
      <3>2. JobCut(t.lens, a, p)
        BY <1>1, <1>8, <2>2, <3>1
      <3>3. p + a \in Nat /\ p + a + t.scan = p + a
        BY <1>1, <2>1, <3>1
      <3>4. KeptClear(t, p + a)
        BY <2>1, <3>3, ClearNone DEF KeptClear
      <3> QED BY <3>2, <3>4
    <2>3. CASE e # <<>> /\ left = 0
      <3>1. last = 0
        BY <1>3, <1>5, <2>1, <2>3
      <3>2. LastIn(e) = c /\ c <= c + z
        BY <1>1, <1>2, <2>3, <3>1
      <3>3. JobCut(t.lens, a, p) /\ Clear(p + c, p + (c + z))
        BY <1>1, <1>7, <2>1, <2>3, <3>2
      <3>4. p + a + t.scan = p + (c + z)
        BY <1>1, <2>1
      <3>5. KeptClear(t, p + a)
        BY <2>1, <3>3, <3>4 DEF KeptClear
      <3> QED BY <3>3, <3>5
    <2>4. CASE e # <<>> /\ left # 0
      <3>1. last = 0 /\ s.lens # <<>>
        BY <1>3, <1>5, <2>1, <2>4
      <3>2. s.next = <<>>
        BY <1>5, <1>11, <2>1, <2>4, <3>1 DEF Back, take, left
      <3>3. n = 0 /\ z = 0 /\ a = c + z /\ p + a = Size
        BY <1>1, <1>6, <2>1, <3>2
      <3>4. JobCut(t.lens, a, p)
        BY <1>8, <3>3
      <3>5. p + a \in Nat /\ p + a + t.scan = p + a
        BY <1>1, <2>1, <3>3
      <3>6. KeptClear(t, p + a)
        BY <2>1, <3>5, ClearNone DEF KeptClear
      <3> QED BY <3>4, <3>6
    <2> QED BY <2>2, <2>3, <2>4
  <1> QED BY <1>9, <1>10, <1>11

LEMMA RoundHits ==
    ASSUME NEW s, NEW p \in Nat, NEW r \in Nat, cfg.rsync = TRUE, Entered(s, p), EnterHits(s, p), ReadUpTo(s, p, r)
    PROVE  LET t == Divide(ScanNext(ScanCurr(s)))
           IN  JobCut(t.lens, Len(t.curr), p) /\ KeptClear(t, p + Len(t.curr))
  <1> DEFINE t == ScanCurr(s)
             u == ScanNext(t)
  <1>1. CurrScanned(t, p) /\ t.curr = s.curr /\ t.next = s.next
    BY ScanCurrIs
  <1>2. CurrHits(t, p)
    BY ScanCurrHits
  <1> HIDE DEF t
  <1>3. BothScanned(u, p) /\ u.curr = t.curr /\ u.next = t.next
    BY <1>1, ScanNextIs
  <1>4. BothHits(u, p)
    BY <1>1, <1>2, ScanNextHits
  <1> HIDE DEF u
  <1>5. ReadUpTo(u, p, r)
    BY <1>1, <1>3 DEF ReadUpTo
  <1>6. JobCut(Divide(u).lens, Len(Divide(u).curr), p) /\ KeptClear(Divide(u), p + Len(Divide(u).curr))
    BY <1>3, <1>4, <1>5, DivideHits
  <1> QED BY <1>6 DEF t, u

\* The jobs end where they should, and what is kept is clear of hits as far as
\* the hash has been; without --rsyncable next is a block until the end.
HitsKept == /\ KeptClear(par, Ended)
            /\ ~cfg.rsync => Len(par.next) = Block \/ par.read = Size
HitInv ==
    /\ cfg # None /\ ~cfg.rsync => cfg.hits = {}
    /\ \A k \in 1 .. Len(jobs) : /\ JobCut(jobs[k].lens, Len(jobs[k].curr), End(k - 1))
                                 /\ k < Len(jobs) => jobs[k].more
                                 /\ End(k) = End(k - 1) + Len(jobs[k].curr) /\ End(k) <= Size
                                 /\ jobs[k].more <=> End(k) # Size
    /\ Cutting => HitsKept

LEMMA HitInitHolds == CutInit => HitInv
  <1> SUFFICES ASSUME CutInit PROVE HitInv
    OBVIOUS
  <1>1. cfg = None /\ Len(jobs) = 0
    BY DEF CutInit
  <1>2. ~Cutting
    BY <1>1 DEF Cutting
  <1> QED BY <1>1, <1>2 DEF HitInv

LEMMA BeginHits == CutInv /\ Begin => HitInv'
  <1> SUFFICES ASSUME CutInv, Begin PROVE HitInv'
    OBVIOUS
  <1>1. cfg = None /\ jobs' = jobs
    BY DEF Begin
  <1>2. jobs = <<>>
    BY <1>1 DEF CutInv, CutTypeOK
  <1>3. PICK n \in 0 .. Longest, rsync \in BOOLEAN, setdict \in BOOLEAN :
            \E hits \in SUBSET (1 .. n) :
               /\ \A i, k \in hits : i < k => k - i >= MinGap
               /\ ~rsync => hits = {}
               /\ cfg' = [chosen |-> TRUE, size |-> n, hits |-> hits, rsync |-> rsync,
                          setdict |-> setdict]
               /\ par' = [next |-> Bytes(1, Min({Block, n})), read |-> Min({Block, n}),
                          hold |-> <<>>, scan |-> 0, left |-> 0, dict |-> <<>>, hashed |-> <<>>]
    BY Zenon DEF Begin
  <1>4. PICK hits \in SUBSET (1 .. n) :
           /\ ~rsync => hits = {}
           /\ cfg' = [chosen |-> TRUE, size |-> n, hits |-> hits, rsync |-> rsync, setdict |-> setdict]
           /\ par' = [next |-> Bytes(1, Min({Block, n})), read |-> Min({Block, n}),
                      hold |-> <<>>, scan |-> 0, left |-> 0, dict |-> <<>>, hashed |-> <<>>]
    BY <1>3, Zenon
  <1> DEFINE m == Min({Block, n})
  <1>5. Block \in Nat /\ n \in Nat /\ m \in Nat /\ (m = Block \/ m = n)
    <2>1. Block \in Nat /\ n \in Nat
      BY CutAssumption
    <2>2. m = IF Block <= n THEN Block ELSE n
      <3>1. Block \in Int /\ n \in Int
        BY <2>1
      <3> QED BY <3>1, MinIs
    <2> HIDE DEF m
    <2> QED BY <2>1, <2>2
  <1> HIDE DEF m
  <1>6. /\ cfg'.hits = hits /\ (cfg'.rsync <=> rsync) /\ cfg'.size = n
        /\ par'.next = Bytes(1, m) /\ par'.read = m /\ par'.hold = <<>> /\ par'.scan = 0
    BY <1>4 DEF m
  <1>7. Runs(par'.next, 1, m)
    BY <1>5, <1>6 DEF Runs
  <1>8. Len(par'.next) = m
    BY <1>7, RunLen
  <1>9. Len(jobs') = 0 /\ Ended' = 0 /\ Size' = n
    BY <1>1, <1>2, <1>6 DEF Ended, End, Size
  <1>10. KeptClear(par, Ended)'
    <2>1. \A h \in 0 + 1 .. 0 + 0 : h \notin cfg'.hits
      OBVIOUS
    <2> QED BY <1>6, <1>9, <2>1 DEF KeptClear, Clear
  <1>11. HitsKept'
    BY <1>5, <1>6, <1>8, <1>9, <1>10 DEF HitsKept
  <1> QED BY <1>4, <1>6, <1>9, <1>11 DEF HitInv

\* What a round leaves, with and without --rsyncable.
LEMMA LeavingHits ==
    ASSUME CutInv, HitInv, Cutting
    PROVE  /\ JobCut(Leaving.lens, Len(Leaving.curr), Ended)
           /\ Leaving.next # <<>> => /\ KeptClear(Leaving, Ended + Len(Leaving.curr))
                                     /\ ~cfg.rsync => Len(Leaving.next) = Block \/ ReadTo = Size
  <1> DEFINE s == Entering
             p == Ended
             r == ReadTo
             c == Len(s.curr)
  <1>1. /\ p \in Nat /\ r \in Nat /\ r <= Size /\ Size \in Nat
        /\ Runs(s.curr, p + 1, c) /\ Len(s.next) \in Nat /\ c \in Nat
        /\ p + c + Len(s.next) = r
        /\ Len(s.next) = Block \/ r = Size
        /\ r = Size \/ s.next # <<>>
        /\ s.next = <<>> <=> Len(s.next) = 0
        /\ s.curr = <<>> <=> c = 0
        /\ s.curr = <<>> => Size = 0
        /\ s.hold = <<>> /\ s.lens = <<>>
        /\ ~cfg.rsync => FreshRound /\ s.scan = 0
        /\ FreshRound => s.left = 0 /\ s.scan <= c
        /\ ~FreshRound => c > 0 /\ s.left = c
        /\ s.scan \in Nat
    <2>1. Starts(s, p, r)
      BY EnteringIs
    <2>2. Runs(s.curr, p + 1, c) /\ Runs(s.next, p + c + 1, Len(s.next))
      BY <2>1 DEF Starts
    <2>3. Len(s.next) \in Nat /\ c \in Nat
      BY <2>2 DEF Runs
    <2>4. s.next = <<>> <=> Len(s.next) = 0
      BY <2>2, RunLen
    <2>5. s.curr = <<>> <=> c = 0
      BY <2>2, RunLen
    <2> QED BY <2>1, <2>2, <2>3, <2>4, <2>5, Zenon DEF Starts
  <1>2. cfg.rsync \in BOOLEAN /\ cfg # None
    BY DEF CutInv, CutTypeOK, Cutting
  <1>3. HitsKept /\ (~cfg.rsync => cfg.hits = {})
    BY <1>2 DEF HitInv
  <1>4. s.curr = par.next /\ s.scan = par.scan
    BY DEF Entering
  <1> HIDE DEF s, p, r
  <1>5. CASE cfg.rsync = TRUE /\ s.curr # <<>>
    <2>1. Leaving = Divide(ScanNext(ScanCurr(s)))
      BY <1>5 DEF Leaving, s
    <2>2. Entered(s, p) /\ p \in Nat /\ r \in Nat /\ ReadUpTo(s, p, r)
      BY <1>5, EnteredIs DEF s, p, r
    <2>3. EnterHits(s, p)
      <3>1. KeptClear(par, p)
        BY <1>3 DEF HitsKept, p
      <3>2. CASE FreshRound
        <4>1. Clear(p, p + s.scan)
          BY <1>4, <3>1, <3>2 DEF KeptClear, FreshRound
        <4> QED BY <1>1, <3>2, <4>1 DEF EnterHits
      <3>3. CASE ~FreshRound
        <4>1. Clear(p, p + c + s.scan)
          BY <1>4, <3>1, <3>3 DEF KeptClear, FreshRound
        <4>2. s.left # 0
          <5>1. s.left = c /\ c > 0
            BY <1>1, <3>3
          <5> HIDE DEF c
          <5> QED BY <5>1
        <4> QED BY <4>1, <4>2 DEF EnterHits
      <3> QED BY <3>2, <3>3
    <2>4. /\ JobCut(Leaving.lens, Len(Leaving.curr), p)
          /\ KeptClear(Leaving, p + Len(Leaving.curr))
      BY <1>5, <2>1, <2>2, <2>3, RoundHits
    <2> QED BY <1>5, <2>4 DEF p
  <1>6. CASE ~(cfg.rsync = TRUE /\ s.curr # <<>>)
    <2>1. Leaving = s
      BY <1>2, <1>6 DEF Leaving, s
    <2>2. s.scan = 0
      <3>1. cfg.rsync = FALSE \/ s.curr = <<>>
        BY <1>2, <1>6
      <3>2. CASE s.curr = <<>>
        <4>1. c = 0 /\ s.scan <= c
          BY <1>1, <3>2
        <4> HIDE DEF c
        <4> QED BY <1>1, <4>1
      <3> QED BY <1>1, <3>1, <3>2
    <2>3. p + c = Size \/ c = Block
      <3> DEFINE n == Len(s.next)
      <3>1. CASE s.curr = <<>>
        <4>1. c = 0 /\ Size = 0 /\ p + c + n = r
          BY <1>1, <3>1
        <4>2. p \in Nat /\ c \in Nat /\ n \in Nat /\ r <= Size
          BY <1>1
        <4> HIDE DEF c, n
        <4> QED BY <4>1, <4>2
      <3>2. CASE s.curr # <<>>
        <4>1. cfg.rsync = FALSE
          BY <1>2, <1>6, <3>2
        <4>2. c = Block \/ par.read = Size
          BY <1>3, <1>4, <4>1 DEF HitsKept
        <4>3. par.read = Size => p + c = Size
          <5>1. Held(par, p, par.read)
            BY DEF CutInv, Entry, p
          <5>2. p + c + Len(par.hold) = par.read /\ Len(par.hold) = 0
            BY <1>4, <4>1, <5>1 DEF Held
          <5>3. p + c + 0 = p + c
            <6>1. p \in Nat /\ c \in Nat
              BY <1>1
            <6> HIDE DEF c
            <6> QED BY <6>1
          <5> QED BY <5>2, <5>3
        <4> QED BY <4>2, <4>3
      <3> QED BY <3>1, <3>2
    <2>4. Rising(<<>>, 0, c, p)
      <3>1. Rising(<<>>, 0, 0, p) /\ 0 \in Nat
        BY <1>1, NoneRise
      <3>2. Clear(p + 0, p + c)
        <4>1. CASE s.curr = <<>>
          <5>1. p + 0 = p /\ p + c = p
            <6>1. c = 0 /\ p \in Nat
              BY <1>1, <4>1
            <6> HIDE DEF c
            <6> QED BY <6>1
          <5> QED BY <1>1, <5>1, ClearNone
        <4>2. CASE s.curr # <<>>
          <5>1. cfg.hits = {}
            BY <1>2, <1>3, <1>6, <4>2
          <5> QED BY <5>1 DEF Clear
        <4> QED BY <4>1, <4>2
      <3>3. 0 <= c /\ 0 <= 0
        BY <1>1
      <3> QED BY <1>1, <3>1, <3>2, <3>3, ClearRises
    <2>5. JobCut(s.lens, c, p)
      BY <1>1, <2>3, <2>4, NoGaps DEF JobCut
    <2>6. KeptClear(s, p + c)
      <3>1. p + c \in Nat /\ p + c + s.scan = p + c
        <4>1. p \in Nat /\ c \in Nat
          BY <1>1
        <4> HIDE DEF c
        <4> QED BY <2>2, <4>1
      <3> QED BY <1>1, <3>1, ClearNone DEF KeptClear
    <2> QED BY <1>1, <2>1, <2>5, <2>6 DEF p, r
  <1> QED BY <1>5, <1>6

LEMMA CutJobHits == CutInv /\ HitInv /\ CutJob => HitInv'
  <1> SUFFICES ASSUME CutInv, HitInv, CutJob PROVE HitInv'
    OBVIOUS
  <1> DEFINE s == Leaving
             p == Ended
             r == ReadTo
             c == Len(s.curr)
             j == Len(jobs)
  <1>1. /\ Cutting /\ cfg' = cfg /\ cfg # None /\ Size' = Size
        /\ Len(jobs') = j + 1 /\ j \in Nat /\ jobs' # <<>>
        /\ \A k \in 1 .. j : jobs'[k] = jobs[k]
        /\ jobs'[j + 1] = Emitted
        /\ \A k \in 0 .. j : End(k)' = End(k)
        /\ par'.next = s.next /\ par'.hold = s.hold /\ par'.scan = s.scan /\ par'.read = r
        /\ Ended' = p + c
        /\ Cutting' <=> s.next # <<>>
    BY CutJobIs
  <1>2. /\ JobCut(s.lens, c, p)
        /\ s.next # <<>> => KeptClear(s, p + c) /\ (~cfg.rsync => Len(s.next) = Block \/ r = Size)
    BY <1>1, LeavingHits
  <1>3. /\ p \in Nat /\ c \in Nat /\ Size \in Nat /\ r <= Size /\ r \in Nat /\ p + c <= r
        /\ Held(s, p + c, r)
        /\ s.next = <<>> => s.hold = <<>> /\ r = Size
    BY <1>1, LeftBehind
  <1>4. Emitted.curr = s.curr /\ Emitted.lens = s.lens /\ (Emitted.more <=> s.next # <<>>)
    BY DEF Emitted
  <1>5. /\ \A k \in 1 .. j : /\ JobCut(jobs[k].lens, Len(jobs[k].curr), End(k - 1))
                             /\ k < j => jobs[k].more
                             /\ End(k) = End(k - 1) + Len(jobs[k].curr) /\ End(k) <= Size
                             /\ jobs[k].more <=> End(k) # Size
        /\ ~cfg.rsync => cfg.hits = {}
    BY <1>1 DEF HitInv
  <1>6. s.next # <<>> <=> p + c # Size
    <2> DEFINE n == Len(s.next)
               m == Len(s.hold)
    <2>1. /\ n \in Nat /\ m \in Nat /\ p + c + n + m = r /\ (s.next = <<>> <=> n = 0) /\ (s.hold = <<>> <=> m = 0)
      <3>1. Runs(s.next, p + c + 1, n) /\ Runs(s.hold, p + c + n + 1, m) /\ p + c + n + m = r
        BY <1>3 DEF Held
      <3>2. n \in Nat /\ m \in Nat
        BY <3>1 DEF Runs
      <3>3. s.next = <<>> <=> n = 0
        BY <3>1, RunLen
      <3>4. s.hold = <<>> <=> m = 0
        BY <3>1, RunLen
      <3> QED BY <3>1, <3>2, <3>3, <3>4
    <2> HIDE DEF n, m, s, p, r, c
    <2>2. CASE s.next = <<>>
      <3>1. n = 0 /\ m = 0 /\ r = Size
        BY <1>3, <2>1, <2>2
      <3> QED BY <1>3, <2>1, <2>2, <3>1
    <2>3. CASE s.next # <<>>
      <3>1. n # 0 /\ p + c # r
        BY <1>3, <2>1, <2>3
      <3> QED BY <1>3, <2>1, <2>3, <3>1
    <2> QED BY <2>2, <2>3
  <1>7. j # 0 => jobs[j].more
    <2>1. j # 0 => Last(jobs) = jobs[j] /\ jobs # <<>>
      BY DEF Last
    <2> QED BY <1>1, <2>1 DEF Cutting
  <1>8. End(j) = p /\ \A k : k = j + 1 => End(k)' = p + c
    <2>1. End(j) = p
      BY DEF Ended
    <2>2. \A k : k = j + 1 => End(k)' = Ended'
      BY <1>1 DEF Ended, End
    <2> QED BY <1>1, <2>1, <2>2
  <1> HIDE DEF s, p, r, c, j
  <1>9. \A k \in 1 .. Len(jobs') : /\ JobCut(jobs[k].lens, Len(jobs[k].curr), End(k - 1))'
                                   /\ k < Len(jobs') => jobs'[k].more
                                   /\ End(k)' = End(k - 1)' + Len(jobs'[k].curr) /\ End(k)' <= Size'
                                   /\ jobs'[k].more <=> End(k)' # Size'
    <2> SUFFICES ASSUME NEW k \in 1 .. j + 1
                 PROVE /\ JobCut(jobs[k].lens, Len(jobs[k].curr), End(k - 1))'
                       /\ k < j + 1 => jobs'[k].more
                       /\ End(k)' = End(k - 1)' + Len(jobs'[k].curr) /\ End(k)' <= Size'
                       /\ jobs'[k].more <=> End(k)' # Size'
      BY <1>1
    <2>1. CASE k \in 1 .. j
      <3>1. k \in 0 .. j /\ k - 1 \in 0 .. j
        BY <1>1, <2>1
      <3>2. jobs'[k] = jobs[k] /\ End(k)' = End(k) /\ End(k - 1)' = End(k - 1)
        BY <1>1, <2>1, <3>1
      <3>3. jobs[k].more
        <4>1. k = j \/ k < j
          BY <1>1, <2>1
        <4>2. j # 0
          BY <1>1, <2>1
        <4> QED BY <1>5, <1>7, <2>1, <4>1, <4>2
      <3>4. JobCut(jobs[k].lens, Len(jobs[k].curr), End(k - 1))'
        <4>1. JobCut(jobs[k].lens, Len(jobs[k].curr), End(k - 1))
          BY <1>5, <2>1
        <4> QED BY <1>1, <3>2, <4>1 DEF JobCut, Rising
      <3> QED BY <1>1, <1>5, <2>1, <3>2, <3>3, <3>4
    <2>2. CASE k = j + 1
      <3>1. jobs'[k] = Emitted /\ k - 1 = j /\ j \in 0 .. j
        BY <1>1, <2>2
      <3>2. End(k - 1)' = p /\ End(k)' = p + c /\ Len(jobs'[k].curr) = c /\ jobs'[k].lens = s.lens
        BY <1>1, <1>4, <1>8, <2>2, <3>1 DEF c
      <3>3. JobCut(jobs[k].lens, Len(jobs[k].curr), End(k - 1))'
        BY <1>1, <1>2, <3>2 DEF JobCut, Rising
      <3>4. p + c <= Size
        BY <1>3
      <3>5. ~(k < j + 1)
        BY <1>1, <2>2
      <3> QED BY <1>1, <1>4, <1>6, <3>1, <3>2, <3>3, <3>4, <3>5
    <2> QED BY <1>1, <2>1, <2>2
  <1>10. Cutting' => HitsKept'
    <2> SUFFICES ASSUME s.next # <<>> PROVE HitsKept'
      BY <1>1
    <2>1. KeptClear(s, p + c) /\ (~cfg.rsync => Len(s.next) = Block \/ r = Size)
      BY <1>2
    <2>2. KeptClear(par, Ended)'
      BY <1>1, <2>1 DEF KeptClear, Clear
    <2> QED BY <1>1, <2>1, <2>2 DEF HitsKept
  <1> QED BY <1>1, <1>5, <1>9, <1>10 DEF HitInv

LEMMA StutterHits == HitInv /\ UNCHANGED cutVars => HitInv'
  <1> SUFFICES ASSUME HitInv, cfg' = cfg /\ par' = par /\ jobs' = jobs PROVE HitInv'
    BY DEF cutVars
  <1>1. Size' = Size /\ (Cutting' <=> Cutting) /\ Ended' = Ended /\ \A k : End(k)' = End(k)
    BY DEF Size, Cutting, Ended, End
  <1>2. HitsKept' <=> HitsKept
    BY <1>1 DEF HitsKept, KeptClear, Clear
  <1>3. \A k : JobCut(jobs[k].lens, Len(jobs[k].curr), End(k - 1))' <=> JobCut(jobs[k].lens, Len(jobs[k].curr), End(k - 1))
    <2>1. \A e, b, p : Rising(e, 0, b, p)' <=> Rising(e, 0, b, p)
      BY DEF Rising
    <2> QED BY <1>1, <2>1 DEF JobCut
  <1> QED BY <1>1, <1>2, <1>3, Zenon DEF HitInv

-----------------------------------------------------------------------------
(* Pieces, one behind the other.                                           *)

\* A piece behind byte p ends at the first hit, behind a block or with the input.
IsPiece(p, e) ==
    /\ e \in Nat /\ e <= Size /\ e - p <= Block
    /\ p < e \/ (p = e /\ Size = 0)
    /\ Clear(p, e - 1)
    /\ e \in cfg.hits \/ e = p + Block \/ e = Size

Piece(p, e) == [data |-> Bytes(p + 1, e - p), more |-> e # Size]

\* q is n pieces behind byte p, the k-th up to byte at[k].
Chain(q, at, n, p) ==
    /\ n \in Nat \ {0} /\ at \in [0 .. n -> Nat] /\ at[0] = p
    /\ q = [k \in 1 .. n |-> Piece(at[k-1], at[k])]
    /\ \A k \in 1 .. n : IsPiece(at[k-1], at[k]) /\ (k < n => at[k] # Size)

LEMMA PieceFirst == \A p \in Nat : \A e, f : IsPiece(p, e) /\ IsPiece(p, f) /\ Size \in Nat => ~(e < f)
  <1> SUFFICES ASSUME NEW p \in Nat, NEW e, NEW f, IsPiece(p, e), IsPiece(p, f), Size \in Nat, e < f
               PROVE  FALSE
    OBVIOUS
  <1>1. e \in Nat /\ f \in Nat /\ f <= Size /\ f - p <= Block /\ (p < e \/ (p = e /\ Size = 0)) /\ Block \in Nat
    BY CutAssumption DEF IsPiece
  <1>2. e # Size /\ e # p + Block /\ p < e
    BY <1>1
  <1>3. e \in cfg.hits
    BY <1>2 DEF IsPiece
  <1>4. e \in p + 1 .. f - 1
    BY <1>1, <1>2
  <1> QED BY <1>3, <1>4 DEF IsPiece, Clear

LEMMA PieceAlike == \A p \in Nat : \A e, f : IsPiece(p, e) /\ IsPiece(p, f) /\ Size \in Nat => e = f
  <1> SUFFICES ASSUME NEW p \in Nat, NEW e, NEW f, IsPiece(p, e), IsPiece(p, f), Size \in Nat PROVE e = f
    OBVIOUS
  <1>1. ~(e < f) /\ ~(f < e)
    BY PieceFirst
  <1> QED BY <1>1 DEF IsPiece

\* There is one way to cut the input into pieces.
LEMMA ChainsAlike ==
    ASSUME NEW q, NEW at, NEW n, NEW r, NEW bt, NEW m, Chain(q, at, n, 0), Chain(r, bt, m, 0),
           at[n] = Size, bt[m] = Size
    PROVE  q = r /\ n = m
  <1>1. /\ n \in Nat /\ n > 0 /\ m \in Nat /\ m > 0 /\ at[0] = 0 /\ bt[0] = 0
        /\ at \in [0 .. n -> Nat] /\ bt \in [0 .. m -> Nat]
        /\ \A k \in 1 .. n : IsPiece(at[k-1], at[k]) /\ (k < n => at[k] # Size)
        /\ \A k \in 1 .. m : IsPiece(bt[k-1], bt[k]) /\ (k < m => bt[k] # Size)
        /\ q = [k \in 1 .. n |-> Piece(at[k-1], at[k])]
        /\ r = [k \in 1 .. m |-> Piece(bt[k-1], bt[k])]
    BY DEF Chain
  <1>2. Size \in Nat
    <2>1. n \in 0 .. n
      BY <1>1
    <2> QED BY <1>1, <2>1
  <1> DEFINE S == {k \in Nat : k <= n /\ k <= m => at[k] = bt[k]}
  <1>3. 0 \in S
    BY <1>1
  <1>4. \A k \in Nat : k \in S => k + 1 \in S
    <2> SUFFICES ASSUME NEW k \in Nat, k <= n /\ k <= m => at[k] = bt[k], k + 1 <= n, k + 1 <= m
                 PROVE  at[k + 1] = bt[k + 1]
      OBVIOUS
    <2>1. k \in 0 .. n /\ k + 1 \in 1 .. n /\ k + 1 \in 1 .. m /\ (k + 1) - 1 = k /\ at[k] = bt[k]
      BY <1>1
    <2>2. IsPiece(at[k], at[k + 1]) /\ IsPiece(at[k], bt[k + 1]) /\ at[k] \in Nat
      BY <1>1, <2>1
    <2> QED BY <1>2, <2>2, PieceAlike
  <1> HIDE DEF S
  <1>5. \A k \in Nat : k \in S
    BY <1>3, <1>4, SetInduction
  <1>6. \A k \in Nat : k <= n /\ k <= m => at[k] = bt[k]
    BY <1>5 DEF S
  <1>7. ~(n < m)
    <2> SUFFICES ASSUME n < m PROVE FALSE
      OBVIOUS
    <2>1. n \in 1 .. m /\ n <= n /\ n <= m
      BY <1>1
    <2>2. at[n] = bt[n] /\ bt[n] # Size
      BY <1>1, <1>6, <2>1
    <2> QED BY <2>2
  <1>8. ~(m < n)
    <2> SUFFICES ASSUME m < n PROVE FALSE
      OBVIOUS
    <2>1. m \in 1 .. n /\ m <= n /\ m <= m
      BY <1>1
    <2>2. at[m] = bt[m] /\ at[m] # Size
      BY <1>1, <1>6, <2>1
    <2> QED BY <2>2
  <1>9. n = m
    BY <1>1, <1>7, <1>8
  <1>10. \A k \in 1 .. n : Piece(at[k-1], at[k]) = Piece(bt[k-1], bt[k])
    <2> SUFFICES ASSUME NEW k \in 1 .. n PROVE Piece(at[k-1], at[k]) = Piece(bt[k-1], bt[k])
      OBVIOUS
    <2>1. k \in Nat /\ k - 1 \in Nat /\ k <= n /\ k - 1 <= n
      BY <1>1
    <2>2. at[k] = bt[k] /\ at[k-1] = bt[k-1]
      BY <1>6, <1>9, <2>1
    <2> QED BY <2>2
  <1>11. q = r
    BY <1>1, <1>9, <1>10
  <1> QED BY <1>9, <1>11

\* A chain and one behind it.
LEMMA JoinChains ==
    ASSUME NEW q, NEW at, NEW n, NEW p, NEW r, NEW bt, NEW m, Chain(q, at, n, p), Chain(r, bt, m, at[n]),
           at[n] # Size
    PROVE  \E ct : Chain(q \o r, ct, n + m, p) /\ ct[n + m] = bt[m]
  <1>1. /\ n \in Nat /\ n > 0 /\ m \in Nat /\ m > 0 /\ at[0] = p /\ bt[0] = at[n]
        /\ at \in [0 .. n -> Nat] /\ bt \in [0 .. m -> Nat]
        /\ \A k \in 1 .. n : IsPiece(at[k-1], at[k]) /\ (k < n => at[k] # Size)
        /\ \A k \in 1 .. m : IsPiece(bt[k-1], bt[k]) /\ (k < m => bt[k] # Size)
        /\ q = [k \in 1 .. n |-> Piece(at[k-1], at[k])]
        /\ r = [k \in 1 .. m |-> Piece(bt[k-1], bt[k])]
    BY DEF Chain
  <1> DEFINE ct == [k \in 0 .. n + m |-> IF k <= n THEN at[k] ELSE bt[k - n]]
             S == {q[k] : k \in 1 .. n} \cup {r[k] : k \in 1 .. m}
             u == q \o r
  <1>2. /\ ct \in [0 .. n + m -> Nat]
        /\ \A k \in 0 .. n : ct[k] = at[k]
        /\ \A k \in 0 .. m : ct[n + k] = bt[k]
    <2>1. \A k \in 0 .. n + m : (k <= n => k \in 0 .. n) /\ (~(k <= n) => k - n \in 0 .. m)
      BY <1>1
    <2>2. ct \in [0 .. n + m -> Nat]
      BY <1>1, <2>1
    <2>3. \A k \in 0 .. n : ct[k] = at[k]
      BY <1>1
    <2>4. \A k \in 0 .. m : ct[n + k] = bt[k]
      <3> SUFFICES ASSUME NEW k \in 0 .. m PROVE ct[n + k] = bt[k]
        OBVIOUS
      <3>1. n + k \in 0 .. n + m /\ (n + k) - n = k /\ (k = 0 => n + k = n /\ n \in 0 .. n) /\ (k # 0 => ~(n + k <= n))
        BY <1>1
      <3>2. ct[n + k] = IF n + k <= n THEN at[n + k] ELSE bt[(n + k) - n]
        BY <3>1
      <3> HIDE DEF ct
      <3>3. CASE k = 0
        BY <1>1, <3>1, <3>2, <3>3
      <3>4. CASE k # 0
        BY <3>1, <3>2, <3>4
      <3> QED BY <3>3, <3>4
    <2> QED BY <2>2, <2>3, <2>4
  <1> HIDE DEF ct
  <1>3. q \in Seq(S) /\ r \in Seq(S) /\ Len(q) = n /\ Len(r) = m
    <2>1. q = [k \in 1 .. n |-> q[k]] /\ r = [k \in 1 .. m |-> r[k]]
      BY <1>1
    <2>2. (\A k \in 1 .. n : q[k] \in S) /\ \A k \in 1 .. m : r[k] \in S
      OBVIOUS
    <2> HIDE DEF S
    <2> QED BY <1>1, <2>1, <2>2
  <1> HIDE DEF S
  <1>4. /\ u \in Seq(S) /\ Len(u) = n + m
        /\ \A k \in 1 .. n + m : u[k] = IF k <= n THEN q[k] ELSE r[k - n]
    <2>1. /\ u \in Seq(S) /\ Len(u) = Len(q) + Len(r)
          /\ \A k \in 1 .. Len(q) + Len(r) : u[k] = IF k <= Len(q) THEN q[k] ELSE r[k - Len(q)]
      BY <1>3, ConcatProperties, Zenon
    <2> HIDE DEF u
    <2> QED BY <1>3, <2>1
  <1> HIDE DEF u
  <1>5. \A k \in 1 .. n + m : /\ u[k] = Piece(ct[k-1], ct[k])
                              /\ IsPiece(ct[k-1], ct[k]) /\ (k < n + m => ct[k] # Size)
    <2> SUFFICES ASSUME NEW k \in 1 .. n + m
                 PROVE  u[k] = Piece(ct[k-1], ct[k]) /\ IsPiece(ct[k-1], ct[k]) /\ (k < n + m => ct[k] # Size)
      OBVIOUS
    <2>1. CASE k <= n
      <3>1. k \in 1 .. n /\ k \in 0 .. n /\ k - 1 \in 0 .. n /\ (k < n \/ k = n)
        BY <1>1, <2>1
      <3>2. ct[k] = at[k] /\ ct[k-1] = at[k-1] /\ u[k] = q[k]
        BY <1>2, <1>4, <2>1, <3>1
      <3>3. q[k] = Piece(at[k-1], at[k]) /\ IsPiece(at[k-1], at[k]) /\ at[k] # Size
        BY <1>1, <3>1
      <3> QED BY <3>2, <3>3
    <2>2. CASE ~(k <= n)
      <3> DEFINE i == k - n
      <3>1. i \in 1 .. m /\ i \in 0 .. m /\ i - 1 \in 0 .. m /\ k = n + i /\ k - 1 = n + (i - 1)
            /\ (k < n + m => i < m)
        BY <1>1, <2>2
      <3>2. ct[k] = bt[i] /\ ct[k-1] = bt[i-1] /\ u[k] = r[i]
        <4>1. u[k] = r[i]
          BY <1>4, <2>2
        <4> HIDE DEF i
        <4>2. ct[n + i] = bt[i] /\ ct[n + (i - 1)] = bt[i - 1]
          BY <1>2, <3>1
        <4> QED BY <3>1, <4>1, <4>2
      <3> HIDE DEF i
      <3>3. r[i] = Piece(bt[i-1], bt[i]) /\ IsPiece(bt[i-1], bt[i]) /\ (i < m => bt[i] # Size)
        BY <1>1, <3>1
      <3> QED BY <3>1, <3>2, <3>3
    <2> QED BY <2>1, <2>2
  <1>6. u = [k \in 1 .. n + m |-> Piece(ct[k-1], ct[k])]
    <2>1. u = [k \in 1 .. n + m |-> u[k]]
      BY <1>4
    <2> QED BY <1>5, <2>1
  <1>7. ct[0] = p /\ ct[n + m] = bt[m] /\ n + m \in Nat \ {0}
    <2>1. 0 \in 0 .. n /\ m \in 0 .. m
      BY <1>1
    <2> QED BY <1>1, <1>2, <2>1
  <1>8. Chain(u, ct, n + m, p)
    BY <1>2, <1>5, <1>6, <1>7 DEF Chain
  <1> QED BY <1>7, <1>8 DEF u

\* Where the pieces of a job end: at its hits, and what is behind them.
EndsAt(e, a) == [i \in 0 .. Len(e) + 1 |-> IF i = 0 THEN 0 ELSE IF i > Len(e) THEN a ELSE e[i]]
PiecesUpTo(curr, at, n, more) ==
    [k \in 1 .. n |-> [data |-> SubSeq(curr, at[k-1] + 1, at[k]), more |-> at[k] # Len(curr) \/ more]]

Summed(f, curr, lens, i) == IF i = 0 THEN 0 ELSE IF i > Len(lens) THEN Len(curr) ELSE f[i-1] + lens[i]

LEMMA JobPiecesAre ==
    ASSUME NEW e \in Seq(Nat), NEW curr, NEW more, Len(curr) \in Nat
    PROVE  LET at == EndsAt(e, Len(curr))
           IN  JobPieces(curr, Gaps(e, 0), more)
                   = PiecesUpTo(curr, at, Min({i \in 1 .. Len(e) + 1 : at[i] = Len(curr)}), more)
  <1> DEFINE lens == Gaps(e, 0)
             n == Len(e)
             a == Len(curr)
             g == EndsAt(e, a)
             f == CHOOSE f : f = [i \in 0 .. Len(lens) + 1 |-> Summed(f, curr, lens, i)]
  <1>1. /\ n \in Nat /\ Len(lens) = n
        /\ \A k \in 1 .. n : e[k] \in Nat /\ lens[k] = e[k] - (IF k = 1 THEN 0 ELSE e[k-1])
    <2>1. lens = [k \in 1 .. n |-> e[k] - (IF k = 1 THEN 0 ELSE e[k-1])]
      BY DEF Gaps
    <2>2. lens \in Seq(Int)
      <3>1. 0 \in Int
        OBVIOUS
      <3> QED BY <3>1, GapsAre
    <2>3. n \in Nat /\ DOMAIN lens = 1 .. n
      BY <2>1
    <2> HIDE DEF lens
    <2>4. Len(lens) = n
      BY <2>2, <2>3
    <2> QED BY <2>1, <2>3, <2>4
  <1> HIDE DEF lens
  <1>2. \A i \in 0 .. n + 1 : g[i] = IF i = 0 THEN 0 ELSE IF i > n THEN a ELSE e[i]
    BY DEF EndsAt
  <1>3. g = [i \in 0 .. n + 1 |-> g[i]]
    BY DEF EndsAt
  <1> HIDE DEF g
  <1>4. \A i \in 0 .. n + 1 : g[i] = Summed(g, curr, lens, i)
    <2> SUFFICES ASSUME NEW i \in 0 .. n + 1 PROVE g[i] = Summed(g, curr, lens, i)
      OBVIOUS
    <2>1. CASE i = 0 \/ i > n
      BY <1>1, <1>2, <2>1 DEF Summed
    <2>2. CASE ~(i = 0 \/ i > n)
      <3>1. i \in 1 .. n /\ i - 1 \in 0 .. n + 1 /\ (i # 1 => i - 1 \in 1 .. n /\ i - 1 # 0 /\ ~(i - 1 > n))
        BY <1>1, <2>2
      <3>2. g[i] = e[i] /\ g[i - 1] = IF i = 1 THEN 0 ELSE e[i - 1]
        BY <1>1, <1>2, <2>2, <3>1
      <3>3. g[i - 1] \in Nat /\ e[i] \in Nat
        BY <1>1, <3>1, <3>2
      <3>4. lens[i] = e[i] - g[i - 1]
        BY <1>1, <3>1, <3>2
      <3>5. Summed(g, curr, lens, i) = g[i-1] + lens[i]
        BY <1>1, <2>2 DEF Summed
      <3> QED BY <3>2, <3>3, <3>4, <3>5
    <2> QED BY <2>1, <2>2
  <1>5. f = [i \in 0 .. n + 1 |-> Summed(f, curr, lens, i)]
    <2>1. g = [i \in 0 .. Len(lens) + 1 |-> Summed(g, curr, lens, i)]
      BY <1>1, <1>3, <1>4
    <2>2. \E h : h = [i \in 0 .. Len(lens) + 1 |-> Summed(h, curr, lens, i)]
      BY <2>1, Zenon
    <2>3. f = [i \in 0 .. Len(lens) + 1 |-> Summed(f, curr, lens, i)]
      BY <2>2, Zenon
    <2> HIDE DEF f
    <2> QED BY <1>1, <2>3
  <1>6. JobPieces(curr, lens, more)
            = LET last == Min({i \in 1 .. n + 1 : f[i] = a})
              IN  [i \in 1 .. last |-> [data |-> SubSeq(curr, f[i-1] + 1, f[i]),
                                        more |-> f[i] # a \/ more]]
    BY <1>1 DEF JobPieces, Summed
  <1> HIDE DEF f
  <1> DEFINE S == {i \in Nat : i <= n + 1 => f[i] = g[i]}
  <1>7. \A i \in 0 .. n + 1 : f[i] = Summed(f, curr, lens, i)
    BY <1>5
  <1>8. 0 \in S
    <2>1. 0 \in 0 .. n + 1
      BY <1>1
    <2> QED BY <1>4, <1>7, <2>1 DEF Summed
  <1>9. \A i \in Nat : i \in S => i + 1 \in S
    <2> SUFFICES ASSUME NEW i \in Nat, i <= n + 1 => f[i] = g[i], i + 1 <= n + 1 PROVE f[i + 1] = g[i + 1]
      OBVIOUS
    <2>1. i + 1 \in 0 .. n + 1 /\ (i + 1) - 1 = i /\ f[i] = g[i]
      BY <1>1
    <2>2. f[i + 1] = Summed(f, curr, lens, i + 1) /\ g[i + 1] = Summed(g, curr, lens, i + 1)
      BY <1>4, <1>7, <2>1
    <2> QED BY <2>1, <2>2 DEF Summed
  <1> HIDE DEF S
  <1>10. \A i \in Nat : i \in S
    BY <1>8, <1>9, SetInduction
  <1>11. f = g
    <2>1. \A i \in 0 .. n + 1 : f[i] = g[i]
      BY <1>1, <1>10 DEF S
    <2>2. f = [i \in 0 .. n + 1 |-> f[i]]
      BY <1>5
    <2> QED BY <1>3, <2>1, <2>2
  <1>12. JobPieces(curr, lens, more) = PiecesUpTo(curr, g, Min({i \in 1 .. n + 1 : g[i] = a}), more)
    BY <1>6, <1>11 DEF PiecesUpTo
  <1> QED BY <1>12 DEF lens, g

LEMMA MinOf == \A S, x : x \in S /\ S \subseteq Nat /\ (\A y \in S : x <= y) => Min(S) = x
  <1> SUFFICES ASSUME NEW S, NEW x \in S, S \subseteq Nat, \A y \in S : x <= y PROVE Min(S) = x
    OBVIOUS
  <1>1. \A z \in S : (\A y \in S : z <= y) => z = x
    OBVIOUS
  <1> QED BY <1>1 DEF Min

\* A byte strictly between the ends x and y of what is behind byte p.
LEMMA BetweenEnds ==
    \A p, x, y, z \in Nat : \A v \in p + x + 1 .. p + y - 1 :
        y <= z => v \in Nat /\ v - p \in 0 + 1 .. z /\ p + (v - p) = v /\ x < v - p /\ v - p < y
  <1> SUFFICES ASSUME NEW p \in Nat, NEW x \in Nat, NEW y \in Nat, NEW z \in Nat,
                      NEW v \in p + x + 1 .. p + y - 1, y <= z
               PROVE  v \in Nat /\ v - p \in 0 + 1 .. z /\ p + (v - p) = v /\ x < v - p /\ v - p < y
    OBVIOUS
  <1>1. v \in Int /\ p + x + 1 <= v /\ v <= p + y - 1
    OBVIOUS
  <1>2. v \in Nat /\ p + (v - p) = v /\ x < v - p /\ v - p < y
    BY <1>1
  <1> QED BY <1>2

LEMMA PieceSums ==
    \A p, x, y \in Nat : p + 1 + (x + 1) - 1 = p + x + 1 /\ y - (x + 1) + 1 = (p + y) - (p + x)
  OBVIOUS

\* A job's pieces are pieces.
LEMMA JobChain ==
    ASSUME NEW curr, NEW lens, NEW more \in BOOLEAN, NEW p \in Nat, Runs(curr, p + 1, Len(curr)),
           JobCut(lens, Len(curr), p), Len(curr) <= Block, curr = <<>> => Size = 0,
           Size \in Nat, p + Len(curr) <= Size, more <=> p + Len(curr) # Size
    PROVE  \E at, n : /\ Chain(JobPieces(curr, lens, more), at, n, p) /\ at[n] = p + Len(curr)
                      /\ cfg.hits = {} => n = 1
  <1> DEFINE a == Len(curr)
  <1>1. /\ a \in Nat /\ curr \in Seq(Nat) /\ Block \in Nat /\ a <= Block /\ (a = 0 => Size = 0)
        /\ Runs(curr, p + 1, a) /\ p + a <= Size /\ (more <=> p + a # Size)
    <2>1. a \in Nat /\ curr \in Seq(Nat) /\ (curr = <<>> <=> a = 0) /\ Block \in Nat
      BY RunLen, CutAssumption DEF Runs
    <2> QED BY <2>1
  <1>2. PICK e : /\ Rising(e, 0, a, p) /\ lens = Gaps(e, 0)
                 /\ p + a = Size \/ (e = <<>> /\ a = Block) \/ (e # <<>> /\ LastIn(e) = a)
    BY DEF JobCut
  <1>21. Len(curr) = a
    OBVIOUS
  <1> HIDE DEF a
  <1> DEFINE n == Len(e)
             g == EndsAt(e, a)
             N == IF n # 0 /\ e[n] = a THEN n ELSE n + 1
             at == [k \in 0 .. N |-> p + g[k]]
  <1>3. /\ e \in Seq(Nat) /\ n \in Nat /\ (e = <<>> <=> n = 0)
        /\ \A k \in 1 .. n : e[k] \in Nat
        /\ \A k \in 1 .. n : e[k] \in 0 + 1 .. a /\ p + e[k] \in cfg.hits
        /\ \A i, k \in 1 .. n : i < k => e[i] < e[k]
        /\ \A h \in 0 + 1 .. a : p + h \in cfg.hits => \E k \in 1 .. n : e[k] = h
        /\ e # <<>> => LastIn(e) = e[n]
    <2>1. e \in Seq(Nat) /\ (e = <<>> <=> Len(e) = 0) /\ (e # <<>> => LastIn(e) = e[Len(e)])
      <3>1. 0 \in Nat /\ Rising(e, 0, a, p)
        BY <1>2
      <3> QED BY <1>1, <3>1, LastRises
    <2>2. \A k \in 1 .. n : e[k] \in Nat
      BY <2>1
    <2> QED BY <1>2, <2>1, <2>2 DEF Rising
  <1>31. n \in Nat /\ \A k \in 1 .. n : e[k] \in Nat
    BY <1>3
  <1>4. \A i \in 0 .. n + 1 : g[i] = IF i = 0 THEN 0 ELSE IF i > n THEN a ELSE e[i]
    BY DEF EndsAt
  <1>5. JobPieces(curr, lens, more) = PiecesUpTo(curr, g, Min({i \in 1 .. n + 1 : g[i] = a}), more)
    <2>1. e \in Seq(Nat) /\ Len(curr) \in Nat
      BY <1>1, <1>21, <1>3
    <2>2. LET bt == EndsAt(e, Len(curr))
          IN  JobPieces(curr, Gaps(e, 0), more)
                  = PiecesUpTo(curr, bt, Min({i \in 1 .. Len(e) + 1 : bt[i] = Len(curr)}), more)
      BY <2>1, JobPiecesAre
    <2> QED BY <1>2, <1>21, <2>2
  <1> HIDE DEF g, n
  <1>6. N \in Nat /\ N > 0 /\ N <= n + 1 /\ N >= n
    BY <1>3
  <1>7. g[N] = a
    <2>1. N \in 0 .. n + 1
      BY <1>3, <1>6
    <2> QED BY <1>3, <1>4, <2>1
  <1>23. cfg.hits = {} => N = 1
    <2> SUFFICES ASSUME cfg.hits = {} PROVE n = 0
      BY <1>3
    <2>1. n # 0 => n \in 1 .. n
      BY <1>3
    <2> QED BY <1>3, <2>1
  <1>8. \A i \in 1 .. n : i < N => e[i] < a
    <2> SUFFICES ASSUME NEW i \in 1 .. n, i < N PROVE e[i] < a
      OBVIOUS
    <2>1. n # 0 /\ n \in 1 .. n
      BY <1>3
    <2>2. CASE e[n] = a
      <3>1. i < n
        BY <2>1, <2>2
      <3> QED BY <1>3, <2>1, <2>2, <3>1
    <2>3. CASE e[n] # a
      <3>1. e[n] < a
        BY <1>1, <1>3, <2>1, <2>3
      <3>2. CASE i = n
        BY <3>1, <3>2
      <3>3. CASE i # n
        <4>1. i < n
          BY <1>3, <3>3
        <4>2. e[i] < e[n] /\ e[i] \in Nat /\ e[n] \in Nat
          BY <1>3, <2>1, <4>1
        <4> QED BY <1>1, <3>1, <4>2
      <3> QED BY <3>2, <3>3
    <2> QED BY <2>2, <2>3
  <1> HIDE DEF N
  <1>9. \A i \in 1 .. N - 1 : i \in 1 .. n /\ g[i] = e[i] /\ g[i] < a /\ g[i] > 0 /\ g[i] \in Nat
    <2> SUFFICES ASSUME NEW i \in 1 .. N - 1
                 PROVE  i \in 1 .. n /\ g[i] = e[i] /\ g[i] < a /\ g[i] > 0 /\ g[i] \in Nat
      OBVIOUS
    <2>1. i \in 1 .. n /\ i < N /\ i \in 0 .. n + 1 /\ i # 0 /\ ~(i > n)
      BY <1>3, <1>6
    <2>2. g[i] = e[i]
      BY <1>4, <2>1
    <2> QED BY <1>3, <1>8, <2>1, <2>2
  <1>10. Min({i \in 1 .. n + 1 : g[i] = a}) = N
    <2> DEFINE S == {i \in 1 .. n + 1 : g[i] = a}
    <2>1. N \in S
      BY <1>3, <1>6, <1>7
    <2>2. S \subseteq Nat
      BY <1>3
    <2>3. \A y \in S : N <= y
      <3> SUFFICES ASSUME NEW y \in 1 .. n + 1, g[y] = a, ~(N <= y) PROVE FALSE
        OBVIOUS
      <3>1. y \in 1 .. N - 1
        BY <1>3, <1>6
      <3> QED BY <1>1, <1>9, <3>1
    <2> HIDE DEF S
    <2>4. Min(S) = N
      BY <2>1, <2>2, <2>3, MinOf
    <2> QED BY <2>4 DEF S
  <1>11. g[0] = 0 /\ at \in [0 .. N -> Nat] /\ (\A k \in 0 .. N : g[k] \in Nat /\ g[k] <= a /\ at[k] = p + g[k])
    <2>1. g[0] = 0
      BY <1>3, <1>4
    <2>2. \A k \in 0 .. N : g[k] \in Nat /\ g[k] <= a
      <3> SUFFICES ASSUME NEW k \in 0 .. N PROVE g[k] \in Nat /\ g[k] <= a
        OBVIOUS
      <3>1. k = 0 \/ k = N \/ k \in 1 .. N - 1
        BY <1>6
      <3> QED BY <1>1, <1>7, <1>9, <2>1, <3>1
    <2> QED BY <2>1, <2>2
  <1> HIDE DEF at
  <1>12. \A k \in 1 .. N : k \in 0 .. N /\ k - 1 \in 0 .. N
    BY <1>6
  \* Between the ends of pieces there is no hit.
  <1>13. \A k \in 1 .. N : Clear(at[k-1], at[k] - 1)
    <2> SUFFICES ASSUME NEW k \in 1 .. N, NEW h \in at[k-1] + 1 .. at[k] - 1, h \in cfg.hits PROVE FALSE
      BY DEF Clear
    <2>1. at[k] = p + g[k] /\ at[k-1] = p + g[k-1] /\ g[k] \in Nat /\ g[k-1] \in Nat /\ g[k] <= a
      BY <1>11, <1>12
    <2>2. h \in Nat /\ h - p \in 0 + 1 .. a /\ p + (h - p) = h /\ g[k-1] < h - p /\ h - p < g[k]
      <3>1. h \in p + g[k-1] + 1 .. p + g[k] - 1
        BY <2>1
      <3> QED BY <1>1, <2>1, <3>1, BetweenEnds
    <2>3. PICK i \in 1 .. n : e[i] = h - p
      BY <1>3, <2>2
    <2>4. CASE i < k
      <3>1. k - 1 \in 1 .. N - 1
        BY <1>3, <1>6, <2>4
      <3>2. g[k-1] = e[k-1] /\ k - 1 \in 1 .. n
        BY <1>9, <3>1
      <3>3. e[i] <= e[k-1]
        <4>1. CASE i = k - 1
          BY <1>3, <3>2, <4>1
        <4>2. CASE i # k - 1
          <5>1. i < k - 1
            BY <1>3, <2>4, <4>2
          <5>2. e[i] < e[k-1] /\ e[i] \in Nat /\ e[k-1] \in Nat
            BY <1>3, <3>2, <5>1
          <5> QED BY <5>2
        <4> QED BY <4>1, <4>2
      <3>4. g[k-1] < e[i]
        BY <2>2, <2>3
      <3>5. e[i] \in Nat /\ e[k-1] \in Nat
        BY <1>31, <3>2
      <3> QED BY <3>2, <3>3, <3>4, <3>5
    <2>5. CASE ~(i < k)
      <3>1. k \in 1 .. n /\ k \in 0 .. n + 1 /\ k # 0 /\ ~(k > n)
        <4>1. n \in Nat /\ k \in Nat /\ k >= 1
          BY <1>31, <1>6
        <4> QED BY <2>5, <4>1
      <3>2. g[k] = e[k]
        BY <1>4, <3>1
      <3>3. e[k] <= e[i]
        <4>1. CASE i = k
          BY <1>31, <4>1
        <4>2. CASE i # k
          <5>1. k < i
            BY <1>3, <2>5, <4>2
          <5>2. e[k] < e[i] /\ e[i] \in Nat /\ e[k] \in Nat
            BY <1>3, <3>1, <5>1
          <5> QED BY <5>2
        <4> QED BY <4>1, <4>2
      <3>4. e[i] < g[k]
        BY <2>2, <2>3
      <3>5. e[i] \in Nat /\ e[k] \in Nat
        BY <1>31, <3>1
      <3> QED BY <3>2, <3>3, <3>4, <3>5
    <2> QED BY <2>4, <2>5
  <1>14. \A k \in 1 .. N : g[k-1] < g[k] \/ (g[k-1] = g[k] /\ a = 0)
    <2> SUFFICES ASSUME NEW k \in 1 .. N PROVE g[k-1] < g[k] \/ (g[k-1] = g[k] /\ a = 0)
      OBVIOUS
    <2>1. k = 1 \/ k - 1 \in 1 .. N - 1
      BY <1>6
    <2>2. CASE k = N
      <3>1. g[k] = a /\ a \in Nat
        BY <1>1, <1>7, <2>2
      <3>2. CASE k = 1
        <4>1. g[k-1] = 0
          BY <1>11, <3>2
        <4> QED BY <3>1, <4>1
      <3>3. CASE k - 1 \in 1 .. N - 1
        <4>1. g[k-1] < a
          BY <1>9, <3>3
        <4> QED BY <3>1, <4>1
      <3> QED BY <2>1, <3>2, <3>3
    <2>3. CASE k # N
      <3>1. k \in 1 .. N - 1
        BY <1>6, <2>3
      <3>2. g[k] = e[k] /\ k \in 1 .. n /\ g[k] > 0
        BY <1>9, <3>1
      <3>3. CASE k = 1
        BY <1>11, <3>2, <3>3
      <3>4. CASE k # 1
        <4>1. k - 1 \in 1 .. N - 1
          BY <2>1, <3>4
        <4>2. g[k-1] = e[k-1] /\ k - 1 \in 1 .. n /\ k - 1 < k
          BY <1>9, <4>1
        <4> QED BY <1>3, <3>2, <4>2
      <3> QED BY <3>3, <3>4
    <2> QED BY <2>2, <2>3
  <1>15. \A k \in 1 .. N : at[k] \in cfg.hits \/ at[k] = at[k-1] + Block \/ at[k] = Size
    <2> SUFFICES ASSUME NEW k \in 1 .. N, at[k] # Size PROVE at[k] \in cfg.hits \/ at[k] = at[k-1] + Block
      OBVIOUS
    <2>1. at[k] = p + g[k] /\ at[k-1] = p + g[k-1]
      BY <1>11, <1>12
    <2>2. CASE k \in 1 .. n
      <3>1. k \in 0 .. n + 1 /\ k # 0 /\ ~(k > n)
        BY <1>3, <2>2
      <3>2. g[k] = e[k]
        BY <1>4, <3>1
      <3> QED BY <1>3, <2>1, <2>2, <3>2
    <2>3. CASE k \notin 1 .. n
      <3>1. k = n + 1 /\ N = n + 1
        BY <1>3, <1>6, <2>3
      <3>2. g[k] = a /\ at[k] = p + a /\ (n # 0 => e[n] # a)
        BY <1>3, <1>7, <2>1, <3>1 DEF N
      <3>3. e = <<>> /\ a = Block
        BY <1>2, <1>3, <3>2
      <3>4. k = 1 /\ at[k-1] = p + 0
        BY <1>3, <1>11, <2>1, <3>1, <3>3
      <3> QED BY <1>1, <3>2, <3>3, <3>4
    <2> QED BY <2>2, <2>3
  <1>16. \A k \in 1 .. N : IsPiece(at[k-1], at[k])
    <2> SUFFICES ASSUME NEW k \in 1 .. N PROVE IsPiece(at[k-1], at[k])
      OBVIOUS
    <2>1. at[k] = p + g[k] /\ at[k-1] = p + g[k-1] /\ g[k] \in Nat /\ g[k-1] \in Nat /\ g[k] <= a
      BY <1>11, <1>12
    <2>2. at[k] \in Nat /\ at[k] <= Size /\ at[k] - at[k-1] <= Block
      <3>1. \A x, y, z, b \in Nat : y <= z /\ p + z <= Size /\ z <= b
                => p + y \in Nat /\ p + y <= Size /\ (p + y) - (p + x) <= b
        OBVIOUS
      <3> QED BY <1>1, <2>1, <3>1
    <2>3. at[k-1] < at[k] \/ (at[k-1] = at[k] /\ Size = 0)
      <3>1. CASE g[k-1] < g[k]
        BY <2>1, <3>1
      <3>2. CASE g[k-1] = g[k] /\ a = 0
        BY <1>1, <2>1, <3>2
      <3> QED BY <1>14, <3>1, <3>2
    <2> QED BY <1>13, <1>15, <2>2, <2>3 DEF IsPiece
  <1>17. \A k \in 1 .. N : k < N => at[k] # Size
    <2> SUFFICES ASSUME NEW k \in 1 .. N, k < N PROVE at[k] # Size
      OBVIOUS
    <2>1. k \in 1 .. N - 1
      BY <1>6
    <2>2. g[k] < a /\ g[k] \in Nat /\ at[k] = p + g[k]
      BY <1>9, <1>11, <1>12, <2>1
    <2> QED BY <1>1, <2>2
  <1>18. \A k \in 1 .. N : [data |-> SubSeq(curr, g[k-1] + 1, g[k]), more |-> g[k] # a \/ more]
                               = Piece(at[k-1], at[k])
    <2> SUFFICES ASSUME NEW k \in 1 .. N
                 PROVE  [data |-> SubSeq(curr, g[k-1] + 1, g[k]), more |-> g[k] # a \/ more]
                            = Piece(at[k-1], at[k])
      OBVIOUS
    <2>1. at[k] = p + g[k] /\ at[k-1] = p + g[k-1] /\ g[k] \in Nat /\ g[k-1] \in Nat /\ g[k] <= a /\ g[k-1] <= g[k]
      <3>1. k \in 0 .. N /\ k - 1 \in 0 .. N
        BY <1>12
      <3>2. at[k] = p + g[k] /\ at[k-1] = p + g[k-1] /\ g[k] \in Nat /\ g[k-1] \in Nat /\ g[k] <= a
        BY <1>11, <3>1
      <3> QED BY <1>14, <3>2
    <2>2. SubSeq(curr, g[k-1] + 1, g[k]) = Bytes(at[k-1] + 1, at[k] - at[k-1])
      <3>1. g[k-1] + 1 \in Nat /\ 1 <= g[k-1] + 1 /\ g[k-1] + 1 <= g[k] + 1
        <4>1. \A x, y \in Nat : x <= y => x + 1 \in Nat /\ 1 <= x + 1 /\ x + 1 <= y + 1
          OBVIOUS
        <4> QED BY <2>1, <4>1
      <3>2. Runs(SubSeq(curr, g[k-1] + 1, g[k]), p + 1 + (g[k-1] + 1) - 1, g[k] - (g[k-1] + 1) + 1)
        <4>1. p + 1 \in Nat /\ Runs(curr, p + 1, a) /\ g[k] \in Nat /\ g[k] <= a
          BY <1>1, <2>1
        <4> QED BY <1>1, <3>1, <4>1, PartOfRun
      <3>3. p + 1 + (g[k-1] + 1) - 1 = at[k-1] + 1 /\ g[k] - (g[k-1] + 1) + 1 = at[k] - at[k-1]
        <4>1. /\ p + 1 + (g[k-1] + 1) - 1 = p + g[k-1] + 1
              /\ g[k] - (g[k-1] + 1) + 1 = (p + g[k]) - (p + g[k-1])
          BY <2>1, PieceSums
        <4> QED BY <2>1, <4>1
      <3> QED BY <3>2, <3>3 DEF Runs
    <2>3. (g[k] # a \/ more) <=> at[k] # Size
      <3>1. \A y \in Nat : y <= a => ((y # a \/ p + a # Size) <=> p + y # Size)
        BY <1>1
      <3> QED BY <1>1, <2>1, <3>1
    <2>4. (g[k] # a \/ more) = (at[k] # Size)
      BY <2>3
    <2> QED BY <2>2, <2>4 DEF Piece
  <1>19. JobPieces(curr, lens, more) = [k \in 1 .. N |-> Piece(at[k-1], at[k])]
    BY <1>5, <1>10, <1>18, <1>21 DEF PiecesUpTo
  <1>20. at[0] = p /\ at[N] = p + a
    <2>1. 0 \in 0 .. N /\ N \in 0 .. N
      BY <1>6
    <2> QED BY <1>7, <1>11, <2>1
  <1>22. Chain(JobPieces(curr, lens, more), at, N, p)
    <2>1. N \in Nat \ {0}
      BY <1>6
    <2> QED BY <1>11, <1>16, <1>17, <1>19, <1>20, <2>1 DEF Chain
  <1> QED BY <1>20, <1>21, <1>22, <1>23

-----------------------------------------------------------------------------
(* The pieces of all jobs.                                                 *)

\* g[i] is the first i sequences, one behind the other.
Appended(g, seqs, i) == IF i = 1 THEN seqs[i] ELSE g[i-1] \o seqs[i]
Joins(g, seqs, n) == \A i \in 1 .. n : g[i] = Appended(g, seqs, i)

LEMMA JoinsExist == ASSUME NEW seqs, NEW n \in Nat PROVE \E g : g = [i \in 1 .. n |-> Appended(g, seqs, i)]
  <1> DEFINE S == {m \in Nat : \E g : g = [i \in 1 .. m |-> Appended(g, seqs, i)]}
  <1>1. 0 \in S
    <2> DEFINE g == [i \in 1 .. 0 |-> 0]
    <2>1. g = [i \in 1 .. 0 |-> Appended(g, seqs, i)]
      OBVIOUS
    <2> HIDE DEF g
    <2> QED BY <2>1
  <1>2. \A m \in Nat : m \in S => m + 1 \in S
    <2> SUFFICES ASSUME NEW m \in Nat, m \in S PROVE m + 1 \in S
      OBVIOUS
    <2>1. PICK f : f = [i \in 1 .. m |-> Appended(f, seqs, i)]
      OBVIOUS
    <2> DEFINE g == [i \in 1 .. m + 1 |-> IF i = m + 1 THEN Appended(f, seqs, m + 1) ELSE f[i]]
    <2>2. \A i \in 1 .. m + 1 : g[i] = Appended(g, seqs, i)
      <3> SUFFICES ASSUME NEW i \in 1 .. m + 1 PROVE g[i] = Appended(g, seqs, i)
        OBVIOUS
      <3>1. i # 1 => i - 1 \in 1 .. m /\ g[i - 1] = f[i - 1]
        OBVIOUS
      <3>2. Appended(g, seqs, i) = Appended(f, seqs, i)
        BY <3>1 DEF Appended
      <3>3. i # m + 1 => f[i] = Appended(f, seqs, i)
        <4>1. \A q \in 1 .. m : f[q] = Appended(f, seqs, q)
          BY <2>1, Zenon
        <4>2. i # m + 1 => i \in 1 .. m
          OBVIOUS
        <4> QED BY <4>1, <4>2
      <3> QED BY <3>2, <3>3
    <2>3. g = [i \in 1 .. m + 1 |-> Appended(g, seqs, i)]
      BY <2>2
    <2> HIDE DEF g
    <2> QED BY <2>3
  <1> HIDE DEF S
  <1>3. n \in S
    BY <1>1, <1>2, SetInduction
  <1> QED BY <1>3 DEF S

LEMMA FlattenIs ==
    ASSUME NEW seqs, Len(seqs) \in Nat, Len(seqs) # 0
    PROVE  \E g : FlattenSeq(seqs) = g[Len(seqs)] /\ Joins(g, seqs, Len(seqs))
  <1> DEFINE f == CHOOSE f : f = [i \in 1 .. Len(seqs) |-> Appended(f, seqs, i)]
  <1>1. FlattenSeq(seqs) = f[Len(seqs)]
    BY DEF FlattenSeq, Appended
  <1>2. \E g : g = [i \in 1 .. Len(seqs) |-> Appended(g, seqs, i)]
    BY JoinsExist
  <1>3. f = [i \in 1 .. Len(seqs) |-> Appended(f, seqs, i)]
    BY <1>2, Zenon
  <1> HIDE DEF f
  <1>4. Joins(f, seqs, Len(seqs))
    BY <1>3, Zenon DEF Joins
  <1> QED BY <1>1, <1>4

LEMMA JoinsAlike ==
    ASSUME NEW f, NEW g, NEW s, NEW t, NEW n \in Nat, Joins(f, s, n), Joins(g, t, n),
           \A i \in 1 .. n : s[i] = t[i]
    PROVE  \A i \in 1 .. n : f[i] = g[i]
  <1> DEFINE S == {i \in Nat : i \in 1 .. n => f[i] = g[i]}
  <1>1. 0 \in S
    OBVIOUS
  <1>2. \A i \in Nat : i \in S => i + 1 \in S
    <2> SUFFICES ASSUME NEW i \in Nat, i \in S, i + 1 \in 1 .. n PROVE f[i + 1] = g[i + 1]
      OBVIOUS
    <2>1. /\ f[i + 1] = Appended(f, s, i + 1) /\ g[i + 1] = Appended(g, t, i + 1) /\ s[i + 1] = t[i + 1]
      BY DEF Joins
    <2>2. CASE i = 0
      BY <2>1, <2>2 DEF Appended
    <2>3. CASE i # 0
      <3>1. i \in 1 .. n /\ (i + 1) - 1 = i /\ i + 1 # 1
        BY <2>3
      <3> QED BY <2>1, <3>1 DEF Appended
    <2> QED BY <2>2, <2>3
  <1> HIDE DEF S
  <1>3. \A i \in Nat : i \in S
    BY <1>1, <1>2, SetInduction
  <1> QED BY <1>3 DEF S

\* The first n of a family of sequences, one behind the other.
Along(s, n) == FlattenSeq([k \in 1 .. n |-> s[k]])

LEMMA AlongFirst == \A s : Along(s, 1) = s[1]
  <1> SUFFICES ASSUME NEW s PROVE Along(s, 1) = s[1]
    OBVIOUS
  <1> DEFINE q == [k \in 1 .. 1 |-> s[k]]
  <1>1. Len(q) = 1 /\ q[1] = s[1]
    OBVIOUS
  <1> HIDE DEF q
  <1>2. PICK g : FlattenSeq(q) = g[1] /\ Joins(g, q, 1)
    <2>1. Len(q) \in Nat /\ Len(q) # 0
      BY <1>1
    <2>2. \E g : FlattenSeq(q) = g[Len(q)] /\ Joins(g, q, Len(q))
      BY <2>1, FlattenIs
    <2> QED BY <1>1, <2>2
  <1>3. g[1] = q[1]
    BY <1>2 DEF Joins, Appended
  <1> QED BY <1>1, <1>2, <1>3 DEF Along, q

LEMMA AlongNext == \A s : \A n \in Nat \ {0} : Along(s, n + 1) = Along(s, n) \o s[n + 1]
  <1> SUFFICES ASSUME NEW s, NEW n \in Nat \ {0} PROVE Along(s, n + 1) = Along(s, n) \o s[n + 1]
    OBVIOUS
  <1> DEFINE q == [k \in 1 .. n + 1 |-> s[k]]
             r == [k \in 1 .. n |-> s[k]]
  <1>1. Len(q) = n + 1 /\ Len(r) = n /\ q[n + 1] = s[n + 1] /\ \A k \in 1 .. n : q[k] = r[k]
    OBVIOUS
  <1> HIDE DEF q, r
  <1>2. PICK g : FlattenSeq(q) = g[n + 1] /\ Joins(g, q, n + 1)
    BY <1>1, FlattenIs
  <1>3. PICK h : FlattenSeq(r) = h[n] /\ Joins(h, r, n)
    BY <1>1, FlattenIs
  <1>4. Joins(g, q, n)
    BY <1>2 DEF Joins
  <1>5. \A k \in 1 .. n : g[k] = h[k]
    BY <1>1, <1>3, <1>4, JoinsAlike
  <1>6. g[n] = h[n]
    <2>1. n \in 1 .. n
      OBVIOUS
    <2> QED BY <1>5, <2>1
  <1>7. g[n + 1] = g[n] \o q[n + 1]
    <2>1. n + 1 \in 1 .. n + 1 /\ n + 1 # 1 /\ (n + 1) - 1 = n
      OBVIOUS
    <2> QED BY <1>2, <2>1 DEF Joins, Appended
  <1> QED BY <1>1, <1>2, <1>3, <1>6, <1>7 DEF Along, q, r

\* The pieces of the first n jobs, as in SamePieces.
PiecesOf(k) == JobPieces(jobs[k].curr, jobs[k].lens, jobs[k].more)
JobsUpto(n) == FlattenSeq([k \in 1 .. n |-> PiecesOf(k)])

LEMMA JobsUptoNext ==
    ASSUME NEW n \in Nat
    PROVE  JobsUpto(n + 1) = IF n = 0 THEN PiecesOf(1) ELSE JobsUpto(n) \o PiecesOf(n + 1)
  <1> DEFINE s == [k \in 1 .. n + 1 |-> PiecesOf(k)]
  <1>1. [k \in 1 .. n + 1 |-> s[k]] = s /\ [k \in 1 .. n |-> s[k]] = [k \in 1 .. n |-> PiecesOf(k)]
        /\ s[n + 1] = PiecesOf(n + 1)
    OBVIOUS
  <1>2. JobsUpto(n + 1) = FlattenSeq(s)
    BY DEF JobsUpto
  <1> HIDE DEF s
  <1>3. Along(s, n + 1) = JobsUpto(n + 1) /\ Along(s, n) = JobsUpto(n)
    BY <1>1, <1>2 DEF Along, JobsUpto
  <1>4. CASE n = 0
    BY <1>1, <1>3, <1>4, AlongFirst
  <1>5. CASE n # 0
    BY <1>1, <1>3, <1>5, AlongNext
  <1> QED BY <1>4, <1>5

\* The jobs' pieces are the pieces of what the jobs are.
LEMMA JobsChain ==
    ASSUME CutInv, HitInv, cfg # None
    PROVE  \A n \in 1 .. Len(jobs) : \E at, m : /\ Chain(JobsUpto(n), at, m, 0) /\ at[m] = End(n)
                                                /\ cfg.hits = {} => m = n
  <1> DEFINE Fine(n) == \E at, m : /\ Chain(JobsUpto(n), at, m, 0) /\ at[m] = End(n)
                                   /\ cfg.hits = {} => m = n
             S == {n \in Nat : n \in 1 .. Len(jobs) => Fine(n)}
             One(n) == \E at, m : /\ Chain(PiecesOf(n), at, m, End(n - 1)) /\ at[m] = End(n)
                                  /\ cfg.hits = {} => m = 1
  <1>1. Len(jobs) \in Nat /\ Size \in Nat
    BY DEF CutInv, CutTypeOK, Size
  <1>2. \A n \in 1 .. Len(jobs) : One(n)
    <2> SUFFICES ASSUME NEW n \in 1 .. Len(jobs) PROVE One(n)
      OBVIOUS
    <2> DEFINE curr == jobs[n].curr
               lens == jobs[n].lens
               more == jobs[n].more
               p == End(n - 1)
    <2>1. JobOK(jobs[n], p)
      BY DEF CutInv
    <2>2. p \in Nat /\ Runs(curr, p + 1, Len(curr)) /\ Len(curr) <= Block /\ (curr = <<>> => Size = 0)
      BY <2>1 DEF JobOK
    <2>3. /\ JobCut(lens, Len(curr), p) /\ End(n) = p + Len(curr) /\ p + Len(curr) <= Size
          /\ more <=> p + Len(curr) # Size
      BY DEF HitInv
    <2>4. more \in BOOLEAN
      <3>1. jobs \in Seq([curr : Seq(Nat), lens : Seq(Int), dict : Seq(Nat), more : BOOLEAN])
        BY DEF CutInv, CutTypeOK
      <3>2. jobs[n] \in [curr : Seq(Nat), lens : Seq(Int), dict : Seq(Nat), more : BOOLEAN]
        BY <3>1, Zenon, ElementOfSeq
      <3> QED BY <3>2
    <2> HIDE DEF curr, lens, more, p
    <2>5. PICK at, m : /\ Chain(JobPieces(curr, lens, more), at, m, p) /\ at[m] = p + Len(curr)
                       /\ cfg.hits = {} => m = 1
      <3>1. /\ more \in BOOLEAN /\ p \in Nat /\ Runs(curr, p + 1, Len(curr))
            /\ JobCut(lens, Len(curr), p) /\ Len(curr) <= Block /\ (curr = <<>> => Size = 0)
            /\ Size \in Nat /\ p + Len(curr) <= Size /\ (more <=> p + Len(curr) # Size)
        BY <1>1, <2>2, <2>3, <2>4
      <3> QED BY <3>1, JobChain
    <2>6. JobPieces(curr, lens, more) = PiecesOf(n)
      BY DEF PiecesOf, curr, lens, more
    <2>7. Chain(PiecesOf(n), at, m, End(n - 1)) /\ at[m] = End(n)
      BY <2>3, <2>5, <2>6 DEF p
    <2> QED BY <2>5, <2>7
  <1>3. 0 \in S
    OBVIOUS
  <1>4. \A n \in Nat : n \in S => n + 1 \in S
    <2> HIDE DEF Fine, One
    <2> HIDE DEF S
    <2> SUFFICES ASSUME NEW n \in Nat, n \in S PROVE n + 1 \in S
      OBVIOUS
    <2> SUFFICES ASSUME n + 1 \in 1 .. Len(jobs) PROVE Fine(n + 1)
      BY DEF S
    <2>0. n \in 1 .. Len(jobs) => Fine(n)
      BY DEF S
    <2>1. One(n + 1)
      BY <1>2
    <2>2. PICK bt, i : /\ Chain(PiecesOf(n + 1), bt, i, End(n)) /\ bt[i] = End(n + 1)
                       /\ cfg.hits = {} => i = 1
      <3>1. (n + 1) - 1 = n
        OBVIOUS
      <3> QED BY <2>1, <3>1 DEF One
    <2>3. CASE n = 0
      <3>1. JobsUpto(n + 1) = PiecesOf(n + 1) /\ End(n) = 0
        BY <2>3, JobsUptoNext DEF End
      <3>2. Chain(JobsUpto(n + 1), bt, i, 0) /\ bt[i] = End(n + 1) /\ (cfg.hits = {} => i = n + 1)
        BY <2>2, <2>3, <3>1
      <3> QED BY <3>2 DEF Fine
    <2>4. CASE n # 0
      <3>1. n \in 1 .. Len(jobs) /\ n < Len(jobs)
        BY <1>1, <2>4
      <3>2. PICK at, m : Chain(JobsUpto(n), at, m, 0) /\ at[m] = End(n) /\ (cfg.hits = {} => m = n)
        BY <2>0, <3>1 DEF Fine
      <3>3. at[m] # Size
        BY <3>1, <3>2 DEF HitInv
      <3>4. PICK ct : Chain(JobsUpto(n) \o PiecesOf(n + 1), ct, m + i, 0) /\ ct[m + i] = bt[i]
        BY <2>2, <3>2, <3>3, JoinChains
      <3>5. JobsUpto(n + 1) = JobsUpto(n) \o PiecesOf(n + 1)
        BY <2>4, JobsUptoNext
      <3>6. cfg.hits = {} => m + i = n + 1
        BY <2>2, <3>2
      <3>7. Chain(JobsUpto(n + 1), ct, m + i, 0) /\ ct[m + i] = End(n + 1)
        BY <2>2, <3>4, <3>5
      <3> QED BY <3>6, <3>7 DEF Fine
    <2> QED BY <2>3, <2>4
  <1> HIDE DEF S
  <1>5. \A n \in Nat : n \in S
    BY <1>3, <1>4, SetInduction
  <1>6. \A n \in 1 .. Len(jobs) : n \in Nat
    BY <1>1
  <1> QED BY <1>5, <1>6 DEF S, Fine

-----------------------------------------------------------------------------
(* The single path: its buffers.                                           *)

\* n places of a buffer from one on hold the input from byte f on.
Holds(buf, at, n, f) == \A k \in 0 .. n - 1 : buf[at + k] = f + k

OneRecs == [in : [Places -> Nat], next : [Places -> Nat], got : Nat, more : Nat, start : Nat, have : Nat,
            nextIn : Nat, sc : Nat, left : Nat, hashed : Seq(Nat), read : Nat]

\* What is read and not compressed, up to byte p, is in the buffers.
InStock(s, p) == s.nextIn + s.got <= Block /\ Holds(s.in, s.nextIn, s.got, p + 1)
NextStock(s, p) == /\ s.start + s.more <= Block /\ Holds(s.next, s.start, s.more, p + s.got + 1)
                   /\ s.read = p + s.got + s.more /\ s.read <= Size /\ (s.more = 0 => s.read = Size)
Stock(s, p) == s \in OneRecs /\ InStock(s, p) /\ NextStock(s, p)

LEMMA PlacesAre == /\ Block \in Nat /\ Block > 0
                   /\ \A k \in Nat : k < Block => k \in Places
                   /\ \A k \in Places : k \in Nat
  <1>1. Block \in Nat /\ Block > 0 /\ DictSize \in Nat /\ DictSize > 0
    BY CutAssumption
  <1> QED BY <1>1 DEF Places

LEMMA PutIs ==
    ASSUME NEW buf \in [Places -> Nat], NEW at \in Nat, NEW data, NEW f, NEW n, Runs(data, f, n), at + n <= Block
    PROVE  /\ Put(buf, at, data) \in [Places -> Nat] /\ Holds(Put(buf, at, data), at, n, f)
           /\ \A k \in Places : k < at \/ k >= at + n => Put(buf, at, data)[k] = buf[k]
  <1> DEFINE b == Put(buf, at, data)
  <1>1. /\ f \in Nat /\ n \in Nat /\ data \in Seq(Nat) /\ Len(data) = n
        /\ \A k \in 1 .. n : data[k] = f + k - 1
    BY RunIs DEF Runs
  <1>2. b = [k \in Places |-> IF k \in at .. at + n - 1 THEN data[k - at + 1] ELSE buf[k]]
    BY <1>1 DEF Put
  <1>3. \A k \in Places : k \in at .. at + n - 1 => k - at + 1 \in 1 .. n /\ data[k - at + 1] = f + (k - at)
    <2> SUFFICES ASSUME NEW k \in Places, k \in at .. at + n - 1
                 PROVE  k - at + 1 \in 1 .. n /\ data[k - at + 1] = f + (k - at)
      OBVIOUS
    <2>1. k - at + 1 \in 1 .. n /\ f + (k - at + 1) - 1 = f + (k - at)
      BY <1>1
    <2> QED BY <1>1, <2>1
  <1>4. \A k \in Places : b[k] = IF k \in at .. at + n - 1 THEN f + (k - at) ELSE buf[k]
    BY <1>2, <1>3
  <1>5. DOMAIN b = Places /\ b = [k \in Places |-> b[k]]
    BY <1>2
  <1> HIDE DEF b
  <1>6. b \in [Places -> Nat]
    <2>1. \A k \in Places : b[k] \in Nat
      <3> SUFFICES ASSUME NEW k \in Places PROVE b[k] \in Nat
        OBVIOUS
      <3>1. k \in at .. at + n - 1 => f + (k - at) \in Nat
        BY <1>1
      <3> QED BY <1>4, <3>1
    <2> QED BY <1>5, <2>1
  <1>7. Holds(b, at, n, f)
    <2> SUFFICES ASSUME NEW k \in 0 .. n - 1 PROVE b[at + k] = f + k
      BY DEF Holds
    <2>1. at + k \in Nat /\ at + k < Block /\ at + k \in at .. at + n - 1 /\ (at + k) - at = k
      BY <1>1, PlacesAre
    <2>2. at + k \in Places
      BY <2>1, PlacesAre
    <2> QED BY <1>4, <2>1, <2>2
  <1>8. \A k \in Places : k < at \/ k >= at + n => b[k] = buf[k]
    <2> SUFFICES ASSUME NEW k \in Places, k < at \/ k >= at + n PROVE b[k] = buf[k]
      OBVIOUS
    <2>1. k \notin at .. at + n - 1
      BY <1>1, PlacesAre
    <2> QED BY <1>4, <2>1
  <1> QED BY <1>6, <1>7, <1>8 DEF b

\* What a buffer holds before the place something is put stays.
LEMMA PutBehind ==
    ASSUME NEW buf \in [Places -> Nat], NEW at \in Nat, NEW data, NEW f, NEW n, Runs(data, f, n), at + n <= Block,
           NEW g \in Nat, Holds(buf, 0, at, g), f = g + at
    PROVE  Put(buf, at, data) \in [Places -> Nat] /\ Holds(Put(buf, at, data), 0, at + n, g)
  <1> DEFINE b == Put(buf, at, data)
  <1>1. /\ b \in [Places -> Nat] /\ Holds(b, at, n, f)
        /\ \A k \in Places : k < at \/ k >= at + n => b[k] = buf[k]
    BY PutIs
  <1>2. n \in Nat
    BY DEF Runs
  <1> HIDE DEF b
  <1>3. Holds(b, 0, at + n, g)
    <2> SUFFICES ASSUME NEW k \in 0 .. at + n - 1 PROVE b[0 + k] = g + k
      BY <1>2 DEF Holds
    <2>1. k \in Nat /\ k \in Places /\ 0 + k = k
      BY <1>2, PlacesAre
    <2>2. CASE k < at
      <3>1. k \in 0 .. at - 1
        BY <2>1, <2>2
      <3> QED BY <1>1, <2>1, <2>2, <3>1 DEF Holds
    <2>3. CASE ~(k < at)
      <3>1. k - at \in 0 .. n - 1 /\ at + (k - at) = k /\ f + (k - at) = g + k
        BY <1>2, <2>1, <2>3
      <3>2. b[at + (k - at)] = f + (k - at)
        BY <1>1, <3>1 DEF Holds
      <3> QED BY <2>1, <3>1, <3>2
    <2> QED BY <2>2, <2>3
  <1> QED BY <1>1, <1>3 DEF b

LEMMA SliceIs ==
    ASSUME NEW buf, NEW at \in Nat, NEW n \in Nat, NEW m \in Nat, NEW f \in Nat, Holds(buf, at, m, f), n <= m
    PROVE  Runs(Slice(buf, at, n), f, n)
  <1>1. \A k \in 1 .. n : buf[at + k - 1] = f + k - 1
    <2> SUFFICES ASSUME NEW k \in 1 .. n PROVE buf[at + k - 1] = f + k - 1
      OBVIOUS
    <2>1. k - 1 \in 0 .. m - 1 /\ at + (k - 1) = at + k - 1 /\ f + (k - 1) = f + k - 1
      OBVIOUS
    <2>2. buf[at + (k - 1)] = f + (k - 1)
      BY <2>1 DEF Holds
    <2> QED BY <2>1, <2>2
  <1>2. Slice(buf, at, n) = [k \in 1 .. n |-> f + k - 1]
    BY <1>1 DEF Slice
  <1> QED BY <1>2 DEF Runs, Bytes

\* A part of what a buffer holds.
LEMMA HoldsPart ==
    ASSUME NEW buf, NEW at \in Nat, NEW n \in Nat, NEW f \in Nat, Holds(buf, at, n, f), NEW i \in Nat, NEW m \in Nat,
           i + m <= n
    PROVE  Holds(buf, at + i, m, f + i)
  <1> SUFFICES ASSUME NEW k \in 0 .. m - 1 PROVE buf[(at + i) + k] = (f + i) + k
    BY DEF Holds
  <1>1. i + k \in 0 .. n - 1 /\ at + (i + k) = (at + i) + k /\ f + (i + k) = (f + i) + k
    OBVIOUS
  <1>2. buf[at + (i + k)] = f + (i + k)
    BY <1>1 DEF Holds
  <1> QED BY <1>1, <1>2

LEMMA HoldsNone == \A buf, at, f : Holds(buf, at, 0, f)
  BY DEF Holds

\* The next of the input is read.
LEMMA ReadnIs ==
    ASSUME NEW e \in Nat, Size \in Nat, e <= Size
    PROVE  \E m \in Nat : /\ Runs(Readn(e), e + 1, m) /\ Len(Readn(e)) = m /\ m <= Block /\ e + m <= Size
                          /\ (m = Block \/ e + m = Size) /\ (m = 0 => e + m = Size)
  <1> DEFINE m == Min({Block, Size - e})
  <1>1. Block \in Nat /\ Block > 0
    BY PlacesAre
  <1>2. m = IF Block <= Size - e THEN Block ELSE Size - e
    <2>1. Block \in Int /\ Size - e \in Int
      BY <1>1
    <2> QED BY <2>1, MinIs
  <1>3. Readn(e) = Bytes(e + 1, m)
    BY DEF Readn
  <1> HIDE DEF m
  <1>4. /\ m \in Nat /\ m <= Block /\ e + m <= Size
        /\ (m = Block \/ e + m = Size) /\ (m = 0 => e + m = Size)
    BY <1>1, <1>2
  <1>5. Runs(Readn(e), e + 1, m)
    BY <1>3, <1>4 DEF Runs
  <1>6. Len(Readn(e)) = m
    BY <1>5, RunLen
  <1> QED BY <1>4, <1>5, <1>6

LEMMA RereadIs ==
    ASSUME NEW s \in OneRecs, Size \in Nat, s.read <= Size
    PROVE  LET t == Reread(s)
           IN  /\ t \in OneRecs /\ t.start = 0 /\ t.more <= Block /\ Holds(t.next, 0, t.more, s.read + 1)
               /\ t.read = s.read + t.more /\ t.read <= Size /\ (t.more = 0 => t.read = Size)
               /\ t.more = Block \/ t.read = Size
               /\ t.in = s.in /\ t.got = s.got /\ t.nextIn = s.nextIn /\ t.have = s.have
               /\ t.sc = s.sc /\ t.left = s.left /\ t.hashed = s.hashed
  <1>1. s.read \in Nat /\ s.next \in [Places -> Nat]
    BY DEF OneRecs
  <1>2. PICK m \in Nat : /\ Runs(Readn(s.read), s.read + 1, m) /\ Len(Readn(s.read)) = m
                         /\ m <= Block /\ s.read + m <= Size /\ (m = Block \/ s.read + m = Size)
                         /\ (m = 0 => s.read + m = Size)
    BY <1>1, ReadnIs
  <1> DEFINE data == Readn(s.read)
             t == Reread(s)
  <1>3. /\ t = [in |-> s.in, next |-> Put(s.next, 0, data), got |-> s.got, more |-> Len(data), start |-> 0,
                have |-> s.have, nextIn |-> s.nextIn, sc |-> s.sc, left |-> s.left, hashed |-> s.hashed,
                read |-> s.read + Len(data)]
    <2>1. t = [s EXCEPT !.next = Put(s.next, 0, data), !.more = Len(data), !.start = 0,
                        !.read = s.read + Len(data)]
      BY DEF Reread
    <2>2. s = [in |-> s.in, next |-> s.next, got |-> s.got, more |-> s.more, start |-> s.start,
               have |-> s.have, nextIn |-> s.nextIn, sc |-> s.sc, left |-> s.left, hashed |-> s.hashed,
               read |-> s.read]
      BY DEF OneRecs
    <2> HIDE DEF data, t
    <2> QED BY <2>1, <2>2
  <1> HIDE DEF data, t
  <1>4. /\ t.next = Put(s.next, 0, data) /\ t.more = m /\ t.start = 0 /\ t.read = s.read + m
        /\ t.in = s.in /\ t.got = s.got /\ t.nextIn = s.nextIn /\ t.have = s.have
        /\ t.sc = s.sc /\ t.left = s.left /\ t.hashed = s.hashed
    BY <1>2, <1>3 DEF data
  <1>5. Put(s.next, 0, data) \in [Places -> Nat] /\ Holds(Put(s.next, 0, data), 0, m, s.read + 1)
    <2>1. Runs(data, s.read + 1, m) /\ 0 + m <= Block
      BY <1>2 DEF data
    <2> QED BY <1>1, <2>1, PutIs
  <1>6. t \in OneRecs
    <2>1. Len(data) \in Nat /\ s.read + Len(data) \in Nat
      BY <1>1, <1>2 DEF data
    <2> QED BY <1>3, <1>5, <2>1 DEF OneRecs
  <1>7. t.more = Block \/ t.read = Size
    BY <1>2, <1>4
  <1> QED BY <1>2, <1>4, <1>5, <1>6, <1>7 DEF t

LEMMA SwappedIs ==
    ASSUME NEW s \in OneRecs, NEW u, u = [s EXCEPT !.in = s.next, !.next = s.in, !.nextIn = s.start, !.got = s.more]
    PROVE  u = [in |-> s.next, next |-> s.in, got |-> s.more, more |-> s.more, start |-> s.start,
                have |-> s.have, nextIn |-> s.start, sc |-> s.sc, left |-> s.left, hashed |-> s.hashed,
                read |-> s.read]
  <1>1. s = [in |-> s.in, next |-> s.next, got |-> s.got, more |-> s.more, start |-> s.start,
             have |-> s.have, nextIn |-> s.nextIn, sc |-> s.sc, left |-> s.left, hashed |-> s.hashed,
             read |-> s.read]
    BY DEF OneRecs
  <1> QED BY <1>1

\* What was read ahead takes the place of what is used up.
LEMMA SwapIs ==
    ASSUME NEW s, NEW p \in Nat, Stock(s, p), s.got = 0, Size \in Nat
    PROVE  LET t == Swap(s)
           IN  /\ Stock(t, p) /\ t.got = s.more /\ t.nextIn = s.start /\ t.start = 0
               /\ t.more = Block \/ t.read = Size
               /\ t.have = s.have /\ t.hashed = s.hashed
  <1> DEFINE u == [s EXCEPT !.in = s.next, !.next = s.in, !.nextIn = s.start, !.got = s.more]
             t == Swap(s)
  <1>1. /\ s \in OneRecs /\ s.in \in [Places -> Nat] /\ s.next \in [Places -> Nat]
        /\ s.more \in Nat /\ s.start \in Nat /\ s.read \in Nat
    BY DEF Stock, OneRecs
  <1>2. /\ s.start + s.more <= Block /\ Holds(s.next, s.start, s.more, p + 1)
        /\ s.read = p + s.more /\ s.read <= Size
    <2>1. /\ s.start + s.more <= Block /\ Holds(s.next, s.start, s.more, p + 0 + 1)
          /\ s.read = p + 0 + s.more /\ s.read <= Size
      BY DEF Stock, NextStock
    <2>2. p + 0 + 1 = p + 1 /\ p + 0 + s.more = p + s.more
      BY <1>1
    <2> QED BY <2>1, <2>2
  <1>3. u = [in |-> s.next, next |-> s.in, got |-> s.more, more |-> s.more, start |-> s.start,
             have |-> s.have, nextIn |-> s.start, sc |-> s.sc, left |-> s.left, hashed |-> s.hashed,
             read |-> s.read]
    BY <1>1, SwappedIs
  <1>4. t = Reread(u)
    BY DEF Swap
  <1> HIDE DEF u, t
  <1>5. u \in OneRecs
    BY <1>1, <1>3 DEF OneRecs
  <1>6. /\ u.in = s.next /\ u.got = s.more /\ u.nextIn = s.start /\ u.have = s.have
        /\ u.hashed = s.hashed /\ u.read = s.read
    BY <1>3
  <1>7. /\ t \in OneRecs /\ t.start = 0 /\ t.more <= Block /\ Holds(t.next, 0, t.more, u.read + 1)
        /\ t.read = u.read + t.more /\ t.read <= Size /\ (t.more = 0 => t.read = Size)
        /\ t.more = Block \/ t.read = Size
        /\ t.in = u.in /\ t.got = u.got /\ t.nextIn = u.nextIn /\ t.have = u.have /\ t.hashed = u.hashed
    BY <1>2, <1>4, <1>5, <1>6, RereadIs
  <1>8. t.more \in Nat /\ 0 + t.more = t.more /\ u.read + 1 = p + s.more + 1 /\ u.read + t.more = p + s.more + t.more
    <2>1. t.more \in Nat
      BY <1>7 DEF OneRecs
    <2> QED BY <1>1, <1>2, <1>6, <2>1
  <1>9. InStock(t, p)
    BY <1>2, <1>6, <1>7 DEF InStock
  <1>10. NextStock(t, p)
    BY <1>6, <1>7, <1>8 DEF NextStock
  <1> QED BY <1>6, <1>7, <1>9, <1>10 DEF t, Stock

\* In the search behind byte p for a hit, d bytes are hashed and none but the last
\* can be one.
Hashing(s, p, d) ==
    /\ Stock(s, p) /\ d \in Nat /\ d <= s.got /\ s.got > 0 /\ s.left = s.got - d /\ s.sc = s.nextIn + d
    /\ Runs(s.hashed, 1, p + d) /\ Clear(p, p + d - 1)

LEMMA RefilledIs ==
    ASSUME NEW s \in OneRecs, NEW in, NEW left, NEW t,
           t = [s EXCEPT !.in = in, !.nextIn = 0, !.sc = s.got, !.left = left, !.got = s.got + left,
                         !.more = s.more - left, !.start = s.start + left]
    PROVE  t = [in |-> in, next |-> s.next, got |-> s.got + left, more |-> s.more - left,
                start |-> s.start + left, have |-> s.have, nextIn |-> 0, sc |-> s.got, left |-> left,
                hashed |-> s.hashed, read |-> s.read]
  <1>1. s = [in |-> s.in, next |-> s.next, got |-> s.got, more |-> s.more, start |-> s.start,
             have |-> s.have, nextIn |-> s.nextIn, sc |-> s.sc, left |-> s.left, hashed |-> s.hashed,
             read |-> s.read]
    BY DEF OneRecs
  <1> QED BY <1>1

LEMMA HashedIs ==
    ASSUME NEW s \in OneRecs, NEW left, NEW sc, NEW hashed, NEW t,
           t = [s EXCEPT !.left = left, !.sc = sc, !.hashed = hashed]
    PROVE  t = [in |-> s.in, next |-> s.next, got |-> s.got, more |-> s.more, start |-> s.start,
                have |-> s.have, nextIn |-> s.nextIn, sc |-> sc, left |-> left, hashed |-> hashed,
                read |-> s.read]
  <1>1. s = [in |-> s.in, next |-> s.next, got |-> s.got, more |-> s.more, start |-> s.start,
             have |-> s.have, nextIn |-> s.nextIn, sc |-> s.sc, left |-> s.left, hashed |-> s.hashed,
             read |-> s.read]
    BY DEF OneRecs
  <1> QED BY <1>1

LEMMA StockIs ==
    ASSUME NEW s, NEW p \in Nat, Stock(s, p), Size \in Nat
    PROVE  /\ s \in OneRecs /\ s.in \in [Places -> Nat] /\ s.next \in [Places -> Nat]
           /\ s.got \in Nat /\ s.more \in Nat /\ s.start \in Nat /\ s.have \in Nat /\ s.nextIn \in Nat
           /\ s.left \in Nat /\ s.sc \in Nat /\ s.hashed \in Seq(Nat) /\ s.read \in Nat
           /\ s.nextIn + s.got <= Block /\ Holds(s.in, s.nextIn, s.got, p + 1)
           /\ s.start + s.more <= Block /\ Holds(s.next, s.start, s.more, p + s.got + 1)
           /\ s.read = p + s.got + s.more /\ s.read <= Size /\ (s.more = 0 => s.read = Size)
  BY DEF Stock, InStock, NextStock, OneRecs

\* The front of in and what fits behind it of next.
LEMMA RefillIs ==
    ASSUME NEW s, NEW p \in Nat, Stock(s, p), s.more # 0, s.got < Block, Size \in Nat
    PROVE  LET t == Refill(s)
           IN  /\ Stock(t, p) /\ t.left \in Nat /\ t.left > 0 /\ t.got = s.got + t.left
               /\ t.sc = s.got /\ t.nextIn = 0 /\ t.have = s.have /\ t.hashed = s.hashed
  <1> DEFINE left == Min({s.more, Block - s.got})
             was == Slice(s.in, s.nextIn, s.got)
             new == Slice(s.next, s.start, left)
             in == Put(Put(s.in, 0, was), s.got, new)
             t == [s EXCEPT !.in = in, !.nextIn = 0, !.sc = s.got, !.left = left, !.got = s.got + left,
                            !.more = s.more - left, !.start = s.start + left]
             r == Refill(s)
  <1>1. r = IF t.more = 0 THEN Reread(t) ELSE t
    BY DEF Refill
  <1> HIDE DEF r
  <1>2. /\ s \in OneRecs /\ s.in \in [Places -> Nat] /\ s.next \in [Places -> Nat]
        /\ s.got \in Nat /\ s.more \in Nat /\ s.start \in Nat /\ s.have \in Nat /\ s.nextIn \in Nat
        /\ s.hashed \in Seq(Nat) /\ s.read \in Nat
        /\ s.nextIn + s.got <= Block /\ Holds(s.in, s.nextIn, s.got, p + 1)
        /\ s.start + s.more <= Block /\ Holds(s.next, s.start, s.more, p + s.got + 1)
        /\ s.read = p + s.got + s.more /\ s.read <= Size /\ Block \in Nat
    BY StockIs, PlacesAre
  <1>21. /\ s.got \in Nat /\ s.more \in Nat /\ s.start \in Nat /\ s.nextIn \in Nat /\ Block \in Nat
         /\ s.nextIn + s.got <= Block /\ s.start + s.more <= Block /\ s.read = p + s.got + s.more
         /\ s.more # 0 /\ s.got < Block
    BY <1>2
  <1>3. left \in Nat /\ left > 0 /\ left <= s.more /\ s.got + left <= Block
    <2>1. left = IF s.more <= Block - s.got THEN s.more ELSE Block - s.got
      <3>1. s.more \in Int /\ Block - s.got \in Int
        BY <1>2
      <3> QED BY <3>1, MinIs
    <2>2. \A b, g, m \in Nat : m # 0 /\ g < b =>
              LET n == IF m <= b - g THEN m ELSE b - g
              IN  n \in Nat /\ n > 0 /\ n <= m /\ g + n <= b
      OBVIOUS
    <2> HIDE DEF left
    <2> QED BY <1>21, <2>1, <2>2
  <1>31. /\ left \in Nat /\ s.got + left \in Nat /\ s.more - left \in Nat /\ s.start + left \in Nat
         /\ p + s.got + 1 \in Nat /\ p + 1 \in Nat /\ p + s.got + 1 = (p + 1) + s.got
         /\ left + (s.more - left) <= s.more /\ (p + s.got + 1) + left = p + (s.got + left) + 1
         /\ 0 + (s.got + left) <= Block /\ p + (s.got + left) + (s.more - left) = s.read
         /\ (s.start + left) + (s.more - left) <= Block
         /\ (s.more - left = 0 => s.read = p + (s.got + left))
    <2>1. \A g, m, a, n, b \in Nat : n <= m /\ g + n <= b /\ a + m <= b =>
             /\ g + n \in Nat /\ m - n \in Nat /\ a + n \in Nat /\ p + g + 1 \in Nat /\ p + 1 \in Nat
             /\ p + g + 1 = (p + 1) + g /\ n + (m - n) <= m /\ (p + g + 1) + n = p + (g + n) + 1
             /\ 0 + (g + n) <= b /\ p + (g + n) + (m - n) = p + g + m
             /\ (a + n) + (m - n) <= b /\ (m - n = 0 => p + g + m = p + (g + n))
      OBVIOUS
    <2> HIDE DEF left
    <2> QED BY <1>3, <1>21, <2>1
  <1>4. t = [in |-> in, next |-> s.next, got |-> s.got + left, more |-> s.more - left,
             start |-> s.start + left, have |-> s.have, nextIn |-> 0, sc |-> s.got, left |-> left,
             hashed |-> s.hashed, read |-> s.read]
    <2> HIDE DEF left, in
    <2> QED BY <1>2, RefilledIs
  <1> HIDE DEF t, left
  <1>5. in \in [Places -> Nat] /\ Holds(in, 0, s.got + left, p + 1)
    <2>1. Runs(was, p + 1, s.got)
      BY <1>2, SliceIs
    <2>2. Runs(new, p + s.got + 1, left)
      <3>1. p + s.got + 1 \in Nat
        BY <1>21
      <3> QED BY <1>2, <1>3, <3>1, SliceIs
    <2> HIDE DEF was, new
    <2> DEFINE b == Put(s.in, 0, was)
    <2>3. b \in [Places -> Nat] /\ Holds(b, 0, s.got, p + 1)
      <3>1. 0 + s.got <= Block
        BY <1>2
      <3> QED BY <1>2, <2>1, <3>1, PutIs
    <2> HIDE DEF b
    <2>4. p + 1 \in Nat /\ p + s.got + 1 = (p + 1) + s.got
      BY <1>31
    <2>5. Put(b, s.got, new) \in [Places -> Nat] /\ Holds(Put(b, s.got, new), 0, s.got + left, p + 1)
      BY <1>2, <1>3, <2>2, <2>3, <2>4, PutBehind
    <2> QED BY <2>5 DEF b
  <1>6. Holds(s.next, s.start + left, s.more - left, p + (s.got + left) + 1)
    <2> DEFINE f == p + s.got + 1
    <2>1. f \in Nat /\ s.more - left \in Nat /\ left + (s.more - left) <= s.more /\ f + left = p + (s.got + left) + 1
      BY <1>31
    <2>2. Holds(s.next, s.start, s.more, f)
      BY <1>2
    <2> HIDE DEF f
    <2>3. Holds(s.next, s.start + left, s.more - left, f + left)
      BY <1>2, <1>3, <2>1, <2>2, HoldsPart
    <2> QED BY <2>1, <2>3
  <1> HIDE DEF in
  <1>7. /\ t.in = in /\ t.next = s.next /\ t.got = s.got + left /\ t.more = s.more - left
        /\ t.start = s.start + left /\ t.have = s.have /\ t.nextIn = 0 /\ t.sc = s.got
        /\ t.left = left /\ t.hashed = s.hashed /\ t.read = s.read
    BY <1>4
  <1>8. t \in OneRecs
    <2>1. s.got + left \in Nat /\ s.more - left \in Nat /\ s.start + left \in Nat
      BY <1>31
    <2> QED BY <1>2, <1>3, <1>4, <1>5, <2>1 DEF OneRecs
  <1>9. 0 + (s.got + left) <= Block /\ p + (s.got + left) + (s.more - left) = s.read
        /\ (s.start + left) + (s.more - left) <= Block
        /\ (s.more - left = 0 => s.read = p + (s.got + left))
    BY <1>31
  <1>10. CASE t.more = 0
    <2>1. /\ r \in OneRecs /\ r.start = 0 /\ r.more <= Block /\ Holds(r.next, 0, r.more, t.read + 1)
          /\ r.read = t.read + r.more /\ r.read <= Size /\ (r.more = 0 => r.read = Size)
          /\ r.in = t.in /\ r.got = t.got /\ r.nextIn = t.nextIn /\ r.have = t.have
          /\ r.sc = t.sc /\ r.left = t.left /\ r.hashed = t.hashed
      BY <1>1, <1>2, <1>7, <1>8, <1>10, RereadIs
    <2>2. InStock(r, p)
      BY <1>5, <1>7, <1>9, <2>1 DEF InStock
    <2>3. NextStock(r, p)
      <3>1. r.more \in Nat
        BY <2>1 DEF OneRecs
      <3>2. t.read = p + r.got
        BY <1>7, <1>9, <1>10, <2>1
      <3>3. 0 + r.more = r.more
        BY <3>1
      <3> QED BY <2>1, <3>2, <3>3 DEF NextStock
    <2> QED BY <1>3, <1>7, <2>1, <2>2, <2>3 DEF Stock, r
  <1>11. CASE t.more # 0
    <2>1. r = t
      BY <1>1, <1>11
    <2>2. InStock(t, p)
      BY <1>5, <1>7, <1>9 DEF InStock
    <2>3. NextStock(t, p)
      BY <1>2, <1>6, <1>7, <1>9, <1>11 DEF NextStock
    <2> QED BY <1>3, <1>7, <1>8, <2>1, <2>2, <2>3 DEF Stock, r
  <1> QED BY <1>10, <1>11

LEMMA RunOn ==
    ASSUME NEW s, NEW n, Runs(s, 1, n), NEW x, x = n + 1
    PROVE  Runs(Append(s, x), 1, n + 1)
  <1> DEFINE t == Append(s, x)
  <1>1. /\ n \in Nat /\ s \in Seq(Nat) /\ Len(s) = n /\ \A k \in 1 .. n : s[k] = 1 + k - 1
    BY RunIs DEF Runs
  <1>2. t \in Seq(Nat) /\ Len(t) = n + 1 /\ t[n + 1] = n + 1 /\ \A k \in 1 .. n : t[k] = s[k]
    BY <1>1
  <1> HIDE DEF t
  <1>3. \A k \in 1 .. n + 1 : t[k] = 1 + k - 1
    <2> SUFFICES ASSUME NEW k \in 1 .. n + 1 PROVE t[k] = 1 + k - 1
      OBVIOUS
    <2>1. k \in 1 .. n \/ k = n + 1
      BY <1>1
    <2> QED BY <1>1, <1>2, <2>1
  <1> QED BY <1>2, <1>3, IsRun DEF t

LEMMA HashByteIs ==
    ASSUME NEW s, NEW p \in Nat, NEW d, Hashing(s, p, d), ~Over(s), d = 0 \/ p + d \notin cfg.hits, Size \in Nat
    PROVE  LET t == HashByte(s) IN Hashing(t, p, d + 1) /\ t.have = s.have
  <1> DEFINE r == IF s.left = 0 THEN Refill(s) ELSE s
             t == HashByte(s)
  <1>1. /\ Stock(s, p) /\ d \in Nat /\ d <= s.got /\ s.got > 0 /\ s.left = s.got - d
        /\ s.sc = s.nextIn + d /\ Runs(s.hashed, 1, p + d) /\ Clear(p, p + d - 1)
    BY DEF Hashing
  <1>2. s.got \in Nat /\ s.nextIn \in Nat /\ s.nextIn + s.got <= Block /\ Block \in Nat
    BY <1>1, StockIs, PlacesAre
  <1>3. /\ Stock(r, p) /\ r.got \in Nat /\ d < r.got /\ r.left = r.got - d /\ r.sc = r.nextIn + d
        /\ r.hashed = s.hashed /\ r.have = s.have
    <2>1. CASE s.left = 0
      <3>1. d = s.got /\ s.more # 0 /\ s.got < Block
        BY <1>1, <1>2, <2>1 DEF Over
      <3>2. /\ Stock(r, p) /\ r.left \in Nat /\ r.left > 0 /\ r.got = s.got + r.left
            /\ r.sc = s.got /\ r.nextIn = 0 /\ r.have = s.have /\ r.hashed = s.hashed
        BY <1>1, <2>1, <3>1, RefillIs
      <3> HIDE DEF r
      <3> QED BY <1>2, <3>1, <3>2
    <2>2. CASE s.left # 0
      BY <1>1, <1>2, <2>2
    <2> QED BY <2>1, <2>2
  <1>4. t = [r EXCEPT !.left = r.left - 1, !.sc = r.sc + 1, !.hashed = Append(r.hashed, r.in[r.sc])]
    BY DEF HashByte
  <1> HIDE DEF r, t
  <1>5. /\ r \in OneRecs /\ r.in \in [Places -> Nat] /\ r.next \in [Places -> Nat]
        /\ r.more \in Nat /\ r.start \in Nat /\ r.have \in Nat /\ r.nextIn \in Nat /\ r.read \in Nat
        /\ r.nextIn + r.got <= Block /\ Holds(r.in, r.nextIn, r.got, p + 1)
    BY <1>3, StockIs
  <1>6. t = [in |-> r.in, next |-> r.next, got |-> r.got, more |-> r.more, start |-> r.start,
             have |-> r.have, nextIn |-> r.nextIn, sc |-> r.sc + 1, left |-> r.left - 1,
             hashed |-> Append(r.hashed, r.in[r.sc]), read |-> r.read]
    <2> DEFINE left == r.left - 1
               sc == r.sc + 1
               hashed == Append(r.hashed, r.in[r.sc])
    <2>1. t = [r EXCEPT !.left = left, !.sc = sc, !.hashed = hashed]
      BY <1>4
    <2> HIDE DEF left, sc, hashed
    <2>2. t = [in |-> r.in, next |-> r.next, got |-> r.got, more |-> r.more, start |-> r.start,
               have |-> r.have, nextIn |-> r.nextIn, sc |-> sc, left |-> left,
               hashed |-> hashed, read |-> r.read]
      BY <1>5, <2>1, HashedIs
    <2> QED BY <2>2 DEF left, sc, hashed
  <1>7. r.in[r.sc] = p + d + 1
    <2>1. d \in 0 .. r.got - 1
      BY <1>1, <1>3
    <2>2. r.in[r.nextIn + d] = p + 1 + d
      BY <1>5, <2>1 DEF Holds
    <2> QED BY <1>1, <1>3, <2>2
  <1>8. Runs(Append(r.hashed, r.in[r.sc]), 1, p + (d + 1))
    <2>1. p + (d + 1) = (p + d) + 1 /\ p + d + 1 = (p + d) + 1
      BY <1>1
    <2> QED BY <1>1, <1>3, <1>7, <2>1, RunOn
  <1>9. Clear(p, p + (d + 1) - 1)
    <2> SUFFICES ASSUME NEW h \in p + 1 .. p + (d + 1) - 1 PROVE h \notin cfg.hits
      BY DEF Clear
    <2>1. CASE h = p + d
      BY <1>1, <2>1
    <2>2. CASE h # p + d
      <3>1. h \in p + 1 .. p + d - 1
        BY <1>1, <2>2
      <3> QED BY <1>1, <3>1 DEF Clear
    <2> QED BY <2>1, <2>2
  <1> DEFINE hashed == Append(r.hashed, r.in[r.sc])
  <1>10. t \in OneRecs
    <2>1. r.sc + 1 \in Nat /\ r.left - 1 \in Nat
      BY <1>1, <1>3, <1>5
    <2>2. hashed \in Seq(Nat)
      BY <1>8, RunLen
    <2> HIDE DEF hashed
    <2>3. t = [in |-> r.in, next |-> r.next, got |-> r.got, more |-> r.more, start |-> r.start,
               have |-> r.have, nextIn |-> r.nextIn, sc |-> r.sc + 1, left |-> r.left - 1,
               hashed |-> hashed, read |-> r.read]
      BY <1>6 DEF hashed
    <2> QED BY <1>3, <1>5, <2>1, <2>2, <2>3 DEF OneRecs
  <1>11. /\ t.in = r.in /\ t.next = r.next /\ t.got = r.got /\ t.more = r.more /\ t.start = r.start
         /\ t.have = r.have /\ t.nextIn = r.nextIn /\ t.sc = r.sc + 1 /\ t.left = r.left - 1
         /\ t.hashed = Append(r.hashed, r.in[r.sc]) /\ t.read = r.read
    BY <1>6
  <1>12. Stock(t, p)
    BY <1>3, <1>10, <1>11 DEF Stock, InStock, NextStock
  <1>13. d + 1 \in Nat /\ d + 1 <= r.got /\ r.got > 0 /\ r.left - 1 = r.got - (d + 1) /\ r.sc + 1 = r.nextIn + (d + 1)
    BY <1>1, <1>3, <1>5
  <1>14. Hashing(t, p, d + 1)
    BY <1>8, <1>9, <1>11, <1>12, <1>13 DEF Hashing
  <1> QED BY <1>3, <1>11, <1>14 DEF t

\* Search, a byte at a time.
Searched(f, s, k) == IF k = 0 THEN s
                     ELSE IF Over(f[k-1]) \/ (k > 1 /\ Last(f[k-1].hashed) \in cfg.hits)
                     THEN f[k-1] ELSE HashByte(f[k-1])

LEMMA SearchExists == ASSUME NEW s, NEW n \in Nat PROVE \E f : f = [k \in 0 .. n |-> Searched(f, s, k)]
  <1> DEFINE S == {i \in Nat : \E f : f = [k \in 0 .. i |-> Searched(f, s, k)]}
  <1>1. 0 \in S
    <2> DEFINE f == [k \in 0 .. 0 |-> s]
    <2>1. f = [k \in 0 .. 0 |-> Searched(f, s, k)]
      BY DEF Searched
    <2> QED BY <2>1
  <1>2. \A i \in Nat : i \in S => i + 1 \in S
    <2> SUFFICES ASSUME NEW i \in Nat, i \in S PROVE i + 1 \in S
      OBVIOUS
    <2>1. PICK f : f = [k \in 0 .. i |-> Searched(f, s, k)]
      OBVIOUS
    <2> DEFINE g == [k \in 0 .. i + 1 |-> IF k = i + 1 THEN Searched(f, s, i + 1) ELSE f[k]]
    <2>2. \A k \in 0 .. i + 1 : g[k] = Searched(g, s, k)
      <3> SUFFICES ASSUME NEW k \in 0 .. i + 1 PROVE g[k] = Searched(g, s, k)
        OBVIOUS
      <3>1. k # 0 => k - 1 \in 0 .. i /\ g[k - 1] = f[k - 1]
        OBVIOUS
      <3>2. Searched(g, s, k) = Searched(f, s, k)
        BY <3>1 DEF Searched
      <3>3. k # i + 1 => f[k] = Searched(f, s, k)
        <4>1. \A q \in 0 .. i : f[q] = Searched(f, s, q)
          BY <2>1, Zenon
        <4>2. k # i + 1 => k \in 0 .. i
          OBVIOUS
        <4> QED BY <4>1, <4>2
      <3> QED BY <3>2, <3>3
    <2>3. g = [k \in 0 .. i + 1 |-> Searched(g, s, k)]
      BY <2>2
    <2> HIDE DEF g
    <2> QED BY <2>3
  <1> HIDE DEF S
  <1>3. n \in S
    BY <1>1, <1>2, SetInduction
  <1> QED BY <1>3 DEF S

\* The search is over.
Found(t, p, d) == d > 0 /\ (Over(t) \/ p + d \in cfg.hits)

LEMMA LastHashed ==
    ASSUME NEW t, NEW p \in Nat, NEW d, Hashing(t, p, d), d > 0
    PROVE  Last(t.hashed) = p + d
  <1>1. Runs(t.hashed, 0 + 1, p + d) /\ d \in Nat /\ p + d \in Nat /\ p + d # 0
    BY DEF Hashing
  <1>2. t.hashed # <<>>
    BY <1>1, RunLen
  <1>3. Last(t.hashed) = 0 + (p + d)
    BY <1>1, <1>2, EndOfRun
  <1> QED BY <1>1, <1>3

\* A step of the search.
LEMMA SearchedIs ==
    ASSUME NEW t, NEW u, NEW p \in Nat, NEW d, NEW k \in Nat, Hashing(t, p, d), d <= k,
           d = k \/ Found(t, p, d), k > 0 => d > 0, Size \in Nat,
           u = IF Over(t) \/ (k + 1 > 1 /\ Last(t.hashed) \in cfg.hits) THEN t ELSE HashByte(t)
    PROVE  /\ u.have = t.have
           /\ \E e : Hashing(u, p, e) /\ e <= k + 1 /\ (e = k + 1 \/ Found(u, p, e)) /\ e > 0
  <1>1. d \in Nat /\ t.left = t.got - d /\ t.got > 0 /\ (k = 0 => d = 0)
    BY DEF Hashing
  <1>2. k + 1 > 1 <=> d > 0
    BY <1>1
  <1>3. d > 0 => Last(t.hashed) = p + d
    BY LastHashed
  <1>4. Over(t) => d > 0
    <2>1. t.got \in Nat
      BY StockIs DEF Hashing
    <2> QED BY <1>1, <2>1 DEF Over
  <1>5. CASE Over(t) \/ (d > 0 /\ p + d \in cfg.hits)
    <2>1. u = t
      BY <1>2, <1>3, <1>5
    <2>2. Found(t, p, d)
      BY <1>4, <1>5 DEF Found
    <2>3. d <= k + 1 /\ d > 0
      BY <1>1, <2>2 DEF Found
    <2> QED BY <2>1, <2>2, <2>3
  <1>6. CASE ~(Over(t) \/ (d > 0 /\ p + d \in cfg.hits))
    <2>1. u = HashByte(t)
      BY <1>2, <1>3, <1>6
    <2>2. d = k
      BY <1>6 DEF Found
    <2>3. d = 0 \/ p + d \notin cfg.hits
      BY <1>1, <1>6
    <2>4. Hashing(u, p, d + 1) /\ u.have = t.have
      BY <1>6, <2>1, <2>3, HashByteIs
    <2>5. d + 1 = k + 1 /\ d + 1 <= k + 1 /\ d + 1 > 0
      BY <1>1, <2>2
    <2> QED BY <2>4, <2>5
  <1> QED BY <1>5, <1>6

LEMMA SearchIs ==
    ASSUME NEW s, NEW p \in Nat, Hashing(s, p, 0), Size \in Nat
    PROVE  /\ Search(s).have = s.have
           /\ \E d : /\ Hashing(Search(s), p, d) /\ d > 0 /\ d <= Block
                     /\ p + d \in cfg.hits \/ d = Block \/ p + d = Size
  <1> DEFINE f == CHOOSE f : f = [k \in 0 .. Block |-> Searched(f, s, k)]
             Fine(k) == /\ f[k].have = s.have
                        /\ \E d : /\ Hashing(f[k], p, d) /\ d <= k /\ (d = k \/ Found(f[k], p, d))
                                  /\ k > 0 => d > 0
             S == {k \in Nat : k <= Block => Fine(k)}
  <1>1. Block \in Nat /\ Block > 0
    BY PlacesAre
  <1>2. Search(s) = f[Block]
    BY DEF Search, Searched
  <1>3. f = [k \in 0 .. Block |-> Searched(f, s, k)]
    <2>1. \E g : g = [k \in 0 .. Block |-> Searched(g, s, k)]
      BY <1>1, SearchExists
    <2> QED BY <2>1, Zenon
  <1> HIDE DEF f
  <1>4. \A k \in 0 .. Block : f[k] = Searched(f, s, k)
    BY <1>3, Zenon
  <1>5. 0 \in S
    <2>1. 0 \in 0 .. Block
      BY <1>1
    <2>2. f[0] = s
      BY <1>4, <2>1 DEF Searched
    <2>3. Fine(0)
      BY <2>2
    <2> HIDE DEF Fine
    <2> QED BY <2>3
  <1>6. \A k \in Nat : k \in S => k + 1 \in S
    <2> SUFFICES ASSUME NEW k \in Nat, k <= Block => Fine(k), k + 1 <= Block PROVE Fine(k + 1)
      OBVIOUS
    <2>1. Fine(k) /\ k + 1 \in 0 .. Block /\ (k + 1) - 1 = k /\ k + 1 # 0 /\ k + 1 > 0
      BY <1>1
    <2>2. PICK d : /\ Hashing(f[k], p, d) /\ d <= k /\ (d = k \/ Found(f[k], p, d)) /\ (k > 0 => d > 0)
      BY <2>1
    <2>3. f[k].have = s.have
      BY <2>1
    <2> HIDE DEF Fine
    <2> DEFINE t == f[k]
               u == f[k + 1]
    <2>4. u = IF Over(t) \/ (k + 1 > 1 /\ Last(t.hashed) \in cfg.hits) THEN t ELSE HashByte(t)
      BY <1>4, <2>1 DEF Searched
    <2>5. Hashing(t, p, d) /\ t.have = s.have /\ (d = k \/ Found(t, p, d))
      BY <2>2, <2>3
    <2> HIDE DEF t, u
    <2>6. /\ u.have = t.have
          /\ \E e : Hashing(u, p, e) /\ e <= k + 1 /\ (e = k + 1 \/ Found(u, p, e)) /\ e > 0
      BY <2>2, <2>4, <2>5, SearchedIs
    <2> QED BY <2>5, <2>6 DEF u, Fine
  <1> HIDE DEF S
  <1>7. Fine(Block)
    <2>1. Block \in S
      BY <1>1, <1>5, <1>6, SetInduction
    <2> QED BY <1>1, <2>1 DEF S
  <1>8. PICK d : /\ Hashing(f[Block], p, d) /\ d <= Block /\ (d = Block \/ Found(f[Block], p, d)) /\ d > 0
    BY <1>1, <1>7
  <1> DEFINE t == f[Block]
  <1>9. t.have = s.have
    BY <1>7
  <1> HIDE DEF Fine
  <1>10. Hashing(t, p, d) /\ (d = Block \/ Found(t, p, d))
    BY <1>8
  <1> HIDE DEF t
  <1>11. p + d \in cfg.hits \/ d = Block \/ p + d = Size
    <2> SUFFICES ASSUME Over(t), d # Block PROVE p + d = Size
      BY <1>10 DEF Found
    <2>1. d \in Nat /\ t.got \in Nat /\ t.left = t.got - d /\ t.read = p + t.got + t.more /\ (t.more = 0 => t.read = Size)
      BY <1>10, StockIs DEF Hashing
    <2> QED BY <2>1 DEF Over
  <1> QED BY <1>2, <1>8, <1>9, <1>10, <1>11 DEF t

-----------------------------------------------------------------------------
(* The single path: what it has compressed.                                *)

PieceRecs == [data : Seq(Nat), fresh : BOOLEAN, more : BOOLEAN]
PiecesAt == [k \in 0 .. Len(pieces) |-> PieceEnd(k)]
Reached == PiecesAt[Len(pieces)]
Compressed == [k \in DOMAIN pieces |-> [data |-> pieces[k].data, more |-> pieces[k].more]]

\* No history is dropped at a piece behind i, up to j.
Keeping(i, j) == \A k \in i + 1 .. j : ~pieces[k].fresh

\* The history goes back as far as have says, and never more than a block; without
\* --rsyncable it goes at every piece but the first.
HistoryOK ==
    /\ cfg.setdict => \A k \in 1 .. Len(pieces) : ~pieces[k].fresh
    /\ ~cfg.setdict =>
         /\ one.have <= Block
         /\ \A i \in 1 .. Len(pieces) : Keeping(i, Len(pieces)) => Reached - PiecesAt[i - 1] <= one.have
         /\ \A i, j \in 1 .. Len(pieces) :
               i <= j /\ Keeping(i, j) => PiecesAt[j] - PiecesAt[i - 1] <= Block
         /\ ~cfg.rsync => /\ \A k \in 1 .. Len(pieces) : pieces[k].fresh <=> k # 1
                          /\ one.have = 0 \/ Len(pieces) # 0
                          /\ Len(pieces) # 0 /\ Reached # Size => one.have = Block

OneInv ==
    /\ pieces \in Seq(PieceRecs)
    /\ one = None => pieces = <<>>
    /\ one # None =>
         /\ cfg # None /\ ~Cutting
         /\ Stock(one, Reached)
         /\ pieces = <<>> => one.got = 0
         /\ pieces # <<>> => Chain(Compressed, PiecesAt, Len(pieces), 0)
         /\ cfg.rsync => Runs(one.hashed, 1, Reached)
         /\ ~cfg.rsync => one.got = 0 /\ one.start = 0 /\ (one.more = Block \/ one.read = Size)
         /\ HistoryOK

\* A round of single, as far as its search.
Stocked == IF one.got = 0 THEN Swap(one) ELSE one
Ready == IF cfg.rsync /\ Stocked.got > 0
         THEN Search([Stocked EXCEPT !.sc = Stocked.nextIn, !.left = Stocked.got])
         ELSE [Stocked EXCEPT !.left = 0]
Amount == Ready.got - Ready.left

LEMMA AimedIs ==
    ASSUME NEW s \in OneRecs, NEW sc, NEW left, NEW t, t = [s EXCEPT !.sc = sc, !.left = left]
    PROVE  t = [in |-> s.in, next |-> s.next, got |-> s.got, more |-> s.more, start |-> s.start,
                have |-> s.have, nextIn |-> s.nextIn, sc |-> sc, left |-> left, hashed |-> s.hashed,
                read |-> s.read]
  <1>1. s = [in |-> s.in, next |-> s.next, got |-> s.got, more |-> s.more, start |-> s.start,
             have |-> s.have, nextIn |-> s.nextIn, sc |-> s.sc, left |-> s.left, hashed |-> s.hashed,
             read |-> s.read]
    BY DEF OneRecs
  <1> QED BY <1>1

LEMMA EndedIs ==
    ASSUME NEW s \in OneRecs, NEW left, NEW t, t = [s EXCEPT !.left = left]
    PROVE  t = [in |-> s.in, next |-> s.next, got |-> s.got, more |-> s.more, start |-> s.start,
                have |-> s.have, nextIn |-> s.nextIn, sc |-> s.sc, left |-> left, hashed |-> s.hashed,
                read |-> s.read]
  <1>1. s = [in |-> s.in, next |-> s.next, got |-> s.got, more |-> s.more, start |-> s.start,
             have |-> s.have, nextIn |-> s.nextIn, sc |-> s.sc, left |-> s.left, hashed |-> s.hashed,
             read |-> s.read]
    BY DEF OneRecs
  <1> QED BY <1>1

\* Neither sc nor left is about what is in the buffers.
LEMMA SameStock ==
    ASSUME NEW s, NEW p \in Nat, Stock(s, p), Size \in Nat, NEW sc \in Nat, NEW left \in Nat, NEW t,
           t = [in |-> s.in, next |-> s.next, got |-> s.got, more |-> s.more, start |-> s.start,
                have |-> s.have, nextIn |-> s.nextIn, sc |-> sc, left |-> left, hashed |-> s.hashed,
                read |-> s.read]
    PROVE  Stock(t, p)
  <1>1. /\ s \in OneRecs /\ s.in \in [Places -> Nat] /\ s.next \in [Places -> Nat]
        /\ s.got \in Nat /\ s.more \in Nat /\ s.start \in Nat /\ s.have \in Nat /\ s.nextIn \in Nat
        /\ s.hashed \in Seq(Nat) /\ s.read \in Nat
    BY StockIs
  <1>2. t \in OneRecs
    BY <1>1 DEF OneRecs
  <1>3. /\ t.in = s.in /\ t.next = s.next /\ t.got = s.got /\ t.more = s.more /\ t.start = s.start
        /\ t.nextIn = s.nextIn /\ t.read = s.read
    OBVIOUS
  <1> QED BY <1>2, <1>3 DEF Stock, InStock, NextStock

LEMMA ReachedIs ==
    ASSUME OneInv, one # None
    PROVE  /\ Reached \in Nat /\ Len(pieces) \in Nat /\ (pieces = <<>> <=> Len(pieces) = 0)
           /\ PiecesAt \in [0 .. Len(pieces) -> Nat] /\ PiecesAt[0] = 0
           /\ pieces = <<>> => Reached = 0
           /\ pieces # <<>> => (Last(pieces).more <=> Reached # Size)
  <1>1. Len(pieces) \in Nat /\ (pieces = <<>> <=> Len(pieces) = 0) /\ pieces \in Seq(PieceRecs)
    BY DEF OneInv
  <1>2. 0 \in 0 .. Len(pieces) /\ Len(pieces) \in 0 .. Len(pieces)
    BY <1>1
  <1>3. PiecesAt[0] = 0
    BY <1>2 DEF PiecesAt, PieceEnd
  <1>4. CASE pieces = <<>>
    <2>1. PiecesAt \in [0 .. Len(pieces) -> Nat]
      <3>1. PiecesAt = [k \in 0 .. 0 |-> 0]
        BY <1>1, <1>4 DEF PiecesAt, PieceEnd
      <3> QED BY <1>1, <1>4, <3>1
    <2> QED BY <1>1, <1>3, <1>4, <2>1 DEF Reached
  <1>5. CASE pieces # <<>>
    <2>1. Chain(Compressed, PiecesAt, Len(pieces), 0)
      BY <1>5 DEF OneInv
    <2>2. /\ PiecesAt \in [0 .. Len(pieces) -> Nat]
          /\ Compressed = [k \in 1 .. Len(pieces) |-> Piece(PiecesAt[k-1], PiecesAt[k])]
      BY <2>1 DEF Chain
    <2>3. Len(pieces) \in 1 .. Len(pieces) /\ DOMAIN pieces = 1 .. Len(pieces)
      BY <1>1, <1>5
    <2>4. Compressed[Len(pieces)].more = (Reached # Size)
      BY <2>2, <2>3 DEF Piece, Reached
    <2>5. Compressed[Len(pieces)].more = Last(pieces).more
      BY <2>3 DEF Compressed, Last
    <2>6. Reached \in Nat
      BY <1>2, <2>2 DEF Reached
    <2> QED BY <1>1, <1>3, <1>5, <2>2, <2>4, <2>5, <2>6
  <1> QED BY <1>4, <1>5

LEMMA StockedIs ==
    ASSUME CutInv, OneInv, SinglePending
    PROVE  /\ Stock(Stocked, Reached) /\ Stocked.have = one.have /\ Stocked.hashed = one.hashed
           /\ Stocked.got = 0 => Size = 0 /\ Reached = 0
           /\ ~cfg.rsync => /\ Stocked.start = 0 /\ (Stocked.more = Block \/ Stocked.read = Size)
                            /\ Stocked.got = Block \/ Reached + Stocked.got = Size
  <1> DEFINE p == Reached
             s == Stocked
  <1>1. one # None /\ cfg # None /\ Size \in Nat /\ Stock(one, p)
    BY DEF SinglePending, OneInv, CutInv, CutTypeOK, Size
  <1>2. p \in Nat /\ (pieces = <<>> => p = 0 /\ one.got = 0) /\ (pieces = <<>> \/ p # Size)
    BY <1>1, ReachedIs DEF SinglePending, OneInv
  <1>3. ~cfg.rsync => one.got = 0 /\ one.start = 0 /\ (one.more = Block \/ one.read = Size)
    BY <1>1 DEF OneInv
  <1> HIDE DEF p
  <1>4. /\ one.got \in Nat /\ one.more \in Nat /\ one.read = p + one.got + one.more
        /\ one.more = 0 => one.read = Size
    BY <1>1, <1>2, StockIs
  <1>5. CASE one.got = 0
    <2>1. s = Swap(one)
      BY <1>5 DEF Stocked
    <2> HIDE DEF s
    <2>2. /\ Stock(s, p) /\ s.got = one.more /\ s.start = 0 /\ (s.more = Block \/ s.read = Size)
          /\ s.have = one.have /\ s.hashed = one.hashed
      BY <1>1, <1>2, <1>5, <2>1, SwapIs
    <2>3. one.more = 0 => Size = 0 /\ p = 0
      BY <1>2, <1>4, <1>5
    <2>4. one.more = Block \/ one.read = Size => one.more = Block \/ p + one.more = Size
      BY <1>2, <1>4, <1>5
    <2>5. ~cfg.rsync => s.got = Block \/ p + s.got = Size
      BY <1>3, <2>2, <2>4
    <2> QED BY <2>2, <2>3, <2>5 DEF s, p
  <1>6. CASE one.got # 0
    <2>1. s = one
      BY <1>6 DEF Stocked
    <2> QED BY <1>1, <1>3, <1>6, <2>1 DEF p
  <1> QED BY <1>5, <1>6

\* What a round compresses is a piece.
LEMMA ReadyIs ==
    ASSUME CutInv, HitInv, OneInv, SinglePending
    PROVE  /\ Stock(Ready, Reached) /\ Amount \in Nat /\ Amount <= Ready.got
           /\ Ready.left = Ready.got - Amount /\ Ready.have = one.have
           /\ IsPiece(Reached, Reached + Amount)
           /\ cfg.rsync => Runs(Ready.hashed, 1, Reached + Amount)
           /\ ~cfg.rsync => /\ Ready.left = 0 /\ Ready.start = 0 /\ (Ready.more = Block \/ Ready.read = Size)
                            /\ Amount = Block \/ Reached + Amount = Size
  <1> DEFINE p == Reached
             s == Stocked
             t == Ready
             n == Amount
  <1>1. one # None /\ cfg # None /\ Size \in Nat /\ p \in Nat /\ Block \in Nat
    <2>1. one # None /\ cfg # None /\ Size \in Nat
      BY DEF SinglePending, OneInv, CutInv, CutTypeOK, Size
    <2> QED BY <2>1, ReachedIs, PlacesAre
  <1>2. /\ Stock(s, p) /\ s.have = one.have /\ s.hashed = one.hashed
        /\ s.got = 0 => Size = 0 /\ p = 0
        /\ ~cfg.rsync => /\ s.start = 0 /\ (s.more = Block \/ s.read = Size)
                         /\ s.got = Block \/ p + s.got = Size
    BY StockedIs
  <1>3. cfg.rsync => Runs(one.hashed, 1, p)
    BY <1>1 DEF OneInv
  <1>4. ~cfg.rsync => cfg.hits = {}
    BY <1>1 DEF HitInv
  <1>5. t = IF cfg.rsync /\ s.got > 0 THEN Search([s EXCEPT !.sc = s.nextIn, !.left = s.got]) ELSE [s EXCEPT !.left = 0]
    BY DEF Ready
  <1>6. n = t.got - t.left
    BY DEF Amount
  <1> HIDE DEF p, s, t, n
  <1>7. s \in OneRecs /\ s.got \in Nat /\ s.nextIn \in Nat /\ s.sc \in Nat /\ s.nextIn + s.got <= Block
        /\ s.read = p + s.got + s.more /\ s.read <= Size /\ s.more \in Nat
    BY <1>1, <1>2, StockIs
  <1>8. CASE cfg.rsync /\ s.got > 0
    <2> DEFINE u == [s EXCEPT !.sc = s.nextIn, !.left = s.got]
    <2>1. t = Search(u) /\ u = [s EXCEPT !.sc = s.nextIn, !.left = s.got]
      BY <1>5, <1>8
    <2> HIDE DEF u
    <2>2. u = [in |-> s.in, next |-> s.next, got |-> s.got, more |-> s.more, start |-> s.start,
               have |-> s.have, nextIn |-> s.nextIn, sc |-> s.nextIn, left |-> s.got, hashed |-> s.hashed,
               read |-> s.read]
      BY <1>7, <2>1, AimedIs
    <2>3. Stock(u, p)
      BY <1>1, <1>2, <1>7, <2>2, SameStock
    <2>4. u.got = s.got /\ u.left = s.got /\ u.sc = s.nextIn /\ u.nextIn = s.nextIn /\ u.hashed = s.hashed /\ u.have = s.have
      BY <2>2
    <2>5. Hashing(u, p, 0)
      <3>1. p + 0 = p /\ s.got = s.got - 0 /\ s.nextIn = s.nextIn + 0 /\ 0 <= s.got
        BY <1>1, <1>7
      <3>2. Clear(p, p + 0 - 1)
        BY <1>1 DEF Clear
      <3>3. Runs(u.hashed, 1, p + 0)
        BY <1>2, <1>3, <1>8, <2>4, <3>1
      <3> QED BY <1>8, <2>3, <2>4, <3>1, <3>2, <3>3 DEF Hashing
    <2>6. PICK d : /\ Hashing(t, p, d) /\ d > 0 /\ d <= Block
                   /\ p + d \in cfg.hits \/ d = Block \/ p + d = Size
      BY <1>1, <2>1, <2>5, SearchIs
    <2>7. t.have = u.have
      BY <1>1, <2>1, <2>5, SearchIs
    <2>8. /\ Stock(t, p) /\ d \in Nat /\ d <= t.got /\ t.left = t.got - d
          /\ Runs(t.hashed, 1, p + d) /\ Clear(p, p + d - 1)
      BY <2>6 DEF Hashing
    <2>9. t.got \in Nat /\ t.more \in Nat /\ t.read = p + t.got + t.more /\ t.read <= Size
      BY <1>1, <2>8, StockIs
    <2>10. n = d
      BY <1>6, <2>8, <2>9
    <2>11. IsPiece(p, p + d)
      <3> DEFINE e == p + d
      <3>1. e \in Nat /\ e <= Size /\ e - p <= Block /\ p < e
        BY <1>1, <2>6, <2>8, <2>9
      <3>2. e \in cfg.hits \/ e = p + Block \/ e = Size
        BY <2>6
      <3>3. Clear(p, e - 1)
        <4>1. e - 1 = p + d - 1
          BY <1>1, <2>8
        <4> QED BY <2>8, <4>1
      <3> HIDE DEF e
      <3>4. IsPiece(p, e)
        BY <3>1, <3>2, <3>3 DEF IsPiece
      <3> QED BY <3>4 DEF e
    <2> QED BY <1>2, <1>8, <2>4, <2>7, <2>8, <2>10, <2>11 DEF p, t, n
  <1>9. CASE ~(cfg.rsync /\ s.got > 0)
    <2>1. t = [s EXCEPT !.left = 0]
      BY <1>5, <1>9
    <2>2. t = [in |-> s.in, next |-> s.next, got |-> s.got, more |-> s.more, start |-> s.start,
               have |-> s.have, nextIn |-> s.nextIn, sc |-> s.sc, left |-> 0, hashed |-> s.hashed,
               read |-> s.read]
      BY <1>7, <2>1, EndedIs
    <2>3. Stock(t, p)
      BY <1>1, <1>2, <1>7, <2>2, SameStock
    <2>4. /\ t.got = s.got /\ t.left = 0 /\ t.hashed = s.hashed /\ t.have = s.have
          /\ t.start = s.start /\ t.more = s.more /\ t.read = s.read
      BY <2>2
    <2>5. n = s.got /\ n \in Nat /\ t.left = t.got - n
      BY <1>6, <1>7, <2>4
    <2>6. cfg.rsync => n = 0 /\ Size = 0 /\ p = 0
      BY <1>2, <1>7, <1>9, <2>5
    <2>7. IsPiece(p, p + n)
      <3> DEFINE e == p + n
      <3>1. e \in Nat /\ e <= Size /\ e - p <= Block /\ (p < e \/ (p = e /\ Size = 0))
        BY <1>1, <1>2, <1>7, <2>5
      <3>2. Clear(p, e - 1)
        <4>1. CASE cfg.rsync
          BY <2>6, <4>1 DEF Clear
        <4>2. CASE ~cfg.rsync
          BY <1>4, <4>2 DEF Clear
        <4> QED BY <4>1, <4>2
      <3>3. e = p + Block \/ e = Size
        BY <1>2, <2>5, <2>6
      <3> HIDE DEF e
      <3>4. IsPiece(p, e)
        BY <3>1, <3>2, <3>3 DEF IsPiece
      <3> QED BY <3>4 DEF e
    <2>8. cfg.rsync => Runs(t.hashed, 1, p + n)
      <3>1. cfg.rsync => p + n = p
        BY <2>6
      <3> QED BY <1>2, <1>3, <2>4, <3>1
    <2>9. n <= t.got
      BY <2>4, <2>5
    <2> QED BY <1>2, <2>3, <2>4, <2>5, <2>7, <2>8, <2>9 DEF p, t, n
  <1> QED BY <1>8, <1>9

LEMMA PieceTaken ==
    ASSUME NEW t \in OneRecs, NEW n, NEW kept, NEW u,
           u = [t EXCEPT !.nextIn = t.nextIn + n, !.got = t.left, !.left = 0, !.sc = 0, !.have = kept]
    PROVE  u = [in |-> t.in, next |-> t.next, got |-> t.left, more |-> t.more, start |-> t.start,
                have |-> kept, nextIn |-> t.nextIn + n, sc |-> 0, left |-> 0, hashed |-> t.hashed,
                read |-> t.read]
  <1>1. t = [in |-> t.in, next |-> t.next, got |-> t.got, more |-> t.more, start |-> t.start,
             have |-> t.have, nextIn |-> t.nextIn, sc |-> t.sc, left |-> t.left, hashed |-> t.hashed,
             read |-> t.read]
    BY DEF OneRecs
  <1> QED BY <1>1

\* What is left behind a piece.
LEMMA PieceStock ==
    ASSUME NEW t, NEW p \in Nat, Stock(t, p), Size \in Nat, NEW n \in Nat, n <= t.got, t.left = t.got - n,
           NEW kept \in Nat, NEW u,
           u = [in |-> t.in, next |-> t.next, got |-> t.left, more |-> t.more, start |-> t.start,
                have |-> kept, nextIn |-> t.nextIn + n, sc |-> 0, left |-> 0, hashed |-> t.hashed,
                read |-> t.read]
    PROVE  /\ Stock(u, p + n) /\ u.got = t.left /\ u.start = t.start /\ u.more = t.more /\ u.read = t.read
           /\ u.have = kept /\ u.hashed = t.hashed
           /\ Runs(Slice(t.in, t.nextIn, n), p + 1, n)
           /\ (t.more > 0 \/ t.left > 0) <=> p + n # Size
  <1>1. /\ t \in OneRecs /\ t.in \in [Places -> Nat] /\ t.next \in [Places -> Nat]
        /\ t.got \in Nat /\ t.more \in Nat /\ t.start \in Nat /\ t.nextIn \in Nat
        /\ t.hashed \in Seq(Nat) /\ t.read \in Nat
        /\ t.nextIn + t.got <= Block /\ Holds(t.in, t.nextIn, t.got, p + 1)
        /\ t.start + t.more <= Block /\ Holds(t.next, t.start, t.more, p + t.got + 1)
        /\ t.read = p + t.got + t.more /\ t.read <= Size /\ (t.more = 0 => t.read = Size)
    BY StockIs
  <1>2. u = [in |-> t.in, next |-> t.next, got |-> t.left, more |-> t.more, start |-> t.start,
             have |-> kept, nextIn |-> t.nextIn + n, sc |-> 0, left |-> 0, hashed |-> t.hashed,
             read |-> t.read]
    OBVIOUS
  <1>3. /\ u.in = t.in /\ u.next = t.next /\ u.got = t.left /\ u.more = t.more /\ u.start = t.start
        /\ u.have = kept /\ u.nextIn = t.nextIn + n /\ u.hashed = t.hashed /\ u.read = t.read
    BY <1>2
  <1>4. /\ t.left \in Nat /\ n + t.left = t.got /\ t.nextIn + n \in Nat /\ p + n \in Nat /\ p + 1 \in Nat
        /\ n + t.left <= t.got /\ (p + 1) + n = (p + n) + 1 /\ (t.nextIn + n) + t.left <= Block
        /\ (p + n) + t.left + 1 = p + t.got + 1 /\ (p + n) + t.left + t.more = p + t.got + t.more
    <2>1. \A g, a, b \in Nat : n <= g /\ a + g <= b =>
             /\ g - n \in Nat /\ n + (g - n) = g /\ a + n \in Nat /\ p + n \in Nat /\ p + 1 \in Nat
             /\ n + (g - n) <= g /\ (p + 1) + n = (p + n) + 1 /\ (a + n) + (g - n) <= b
             /\ (p + n) + (g - n) + 1 = p + g + 1
      OBVIOUS
    <2>2. \A g, m \in Nat : n <= g => (p + n) + (g - n) + m = p + g + m
      OBVIOUS
    <2>3. t.got \in Nat /\ t.more \in Nat /\ t.nextIn \in Nat /\ Block \in Nat /\ t.nextIn + t.got <= Block
      BY <1>1, PlacesAre
    <2> QED BY <2>1, <2>2, <2>3
  <1>5. u \in OneRecs
    <2> DEFINE nextIn == t.nextIn + n
               got == t.left
    <2>1. /\ t.in \in [Places -> Nat] /\ t.next \in [Places -> Nat] /\ t.more \in Nat /\ t.start \in Nat
          /\ t.hashed \in Seq(Nat) /\ t.read \in Nat /\ nextIn \in Nat /\ got \in Nat
      BY <1>1, <1>4
    <2>2. u = [in |-> t.in, next |-> t.next, got |-> got, more |-> t.more, start |-> t.start,
               have |-> kept, nextIn |-> nextIn, sc |-> 0, left |-> 0, hashed |-> t.hashed,
               read |-> t.read]
      BY <1>2
    <2> HIDE DEF nextIn, got
    <2> QED BY <2>1, <2>2 DEF OneRecs
  <1>6. Holds(t.in, t.nextIn + n, t.left, (p + n) + 1)
    <2>1. Holds(t.in, t.nextIn + n, t.left, (p + 1) + n)
      BY <1>1, <1>4, HoldsPart
    <2> QED BY <1>4, <2>1
  <1>7. InStock(u, p + n)
    BY <1>3, <1>4, <1>6 DEF InStock
  <1>8. NextStock(u, p + n)
    <2>1. Holds(u.next, u.start, u.more, (p + n) + u.got + 1)
      BY <1>1, <1>3, <1>4
    <2>2. u.read = (p + n) + u.got + u.more
      BY <1>1, <1>3, <1>4
    <2> QED BY <1>1, <1>3, <2>1, <2>2 DEF NextStock
  <1>9. Runs(Slice(t.in, t.nextIn, n), p + 1, n)
    BY <1>1, <1>4, SliceIs
  <1>10. (t.more > 0 \/ t.left > 0) <=> p + n # Size
    <2>1. \A m, l, z \in Nat : p + n + l + m <= z /\ (m = 0 => p + n + l + m = z)
              => ((m > 0 \/ l > 0) <=> p + n # z)
      OBVIOUS
    <2>2. t.more \in Nat /\ t.left \in Nat /\ p + n + t.left + t.more = t.read /\ t.read <= Size
          /\ (t.more = 0 => t.read = Size)
      BY <1>1, <1>4
    <2> QED BY <2>1, <2>2
  <1> QED BY <1>3, <1>5, <1>7, <1>8, <1>9, <1>10 DEF Stock

\* One more piece.
LEMMA ChainOn ==
    ASSUME NEW q, NEW at, NEW n \in Nat, n # 0 => Chain(q, at, n, 0) /\ at[n] # Size,
           n = 0 => q = <<>> /\ at[0] = 0, NEW r, NEW bt, NEW e,
           IsPiece(at[n], e), at[n] \in Nat,
           bt = [k \in 0 .. n + 1 |-> IF k <= n THEN at[k] ELSE e],
           r = [k \in 1 .. n + 1 |-> IF k <= n THEN q[k] ELSE Piece(at[n], e)]
    PROVE  Chain(r, bt, n + 1, 0)
  <1>1. e \in Nat
    BY DEF IsPiece
  <1>2. \A k \in 0 .. n : at[k] \in Nat
    <2>1. CASE n = 0
      <3>1. \A k \in 0 .. n : k = n
        BY <2>1
      <3> QED BY <3>1
    <2>2. CASE n # 0
      <3>1. at \in [0 .. n -> Nat]
        BY <2>2 DEF Chain
      <3> QED BY <3>1
    <2> QED BY <2>1, <2>2
  <1>3. bt \in [0 .. n + 1 -> Nat] /\ bt[0] = 0
    <2>1. \A k \in 0 .. n + 1 : k <= n => k \in 0 .. n
      OBVIOUS
    <2>2. 0 \in 0 .. n + 1 /\ 0 <= n
      OBVIOUS
    <2>3. at[0] = 0
      BY DEF Chain
    <2> QED BY <1>1, <1>2, <2>1, <2>2, <2>3
  <1>4. \A k \in 1 .. n + 1 : /\ r[k] = Piece(bt[k-1], bt[k]) /\ IsPiece(bt[k-1], bt[k])
                              /\ k < n + 1 => bt[k] # Size
    <2> SUFFICES ASSUME NEW k \in 1 .. n + 1
                 PROVE  /\ r[k] = Piece(bt[k-1], bt[k]) /\ IsPiece(bt[k-1], bt[k])
                        /\ k < n + 1 => bt[k] # Size
      OBVIOUS
    <2>1. CASE k <= n
      <3>1. k \in 1 .. n /\ k - 1 <= n /\ k - 1 \in 0 .. n + 1 /\ k \in 0 .. n + 1 /\ n # 0 /\ (k < n \/ k = n)
        BY <2>1
      <3>2. bt[k] = at[k] /\ bt[k-1] = at[k-1] /\ r[k] = q[k]
        BY <2>1, <3>1
      <3>3. /\ q = [i \in 1 .. n |-> Piece(at[i-1], at[i])] /\ at[n] # Size
            /\ \A i \in 1 .. n : IsPiece(at[i-1], at[i]) /\ (i < n => at[i] # Size)
        BY <3>1 DEF Chain
      <3>4. q[k] = Piece(at[k-1], at[k]) /\ IsPiece(at[k-1], at[k]) /\ at[k] # Size
        BY <3>1, <3>3
      <3> QED BY <3>2, <3>4
    <2>2. CASE ~(k <= n)
      <3>1. k = n + 1 /\ k - 1 = n /\ n <= n /\ n \in 0 .. n + 1 /\ k \in 0 .. n + 1
        BY <2>2
      <3>2. bt[k] = e /\ bt[k-1] = at[n] /\ r[k] = Piece(at[n], e)
        BY <2>2, <3>1
      <3> QED BY <3>1, <3>2
    <2> QED BY <2>1, <2>2
  <1>5. r = [k \in 1 .. n + 1 |-> Piece(bt[k-1], bt[k])]
    <2>1. r = [k \in 1 .. n + 1 |-> r[k]]
      OBVIOUS
    <2>2. \A k \in 1 .. n + 1 : r[k] = Piece(bt[k-1], bt[k])
      BY <1>4
    <2> QED BY <2>1, <2>2
  <1> QED BY <1>3, <1>4, <1>5 DEF Chain

LEMMA RecIs == \A d, f, m : /\ [data |-> d, fresh |-> f, more |-> m].data = d
                            /\ [data |-> d, fresh |-> f, more |-> m].fresh = f
                            /\ [data |-> d, fresh |-> f, more |-> m].more = m
  OBVIOUS

LEMMA OneMore ==
    ASSUME NEW S, NEW q \in Seq(S), NEW r \in S
    PROVE  /\ Append(q, r) \in Seq(S) /\ Len(Append(q, r)) = Len(q) + 1 /\ Append(q, r)[Len(q) + 1] = r
           /\ \A k \in 1 .. Len(q) : Append(q, r)[k] = q[k]
  OBVIOUS

\* What a round of single does.
LEMMA SingleIs ==
    ASSUME CutInv, HitInv, OneInv, SinglePiece
    PROVE  /\ cfg' = cfg /\ jobs' = jobs /\ one' # None
           /\ pieces' \in Seq(PieceRecs) /\ Len(pieces') = Len(pieces) + 1
           /\ \A k \in 1 .. Len(pieces) : pieces'[k] = pieces[k]
           /\ pieces'[Len(pieces) + 1].data = Bytes(Reached + 1, Amount)
           /\ pieces'[Len(pieces) + 1].more = (Reached + Amount # Size)
           /\ pieces'[Len(pieces) + 1].fresh <=> ~cfg.setdict /\ one.have + Amount > Block
           /\ one'.have = IF cfg.setdict THEN 0
                          ELSE IF one.have + Amount > Block THEN Amount ELSE one.have + Amount
           /\ Stock(one', Reached + Amount)
           /\ one'.got = Ready.left /\ one'.start = Ready.start /\ one'.more = Ready.more
           /\ one'.read = Ready.read /\ one'.hashed = Ready.hashed
  <1> DEFINE p == Reached
             t == Ready
             n == Amount
             fresh == ~cfg.setdict /\ Fresh(t.have + n)
             kept == IF cfg.setdict THEN 0 ELSE IF fresh THEN n ELSE t.have + n
             data == Slice(t.in, t.nextIn, n)
             more == t.more > 0 \/ t.left > 0
             r == [data |-> data, fresh |-> fresh, more |-> more]
  <1>1. /\ pieces' = Append(pieces, r)
        /\ one' = [t EXCEPT !.nextIn = t.nextIn + n, !.got = t.left, !.left = 0, !.sc = 0, !.have = kept]
        /\ cfg' = cfg /\ jobs' = jobs /\ SinglePending
    BY DEF SinglePiece, Amount, Ready, Stocked, cutVars
  <1>2. /\ Stock(t, p) /\ n \in Nat /\ n <= t.got /\ t.left = t.got - n /\ t.have = one.have
    BY <1>1, ReadyIs
  <1>3. one # None /\ cfg # None /\ Size \in Nat /\ p \in Nat
    <2>1. one # None /\ cfg # None /\ Size \in Nat
      BY <1>1 DEF SinglePending, OneInv, CutInv, CutTypeOK, Size
    <2> QED BY <2>1, ReachedIs
  <1> HIDE DEF p, t, n
  <1>4. t.have \in Nat /\ t.in \in [Places -> Nat]
    BY <1>2, <1>3, StockIs
  <1>5. kept \in Nat
    BY <1>2, <1>4
  <1>6. (fresh <=> ~cfg.setdict /\ one.have + n > Block)
        /\ kept = IF cfg.setdict THEN 0 ELSE IF one.have + n > Block THEN n ELSE one.have + n
    BY <1>2 DEF Fresh
  <1>7. fresh \in BOOLEAN /\ more \in BOOLEAN
    OBVIOUS
  <1> HIDE DEF kept, fresh, more, data
  <1>8. /\ Stock(one', p + n) /\ one'.got = t.left /\ one'.start = t.start /\ one'.more = t.more
        /\ one'.read = t.read /\ one'.have = kept /\ one'.hashed = t.hashed
        /\ Runs(data, p + 1, n)
        /\ more <=> p + n # Size
    <2> DEFINE u == one'
    <2>1. u = [t EXCEPT !.nextIn = t.nextIn + n, !.got = t.left, !.left = 0, !.sc = 0, !.have = kept]
      BY <1>1
    <2>3. t \in OneRecs
      BY <1>2 DEF Stock
    <2> HIDE DEF u
    <2>4. u = [in |-> t.in, next |-> t.next, got |-> t.left, more |-> t.more, start |-> t.start,
               have |-> kept, nextIn |-> t.nextIn + n, sc |-> 0, left |-> 0, hashed |-> t.hashed,
               read |-> t.read]
      BY <2>1, <2>3, PieceTaken, Zenon
    <2>2. /\ Stock(u, p + n) /\ u.got = t.left /\ u.start = t.start /\ u.more = t.more
          /\ u.read = t.read /\ u.have = kept /\ u.hashed = t.hashed
          /\ Runs(Slice(t.in, t.nextIn, n), p + 1, n)
          /\ (t.more > 0 \/ t.left > 0) <=> p + n # Size
      BY <1>2, <1>3, <1>5, <2>4, PieceStock
    <2> QED BY <2>2 DEF u, data, more
  <1>9. one' # None
    <2> SUFFICES ASSUME one' = None PROVE FALSE
      OBVIOUS
    <2>1. one' \in OneRecs
      BY <1>8 DEF Stock
    <2>2. None \in OneRecs
      BY <2>1
    <2>3. \A s \in OneRecs : "read" \in DOMAIN s
      BY DEF OneRecs
    <2>4. "read" \notin DOMAIN None
      BY DEF None
    <2> QED BY <2>2, <2>3, <2>4
  <1>10. data = Bytes(p + 1, n) /\ data \in Seq(Nat)
    BY <1>8, RunLen DEF Runs
  <1>11. r \in PieceRecs
    BY <1>7, <1>10 DEF PieceRecs
  <1>12. r.data = data /\ r.fresh = fresh /\ r.more = more
    BY RecIs
  <1>13. pieces \in Seq(PieceRecs)
    BY DEF OneInv
  <1> HIDE DEF r
  <1>14. /\ pieces' \in Seq(PieceRecs) /\ Len(pieces') = Len(pieces) + 1 /\ pieces'[Len(pieces) + 1] = r
         /\ \A k \in 1 .. Len(pieces) : pieces'[k] = pieces[k]
    <2>1. /\ Append(pieces, r) \in Seq(PieceRecs) /\ Len(Append(pieces, r)) = Len(pieces) + 1
          /\ Append(pieces, r)[Len(pieces) + 1] = r
          /\ \A k \in 1 .. Len(pieces) : Append(pieces, r)[k] = pieces[k]
      BY <1>11, <1>13, OneMore
    <2> QED BY <1>1, <2>1
  <1>15. more = (p + n # Size)
    BY <1>7, <1>8
  <1>16. r.more = (p + n # Size) /\ r.data = Bytes(p + 1, n)
         /\ (r.fresh <=> ~cfg.setdict /\ one.have + n > Block)
    BY <1>6, <1>10, <1>12, <1>15
  <1> QED BY <1>1, <1>6, <1>8, <1>9, <1>14, <1>16 DEF p, t, n

\* The ends of the pieces after a round, and their bytes.
LEMMA SingleEnds ==
    ASSUME CutInv, HitInv, OneInv, SinglePiece
    PROVE  /\ PiecesAt' = [k \in 0 .. Len(pieces) + 1 |->
                              IF k <= Len(pieces) THEN PiecesAt[k] ELSE Reached + Amount]
           /\ Reached' = Reached + Amount
           /\ Compressed' = [k \in 1 .. Len(pieces) + 1 |->
                              IF k <= Len(pieces) THEN Compressed[k] ELSE Piece(Reached, Reached + Amount)]
  <1> DEFINE N == Len(pieces)
             p == Reached
             n == Amount
  <1>1. /\ pieces' \in Seq(PieceRecs) /\ Len(pieces') = N + 1
        /\ \A k \in 1 .. N : pieces'[k] = pieces[k]
        /\ pieces'[N + 1].data = Bytes(p + 1, n)
        /\ pieces'[N + 1].more = (p + n # Size)
    BY SingleIs
  <1>2. N \in Nat /\ p \in Nat /\ Size \in Nat /\ SinglePending
    <2>1. one # None /\ cfg # None /\ Size \in Nat /\ SinglePending
      BY DEF SinglePiece, SinglePending, OneInv, CutInv, CutTypeOK, Size
    <2> QED BY <2>1, ReachedIs
  <1>3. n \in Nat /\ IsPiece(p, p + n)
    BY <1>2, ReadyIs
  <1>4. DOMAIN pieces = 1 .. N /\ DOMAIN pieces' = 1 .. N + 1
    <2>1. pieces \in Seq(PieceRecs)
      BY DEF OneInv
    <2> QED BY <1>1, <2>1
  <1> DEFINE EndsAfter(k) == IF k = 0 THEN 0 ELSE IF pieces'[k].data = <<>> THEN 0 ELSE Last(pieces'[k].data)
             at == [k \in 0 .. N + 1 |-> IF k <= N THEN PiecesAt[k] ELSE p + n]
  <1>5. PiecesAt' = [k \in 0 .. Len(pieces') |-> EndsAfter(k)]
    BY DEF PiecesAt, PieceEnd
  <1>6. EndsAfter(N + 1) = p + n
    <2> DEFINE data == pieces'[N + 1].data
    <2>1. Runs(data, p + 1, n)
      BY <1>1, <1>2, <1>3 DEF Runs
    <2>2. EndsAfter(N + 1) = IF data = <<>> THEN 0 ELSE Last(data)
      BY <1>2
    <2> HIDE DEF data, EndsAfter
    <2>3. CASE data = <<>>
      <3>1. n = 0
        BY <2>1, <2>3, RunLen
      <3>2. p + n <= Size /\ Size = 0
        BY <1>2, <1>3, <3>1 DEF IsPiece
      <3> QED BY <1>2, <2>2, <2>3, <3>1, <3>2
    <2>4. CASE data # <<>>
      BY <1>2, <2>1, <2>2, <2>4, EndOfRun
    <2> QED BY <2>3, <2>4
  <1>7. \A k \in 0 .. N : EndsAfter(k) = PiecesAt[k]
    <2> SUFFICES ASSUME NEW k \in 0 .. N PROVE EndsAfter(k) = PiecesAt[k]
      OBVIOUS
    <2>1. PiecesAt[k] = IF k = 0 THEN 0 ELSE IF pieces[k].data = <<>> THEN 0 ELSE Last(pieces[k].data)
      BY DEF PiecesAt, PieceEnd
    <2>2. k # 0 => k \in 1 .. N
      BY <1>2
    <2>3. k # 0 => pieces'[k] = pieces[k]
      BY <1>1, <2>2
    <2> QED BY <2>1, <2>3
  <1> HIDE DEF EndsAfter
  <1>8. PiecesAt' = at
    <2>1. \A k \in 0 .. N + 1 : EndsAfter(k) = IF k <= N THEN PiecesAt[k] ELSE p + n
      <3> SUFFICES ASSUME NEW k \in 0 .. N + 1 PROVE EndsAfter(k) = IF k <= N THEN PiecesAt[k] ELSE p + n
        OBVIOUS
      <3>1. (k <= N => k \in 0 .. N) /\ (~(k <= N) => k = N + 1)
        BY <1>2
      <3> QED BY <1>6, <1>7, <3>1
    <2>2. PiecesAt' = [k \in 0 .. N + 1 |-> EndsAfter(k)]
      BY <1>1, <1>5
    <2> QED BY <2>1, <2>2
  <1>9. Reached' = p + n
    <2>1. Reached' = PiecesAt'[Len(pieces')]
      BY DEF Reached
    <2>2. N + 1 \in 0 .. N + 1 /\ ~(N + 1 <= N)
      BY <1>2
    <2>3. at[N + 1] = p + n
      BY <2>2
    <2> HIDE DEF at
    <2> QED BY <1>1, <1>8, <2>1, <2>3
  <1>10. Compressed' = [k \in 1 .. N + 1 |-> IF k <= N THEN Compressed[k] ELSE Piece(p, p + n)]
    <2>1. Compressed' = [k \in 1 .. N + 1 |-> [data |-> pieces'[k].data, more |-> pieces'[k].more]]
      BY <1>4 DEF Compressed
    <2>2. \A k \in 1 .. N + 1 : [data |-> pieces'[k].data, more |-> pieces'[k].more]
                                     = IF k <= N THEN Compressed[k] ELSE Piece(p, p + n)
      <3> SUFFICES ASSUME NEW k \in 1 .. N + 1
                   PROVE  [data |-> pieces'[k].data, more |-> pieces'[k].more]
                              = IF k <= N THEN Compressed[k] ELSE Piece(p, p + n)
        OBVIOUS
      <3>1. (k <= N => k \in 1 .. N) /\ (~(k <= N) => k = N + 1)
        BY <1>2
      <3>2. CASE k <= N
        BY <1>1, <1>4, <3>1, <3>2 DEF Compressed
      <3>3. CASE ~(k <= N)
        <4>1. (p + n) - p = n
          BY <1>2, <1>3
        <4>2. Piece(p, p + n) = [data |-> Bytes(p + 1, n), more |-> p + n # Size]
          BY <4>1 DEF Piece
        <4> QED BY <1>1, <3>1, <3>3, <4>2
      <3> QED BY <3>2, <3>3
    <2> QED BY <2>1, <2>2
  <1> QED BY <1>8, <1>9, <1>10

LEMMA HistoryKept ==
    ASSUME CutInv, HitInv, OneInv, SinglePiece
    PROVE  HistoryOK'
  <1> DEFINE N == Len(pieces)
             p == Reached
             n == Amount
             H == one.have
             G == one'.have
  <1>1. /\ cfg' = cfg /\ Len(pieces') = N + 1
        /\ \A k \in 1 .. N : pieces'[k] = pieces[k]
        /\ pieces'[N + 1].fresh <=> ~cfg.setdict /\ H + n > Block
        /\ G = IF cfg.setdict THEN 0 ELSE IF H + n > Block THEN n ELSE H + n
    BY SingleIs
  <1>2. /\ PiecesAt' = [k \in 0 .. N + 1 |-> IF k <= N THEN PiecesAt[k] ELSE p + n]
        /\ Reached' = p + n
    BY SingleEnds
  <1>3. /\ N \in Nat /\ p \in Nat /\ Size \in Nat /\ SinglePending /\ one # None /\ Block \in Nat
        /\ PiecesAt \in [0 .. N -> Nat] /\ (N = 0 \/ p # Size)
    <2>1. one # None /\ cfg # None /\ Size \in Nat /\ SinglePending
      BY DEF SinglePiece, SinglePending, OneInv, CutInv, CutTypeOK, Size
    <2>2. N = 0 \/ Last(pieces).more
      BY <2>1, ReachedIs DEF SinglePending
    <2> QED BY <2>1, <2>2, ReachedIs, PlacesAre
  <1>4. n \in Nat /\ n <= Block /\ (p # Size => n > 0) /\ (~cfg.rsync => n = Block \/ p + n = Size)
    <2>1. n \in Nat /\ IsPiece(p, p + n) /\ (~cfg.rsync => n = Block \/ p + n = Size)
      BY <1>3, ReadyIs
    <2>2. p + n <= Size /\ (p + n) - p <= Block /\ (p < p + n \/ (p = p + n /\ Size = 0))
      BY <2>1 DEF IsPiece
    <2> HIDE DEF p, n
    <2> QED BY <1>3, <2>1, <2>2
  <1>5. HistoryOK /\ H \in Nat
    <2>1. HistoryOK /\ Stock(one, p)
      BY <1>3 DEF OneInv
    <2>2. H \in Nat
      BY <1>3, <2>1, StockIs
    <2> QED BY <2>1, <2>2
  <1>6. p = PiecesAt[N]
    BY DEF Reached
  <1> HIDE DEF N, p, n, H, G
  <1> DEFINE F == PiecesAt'
  <1>7. (\A k \in 0 .. N : F[k] = PiecesAt[k]) /\ F[N + 1] = p + n
    <2>1. N + 1 \in 0 .. N + 1 /\ ~(N + 1 <= N) /\ \A k \in 0 .. N : k \in 0 .. N + 1 /\ k <= N
      BY <1>3
    <2> QED BY <1>2, <2>1
  <1> HIDE DEF F
  <1>8. /\ cfg.setdict => \A k \in 1 .. N : ~pieces[k].fresh
        /\ ~cfg.setdict =>
             /\ H <= Block
             /\ \A i \in 1 .. N : Keeping(i, N) => p - PiecesAt[i - 1] <= H
             /\ \A i, j \in 1 .. N : i <= j /\ Keeping(i, j) => PiecesAt[j] - PiecesAt[i - 1] <= Block
             /\ ~cfg.rsync => /\ \A k \in 1 .. N : pieces[k].fresh <=> k # 1
                              /\ H = 0 \/ N # 0
                              /\ N # 0 /\ p # Size => H = Block
    BY <1>5 DEF HistoryOK, N, p, H
  <1>9. ASSUME cfg.setdict
        PROVE  \A k \in 1 .. N + 1 : ~pieces'[k].fresh
    <2> SUFFICES ASSUME NEW k \in 1 .. N + 1 PROVE ~pieces'[k].fresh
      OBVIOUS
    <2>1. k \in 1 .. N \/ k = N + 1
      BY <1>3
    <2> QED BY <1>1, <1>8, <1>9, <2>1
  <1>10. ~cfg.setdict => G <= Block
    BY <1>1, <1>3, <1>4, <1>5, <1>8
  <1> DEFINE Unbroken(i, j) == \A k \in i + 1 .. j : ~pieces'[k].fresh
  <1>11. ASSUME ~cfg.setdict, NEW i \in 1 .. N + 1, Unbroken(i, N + 1)
         PROVE  p + n - F[i - 1] <= G
    <2>1. CASE i = N + 1
      <3>1. i - 1 = N /\ N \in 0 .. N
        BY <1>3, <2>1
      <3>2. F[i - 1] = p
        BY <1>6, <1>7, <3>1
      <3> QED BY <1>1, <1>3, <1>4, <1>5, <1>11, <3>2
    <2>2. CASE i # N + 1
      <3>1. i \in 1 .. N /\ i - 1 \in 0 .. N /\ N + 1 \in i + 1 .. N + 1
            /\ \A k \in i + 1 .. N : k \in i + 1 .. N + 1 /\ k \in 1 .. N
        BY <1>3, <2>2
      <3>2. ~pieces'[N + 1].fresh
        BY <1>11, <3>1
      <3>3. Keeping(i, N)
        <4> SUFFICES ASSUME NEW k \in i + 1 .. N PROVE ~pieces[k].fresh
          BY DEF Keeping
        <4>1. ~pieces'[k].fresh /\ pieces'[k] = pieces[k]
          BY <1>1, <1>11, <3>1
        <4> QED BY <4>1
      <3>4. p - PiecesAt[i - 1] <= H /\ F[i - 1] = PiecesAt[i - 1]
        BY <1>7, <1>8, <1>11, <3>1, <3>3
      <3>5. G = H + n
        BY <1>1, <1>11, <3>2
      <3>6. PiecesAt[i - 1] \in Nat
        BY <1>3, <3>1
      <3>7. \A x \in Nat : p - x <= H => p + n - x <= H + n
        BY <1>3, <1>4, <1>5
      <3> QED BY <3>4, <3>5, <3>6, <3>7
    <2> QED BY <2>1, <2>2
  <1>12. ASSUME ~cfg.setdict, NEW i \in 1 .. N + 1, NEW j \in 1 .. N + 1, i <= j, Unbroken(i, j)
         PROVE  F[j] - F[i - 1] <= Block
    <2>1. CASE j = N + 1
      <3>1. p + n - F[i - 1] <= G
        BY <1>11, <1>12, <2>1
      <3>2. F[i - 1] \in Nat
        <4>1. i - 1 \in 0 .. N
          BY <1>3
        <4> QED BY <1>3, <1>7, <4>1
      <3>3. G \in Nat /\ G <= Block
        BY <1>1, <1>4, <1>5, <1>10, <1>12
      <3>4. F[j] = p + n /\ p + n \in Nat
        BY <1>3, <1>4, <1>7, <2>1
      <3>5. \A x, y, g \in Nat : y - x <= g /\ g <= Block => y - x <= Block
        BY <1>3
      <3>6. F[j] - F[i - 1] <= G
        <4>1. \A x \in Nat : p + n - x = (p + n) - x
          BY <1>3, <1>4
        <4> QED BY <3>1, <3>2, <3>4, <4>1
      <3> QED BY <3>2, <3>3, <3>4, <3>5, <3>6
    <2>2. CASE j # N + 1
      <3>1. j \in 1 .. N /\ i \in 1 .. N /\ i - 1 \in 0 .. N /\ j \in 0 .. N
            /\ \A k \in i + 1 .. j : k \in 1 .. N
        BY <1>3, <1>12, <2>2
      <3>2. Keeping(i, j)
        BY <1>1, <1>12, <3>1 DEF Keeping
      <3>3. F[j] = PiecesAt[j] /\ F[i - 1] = PiecesAt[i - 1]
        BY <1>7, <3>1
      <3>4. PiecesAt[j] - PiecesAt[i - 1] <= Block
        BY <1>8, <1>12, <3>1, <3>2
      <3> QED BY <3>3, <3>4
    <2> QED BY <2>1, <2>2
  <1>13. ASSUME ~cfg.setdict, ~cfg.rsync
         PROVE  /\ \A k \in 1 .. N + 1 : pieces'[k].fresh <=> k # 1
                /\ p + n # Size => G = Block
    <2>1. CASE N = 0
      <3>1. H = 0
        BY <1>8, <1>13, <2>1
      <3>2. ~(H + n > Block) /\ H + n = n
        BY <1>3, <1>4, <3>1
      <3>3. \A k \in 1 .. N + 1 : k = 1 /\ k = N + 1
        BY <2>1
      <3> QED BY <1>1, <1>4, <1>13, <3>2, <3>3
    <2>2. CASE N # 0
      <3>1. H = Block /\ n > 0
        BY <1>3, <1>4, <1>8, <1>13, <2>2
      <3>2. H + n > Block
        BY <1>3, <1>4, <3>1
      <3>3. \A k \in 1 .. N + 1 : pieces'[k].fresh <=> k # 1
        <4> SUFFICES ASSUME NEW k \in 1 .. N + 1 PROVE pieces'[k].fresh <=> k # 1
          OBVIOUS
        <4>1. k \in 1 .. N \/ (k = N + 1 /\ k # 1)
          BY <1>3, <2>2
        <4> QED BY <1>1, <1>8, <1>13, <3>2, <4>1
      <3> QED BY <1>1, <1>4, <1>13, <3>2, <3>3
    <2> QED BY <2>1, <2>2
  <1>14. /\ cfg'.setdict => \A k \in 1 .. Len(pieces') : ~pieces'[k].fresh
         /\ ~cfg'.setdict =>
              /\ one'.have <= Block
              /\ \A i \in 1 .. Len(pieces') : Unbroken(i, Len(pieces')) => Reached' - PiecesAt'[i - 1] <= one'.have
              /\ \A i, j \in 1 .. Len(pieces') :
                    i <= j /\ Unbroken(i, j) => PiecesAt'[j] - PiecesAt'[i - 1] <= Block
              /\ ~cfg'.rsync => /\ \A k \in 1 .. Len(pieces') : pieces'[k].fresh <=> k # 1
                                /\ one'.have = 0 \/ Len(pieces') # 0
                                /\ Len(pieces') # 0 /\ Reached' # Size' => one'.have = Block
    <2>1. Size' = Size /\ Len(pieces') = N + 1 /\ N + 1 # 0 /\ Reached' = p + n /\ one'.have = G /\ PiecesAt' = F
          /\ cfg' = cfg
      BY <1>1, <1>2, <1>3 DEF Size, G, F
    <2> HIDE DEF Unbroken
    <2>2. cfg.setdict => \A k \in 1 .. N + 1 : ~pieces'[k].fresh
      BY <1>9
    <2>3. ~cfg.setdict => \A i \in 1 .. N + 1 : Unbroken(i, N + 1) => p + n - F[i - 1] <= G
      BY <1>11
    <2>4. ~cfg.setdict => \A i, j \in 1 .. N + 1 : i <= j /\ Unbroken(i, j) => F[j] - F[i - 1] <= Block
      BY <1>12
    <2>5. ~cfg.setdict /\ ~cfg.rsync => /\ \A k \in 1 .. N + 1 : pieces'[k].fresh <=> k # 1
                                        /\ p + n # Size => G = Block
      BY <1>13
    <2>6. cfg'.setdict => \A k \in 1 .. Len(pieces') : ~pieces'[k].fresh
      BY <2>1, <2>2
    <2>7. ~cfg'.setdict => one'.have <= Block
      BY <1>10, <2>1
    <2>8. ~cfg'.setdict => \A i \in 1 .. Len(pieces') : Unbroken(i, Len(pieces')) => Reached' - PiecesAt'[i - 1] <= one'.have
      <3> SUFFICES ASSUME ~cfg'.setdict, NEW i \in 1 .. Len(pieces'), Unbroken(i, Len(pieces'))
                   PROVE  Reached' - PiecesAt'[i - 1] <= one'.have
        OBVIOUS
      <3>1. ~cfg.setdict /\ i \in 1 .. N + 1
        BY <2>1
      <3>2. Unbroken(i, N + 1)
        BY <2>1 DEF Unbroken
      <3>3. p + n - F[i - 1] <= G
        BY <2>3, <3>1, <3>2
      <3>4. p + n - F[i - 1] = (p + n) - F[i - 1]
        <4>1. F[i - 1] \in Nat
          <5>1. i - 1 \in 0 .. N
            BY <1>3, <3>1
          <5> QED BY <1>3, <1>7, <5>1
        <4> QED BY <1>3, <1>4, <4>1
      <3> QED BY <2>1, <3>3, <3>4
    <2>9. ~cfg'.setdict => \A i, j \in 1 .. Len(pieces') :
                              i <= j /\ Unbroken(i, j) => PiecesAt'[j] - PiecesAt'[i - 1] <= Block
      BY <2>1, <2>4
    <2>10. ~cfg'.setdict /\ ~cfg'.rsync => /\ \A k \in 1 .. Len(pieces') : pieces'[k].fresh <=> k # 1
                                           /\ one'.have = 0 \/ Len(pieces') # 0
                                           /\ Len(pieces') # 0 /\ Reached' # Size' => one'.have = Block
      BY <2>1, <2>5
    <2> QED BY <2>6, <2>7, <2>8, <2>9, <2>10
  <1> QED BY <1>14 DEF HistoryOK, Keeping

LEMMA SinglePieceKeeps == CutInv /\ HitInv /\ OneInv /\ SinglePiece => OneInv'
  <1> SUFFICES ASSUME CutInv, HitInv, OneInv, SinglePiece PROVE OneInv'
    OBVIOUS
  <1> DEFINE N == Len(pieces)
             p == Reached
             n == Amount
             t == Ready
  <1>1. /\ cfg' = cfg /\ jobs' = jobs /\ one' # None
        /\ pieces' \in Seq(PieceRecs) /\ Len(pieces') = N + 1
        /\ Stock(one', p + n)
        /\ one'.got = t.left /\ one'.start = t.start /\ one'.more = t.more
        /\ one'.read = t.read /\ one'.hashed = t.hashed
    BY SingleIs
  <1>2. /\ PiecesAt' = [k \in 0 .. N + 1 |-> IF k <= N THEN PiecesAt[k] ELSE p + n]
        /\ Reached' = p + n
        /\ Compressed' = [k \in 1 .. N + 1 |-> IF k <= N THEN Compressed[k] ELSE Piece(p, p + n)]
    BY SingleEnds
  <1>3. one # None /\ cfg # None /\ Size \in Nat /\ SinglePending /\ ~Cutting
    BY DEF SinglePiece, SinglePending, OneInv, CutInv, CutTypeOK, Size
  <1>4. /\ N \in Nat /\ p \in Nat /\ (pieces = <<>> <=> N = 0) /\ PiecesAt[0] = 0 /\ p = PiecesAt[N]
        /\ N = 0 \/ p # Size
    <2>1. N = 0 \/ Last(pieces).more
      BY <1>3, ReachedIs DEF SinglePending
    <2> QED BY <1>3, <2>1, ReachedIs DEF Reached
  <1>5. /\ IsPiece(p, p + n)
        /\ cfg.rsync => Runs(t.hashed, 1, p + n)
        /\ ~cfg.rsync => t.left = 0 /\ t.start = 0 /\ (t.more = Block \/ t.read = Size)
    BY <1>3, ReadyIs
  <1>6. N # 0 => Chain(Compressed, PiecesAt, N, 0)
    BY <1>3, <1>4 DEF OneInv
  <1>7. N = 0 => Compressed = <<>>
    <2>1. N = 0 => DOMAIN pieces = {}
      BY <1>4
    <2> QED BY <2>1 DEF Compressed
  <1>8. Chain(Compressed', PiecesAt', N + 1, 0)
    <2> DEFINE e == p + n
               q == Compressed
               at == PiecesAt
               r == Compressed'
               bt == PiecesAt'
    <2>1. /\ N # 0 => Chain(q, at, N, 0) /\ at[N] # Size
          /\ N = 0 => q = <<>> /\ at[0] = 0
      BY <1>4, <1>6, <1>7
    <2>2. IsPiece(at[N], e) /\ at[N] \in Nat
      BY <1>4, <1>5
    <2>3. bt = [k \in 0 .. N + 1 |-> IF k <= N THEN at[k] ELSE e]
      BY <1>2
    <2>4. r = [k \in 1 .. N + 1 |-> IF k <= N THEN q[k] ELSE Piece(at[N], e)]
      BY <1>2, <1>4
    <2> HIDE DEF N, q, at, e, r, bt
    <2>5. Chain(r, bt, N + 1, 0)
      BY <1>4, <2>1, <2>2, <2>3, <2>4, ChainOn
    <2> QED BY <2>5 DEF r, bt
  <1>9. Chain(Compressed, PiecesAt, Len(pieces), 0)'
    BY <1>1, <1>8 DEF Chain, IsPiece, Clear, Piece, Size
  <1>10. (cfg # None /\ ~Cutting)'
    BY <1>1, <1>3 DEF Cutting
  <1>11. Stock(one, Reached)'
    BY <1>1, <1>2 DEF Stock, InStock, NextStock, Size
  <1>12. pieces' # <<>>
    BY <1>1, <1>4
  <1>13. (cfg.rsync => Runs(one.hashed, 1, Reached))'
    BY <1>1, <1>2, <1>5 DEF Runs
  <1>14. (~cfg.rsync => one.got = 0 /\ one.start = 0 /\ (one.more = Block \/ one.read = Size))'
    BY <1>1, <1>5 DEF Size
  <1>15. HistoryOK'
    BY HistoryKept
  <1> QED BY <1>1, <1>9, <1>10, <1>11, <1>12, <1>13, <1>14, <1>15 DEF OneInv

LEMMA StartSingleKeeps == CutInv /\ OneInv /\ StartSingle => OneInv'
  <1> SUFFICES ASSUME CutInv, OneInv, StartSingle PROVE OneInv'
    OBVIOUS
  <1> DEFINE none == [k \in Places |-> 0]
             s == [in |-> none, next |-> none, got |-> 0, more |-> 0,
                   start |-> 0, have |-> 0, nextIn |-> 0, sc |-> 0, left |-> 0, hashed |-> <<>>, read |-> 0]
             t == Reread(s)
  <1>1. cfg # None /\ ~Cutting /\ pieces = <<>> /\ one' = t /\ cfg' = cfg /\ jobs' = jobs /\ pieces' = pieces
    BY DEF StartSingle, OneInv, cutVars
  <1>2. Size \in Nat /\ Block \in Nat
    BY <1>1, PlacesAre DEF CutInv, CutTypeOK, Size
  <1>3. none \in [Places -> Nat]
    OBVIOUS
  <1> HIDE DEF none, t
  <1>4. s \in OneRecs /\ s.read = 0 /\ s.got = 0 /\ s.nextIn = 0 /\ s.have = 0 /\ s.hashed = <<>>
    BY <1>3 DEF OneRecs
  <1> HIDE DEF s
  <1>5. /\ t \in OneRecs /\ t.start = 0 /\ t.more <= Block /\ Holds(t.next, 0, t.more, 0 + 1)
        /\ t.read = 0 + t.more /\ t.read <= Size /\ (t.more = 0 => t.read = Size)
        /\ t.more = Block \/ t.read = Size
        /\ t.got = 0 /\ t.nextIn = 0 /\ t.have = 0 /\ t.hashed = <<>>
    <2>1. s.read <= Size
      BY <1>2, <1>4
    <2> QED BY <1>2, <1>4, <2>1, RereadIs DEF t
  <1>6. PiecesAt = [k \in 0 .. 0 |-> 0] /\ Reached = 0 /\ Len(pieces) = 0
    <2>1. Len(pieces) = 0
      BY <1>1
    <2>2. PiecesAt = [k \in 0 .. 0 |-> 0]
      BY <2>1 DEF PiecesAt, PieceEnd
    <2> QED BY <2>1, <2>2 DEF Reached
  <1>7. Reached' = 0
    BY <1>1, <1>6 DEF Reached, PiecesAt, PieceEnd
  <1>8. Stock(t, 0)
    <2>1. t.more \in Nat
      BY <1>5 DEF OneRecs
    <2>2. 0 + t.more = t.more /\ 0 + 0 + 1 = 0 + 1 /\ 0 + 0 + t.more = t.more /\ 0 + 0 <= Block
      BY <1>2, <2>1
    <2>3. InStock(t, 0)
      BY <1>5, <2>2, HoldsNone DEF InStock
    <2>4. NextStock(t, 0)
      BY <1>5, <2>2 DEF NextStock
    <2> QED BY <1>5, <2>3, <2>4 DEF Stock
  <1>9. Runs(<<>>, 1, 0)
    BY DEF Runs, Bytes
  <1>10. t # None
    <2> SUFFICES ASSUME t = None PROVE FALSE
      OBVIOUS
    <2>1. \A r \in OneRecs : "read" \in DOMAIN r
      BY DEF OneRecs
    <2>2. "read" \notin DOMAIN None
      BY DEF None
    <2> QED BY <1>5, <2>1, <2>2
  <1>11. (cfg # None /\ ~Cutting)'
    BY <1>1 DEF Cutting
  <1>12. Stock(one, Reached)'
    BY <1>1, <1>7, <1>8 DEF Stock, InStock, NextStock, Size
  <1>13. (cfg.rsync => Runs(one.hashed, 1, Reached))'
    BY <1>1, <1>5, <1>7, <1>9 DEF Runs
  <1>14. (~cfg.rsync => one.got = 0 /\ one.start = 0 /\ (one.more = Block \/ one.read = Size))'
    BY <1>1, <1>5 DEF Size
  <1>15. HistoryOK'
    <2>1. Len(pieces') = 0 /\ one'.have = 0
      BY <1>1, <1>5, <1>6
    <2>2. \A k \in 1 .. Len(pieces') : FALSE
      BY <2>1
    <2>3. one'.have <= Block
      BY <1>2, <2>1
    <2> QED BY <2>1, <2>2, <2>3 DEF HistoryOK
  <1>16. pieces' \in Seq(PieceRecs) /\ pieces' = <<>> /\ one'.got = 0 /\ one' # None
    BY <1>1, <1>5, <1>10
  <1> QED BY <1>11, <1>12, <1>13, <1>14, <1>15, <1>16 DEF OneInv

LEMMA OneUnchanged == OneInv /\ UNCHANGED <<cfg, jobs, one, pieces>> => OneInv'
  <1> SUFFICES ASSUME OneInv, cfg' = cfg, jobs' = jobs, one' = one, pieces' = pieces PROVE OneInv'
    OBVIOUS
  <1>1. PiecesAt' = PiecesAt /\ Compressed' = Compressed
    BY DEF PiecesAt, PieceEnd, Compressed
  <1>2. Reached' = Reached
    BY <1>1 DEF Reached
  <1>3. (pieces \in Seq(PieceRecs))' /\ (one = None => pieces = <<>>)'
    BY DEF OneInv
  <1> SUFFICES ASSUME one # None
               PROVE  (/\ cfg # None /\ ~Cutting
                       /\ Stock(one, Reached)
                       /\ pieces = <<>> => one.got = 0
                       /\ pieces # <<>> => Chain(Compressed, PiecesAt, Len(pieces), 0)
                       /\ cfg.rsync => Runs(one.hashed, 1, Reached)
                       /\ ~cfg.rsync => one.got = 0 /\ one.start = 0 /\ (one.more = Block \/ one.read = Size)
                       /\ HistoryOK)'
    BY <1>3 DEF OneInv
  <1>4. (cfg # None /\ ~Cutting)' /\ (pieces = <<>> => one.got = 0)'
    BY DEF OneInv, Cutting
  <1>5. Stock(one, Reached)'
    BY <1>2 DEF OneInv, Stock, InStock, NextStock, Size
  <1>6. (pieces # <<>> => Chain(Compressed, PiecesAt, Len(pieces), 0))'
    BY <1>1 DEF OneInv, Chain, IsPiece, Clear, Piece, Size
  <1>7. (cfg.rsync => Runs(one.hashed, 1, Reached))'
    BY <1>2 DEF OneInv, Runs
  <1>8. (~cfg.rsync => one.got = 0 /\ one.start = 0 /\ (one.more = Block \/ one.read = Size))'
    BY DEF OneInv, Size
  <1>9. HistoryOK'
    BY <1>1, <1>2 DEF OneInv, HistoryOK, Keeping, Size
  <1> QED BY <1>4, <1>5, <1>6, <1>7, <1>8, <1>9

\* What holds of both paths throughout.
PathsInv == CutInv /\ HitInv /\ OneInv

LEMMA PathsInit == PiecesInit => PathsInv
  <1> SUFFICES ASSUME PiecesInit PROVE PathsInv
    OBVIOUS
  <1>1. CutInit /\ one = None /\ pieces = <<>>
    BY DEF PiecesInit
  <1>2. OneInv
    BY <1>1 DEF OneInv
  <1> QED BY <1>1, <1>2, CutInitHolds, HitInitHolds DEF PathsInv

LEMMA PathsKept == PathsInv /\ [PiecesNext]_<<cutVars, pieceVars>> => PathsInv'
  <1> SUFFICES ASSUME PathsInv, [PiecesNext]_<<cutVars, pieceVars>> PROVE PathsInv'
    OBVIOUS
  <1> USE DEF PathsInv
  <1>1. CASE CutNext /\ UNCHANGED pieceVars
    <2>1. CutInv' /\ HitInv'
      BY <1>1, BeginKeeps, CutJobKeeps, BeginHits, CutJobHits DEF CutNext
    <2>2. one = None /\ pieces = <<>>
      BY <1>1 DEF CutNext, Begin, CutJob, OneInv
    <2>3. one' = None /\ pieces' = <<>>
      BY <1>1, <2>2 DEF pieceVars
    <2>4. OneInv'
      BY <2>3 DEF OneInv
    <2> QED BY <2>1, <2>4
  <1>2. ASSUME UNCHANGED cutVars PROVE CutInv' /\ HitInv'
    BY <1>2, CutStutterKeeps, StutterHits
  <1>3. CASE StartSingle
    <2>1. UNCHANGED cutVars
      BY <1>3 DEF StartSingle
    <2> QED BY <1>2, <1>3, <2>1, StartSingleKeeps
  <1>4. CASE SinglePiece
    <2>1. UNCHANGED cutVars
      BY <1>4 DEF SinglePiece
    <2> QED BY <1>2, <1>4, <2>1, SinglePieceKeeps
  <1>5. CASE StartOut \/ CompressPiece \/ UNCHANGED <<cutVars, pieceVars>>
    <2>1. UNCHANGED cutVars /\ UNCHANGED <<one, pieces>>
      BY <1>5 DEF StartOut, CompressPiece, pieceVars
    <2>2. UNCHANGED <<cfg, jobs, one, pieces>>
      BY <2>1 DEF cutVars
    <2> QED BY <1>2, <2>1, <2>2, OneUnchanged
  <1> QED BY <1>1, <1>3, <1>4, <1>5 DEF PiecesNext

\* Either path has compressed the whole input, so that both have the same pieces.
LEMMA PathsAlike ==
    ASSUME PathsInv, one # None, ~SinglePending
    PROVE  /\ Compressed = JobsUpto(Len(jobs)) /\ Reached = Size
           /\ cfg.hits = {} => Len(pieces) = Len(jobs)
  <1> USE DEF PathsInv
  <1> DEFINE n == Len(jobs)
             l == Len(pieces)
  <1>1. cfg # None /\ ~Cutting
    BY DEF OneInv
  <1>2. pieces # <<>> /\ ~Last(pieces).more
    BY DEF SinglePending
  <1>3. Reached = Size
    BY <1>2, ReachedIs
  <1>4. End(n) = Size
    BY <1>1 DEF CutInv, Ended
  <1>5. n \in Nat /\ n # 0
    <2>1. jobs # <<>> /\ jobs \in Seq([curr : Seq(Nat), lens : Seq(Int), dict : Seq(Nat), more : BOOLEAN])
      BY <1>1 DEF Cutting, CutInv, CutTypeOK
    <2> QED BY <2>1
  <1>6. PICK at, m : /\ Chain(JobsUpto(n), at, m, 0) /\ at[m] = End(n)
                     /\ cfg.hits = {} => m = n
    <2>1. n \in 1 .. n
      BY <1>5
    <2> QED BY <1>1, <2>1, JobsChain
  <1>7. Chain(Compressed, PiecesAt, l, 0) /\ PiecesAt[l] = Size
    BY <1>2, <1>3 DEF OneInv, Reached
  <1> HIDE DEF n, l
  <1>8. Compressed = JobsUpto(n) /\ l = m
    BY <1>4, <1>6, <1>7, ChainsAlike
  <1> QED BY <1>3, <1>6, <1>8 DEF n, l

\* Without hits a job is a piece.
LEMMA PiecePerJob ==
    ASSUME PathsInv, cfg # None, cfg.hits = {}
    PROVE  \A k \in 1 .. Len(jobs) : Len(JobsUpto(k)) = k
  <1> USE DEF PathsInv
  <1> SUFFICES ASSUME NEW k \in 1 .. Len(jobs) PROVE Len(JobsUpto(k)) = k
    OBVIOUS
  <1>1. PICK at, m : Chain(JobsUpto(k), at, m, 0) /\ m = k
    BY JobsChain
  <1>2. JobsUpto(k) = [i \in 1 .. k |-> Piece(at[i-1], at[i])] /\ k \in Nat
    BY <1>1 DEF Chain
  <1> QED BY <1>2

LEMMA PathsMatch == PathsInv => SamePieces
  <1> SUFFICES ASSUME PathsInv, one # None, ~SinglePending PROVE SamePieces
    BY DEF SamePieces
  <1> DEFINE resets == {k \in DOMAIN pieces : pieces[k].fresh}
             begins == {Len(JobsUpto(k)) + 1 : k \in 1 .. Len(jobs) - 1}
  <1>1. /\ Compressed = JobsUpto(Len(jobs)) /\ Reached = Size
        /\ cfg.hits = {} => Len(pieces) = Len(jobs)
    BY PathsAlike
  <1>2. cfg # None /\ HistoryOK /\ pieces # <<>> /\ Len(pieces) \in Nat /\ DOMAIN pieces = 1 .. Len(pieces)
    BY DEF PathsInv, OneInv, SinglePending
  <1>3. cfg.rsync => one.hashed = Bytes(1, Size)
    BY <1>1 DEF PathsInv, OneInv, Runs
  <1>4. cfg.setdict => resets = {}
    BY <1>2 DEF HistoryOK
  <1>5. ~cfg.setdict /\ ~cfg.rsync => resets = begins
    <2> SUFFICES ASSUME ~cfg.setdict, ~cfg.rsync PROVE resets = begins
      OBVIOUS
    <2>1. cfg.hits = {}
      BY <1>2 DEF PathsInv, HitInv
    <2>2. Len(jobs) = Len(pieces)
      BY <1>1, <2>1
    <2>3. \A k \in 1 .. Len(jobs) : Len(JobsUpto(k)) = k
      BY <1>2, <2>1, PiecePerJob
    <2>4. \A k \in 1 .. Len(pieces) : pieces[k].fresh <=> k # 1
      BY <1>2 DEF HistoryOK
    <2>5. resets = {k \in 1 .. Len(pieces) : k # 1}
      BY <1>2, <2>4
    <2>6. begins = {k + 1 : k \in 1 .. Len(pieces) - 1}
      <3>1. \A k \in 1 .. Len(jobs) - 1 : k \in 1 .. Len(jobs)
        BY <1>2, <2>2
      <3>2. \A k \in 1 .. Len(jobs) - 1 : Len(JobsUpto(k)) + 1 = k + 1
        BY <2>3, <3>1
      <3> QED BY <2>2, <3>2
    <2>7. \A l \in Nat : {k \in 1 .. l : k # 1} = {k + 1 : k \in 1 .. l - 1}
      <3> SUFFICES ASSUME NEW l \in Nat, NEW x
                   PROVE  x \in {k \in 1 .. l : k # 1} <=> x \in {k + 1 : k \in 1 .. l - 1}
        OBVIOUS
      <3>1. ASSUME x \in {k \in 1 .. l : k # 1} PROVE x \in {k + 1 : k \in 1 .. l - 1}
        <4>1. x - 1 \in 1 .. l - 1 /\ x = (x - 1) + 1
          BY <3>1
        <4> QED BY <4>1
      <3>2. ASSUME x \in {k + 1 : k \in 1 .. l - 1} PROVE x \in {k \in 1 .. l : k # 1}
        BY <3>2
      <3> QED BY <3>1, <3>2
    <2> QED BY <1>2, <2>5, <2>6, <2>7
  <1>6. ~cfg.setdict => \A i, j \in DOMAIN pieces :
            i <= j /\ (\A k \in i + 1 .. j : k \notin resets) => PieceEnd(j) - PieceEnd(i - 1) <= Block
    <2> SUFFICES ASSUME ~cfg.setdict, NEW i \in DOMAIN pieces, NEW j \in DOMAIN pieces, i <= j,
                        \A k \in i + 1 .. j : k \notin resets
                 PROVE  PieceEnd(j) - PieceEnd(i - 1) <= Block
      OBVIOUS
    <2>1. i \in 1 .. Len(pieces) /\ j \in 1 .. Len(pieces) /\ j \in 0 .. Len(pieces) /\ i - 1 \in 0 .. Len(pieces)
      BY <1>2
    <2>2. \A k \in i + 1 .. j : k \in DOMAIN pieces
      BY <1>2, <2>1
    <2>3. Keeping(i, j)
      BY <2>2 DEF Keeping
    <2>4. PiecesAt[j] - PiecesAt[i - 1] <= Block
      BY <1>2, <2>1, <2>3 DEF HistoryOK
    <2> QED BY <2>1, <2>4 DEF PiecesAt
  <1>7. [k \in DOMAIN pieces |-> [data |-> pieces[k].data, more |-> pieces[k].more]] = JobsUpto(Len(jobs))
    BY <1>1 DEF Compressed
  <1> HIDE DEF resets
  <1> QED BY <1>3, <1>4, <1>5, <1>6, <1>7 DEF SamePieces, JobsUpto, PiecesOf, resets

\* What PigzPieces does keeps the invariant of both paths.
THEOREM PathsInvariance == PiecesSpec => []PathsInv
  <1> QED BY PathsInit, PathsKept, PTL DEF PiecesSpec

\* For every block size, input and choice of hits the single-thread path ends its
\* pieces, and the stream, where the parallel path does, hashes each byte once and
\* in order, and drops its history where the parallel path begins a job.
THEOREM SinglePathAlike == PiecesSpec => []SamePieces
  <1> QED BY PathsInvariance, PathsMatch, PTL
===============================================================================
