------------------------------- MODULE Writers -------------------------------
(***************************************************************************)
(* The engine writers that batch their input before a compressor sees it:  *)
(* zlib (engine/zlib/zlib.go), pgzip (engine/pgzip/pgzip.go), kpzstd's two *)
(* (engine/kpzstd/kpzstd.go) and libzstd's direct and job writers          *)
(* (engine/libzstd/libzstd.go).  What a compressor makes of its input      *)
(* depends on the calls it gets, so the calls must be those of one Write   *)
(* of the whole content, however it is split.  (klauspost's encoder cuts   *)
(* what it is written into blocks by itself: only its Flush is a call.)    *)
(*                                                                         *)
(* libzstd's jobWriter compresses the first job itself, chunk by chunk;    *)
(* if the input goes on it replays the job into a direct writer, checks    *)
(* that the same output comes out and passes on what follows.              *)
(*                                                                         *)
(* Input is counted in units.  Output is a sequence of items <<i, last>>,  *)
(* one for each chunk of the input, and <<0, TRUE>> for an end that comes  *)
(* after the data.  How much a call into a compressor consumes and gives   *)
(* out is left open.  The caller is Feed: no Write after an error, one     *)
(* Close.                                                                  *)
(*                                                                         *)
(* A definition named X_Bug is X with a bug one could plausibly write into *)
(* the code, as in Run.                                                    *)
(***************************************************************************)
EXTENDS Naturals, Sequences, SequencesExt

CONSTANTS MaxInput,  \* the most input a caller has
          InCap,     \* the batch: inBufSize, pgzip's block, ZSTD_CStreamInSize
          HeadSize,  \* ZstdParams.Head
          Chunk,     \* jobChunk
          JobSize    \* jobSize(p)

Kinds == {"zlib", "pgzip", "head", "all", "stream", "file", "workers", "emulated"}

ASSUME WritersAssumption ==
    /\ MaxInput \in Nat /\ InCap \in Nat \ {0} /\ HeadSize \in Nat \ {0} /\ Chunk \in Nat \ {0}
    /\ JobSize \in Nat \ {0} /\ JobSize % Chunk = 0

VARIABLES
    kind,       \* which writer: kpzstd's are "head" and "all", libzstd's "stream"
                \* (Workers 0), "file" (with endWithData), "workers" and "emulated",
                \* the jobWriter
    lib,        \* how libzstd's own compressor fails to reproduce the first job
    pc,         \* "ready", "write", "handover", "replay", "close" or "closed"
    given,      \* what the caller has offered so far
    left,       \* of the Write in progress
    \* the jobWriter
    job, chunked, emitted,   \* its fields: input kept, compressed; output written
    again,      \* of the job, what is still to be replayed
    pos,        \* replayCheck's
    \* the direct writer
    direct,     \* "none" or "open"
    dpc,        \* "fill", "compress", "flush", "end" or "done"
    pending,    \* the batch being filled
    \* the compressor it drives
    calls,      \* what it was handed, in order
    rest,       \* of the last one
    took, made, \* input consumed; items given out
    err, ret,   \* the writer's err; what Close returned
    live,       \* the C memory it holds
    dest        \* what has been written

caller == <<kind, lib, given>>
emulation == <<job, chunked, emitted>>
compressor == <<calls, rest, took, made>>
vars == <<caller, left, pc, emulation, again, pos, direct, dpc, pending, compressor,
          err, ret, live, dest>>

Least(a, b) == IF a < b THEN a ELSE b

\* An item of the first job that comes out wrong; or it ends after some of them.
Lib == [how : {"same"}, at : {0}]
       \cup [how : {"differs"}, at : 1 .. JobSize \div Chunk]
       \cup [how : {"short"}, at : 1 .. JobSize \div Chunk - 1]

\* newDirectWriter, newJobWriter, and the NewWriters of the others.
Init ==
    /\ kind \in Kinds
    /\ lib \in {l \in Lib : kind # "emulated" => l.how = "same"}
    /\ pc = "ready" /\ given = 0 /\ left = 0
    /\ job = 0 /\ chunked = 0 /\ emitted = <<>> /\ again = 0 /\ pos = 0
    /\ direct = IF kind = "emulated" THEN "none" ELSE "open"
    /\ dpc = "fill" /\ pending = 0
    /\ calls = <<>> /\ rest = 0 /\ took = 0 /\ made = 0
    /\ err = "nil" /\ ret = "pending" /\ dest = <<>>
    /\ live = IF kind = "emulated" THEN {"cctx", "out", "job"}
              ELSE IF kind \in {"pgzip", "head", "all"} THEN {} ELSE {"direct"}

\* A full batch is compressed at once; the last one goes with the end.
Eager == kind \in {"zlib", "pgzip", "head"}
WithData == kind \in {"file", "pgzip", "head", "all"}
Jobs == kind \in {"workers", "emulated"}

-----------------------------------------------------------------------------
(* The calls.                                                              *)

CallWrite(n) ==
    /\ pc = "ready" /\ err = "nil"
    /\ pc' = "write" /\ given' = given + n /\ left' = n
    /\ UNCHANGED <<kind, lib, emulation, again, pos, direct, dpc, pending, compressor,
                   err, ret, live, dest>>

CallClose ==
    /\ pc = "ready"
    /\ pc' = "close"
    /\ UNCHANGED <<caller, left, emulation, again, pos, direct, dpc, pending, compressor,
                   err, ret, live, dest>>

-----------------------------------------------------------------------------
(* jobWriter.                                                              *)

Emulating == direct = "none"

\* One write to the destination, accepted or refused.
Deliver(items) == \/ dest' = dest \o items /\ UNCHANGED err
                  \/ err' = "write" /\ UNCHANGED dest

\* compressChunk.
CompressChunk(n, end) ==
    LET item == <<Len(emitted) + 1, end>> IN
    \/ err' = "compress" /\ UNCHANGED <<chunked, emitted, dest>>
    \/ /\ chunked' = chunked + n /\ emitted' = Append(emitted, item)
       /\ Deliver(<<item>>)

\* Bug: a chunk is compressed as soon as it is full.
ChunkDue_Full == job - chunked >= Chunk

\* A chunk is compressed once input follows it.
ChunkDue == job - chunked > Chunk

KeepInput ==
    /\ Emulating /\ pc = "write" /\ err = "nil" /\ ~ChunkDue /\ left > 0 /\ job < JobSize
    /\ LET n == Least(JobSize - job, left) IN job' = job + n /\ left' = left - n
    /\ UNCHANGED <<caller, pc, chunked, emitted, again, pos, direct, dpc, pending,
                   compressor, err, ret, live, dest>>

ContinueChunk ==
    /\ Emulating /\ pc \in {"write", "close"} /\ err = "nil" /\ ChunkDue
    /\ CompressChunk(Chunk, FALSE)
    /\ UNCHANGED <<caller, left, pc, job, again, pos, direct, dpc, pending, compressor,
                   ret, live>>

HandOver ==
    /\ Emulating /\ pc = "write" /\ err = "nil" /\ ~ChunkDue /\ left > 0 /\ job = JobSize
    /\ pc' = "handover"
    /\ UNCHANGED <<caller, left, emulation, again, pos, direct, dpc, pending, compressor,
                   err, ret, live, dest>>

FinishJob ==
    /\ pc = "handover" /\ err = "nil" /\ chunked < job
    /\ CompressChunk(Least(Chunk, job - chunked), FALSE)
    /\ UNCHANGED <<caller, left, pc, job, again, pos, direct, dpc, pending, compressor,
                   ret, live>>

\* The context goes before the direct writer is there.
StartDirect ==
    /\ pc = "handover" /\ err = "nil" /\ chunked = job
    /\ \/ /\ err' = "compress" /\ live' = live \ {"cctx", "out"}
          /\ UNCHANGED <<pc, direct, again>>
       \/ /\ live' = (live \ {"cctx", "out"}) \cup {"direct"}
          /\ direct' = "open" /\ again' = job /\ pc' = "replay"
          /\ UNCHANGED err
    /\ UNCHANGED <<caller, left, emulation, pos, dpc, pending, compressor, ret, dest>>

\* The frame ends within the job.
EndChunk ==
    /\ Emulating /\ pc = "close" /\ err = "nil" /\ ~ChunkDue /\ dpc # "done"
    /\ CompressChunk(job - chunked, TRUE)
    /\ dpc' = "done"
    /\ UNCHANGED <<caller, left, pc, job, again, pos, direct, pending, compressor, ret, live>>

-----------------------------------------------------------------------------
(* The direct writer.                                                      *)

Driving == direct = "open" /\ err = "nil"

\* What its Write has yet to take: the job, or the caller's input.
Source == IF pc = "replay" THEN again ELSE left

Take(n) == IF pc = "replay" THEN again' = again - n /\ UNCHANGED left
                            ELSE left' = left - n /\ UNCHANGED again

\* The head is flushed once; allWriter keeps all that it is given.
Cap == IF kind = "all" \/ (kind = "head" /\ calls # <<>>) THEN MaxInput + 1
       ELSE IF kind = "head" THEN HeadSize ELSE InCap

\* Bug: libzstd's batches are compressed as soon as they are full, too.
BatchDue_Eager == pending = Cap

\* libzstd's batches wait for input that follows them.
BatchDue == pending = Cap /\ (Eager \/ Source > 0)

Room == Cap - pending

Fill ==
    /\ Driving /\ pc \in {"write", "replay"} /\ dpc = "fill" /\ ~BatchDue /\ Source > 0
    /\ LET n == Least(Room, Source) IN Take(n) /\ pending' = pending + n
    /\ UNCHANGED <<caller, pc, emulation, pos, direct, dpc, compressor, err, ret, live, dest>>

\* Close compresses the remainder like any other batch, or leaves it to End.
Batch ==
    /\ Driving /\ dpc = "fill"
    /\ \/ pc \in {"write", "replay"} /\ BatchDue
       \/ pc = "close" /\ ~WithData /\ pending > 0
    /\ calls' = Append(calls, <<IF kind = "head" THEN "flush" ELSE "continue", pending>>)
    /\ rest' = pending /\ pending' = 0 /\ dpc' = "compress"
    /\ UNCHANGED <<caller, left, pc, emulation, again, pos, direct, took, made,
                   err, ret, live, dest>>

\* replayCheck.Write; without a jobWriter there is nothing to check.
Emit(items) ==
    LET m == Least(Len(emitted) - pos, Len(items)) IN
    IF items = <<>> THEN UNCHANGED <<pos, dest, err>>
    ELSE IF SubSeq(items, 1, m) # SubSeq(emitted, pos + 1, pos + m)
    THEN err' = "replay" /\ UNCHANGED <<pos, dest>>
    ELSE /\ pos' = pos + m
         /\ IF m = Len(items) THEN UNCHANGED <<dest, err>>
                              ELSE Deliver(SubSeq(items, m + 1, Len(items)))

\* The items of n units of input, and of a frame of them.
Items(n) == [i \in 1 .. (n + Chunk - 1) \div Chunk |-> <<i, FALSE>>]
WholeFrame(n) == Items(n) \o <<<<0, TRUE>>>>

\* What the compressor can give out before the end: the chunks it has whole,
\* with workers those of full jobs.
Ready(n) == IF Jobs THEN (n \div JobSize) * (JobSize \div Chunk) ELSE n \div Chunk

\* The compressor's output as it really comes out.
Output(s) == CASE lib.how = "same"    -> s
               [] lib.how = "differs" -> [i \in DOMAIN s |-> IF i = lib.at THEN <<0, FALSE>> ELSE s[i]]
               [] lib.how = "short"   -> SubSeq(s, 1, Least(lib.at, Len(s)))

\* It gives out up to all of s, and at least least items more if there are any.
Produce(s, least) ==
    \/ err' = "compress" /\ UNCHANGED <<made, pos, dest>>
    \/ \E m \in made .. Len(s) :
          /\ m >= Least(made + least, Len(s))
          /\ made' = m
          /\ Emit(SubSeq(s, made + 1, m))

\* Bug: no call waits for the job in flight.
Waits_Never == FALSE

\* compressPending ends with a call that has no input.
Waits == Jobs

CompressStep ==
    /\ Driving /\ dpc = "compress"
    /\ \E n \in 1 .. rest :
          /\ rest' = rest - n /\ took' = took + n
          /\ dpc' = IF n < rest THEN "compress" ELSE IF Waits THEN "flush" ELSE "fill"
    /\ Produce(Output(Items(Chunk * Ready(took'))), 0)
    /\ UNCHANGED <<caller, left, pc, emulation, again, direct, pending, calls, ret, live>>

\* It makes libzstd give out something of the job in flight.
Flush ==
    /\ Driving /\ dpc = "flush"
    /\ Produce(Output(Items(Chunk * Ready(took))), 1)
    /\ dpc' = "fill"
    /\ UNCHANGED <<caller, left, pc, emulation, again, direct, pending, calls, rest, took,
                   ret, live>>

End ==
    /\ Driving /\ pc = "close" /\ dpc = "fill" /\ (WithData \/ pending = 0)
    /\ calls' = Append(calls, <<"end", pending>>)
    /\ took' = took + pending /\ pending' = 0
    /\ dpc' = "end"
    /\ UNCHANGED <<caller, left, pc, emulation, again, pos, direct, rest, made,
                   err, ret, live, dest>>

\* The loop that ends when the compressor has nothing left.
EndStep ==
    /\ Driving /\ dpc = "end"
    /\ LET s == Output(WholeFrame(took)) IN
       /\ Produce(s, 1)
       /\ dpc' = IF made' = Len(s) THEN "done" ELSE "end"
    /\ UNCHANGED <<caller, left, pc, emulation, again, direct, pending, calls, rest, took,
                   ret, live>>

-----------------------------------------------------------------------------
(* The returns.                                                            *)

\* Bug: the job is kept if the replay fails.
FreedJob_OnSuccess == IF err = "nil" THEN {"job"} ELSE {}

FreedJob == {"job"}

\* The direct writer's Write of the job returns; handOver frees it either way.
Replayed ==
    /\ pc = "replay"
    /\ err = "nil" => dpc = "fill" /\ again = 0 /\ ~BatchDue
    /\ live' = live \ FreedJob
    /\ pc' = "write"
    /\ UNCHANGED <<caller, left, emulation, again, pos, direct, dpc, pending, compressor,
                   err, ret, dest>>

\* Write returns its error, or having taken everything.
WriteReturns ==
    /\ \/ pc \in {"write", "handover"} /\ err # "nil"
       \/ /\ pc = "write" /\ left = 0
          /\ IF Emulating THEN ~ChunkDue ELSE dpc = "fill" /\ ~BatchDue
    /\ pc' = "ready"
    /\ UNCHANGED <<caller, left, emulation, again, pos, direct, dpc, pending, compressor,
                   err, ret, live, dest>>

\* Bug: a replay that wrote too little goes unnoticed.
CutShort_Never == FALSE

CutShort == pos < Len(emitted) /\ ~Emulating

\* What each writer's Close releases, also after an error.
CloseReturns ==
    /\ pc = "close" /\ (err # "nil" \/ dpc = "done")
    /\ ret' = IF err = "nil" /\ CutShort THEN "replay" ELSE err
    /\ live' = live \ (IF Emulating THEN {"cctx", "out", "job"} ELSE {"direct"})
    /\ pc' = "closed"
    /\ UNCHANGED <<caller, left, emulation, again, pos, direct, dpc, pending, compressor,
                   err, dest>>

Writer == \/ KeepInput \/ ContinueChunk \/ HandOver \/ FinishJob \/ StartDirect \/ EndChunk
          \/ Fill \/ Batch \/ CompressStep \/ Flush \/ End \/ EndStep
          \/ Replayed \/ WriteReturns \/ CloseReturns

Next == CallClose \/ Writer \/ \E n \in 1 .. MaxInput - given : CallWrite(n)

Spec == Init /\ [][Next]_vars

-----------------------------------------------------------------------------
\* The stream of the first n units, and the calls one Write of them makes.
Frame(n) == IF kind = "emulated" /\ n <= JobSize
            THEN LET s == IF n = 0 THEN <<<<1, FALSE>>>> ELSE Items(n)
                 IN  [s EXCEPT ![Len(s)] = <<Len(s), TRUE>>]
            ELSE WholeFrame(n)

Calls(n) ==
    LET full == IF Eager THEN n \div InCap ELSE (n + InCap - 1) \div InCap - 1
        q == IF n = 0 THEN 0 ELSE full
        r == n - q * InCap
    IN  IF kind = "all" \/ (kind = "head" /\ n < HeadSize) THEN <<<<"end", n>>>>
        ELSE IF kind = "head" THEN <<<<"flush", HeadSize>>, <<"end", n - HeadSize>>>>
        ELSE [i \in 1 .. q |-> <<"continue", InCap>>] \o
        (IF WithData THEN <<<<"end", r>>>>
         ELSE IF r = 0 THEN <<<<"end", 0>>>> ELSE <<<<"continue", r>>, <<"end", 0>>>>)

\* What is written is the beginning of the content's one stream at any time:
\* nothing twice when the first job is replayed, nothing left out, and no
\* chunk compressed as one in the middle that turns out to be the last.
WrittenInOrder == IsPrefix(dest, Frame(given))

\* The compressor gets the calls it would get from one Write of everything,
\* however the caller splits it: an engine verified with one split rebuilds
\* the same bytes with another.
SplitFree == IsPrefix(calls, Calls(given))

\* Close returns nil only if the whole stream is written and the compressor
\* has had all its calls, and the replay error only if libzstd really made
\* something else of the first job.
CloseIsHonest ==
    pc = "closed" =>
        /\ ret = "nil" => /\ dest = Frame(given)
                          /\ direct = "open" => calls = Calls(given)
        /\ ret = "replay" => lib.how # "same" /\ given > JobSize

\* The memory a writer uses is there, the first job's is gone as soon as the
\* direct writer has taken over, and none is left after Close, whichever
\* step failed.
MemoryHeld ==
    /\ pc = "closed" => live = {}
    /\ Emulating /\ pc \in {"write", "close"} /\ err = "nil" => {"cctx", "out", "job"} \subseteq live
    /\ pc = "replay" => live = {"job", "direct"}
    /\ kind = "emulated" /\ direct = "open" /\ pc \in {"ready", "write", "close"} =>
         live = {"direct"}

Buffered == IF kind = "workers" THEN JobSize ELSE 0

\* A job-based candidate is silent for what Buffered reports and a chunk at
\* most: the search, which waits that long and no longer before it drops a
\* candidate as untested, does not drop one that was about to be heard.
HeardInTime ==
    Jobs /\ pc = "ready" /\ err = "nil" /\ given > Buffered + Chunk => dest # <<>>
==============================================================================
