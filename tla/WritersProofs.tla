---------------------------- MODULE WritersProofs ----------------------------
(***************************************************************************)
(* Theorems about the batching writers, for any input, any split of it,    *)
(* any batch, head, chunk and job, and any compressor and destination.     *)
(*                                                                         *)
(* All that a writer was given is accounted for: handed to the compressor, *)
(* in the batch, still to be replayed or left of the caller's slice        *)
(* (CountOK).  So the calls made so far follow from the input alone        *)
(* (CallsOK), and so does, up to how far the compressor is behind, what    *)
(* was written (JobOK, OutputOK).                                          *)
(***************************************************************************)
EXTENDS Writers, Integers, SequenceTheorems, TLAPS

Item == Nat \X BOOLEAN
Call == {"continue", "flush", "end"} \X Nat
Errors == {"nil", "write", "compress", "replay"}
Memory == {"cctx", "out", "job", "direct"}

\* How many chunks a job has.
JobChunks == JobSize \div Chunk

TypeOK ==
    /\ kind \in Kinds /\ lib \in Lib
    /\ pc \in {"ready", "write", "handover", "replay", "close", "closed"}
    /\ given \in Nat /\ left \in Nat /\ job \in Nat /\ chunked \in Nat /\ again \in Nat
    /\ pos \in Nat /\ pending \in Nat /\ rest \in Nat /\ took \in Nat /\ made \in Nat
    /\ emitted \in Seq(Item) /\ dest \in Seq(Item) /\ calls \in Seq(Call)
    /\ direct \in {"none", "open"}
    /\ dpc \in {"fill", "compress", "flush", "end", "done"}
    /\ err \in Errors /\ ret \in Errors \cup {"pending"}
    /\ live \in SUBSET Memory

GivenOK ==
    /\ kind # "emulated" => lib.how = "same"
    /\ given <= MaxInput /\ left <= given

Closing == pc \in {"close", "closed"}

\* Where a call can be, and what has been set up by then.
PlaceOK ==
    /\ direct = "none" => /\ kind = "emulated" /\ pc # "replay" /\ dpc \in {"fill", "done"}
                          /\ calls = <<>> /\ pending = 0 /\ rest = 0 /\ took = 0
                          /\ made = 0 /\ again = 0 /\ pos = 0
    /\ kind # "emulated" => /\ job = 0 /\ chunked = 0 /\ emitted = <<>> /\ again = 0
                            /\ pc \notin {"handover", "replay"}
    /\ pc = "handover" => direct = "none" /\ job = JobSize /\ left > 0
    /\ pc = "replay" => left > 0
    /\ dpc \in {"end", "done"} => Closing
    /\ dpc = "compress" <=> rest > 0
    /\ err = "nil" => /\ pc # "replay" => again = 0
                      /\ pc \in {"ready", "close", "closed"} => left = 0
                      /\ pc = "ready" => IF Emulating THEN ~ChunkDue ELSE dpc = "fill"
                      /\ pc = "closed" => dpc = "done"

\* Nothing that was taken is lost.
CountOK ==
    /\ direct = "none" => job = given - left /\ job <= JobSize
    /\ direct = "open" => took + rest + pending + again = given - left
    /\ direct = "open" /\ kind = "emulated" => job = JobSize /\ given > JobSize

-----------------------------------------------------------------------------
\* A batch that is not the last one, and the call that compresses it.
BatchSize == IF kind = "head" THEN HeadSize ELSE InCap
BatchCall == IF kind = "head" THEN <<"flush", HeadSize>> ELSE <<"continue", InCap>>

\* Full batches were compressed and nothing else; libzstd's only when they had
\* been found not to be the last.
Body ==
    /\ \A i \in 1 .. Len(calls) : calls[i] = BatchCall
    /\ kind = "all" => calls = <<>>
    /\ kind = "head" => Len(calls) <= 1
    /\ took + rest = BatchSize * Len(calls)
    /\ pending <= Cap
    /\ calls # <<>> /\ ~Eager => pending > 0 \/ Source > 0

\* Close has compressed the last batch, too.
Remainder ==
    /\ ~WithData /\ pending = 0 /\ dpc \in {"fill", "compress", "flush"}
    /\ took + rest = given /\ SplitFree /\ Len(calls) = Len(Calls(given)) - 1

\* It has ended the frame.
Ending == dpc \in {"end", "done"}
Ended == Ending /\ pending = 0 /\ took = given /\ calls = Calls(given)

CallsOK == direct = "open" /\ err = "nil" =>
    /\ ~Closing => Body
    /\ pc = "ready" => ~BatchDue
    /\ Closing => \/ Body /\ ~BatchDue /\ dpc = "fill"
                  \/ Remainder
                  \/ Ended

-----------------------------------------------------------------------------
\* s is the beginning of any stream that goes on.
Middle(s) == \A i \in 1 .. Len(s) : s[i] = <<i, FALSE>>

\* The first job: its chunks are compressed once input follows them.
JobOK ==
    /\ direct = "none" /\ err = "nil" =>
         /\ dest = emitted
         /\ IF dpc = "done" THEN emitted = Frame(given) /\ chunked = job
            ELSE /\ Middle(emitted) /\ chunked = Chunk * Len(emitted)
                 /\ emitted = <<>> \/ chunked < job \/ (pc = "handover" /\ chunked = job)
    /\ direct = "open" => Middle(emitted) /\ (kind = "emulated" => Len(emitted) = JobChunks)

\* The direct writer: what it makes of the job was written before.
OutputOK == direct = "open" /\ err = "nil" =>
    /\ pos = Least(made, Len(emitted))
    /\ Len(dest) = IF made < Len(emitted) THEN Len(emitted) ELSE made
    /\ ~Ending => Chunk * made <= took /\ Middle(dest)
    /\ Ending => /\ made <= Len(WholeFrame(given))
                 /\ \A i \in 1 .. Len(dest) : dest[i] = WholeFrame(given)[i]
    /\ lib.how = "differs" => made < lib.at
    /\ lib.how = "short" => made <= lib.at
    /\ dpc = "done" => made = Len(Output(WholeFrame(given)))
    /\ Jobs /\ dpc = "fill" /\ took >= JobSize => made > 0

\* An error of the replay is libzstd's.
ReturnOK ==
    /\ err = "replay" => lib.how # "same" /\ direct = "open"
    /\ pc = "closed" <=> ret # "pending"
    /\ pc = "closed" => ret = IF err = "nil" /\ CutShort THEN "replay" ELSE err

LiveOK ==
    /\ pc = "closed" => live = {}
    /\ pc # "closed" =>
         /\ kind \in {"pgzip", "head", "all"} => live = {}
         /\ kind \notin {"pgzip", "head", "all", "emulated"} => live = {"direct"}
         /\ kind = "emulated" =>
              live = IF direct = "open" THEN IF pc = "replay" THEN {"job", "direct"} ELSE {"direct"}
                     ELSE IF err = "nil" THEN {"cctx", "out", "job"} ELSE live
         /\ direct = "none" => live \subseteq {"cctx", "out", "job"}

Core == /\ TypeOK /\ GivenOK /\ PlaceOK /\ CountOK /\ CallsOK /\ JobOK /\ OutputOK
        /\ ReturnOK /\ LiveOK

\* After an error the two sequences stay as they are.
IInv == Core /\ (err # "nil" => SplitFree /\ WrittenInOrder)

-----------------------------------------------------------------------------
(* Division.                                                               *)

LEMMA TimesNat == \A a, b \in Nat : a * b \in Nat
  OBVIOUS

\* Whole batches of n units before a number of them end before the next.
LEMMA BatchEnds ==
    ASSUME NEW P \in Nat \ {0}, NEW i \in Nat, NEW t \in Nat, i < t
    PROVE  P * i + P <= P * t
  <1>1. PICK d \in Nat : t = i + 1 + d
    <2>1. t - i - 1 \in Nat /\ t = i + 1 + (t - i - 1)
      OBVIOUS
    <2> QED BY <2>1
  <1>2. P * t = P * i + P + P * d
    BY <1>1
  <1>3. P * d \in Nat /\ P * i \in Nat
    OBVIOUS
  <1> QED BY <1>2, <1>3

LEMMA Divides ==
    ASSUME NEW P \in Nat \ {0}, NEW a \in Nat
    PROVE  /\ a \div P \in Nat /\ a % P \in 0 .. P - 1
           /\ a = P * (a \div P) + (a % P)
  OBVIOUS

\* The number of batches is determined by what is left over.
LEMMA OneQuotient ==
    ASSUME NEW P \in Nat \ {0}, NEW i \in Nat, NEW t \in Nat,
           NEW r \in 0 .. P - 1, NEW s \in 0 .. P - 1, P * i + r = P * t + s
    PROVE  i = t /\ r = s
  <1>1. P * i \in Nat /\ P * t \in Nat
    OBVIOUS
  <1>2. CASE i < t
    BY <1>1, <1>2, BatchEnds
  <1>3. CASE t < i
    BY <1>1, <1>3, BatchEnds
  <1> QED BY <1>1, <1>2, <1>3

LEMMA QuotientIs ==
    ASSUME NEW P \in Nat \ {0}, NEW q \in Nat, NEW r \in 0 .. P - 1, NEW a \in Nat,
           a = P * q + r
    PROVE  a \div P = q
  <1>1. /\ a \div P \in Nat /\ a % P \in 0 .. P - 1
        /\ P * (a \div P) + (a % P) = P * q + r
    BY Divides
  <1> QED BY <1>1, OneQuotient

\* n units are so many chunks, of which the last may be short.
LEMMA RoundUp ==
    ASSUME NEW P \in Nat \ {0}, NEW n \in Nat
    PROVE  LET c == (n + P - 1) \div P IN
           /\ c \in Nat /\ (n = 0 => c = 0)
           /\ n > 0 => c > 0 /\ P * (c - 1) < n /\ n <= P * (c - 1) + P
  <1> DEFINE c == (n + P - 1) \div P
             r == (n + P - 1) % P
  <1>1. n + P - 1 \in Nat
    OBVIOUS
  <1>2. c \in Nat /\ r \in 0 .. P - 1 /\ n + P - 1 = P * c + r
    BY <1>1, Divides
  <1>3. CASE n = 0
    <2>1. n + P - 1 = P * 0 + (P - 1)
      BY <1>3
    <2>2. c = 0
      BY <1>1, <2>1, QuotientIs
    <2> QED BY <1>3, <2>2
  <1>4. CASE n > 0
    <2> HIDE DEF c, r
    <2>1. c # 0
      <3>1. SUFFICES ASSUME c = 0 PROVE FALSE
        OBVIOUS
      <3>2. P * c = 0
        BY <3>1
      <3> QED BY <1>2, <1>4, <3>2
    <2>2. P * (c - 1) = P * c - P /\ P * c \in Nat
      BY <1>2
    <2>3. c > 0 /\ P * (c - 1) < n /\ n <= P * (c - 1) + P
      BY <1>2, <1>4, <2>1, <2>2
    <2> QED BY <1>2, <1>4, <2>3 DEF c
  <1> QED BY <1>3, <1>4

\* That many chunks hold n, and no fewer.
LEMMA RoundUpIs ==
    ASSUME NEW P \in Nat \ {0}, NEW n \in Nat, NEW k \in Nat, P * k < n, n <= P * k + P
    PROVE  (n + P - 1) \div P = k + 1
  <1> DEFINE r == n - P * k - 1
  <1>1. P * k \in Nat
    OBVIOUS
  <1>2. r \in 0 .. P - 1 /\ n + P - 1 \in Nat
    BY <1>1
  <1>3. n + P - 1 = P * (k + 1) + r
    <2>1. P * (k + 1) = P * k + P
      OBVIOUS
    <2> QED BY <1>1, <2>1
  <1> HIDE DEF r
  <1>4. k + 1 \in Nat
    OBVIOUS
  <1> QED BY <1>2, <1>3, <1>4, QuotientIs

\* Whole chunks within n units are some of its chunks.
LEMMA WithinRoundUp ==
    ASSUME NEW P \in Nat \ {0}, NEW n \in Nat, NEW k \in Nat, P * k <= n
    PROVE  LET c == (n + P - 1) \div P IN k <= c /\ (P * k < n => k < c)
  <1> DEFINE c == (n + P - 1) \div P
  <1>1. /\ c \in Nat /\ (n = 0 => c = 0)
        /\ n > 0 => c > 0 /\ P * (c - 1) < n /\ n <= P * (c - 1) + P
    BY RoundUp
  <1> HIDE DEF c
  <1>2. P * k \in Nat
    OBVIOUS
  <1>3. CASE k = 0
    <2>1. P * k = 0
      BY <1>3
    <2> QED BY <1>1, <1>3, <2>1 DEF c
  <1>4. CASE k > 0
    <2>1. n > 0
      <3>1. P * k >= P
        <4>1. P * 0 + P <= P * k
          BY <1>4, BatchEnds
        <4> QED BY <4>1
      <3> QED BY <1>2, <3>1
    <2>2. P * c = P * (c - 1) + P /\ P * c \in Nat /\ P * (c - 1) \in Nat
      BY <1>1, <2>1
    <2>3. k <= c
      <3>1. SUFFICES ASSUME c < k PROVE FALSE
        BY <1>1
      <3>2. P * c + P <= P * k
        BY <1>1, <3>1, BatchEnds
      <3> QED BY <1>1, <1>2, <2>1, <2>2, <3>2
    <2>4. ASSUME P * k < n PROVE k < c
      <3>1. SUFFICES ASSUME k = c PROVE FALSE
        BY <1>1, <2>3
      <3> QED BY <1>1, <2>1, <2>2, <2>4, <3>1
    <2> QED BY <2>3, <2>4 DEF c
  <1> QED BY <1>3, <1>4

-----------------------------------------------------------------------------
(* Sequences.                                                              *)

LEMMA PrefixByItem ==
    ASSUME NEW S, NEW s \in Seq(S), NEW t \in Seq(S)
    PROVE  IsPrefix(s, t) <=> Len(s) <= Len(t) /\ \A i \in 1 .. Len(s) : s[i] = t[i]
  <1>1. Len(s) \in Nat /\ Len(t) \in Nat
    BY LenProperties
  <1>2. Len(s) <= Len(t) =>
          /\ SubSeq(s, 1, Len(s)) = [i \in 1 .. Len(s) |-> s[i]]
          /\ SubSeq(t, 1, Len(s)) = [i \in 1 .. Len(s) |-> t[i]]
    BY <1>1
  <1>3. ASSUME IsPrefix(s, t)
        PROVE  Len(s) <= Len(t) /\ \A i \in 1 .. Len(s) : s[i] = t[i]
    <2>1. Len(s) <= Len(t) /\ SubSeq(s, 1, Len(s)) = SubSeq(t, 1, Len(s))
      BY <1>3 DEF IsPrefix
    <2>2. [i \in 1 .. Len(s) |-> s[i]] = [i \in 1 .. Len(s) |-> t[i]]
      BY <1>2, <2>1
    <2>3. ASSUME NEW i \in 1 .. Len(s) PROVE s[i] = t[i]
      <3>1. [j \in 1 .. Len(s) |-> s[j]][i] = [j \in 1 .. Len(s) |-> t[j]][i]
        BY <2>2
      <3> QED BY <3>1
    <2> QED BY <2>1, <2>3
  <1>4. ASSUME Len(s) <= Len(t), \A i \in 1 .. Len(s) : s[i] = t[i]
        PROVE  IsPrefix(s, t)
    <2>1. SubSeq(s, 1, Len(s)) = SubSeq(t, 1, Len(s))
      BY <1>2, <1>4
    <2> QED BY <1>4, <2>1 DEF IsPrefix
  <1> QED BY <1>3, <1>4

LEMMA EmptyIffNone ==
    ASSUME NEW S, NEW s \in Seq(S)
    PROVE  Len(s) \in Nat /\ (s = <<>> <=> Len(s) = 0)
  <1>1. Len(s) \in Nat
    BY LenProperties
  <1>2. s # <<>> => Len(s) \in Nat \ {0}
    BY EmptySeq, Zenon
  <1>3. s = <<>> => Len(s) = 0
    OBVIOUS
  <1>4. Len(s) = 0 => s = <<>>
    <2>1. 0 \notin Nat \ {0}
      OBVIOUS
    <2> QED BY <1>2, <2>1, Zenon
  <1> QED BY <1>1, <1>3, <1>4, Zenon

\* A function on 1 .. n is a sequence of n.
LEMMA SeqOfLength ==
    ASSUME NEW S, NEW n \in Nat, NEW f \in [1 .. n -> S]
    PROVE  f \in Seq(S) /\ Len(f) = n
  <1>1. f \in Seq(S)
    BY IsASeq
  <1>2. Len(f) \in Nat /\ DOMAIN f = 1 .. Len(f)
    BY <1>1, LenProperties
  <1>3. DOMAIN f = 1 .. n
    OBVIOUS
  <1>4. 1 .. Len(f) = 1 .. n
    BY <1>2, <1>3
  <1>5. Len(f) = n
    <2> DEFINE l == Len(f)
    <2>1. l \in Nat /\ \A i \in Int : i \in 1 .. l <=> i \in 1 .. n
      BY <1>2, <1>4
    <2> HIDE DEF l
    <2>2. l = n
      <3>1. CASE l < n
        <4>1. n \in 1 .. n /\ n \notin 1 .. l
          BY <2>1, <3>1
        <4> QED BY <2>1, <4>1
      <3>2. CASE n < l
        <4>1. l \in 1 .. l /\ l \notin 1 .. n
          BY <2>1, <3>2
        <4> QED BY <2>1, <4>1
      <3> QED BY <2>1, <3>1, <3>2
    <2> QED BY <2>2 DEF l
  <1> QED BY <1>1, <1>5

-----------------------------------------------------------------------------
USE WritersAssumption

\* A job is so many whole chunks, and at least one.
LEMMA JobIsChunks == JobChunks \in Nat \ {0} /\ Chunk * JobChunks = JobSize
  <1>1. /\ JobChunks \in Nat /\ JobSize % Chunk = 0
        /\ JobSize = Chunk * JobChunks + (JobSize % Chunk)
    BY Divides DEF JobChunks
  <1> HIDE DEF JobChunks
  <1>2. Chunk * JobChunks \in Nat
    BY <1>1, TimesNat
  <1>3. Chunk * JobChunks = JobSize
    BY <1>1, <1>2
  <1>4. JobChunks # 0
    <2>1. SUFFICES ASSUME JobChunks = 0 PROVE FALSE
      OBVIOUS
    <2>2. Chunk * JobChunks = 0
      BY <2>1
    <2> QED BY <1>3, <2>2
  <1> QED BY <1>1, <1>3, <1>4

-----------------------------------------------------------------------------
(* The calls one Write makes.                                              *)

\* The kinds whose batches are all alike.
Batching == kind \in Kinds \ {"head", "all"}

\* The batches before the last one, and what the last one holds.
Full(n) == IF n = 0 THEN 0 ELSE IF Eager THEN n \div InCap ELSE (n + InCap - 1) \div InCap - 1
LastBatch(n) == n - InCap * Full(n)

EndingCalls(n) ==
    IF WithData THEN <<<<"end", LastBatch(n)>>>>
    ELSE IF LastBatch(n) = 0 THEN <<<<"end", 0>>>> ELSE <<<<"continue", LastBatch(n)>>, <<"end", 0>>>>

\* A full batch is the last one only of a writer that waits for more input.
LEMMA LastFits ==
    ASSUME NEW n \in Nat
    PROVE  /\ Full(n) \in Nat /\ LastBatch(n) \in Nat /\ n = InCap * Full(n) + LastBatch(n)
           /\ Eager => LastBatch(n) < InCap
           /\ ~Eager => LastBatch(n) <= InCap /\ (n > 0 => LastBatch(n) > 0)
           /\ n = 0 => Full(n) = 0 /\ LastBatch(n) = 0
  <1>1. CASE n = 0
    <2>1. Full(n) = 0
      BY <1>1 DEF Full
    <2>2. InCap * Full(n) = 0
      BY <2>1
    <2>3. LastBatch(n) = 0
      BY <1>1, <2>1, <2>2 DEF LastBatch
    <2> QED BY <1>1, <2>1, <2>2, <2>3
  <1>2. CASE n > 0 /\ Eager
    <2> DEFINE q == n \div InCap
               r == n % InCap
    <2>1. q \in Nat /\ r \in 0 .. InCap - 1 /\ n = InCap * q + r
      BY Divides
    <2>2. Full(n) = q
      BY <1>2 DEF Full
    <2> HIDE DEF q, r
    <2>3. InCap * q \in Nat
      BY <2>1
    <2>4. LastBatch(n) = r
      BY <2>1, <2>2, <2>3 DEF LastBatch
    <2> QED BY <1>2, <2>1, <2>2, <2>4
  <1>3. CASE n > 0 /\ ~Eager
    <2> DEFINE q == (n + InCap - 1) \div InCap - 1
    <2>1. q \in Nat /\ InCap * q < n /\ n <= InCap * q + InCap
      <3> DEFINE c == (n + InCap - 1) \div InCap
      <3>1. c \in Nat /\ c > 0 /\ InCap * (c - 1) < n /\ n <= InCap * (c - 1) + InCap
        BY <1>3, RoundUp
      <3> HIDE DEF c
      <3>2. q = c - 1
        BY DEF c
      <3> HIDE DEF q
      <3> QED BY <3>1, <3>2
    <2>2. Full(n) = q
      BY <1>3 DEF Full
    <2> HIDE DEF q
    <2>3. InCap * q \in Nat
      BY <2>1
    <2>4. LastBatch(n) = n - InCap * q
      BY <2>2 DEF LastBatch
    <2> QED BY <1>3, <2>1, <2>2, <2>3, <2>4
  <1> QED BY <1>1, <1>2, <1>3

\* Nothing else is a way to put n units into batches.
LEMMA OneWayToBatch ==
    ASSUME NEW n \in Nat, NEW q \in Nat, NEW r \in Nat, n = InCap * q + r,
           Eager => r < InCap, ~Eager => r <= InCap /\ (n > 0 => r > 0)
    PROVE  Full(n) = q /\ LastBatch(n) = r
  <1>1. InCap * q \in Nat
    OBVIOUS
  <1>2. Full(n) = q
    <2>1. CASE n = 0
      <3>1. q = 0
        <4>1. SUFFICES ASSUME q > 0 PROVE FALSE
          OBVIOUS
        <4>2. InCap * 0 + InCap <= InCap * q
          BY <4>1, BatchEnds
        <4> QED BY <1>1, <2>1, <4>2
      <3> QED BY <2>1, <3>1 DEF Full
    <2>2. CASE n > 0 /\ Eager
      <3>1. r \in 0 .. InCap - 1
        BY <2>2
      <3>2. n \div InCap = q
        BY <3>1, QuotientIs
      <3> QED BY <2>2, <3>2 DEF Full
    <2>3. CASE n > 0 /\ ~Eager
      <3>1. InCap * q < n /\ n <= InCap * q + InCap
        BY <1>1, <2>3
      <3>2. (n + InCap - 1) \div InCap = q + 1
        BY <3>1, RoundUpIs
      <3> QED BY <2>3, <3>2 DEF Full
    <2> QED BY <2>1, <2>2, <2>3
  <1>3. LastBatch(n) = r
    BY <1>1, <1>2 DEF LastBatch
  <1> QED BY <1>2, <1>3

LEMMA EndingType ==
    ASSUME NEW n \in Nat
    PROVE  /\ EndingCalls(n) \in Seq(Call) /\ Len(EndingCalls(n)) \in {1, 2}
           /\ Len(EndingCalls(n)) = 2 <=> ~WithData /\ LastBatch(n) # 0
  <1>1. LastBatch(n) \in Nat
    BY LastFits
  <1>2. /\ <<"end", LastBatch(n)>> \in Call /\ <<"end", 0>> \in Call
        /\ <<"continue", LastBatch(n)>> \in Call
    BY <1>1 DEF Call
  <1> QED BY <1>2 DEF EndingCalls

LEMMA BatchedCalls ==
    ASSUME Batching, NEW n \in Nat
    PROVE  /\ Calls(n) \in Seq(Call) /\ Len(Calls(n)) = Full(n) + Len(EndingCalls(n))
           /\ \A i \in 1 .. Full(n) : Calls(n)[i] = <<"continue", InCap>>
           /\ \A i \in 1 .. Len(EndingCalls(n)) : Calls(n)[Full(n) + i] = EndingCalls(n)[i]
  <1> DEFINE q == Full(n)
             body == [i \in 1 .. q |-> <<"continue", InCap>>]
             e == EndingCalls(n)
  <1>1. q \in Nat /\ e \in Seq(Call)
    BY LastFits, EndingType
  <1>2. Calls(n) = body \o e
    <2>1. n - Full(n) * InCap = LastBatch(n)
      <3>1. Full(n) * InCap = InCap * Full(n)
        BY LastFits
      <3> QED BY <3>1 DEF LastBatch
    <2>2. kind # "all" /\ kind # "head"
      BY DEF Batching
    <2> DEFINE f == IF Eager THEN n \div InCap ELSE (n + InCap - 1) \div InCap - 1
               g == IF n = 0 THEN 0 ELSE f
    <2>3. g = Full(n)
      BY DEF Full
    <2>4. Calls(n) = [i \in 1 .. g |-> <<"continue", InCap>>] \o
            (IF WithData THEN <<<<"end", n - g * InCap>>>>
             ELSE IF n - g * InCap = 0 THEN <<<<"end", 0>>>>
                  ELSE <<<<"continue", n - g * InCap>>, <<"end", 0>>>>)
      BY <2>2, Zenon DEF Calls
    <2> QED BY <2>1, <2>3, <2>4, Zenon DEF EndingCalls
  <1>3. body \in [1 .. q -> Call]
    BY DEF Call
  <1>4. body \in Seq(Call) /\ Len(body) = q
    BY <1>1, <1>3, SeqOfLength
  <1>5. \A i \in 1 .. q : body[i] = <<"continue", InCap>>
    OBVIOUS
  <1> HIDE DEF body, q, e
  <1>6. Len(e) \in Nat
    BY <1>1, LenProperties
  <1>7. /\ body \o e \in Seq(Call) /\ Len(body \o e) = q + Len(e)
        /\ \A i \in 1 .. q + Len(e) :
             (body \o e)[i] = IF i <= q THEN body[i] ELSE e[i - q]
    <2>1. /\ body \o e \in Seq(Call) /\ Len(body \o e) = Len(body) + Len(e)
          /\ \A i \in 1 .. Len(body) + Len(e) :
               (body \o e)[i] = IF i <= Len(body) THEN body[i] ELSE e[i - Len(body)]
      BY <1>1, <1>4, ConcatProperties
    <2> QED BY <1>4, <2>1, Zenon
  <1>8. \A i \in 1 .. q : (body \o e)[i] = <<"continue", InCap>>
    BY <1>1, <1>5, <1>6, <1>7
  <1>9. \A i \in 1 .. Len(e) : (body \o e)[q + i] = e[i]
    <2> TAKE i \in 1 .. Len(e)
    <2>1. q + i \in 1 .. q + Len(e) /\ ~(q + i <= q) /\ (q + i) - q = i
      BY <1>1, <1>6
    <2> QED BY <1>7, <2>1
  <1> QED BY <1>2, <1>7, <1>8, <1>9 DEF q, e

\* kpzstd's writers make one or two calls.
LEMMA OtherCalls ==
    ASSUME kind \in {"head", "all"}, NEW n \in Nat
    PROVE  /\ Calls(n) \in Seq(Call)
           /\ kind = "all" \/ n < HeadSize => Calls(n) = <<<<"end", n>>>>
           /\ kind = "head" /\ n >= HeadSize =>
                Calls(n) = <<<<"flush", HeadSize>>, <<"end", n - HeadSize>>>>
  <1>1. kind = "all" \/ n < HeadSize => Calls(n) = <<<<"end", n>>>>
    BY DEF Calls
  <1>2. kind = "head" /\ n >= HeadSize =>
          Calls(n) = <<<<"flush", HeadSize>>, <<"end", n - HeadSize>>>>
    BY DEF Calls
  <1>3. <<"end", n>> \in Call /\ <<"flush", HeadSize>> \in Call
    BY DEF Call
  <1>4. n >= HeadSize => <<"end", n - HeadSize>> \in Call
    BY DEF Call
  <1>5. Calls(n) \in Seq(Call)
    <2>1. CASE kind = "all" \/ n < HeadSize
      <3> DEFINE a == <<"end", n>>
      <3>1. a \in Call /\ Calls(n) = <<a>>
        BY <2>1, <1>1, <1>3
      <3> HIDE DEF a
      <3> QED BY <3>1
    <2>2. CASE kind = "head" /\ n >= HeadSize
      <3> DEFINE a == <<"flush", HeadSize>>
                 b == <<"end", n - HeadSize>>
      <3>1. a \in Call /\ b \in Call
        BY <2>2, <1>3, <1>4
      <3> HIDE DEF a, b
      <3>2. <<a, b>> \in Seq(Call)
        BY <3>1
      <3> QED BY <2>2, <1>2, <3>2 DEF a, b
    <2> QED BY <2>1, <2>2
  <1> QED BY <1>1, <1>2, <1>5

LEMMA CallsType ==
    ASSUME kind \in Kinds, NEW n \in Nat
    PROVE  Calls(n) \in Seq(Call)
  BY BatchedCalls, OtherCalls DEF Batching

\* Full batches begin the calls of any input that goes on as they need it to.
LEMMA BodyIsPrefix ==
    ASSUME kind \in Kinds, NEW c \in Seq(Call), NEW n \in Nat,
           \A i \in 1 .. Len(c) : c[i] = BatchCall,
           kind = "all" => c = <<>>, kind = "head" => Len(c) <= 1,
           BatchSize * Len(c) <= n,
           c # <<>> /\ ~Eager => BatchSize * Len(c) < n
    PROVE  IsPrefix(c, Calls(n))
  <1> DEFINE k == Len(c)
  <1>1. k \in Nat /\ (c = <<>> <=> k = 0)
    BY EmptyIffNone
  <1>2. Calls(n) \in Seq(Call) /\ Len(Calls(n)) \in Nat
    BY CallsType, LenProperties
  <1> HIDE DEF k
  <1>3. CASE k = 0
    <2>1. k <= Len(Calls(n))
      BY <1>2, <1>3
    <2>2. \A i \in 1 .. k : c[i] = Calls(n)[i]
      BY <1>3
    <2> QED BY <1>2, <2>1, <2>2, PrefixByItem DEF k
  <1>4. CASE k > 0 /\ Batching
    <2>1. BatchSize = InCap /\ BatchCall = <<"continue", InCap>>
      BY <1>4 DEF BatchSize, BatchCall, Batching
    <2>2. InCap * k <= n /\ (~Eager => InCap * k < n)
      BY <1>1, <1>4, <2>1 DEF k
    <2>3. n > 0
      <3>1. InCap * 0 + InCap <= InCap * k
        BY <1>1, <1>4, BatchEnds
      <3>2. InCap * k \in Nat
        BY <1>1
      <3> QED BY <2>2, <3>1, <3>2
    <2>4. k <= Full(n)
      <3> DEFINE q == Full(n)
      <3>1. /\ q \in Nat /\ LastBatch(n) \in Nat /\ n = InCap * q + LastBatch(n)
            /\ Eager => LastBatch(n) < InCap
            /\ ~Eager => LastBatch(n) <= InCap
        BY LastFits
      <3> HIDE DEF q
      <3>2. SUFFICES ASSUME q < k PROVE FALSE
        BY <1>1, <3>1 DEF q
      <3>3. InCap * q + InCap <= InCap * k /\ InCap * q \in Nat /\ InCap * k \in Nat
        BY <1>1, <3>1, <3>2, BatchEnds
      <3> QED BY <2>2, <3>1, <3>3
    <2>5. /\ Len(Calls(n)) = Full(n) + Len(EndingCalls(n)) /\ Len(EndingCalls(n)) \in {1, 2}
          /\ \A i \in 1 .. Full(n) : Calls(n)[i] = <<"continue", InCap>>
          /\ Full(n) \in Nat
      BY <1>4, BatchedCalls, EndingType, LastFits
    <2>6. k <= Len(Calls(n))
      BY <1>1, <2>4, <2>5
    <2>7. \A i \in 1 .. k : c[i] = Calls(n)[i]
      <3>1. \A i \in 1 .. k : c[i] = <<"continue", InCap>>
        BY <2>1 DEF k
      <3>2. \A i \in 1 .. k : i \in 1 .. Full(n)
        BY <1>1, <2>4, <2>5
      <3> QED BY <2>5, <3>1, <3>2
    <2> QED BY <1>2, <2>6, <2>7, PrefixByItem DEF k
  <1>5. CASE k > 0 /\ ~Batching
    <2>1. kind = "head"
      BY <1>1, <1>5 DEF Batching, k
    <2>2. k = 1
      <3>1. k <= 1
        BY <2>1 DEF k
      <3> QED BY <1>1, <1>5, <3>1
    <2>3. n >= HeadSize /\ c[1] = <<"flush", HeadSize>>
      <3>1. Len(c) = 1
        BY <2>2 DEF k
      <3>2. BatchSize * 1 <= n /\ BatchSize = HeadSize
        BY <2>1, <3>1 DEF BatchSize
      <3>3. c[1] = BatchCall
        BY <3>1
      <3> QED BY <2>1, <3>2, <3>3 DEF BatchCall
    <2>4. Len(Calls(n)) = 2 /\ Calls(n)[1] = <<"flush", HeadSize>>
      <3>1. Calls(n) = <<<<"flush", HeadSize>>, <<"end", n - HeadSize>>>>
        BY <2>1, <2>3, OtherCalls
      <3> DEFINE a == <<"flush", HeadSize>>
                 b == <<"end", n - HeadSize>>
      <3>2. Calls(n) = <<a, b>>
        BY <3>1
      <3> HIDE DEF a, b
      <3>3. Len(Calls(n)) = 2 /\ Calls(n)[1] = a
        BY <3>2
      <3> QED BY <3>3 DEF a
    <2>5. Len(c) = 1
      BY <2>2 DEF k
    <2> QED BY <1>2, <2>3, <2>4, <2>5, PrefixByItem
  <1> QED BY <1>1, <1>3, <1>4, <1>5

-----------------------------------------------------------------------------
(* The stream.                                                             *)

\* How many chunks n units make.
Chunks(n) == (n + Chunk - 1) \div Chunk

LEMMA ItemIs ==
    ASSUME NEW i \in Nat
    PROVE  <<i, FALSE>> \in Item /\ <<i, TRUE>> \in Item
  <1>1. FALSE \in BOOLEAN /\ TRUE \in BOOLEAN
    OBVIOUS
  <1>2. \A b \in BOOLEAN : <<i, b>> \in Item
    BY DEF Item
  <1> QED BY <1>1, <1>2, Zenon

\* The chunks of n units are numbered from one.
LEMMA ItemsInOrder ==
    ASSUME NEW n \in Nat
    PROVE  /\ Chunks(n) \in Nat
           /\ Items(n) \in Seq(Item) /\ Len(Items(n)) = Chunks(n) /\ Middle(Items(n))
  <1> DEFINE c == (n + Chunk - 1) \div Chunk
             s == [i \in 1 .. c |-> <<i, FALSE>>]
  <1>1. c \in Nat
    BY RoundUp
  <1>2. Items(n) = s /\ Chunks(n) = c
    BY DEF Items, Chunks
  <1> HIDE DEF c
  <1>3. s \in [1 .. c -> Item]
    <2>1. ASSUME NEW i \in 1 .. c PROVE <<i, FALSE>> \in Item
      <3>1. i \in Nat
        BY <1>1
      <3> QED BY <3>1, ItemIs, Zenon
    <2> QED BY <2>1, Zenon
  <1>4. s \in Seq(Item) /\ Len(s) = c
    BY <1>1, <1>3, SeqOfLength
  <1>5. \A i \in 1 .. c : s[i] = <<i, FALSE>>
    OBVIOUS
  <1> HIDE DEF s
  <1> QED BY <1>1, <1>2, <1>4, <1>5 DEF Middle

\* A whole frame is its chunks and the end.
LEMMA WholeInOrder ==
    ASSUME NEW n \in Nat
    PROVE  /\ WholeFrame(n) \in Seq(Item) /\ Len(WholeFrame(n)) = Chunks(n) + 1
           /\ \A i \in 1 .. Chunks(n) : WholeFrame(n)[i] = <<i, FALSE>>
           /\ WholeFrame(n)[Chunks(n) + 1] = <<0, TRUE>>
  <1> DEFINE s == Items(n)
             e == <<0, TRUE>>
  <1>1. Chunks(n) \in Nat /\ s \in Seq(Item) /\ Len(s) = Chunks(n) /\ Middle(s)
    BY ItemsInOrder
  <1>2. e \in Item /\ WholeFrame(n) = s \o <<e>>
    <2>1. e \in Item
      <3>1. 0 \in Nat
        OBVIOUS
      <3> QED BY <3>1, ItemIs, Zenon
    <2>2. WholeFrame(n) = s \o <<e>>
      BY DEF WholeFrame
    <2> QED BY <2>1, <2>2
  <1> HIDE DEF s, e
  <1>3. <<e>> \in Seq(Item) /\ Len(<<e>>) = 1 /\ <<e>>[1] = e
    BY <1>2
  <1>4. /\ s \o <<e>> \in Seq(Item) /\ Len(s \o <<e>>) = Len(s) + 1
        /\ \A i \in 1 .. Len(s) + 1 :
             (s \o <<e>>)[i] = IF i <= Len(s) THEN s[i] ELSE <<e>>[i - Len(s)]
    BY <1>1, <1>3, ConcatProperties
  <1>5. \A i \in 1 .. Chunks(n) : (s \o <<e>>)[i] = <<i, FALSE>>
    <2> TAKE i \in 1 .. Chunks(n)
    <2>1. i \in 1 .. Len(s) + 1 /\ i <= Len(s) /\ i \in 1 .. Len(s)
      BY <1>1
    <2>2. s[i] = <<i, FALSE>>
      BY <1>1, <2>1 DEF Middle
    <2> QED BY <1>4, <2>1, <2>2
  <1>6. (s \o <<e>>)[Chunks(n) + 1] = e
    <2>1. /\ Len(s) + 1 \in 1 .. Len(s) + 1 /\ ~(Len(s) + 1 <= Len(s))
          /\ Len(s) + 1 - Len(s) = 1
      BY <1>1
    <2> QED BY <1>1, <1>3, <1>4, <2>1
  <1> QED BY <1>1, <1>2, <1>4, <1>5, <1>6 DEF e

\* A frame that the jobWriter finishes by itself ends with its last chunk.
LEMMA FrameInOrder ==
    ASSUME NEW n \in Nat
    PROVE  IF kind = "emulated" /\ n <= JobSize
           THEN LET l == IF n = 0 THEN 1 ELSE Chunks(n) IN
                /\ Frame(n) \in Seq(Item) /\ Len(Frame(n)) = l /\ l >= 1
                /\ \A i \in 1 .. l - 1 : Frame(n)[i] = <<i, FALSE>>
                /\ Frame(n)[l] = <<l, TRUE>>
           ELSE Frame(n) = WholeFrame(n)
  <1>1. CASE kind = "emulated" /\ n <= JobSize
    <2> DEFINE s == IF n = 0 THEN <<<<1, FALSE>>>> ELSE Items(n)
               l == IF n = 0 THEN 1 ELSE Chunks(n)
    <2>1. l \in Nat /\ l >= 1
      BY RoundUp DEF Chunks
    <2>2. s \in Seq(Item) /\ Len(s) = l /\ \A i \in 1 .. l : s[i] = <<i, FALSE>>
      <3>1. CASE n = 0
        <4> DEFINE e == <<1, FALSE>>
        <4>1. e \in Item /\ s = <<e>> /\ l = 1
          BY <3>1, ItemIs
        <4> HIDE DEF e, s
        <4>2. s \in Seq(Item) /\ Len(s) = 1 /\ s[1] = e
          BY <4>1
        <4>3. \A i \in 1 .. 1 : s[i] = <<i, FALSE>>
          <5>1. \A i \in 1 .. 1 : i = 1
            OBVIOUS
          <5> QED BY <4>2, <5>1, Zenon DEF e
        <4> QED BY <4>1, <4>2, <4>3
      <3>2. CASE n # 0
        BY <3>2, ItemsInOrder DEF Middle
      <3> QED BY <3>1, <3>2
    <2>3. Frame(n) = [s EXCEPT ![Len(s)] = <<Len(s), TRUE>>]
      BY <1>1, Zenon DEF Frame
    <2> HIDE DEF s, l
    <2> DEFINE e == <<l, TRUE>>
               f == [s EXCEPT ![l] = e]
    <2>4. s \in [1 .. l -> Item]
      BY <2>2, LenProperties
    <2>5. e \in Item
      BY <2>1, ItemIs
    <2>11. Frame(n) = f
      BY <2>2, <2>3
    <2> HIDE DEF e
    <2>6. f \in [1 .. l -> Item]
      BY <2>4, <2>5
    <2>7. f \in Seq(Item) /\ Len(f) = l
      BY <2>1, <2>6, SeqOfLength
    <2>8. f[l] = e
      BY <2>1, <2>4
    <2>9. \A i \in 1 .. l - 1 : f[i] = s[i] /\ i \in 1 .. l
      BY <2>1, <2>4
    <2> HIDE DEF f
    <2>10. \A i \in 1 .. l - 1 : f[i] = <<i, FALSE>>
      BY <2>2, <2>9, Zenon
    <2> QED BY <1>1, <2>1, <2>7, <2>8, <2>10, <2>11 DEF l, e
  <1>2. CASE ~(kind = "emulated" /\ n <= JobSize)
    BY <1>2, Zenon DEF Frame
  <1> QED BY <1>1, <1>2

LEMMA FrameType ==
    ASSUME NEW n \in Nat
    PROVE  Frame(n) \in Seq(Item)
  BY FrameInOrder, WholeInOrder

\* Whole chunks begin any stream that goes on, also one that ends within a job
\* if there is more to come.
LEMMA MiddleIsPrefix ==
    ASSUME NEW s \in Seq(Item), Middle(s), NEW n \in Nat, Chunk * Len(s) <= n,
           kind = "emulated" /\ n <= JobSize => s = <<>> \/ Chunk * Len(s) < n
    PROVE  IsPrefix(s, Frame(n))
  <1> DEFINE k == Len(s)
  <1>1. k \in Nat /\ (s = <<>> <=> k = 0)
    BY EmptyIffNone
  <1>2. Frame(n) \in Seq(Item)
    BY FrameType
  <1>3. \A i \in 1 .. k : s[i] = <<i, FALSE>>
    BY DEF Middle
  <1>4. k <= Chunks(n) /\ (Chunk * k < n => k < Chunks(n)) /\ Chunks(n) \in Nat
    BY <1>1, WithinRoundUp, ItemsInOrder DEF Chunks
  <1>5. kind = "emulated" /\ n <= JobSize => k = 0 \/ (Chunk * k < n /\ k < Chunks(n))
    BY <1>1, <1>4
  <1>6. k <= Len(Frame(n)) /\ \A i \in 1 .. k : s[i] = Frame(n)[i]
    <2> HIDE DEF k
    <2>1. CASE kind = "emulated" /\ n <= JobSize
      <3> DEFINE l == IF n = 0 THEN 1 ELSE Chunks(n)
      <3>1. /\ Len(Frame(n)) = l /\ l >= 1 /\ l \in Nat
            /\ \A i \in 1 .. l - 1 : Frame(n)[i] = <<i, FALSE>>
        BY <2>1, <1>4, FrameInOrder
      <3>2. k <= l - 1
        <4>1. CASE k = 0
          BY <3>1, <4>1
        <4>2. CASE k # 0
          <5>1. Chunk * k < n /\ k < Chunks(n)
            BY <2>1, <4>2, <1>5
          <5>2. n # 0
            <6>1. Chunk * k \in Nat
              BY <1>1, TimesNat
            <6> QED BY <5>1, <6>1
          <5> QED BY <1>1, <1>4, <5>1, <5>2
        <4> QED BY <4>1, <4>2
      <3> HIDE DEF l
      <3>3. k <= Len(Frame(n))
        BY <1>1, <3>1, <3>2
      <3>4. \A i \in 1 .. k : i \in 1 .. l - 1
        BY <1>1, <3>1, <3>2
      <3> QED BY <1>3, <3>1, <3>3, <3>4
    <2>2. CASE ~(kind = "emulated" /\ n <= JobSize)
      <3>1. /\ Frame(n) = WholeFrame(n) /\ Len(WholeFrame(n)) = Chunks(n) + 1
            /\ \A i \in 1 .. Chunks(n) : WholeFrame(n)[i] = <<i, FALSE>>
        BY <2>2, FrameInOrder, WholeInOrder
      <3>2. k <= Len(Frame(n)) /\ \A i \in 1 .. k : i \in 1 .. Chunks(n)
        BY <1>1, <1>4, <3>1
      <3> QED BY <1>3, <3>1, <3>2
    <2> QED BY <2>1, <2>2
  <1> QED BY <1>2, <1>6, PrefixByItem DEF k

-----------------------------------------------------------------------------
(* What the compressor gives out, and what becomes of it.                  *)

LEMMA LibIs ==
    ASSUME lib \in Lib
    PROVE  /\ lib.how \in {"same", "differs", "short"} /\ lib.at \in Nat
           /\ lib.how = "differs" => lib.at >= 1 /\ lib.at <= JobChunks
           /\ lib.how = "short" => lib.at >= 1 /\ lib.at < JobChunks
  <1>1. JobChunks \in Nat \ {0}
    BY JobIsChunks
  <1>2. /\ lib.how \in {"same", "differs", "short"} /\ lib.at \in Nat
        /\ lib.how = "differs" => lib.at \in 1 .. JobChunks
        /\ lib.how = "short" => lib.at \in 1 .. JobChunks - 1
    <2> HIDE DEF JobChunks
    <2>1. Lib = [how : {"same"}, at : {0}] \cup [how : {"differs"}, at : 1 .. JobChunks]
                \cup [how : {"short"}, at : 1 .. JobChunks - 1]
      BY DEF Lib, JobChunks
    <2> QED BY <1>1, <2>1
  <1> QED BY <1>1, <1>2

LEMMA LeastIs ==
    ASSUME NEW a \in Nat, NEW b \in Nat
    PROVE  /\ Least(a, b) \in Nat /\ Least(a, b) <= a /\ Least(a, b) <= b
           /\ Least(a, b) = a \/ Least(a, b) = b
  BY DEF Least

\* libzstd's output differs in one item, or stops early.
LEMMA OutputIs ==
    ASSUME lib \in Lib, NEW s \in Seq(Item)
    PROVE  /\ Output(s) \in Seq(Item)
           /\ lib.how # "short" => Len(Output(s)) = Len(s)
           /\ lib.how = "short" => Len(Output(s)) = Least(lib.at, Len(s))
           /\ \A i \in 1 .. Len(Output(s)) :
                Output(s)[i] = IF lib.how = "differs" /\ i = lib.at THEN <<0, FALSE>> ELSE s[i]
  <1>1. Len(s) \in Nat /\ s \in [1 .. Len(s) -> Item]
    BY LenProperties
  <1>2. lib.how \in {"same", "differs", "short"} /\ lib.at \in Nat
    BY LibIs
  <1> DEFINE e == <<0, FALSE>>
  <1>3. e \in Item
    <2>1. 0 \in Nat
      OBVIOUS
    <2> QED BY <2>1, ItemIs, Zenon
  <1>4. CASE lib.how = "same"
    <2>1. Output(s) = s
      BY <1>4 DEF Output
    <2>2. ~(lib.how = "differs") /\ lib.how # "short"
      BY <1>4
    <2> QED BY <2>1, <2>2, Zenon
  <1>5. CASE lib.how = "differs"
    <2> DEFINE f == [i \in DOMAIN s |-> IF i = lib.at THEN e ELSE s[i]]
    <2>1. Output(s) = f
      <3>1. lib.how # "same"
        BY <1>5
      <3> QED BY <1>5, <3>1, Zenon DEF Output
    <2> HIDE DEF e
    <2>2. f \in [1 .. Len(s) -> Item]
      BY <1>1, <1>3
    <2>3. f \in Seq(Item) /\ Len(f) = Len(s)
      BY <1>1, <2>2, SeqOfLength
    <2>4. \A i \in 1 .. Len(s) : f[i] = IF i = lib.at THEN e ELSE s[i]
      BY <1>1
    <2>5. lib.how # "short"
      BY <1>5
    <2> HIDE DEF f
    <2> QED BY <1>5, <2>1, <2>3, <2>4, <2>5, Zenon DEF e
  <1>6. CASE lib.how = "short"
    <2> DEFINE m == Least(lib.at, Len(s))
    <2>1. m \in Nat /\ m <= Len(s)
      BY <1>1, <1>2, LeastIs
    <2>2. Output(s) = SubSeq(s, 1, m)
      BY <1>6 DEF Output
    <2> HIDE DEF m
    <2>3. \A i \in 1 .. m : s[i] \in Item
      BY <1>1, <2>1
    <2>4. /\ SubSeq(s, 1, m) \in Seq(Item)
          /\ Len(SubSeq(s, 1, m)) = m
          /\ \A i \in 1 .. m : SubSeq(s, 1, m)[i] = s[i]
      BY <1>1, <2>1, <2>3, SubSeqProperties
    <2>5. ~(lib.how = "differs")
      BY <1>6
    <2> QED BY <1>6, <2>2, <2>4, <2>5, Zenon DEF m
  <1> QED BY <1>2, <1>4, <1>5, <1>6

\* s is made of input that begins with the first job, if there was one.
Replays(s) == \A i \in 1 .. Len(emitted) : i <= Len(s) => s[i] = <<i, FALSE>>

\* Of m - made items the first are compared and the others passed on.
Compares(E, M, m, p, k, d) ==
    M <= m /\ p = Least(M, E) /\ k = Least(E - p, m - M) /\ d = IF M < E THEN E ELSE M

LEMMA Compared ==
    ASSUME NEW E \in Nat, NEW M \in Nat, NEW m \in Nat, NEW p, NEW k, NEW d,
           Compares(E, M, m, p, k, d)
    PROVE  /\ p \in Nat /\ k \in Nat /\ d \in Nat /\ E - p \in Nat
           /\ k <= m - M /\ k <= E - p /\ (k = E - p \/ k = m - M)
           /\ p + k = Least(m, E)
           /\ k > 0 => p = M /\ M + k <= E
           /\ k < m - M => m > E /\ d = M + k
           /\ k > 0 /\ k = m - M => M < E /\ m <= E
           /\ M < E => p = M
  BY DEF Least, Compares

LEMMA AmongCompared ==
    ASSUME NEW E \in Nat, NEW M \in Nat, NEW m \in Nat, NEW k \in Nat, NEW a \in Nat,
           M < a, a <= m, a <= E, k = E - M \/ k = m - M
    PROVE  a - M \in 1 .. k /\ a - M \in 1 .. m - M /\ M + (a - M) = a
  OBVIOUS

\* Items made + 1 to m of s come out: what is given,
CanEmit(s, m) ==
    /\ lib \in Lib /\ emitted \in Seq(Item) /\ dest \in Seq(Item) /\ made \in Nat
    /\ err = "nil" /\ pos = Least(made, Len(emitted))
    /\ Len(dest) = IF made < Len(emitted) THEN Len(emitted) ELSE made
    /\ Middle(emitted)
    /\ lib.how = "differs" => made < lib.at /\ lib.at <= Len(emitted)
    /\ lib.how = "short" => made <= lib.at
    /\ s \in Seq(Item) /\ Replays(s) /\ m \in Nat /\ made <= m /\ m <= Len(Output(s))
    /\ Emit(SubSeq(Output(s), made + 1, m))

\* and what they leave.
Emitted(s, m) ==
    /\ err' \in Errors /\ pos' \in Nat /\ dest' \in Seq(Item)
    /\ err' = "replay" => lib.how # "same"
    /\ err' # "nil" => dest' = dest
    /\ err' = "nil" =>
         /\ pos' = Least(m, Len(emitted))
         /\ Len(dest') = IF m < Len(emitted) THEN Len(emitted) ELSE m
         /\ \A i \in 1 .. Len(dest') :
              dest'[i] = IF i <= Len(dest) THEN dest[i] ELSE s[i]
         /\ lib.how = "differs" => m < lib.at
         /\ lib.how = "short" => m <= lib.at

\* What comes out up to item m is passed on, but for what was written of the
\* first job, or an error stops it.
LEMMA EmitIs ==
    ASSUME NEW s, NEW m, CanEmit(s, m) PROVE Emitted(s, m)
  <1>a. /\ lib \in Lib /\ emitted \in Seq(Item) /\ dest \in Seq(Item) /\ made \in Nat
        /\ s \in Seq(Item) /\ m \in Nat /\ made <= m /\ m <= Len(Output(s))
    BY DEF CanEmit
  <1>b. /\ err = "nil" /\ pos = Least(made, Len(emitted))
        /\ Len(dest) = IF made < Len(emitted) THEN Len(emitted) ELSE made
    BY DEF CanEmit
  <1>c. Middle(emitted) /\ Replays(s)
    BY DEF CanEmit
  <1>d. /\ lib.how = "differs" => made < lib.at /\ lib.at <= Len(emitted)
        /\ lib.how = "short" => made <= lib.at
    BY DEF CanEmit
  <1>e. made \in Nat /\ m \in Nat /\ made <= m
    BY <1>a
  <1> DEFINE o == Output(s)
             x == SubSeq(o, made + 1, m)
             E == Len(emitted)
             d == Len(dest)
             k == Least(E - pos, Len(x))
  <1>1. /\ o \in Seq(Item) /\ Len(o) \in Nat /\ Len(s) \in Nat /\ E \in Nat
        /\ o \in [1 .. Len(o) -> Item]
    BY <1>a, OutputIs, LenProperties
  <1>2. /\ lib.how # "short" => Len(o) = Len(s)
        /\ lib.how = "short" => Len(o) = Least(lib.at, Len(s))
        /\ \A i \in 1 .. Len(o) :
             o[i] = IF lib.how = "differs" /\ i = lib.at THEN <<0, FALSE>> ELSE s[i]
    BY <1>a, OutputIs
  <1>3. lib.how \in {"same", "differs", "short"} /\ lib.at \in Nat
    BY <1>a, LibIs
  <1>4. Len(o) <= Len(s) /\ (lib.how = "short" => Len(o) <= lib.at)
    <2>1. Least(lib.at, Len(s)) <= lib.at /\ Least(lib.at, Len(s)) <= Len(s)
      BY <1>1, <1>3, LeastIs
    <2> QED BY <1>1, <1>2, <2>1
  <1> HIDE DEF o
  <1>5. \A i \in made + 1 .. m : o[i] \in Item /\ i \in 1 .. Len(o)
    BY <1>a, <1>1 DEF o
  <1>6. /\ x \in Seq(Item) /\ Len(x) = m - made
        /\ \A i \in 1 .. m - made : x[i] = o[made + i]
    <2>1. /\ x \in Seq(Item) /\ Len(x) = IF made + 1 <= m THEN m - (made + 1) + 1 ELSE 0
          /\ \A i \in 1 .. m - (made + 1) + 1 : x[i] = o[made + 1 + i - 1]
      <3>1. made + 1 \in Int /\ m \in Int
        BY <1>e
      <3> QED BY <1>5, <3>1, SubSeqProperties
    <2>2. \A i \in 1 .. m - made : i \in 1 .. m - (made + 1) + 1 /\ made + 1 + i - 1 = made + i
      BY <1>e
    <2>3. Len(x) = m - made
      BY <1>e, <2>1
    <2> HIDE DEF x
    <2> QED BY <2>1, <2>2, <2>3
  <1>13. pos = Least(made, E) /\ d = IF made < E THEN E ELSE made
    BY <1>b
  <1>14. k = Least(E - pos, m - made)
    BY <1>6
  <1> HIDE DEF x, E, d, k
  <1>15. /\ k \in Nat /\ d \in Nat /\ pos \in Nat
         /\ k <= m - made /\ k <= E - pos /\ (k = E - pos \/ k = m - made)
         /\ pos + k = Least(m, E)
         /\ k > 0 => pos = made /\ made + k <= E
         /\ k < m - made => m > E /\ d = made + k
         /\ k > 0 /\ k = m - made => made < E /\ m <= E
         /\ made < E => pos = made
    <2>1. E \in Nat
      BY <1>1
    <2>2. Compares(E, made, m, pos, k, d)
      BY <1>e, <1>13, <1>14 DEF Compares
    <2> QED BY <1>e, <2>1, <2>2, Compared
  <1>7. pos \in Nat /\ pos <= E /\ pos <= made /\ (made < E => pos = made) /\ (made >= E => pos = E)
    BY <1>e, <1>1, <1>13 DEF Least
  <1>8. k \in Nat /\ k <= E - pos /\ k <= m - made /\ (k = E - pos \/ k = m - made)
    BY <1>15
  <1>9. Emit(x)
    BY DEF CanEmit, o, x
  <1>10. CASE x = <<>>
    <2>1. m = made
      <3>1. Len(x) = 0
        BY <1>10, <1>6, EmptyIffNone
      <3> QED BY <1>e, <3>1, <1>6
    <2>2. pos' = pos /\ dest' = dest /\ err' = err
      BY <1>9, <1>10 DEF Emit
    <2>3. Len(dest') = IF m < E THEN E ELSE m
      BY <2>1, <2>2, <1>13 DEF d
    <2>4. \A i \in 1 .. Len(dest') : i <= Len(dest)
      BY <2>2, LenProperties
    <2>5. "nil" \in Errors
      BY DEF Errors
    <2> QED BY <1>a, <1>b, <1>d, <1>7, <1>13, <2>1, <2>2, <2>3, <2>4, <2>5 DEF E, Emitted
  <1>11. CASE x # <<>> /\ SubSeq(x, 1, k) # SubSeq(emitted, pos + 1, pos + k)
    <2>1. err' = "replay" /\ pos' = pos /\ dest' = dest
      BY <1>9, <1>11 DEF Emit, k, E
    <2>2. lib.how # "same"
      <3>1. SUFFICES ASSUME lib.how = "same" PROVE SubSeq(x, 1, k) = SubSeq(emitted, pos + 1, pos + k)
        BY <1>11
      <3>2. \A i \in 1 .. k : x[i] \in Item
        <4> TAKE i \in 1 .. k
        <4>1. i \in 1 .. m - made /\ made + i \in made + 1 .. m
          BY <1>e, <1>8
        <4> QED BY <4>1, <1>5, <1>6
      <3>3. /\ SubSeq(x, 1, k) \in Seq(Item) /\ Len(SubSeq(x, 1, k)) = k
            /\ \A i \in 1 .. k : SubSeq(x, 1, k)[i] = x[i]
        <4>1. /\ SubSeq(x, 1, k) \in Seq(Item)
              /\ Len(SubSeq(x, 1, k)) = IF 1 <= k THEN k - 1 + 1 ELSE 0
              /\ \A i \in 1 .. k - 1 + 1 : SubSeq(x, 1, k)[i] = x[1 + i - 1]
          BY <3>2, <1>8, SubSeqProperties
        <4> DEFINE y == SubSeq(x, 1, k)
        <4> HIDE DEF y
        <4>2. \A i \in 1 .. k : i \in 1 .. k - 1 + 1 /\ 1 + i - 1 = i
          BY <1>8
        <4>3. y \in Seq(Item) /\ Len(y) = k
          BY <4>1, <1>8 DEF y
        <4>4. \A i \in 1 .. k : y[i] = x[i]
          BY <4>1, <4>2 DEF y
        <4> QED BY <4>3, <4>4 DEF y
      <3>4. \A i \in pos + 1 .. pos + k : i \in 1 .. E /\ emitted[i] \in Item
        BY <1>a, <1>1, <1>7, <1>8, LenProperties DEF E
      <3>5. /\ SubSeq(emitted, pos + 1, pos + k) \in Seq(Item)
            /\ Len(SubSeq(emitted, pos + 1, pos + k)) = k
            /\ \A i \in 1 .. k : SubSeq(emitted, pos + 1, pos + k)[i] = emitted[pos + i]
        <4> DEFINE y == SubSeq(emitted, pos + 1, pos + k)
        <4>1. /\ y \in Seq(Item)
              /\ Len(y) = IF pos + 1 <= pos + k THEN (pos + k) - (pos + 1) + 1 ELSE 0
              /\ \A i \in 1 .. (pos + k) - (pos + 1) + 1 : y[i] = emitted[pos + 1 + i - 1]
          <5>1. pos + 1 \in Int /\ pos + k \in Int
            BY <1>7, <1>8
          <5> QED BY <3>4, <5>1, SubSeqProperties
        <4> HIDE DEF y
        <4>2. \A i \in 1 .. k : i \in 1 .. (pos + k) - (pos + 1) + 1 /\ pos + 1 + i - 1 = pos + i
          BY <1>7, <1>8
        <4>3. Len(y) = k
          BY <4>1, <1>7, <1>8
        <4>4. \A i \in 1 .. k : y[i] = emitted[pos + i]
          BY <4>1, <4>2
        <4> QED BY <4>1, <4>3, <4>4 DEF y
      <3>6. \A i \in 1 .. k : x[i] = emitted[pos + i]
        <4> TAKE i \in 1 .. k
        <4>1. k > 0 /\ made < E /\ pos = made
          BY <1>e, <1>1, <1>7, <1>8
        <4>2. i \in 1 .. m - made /\ made + i \in 1 .. E /\ made + i <= Len(s) /\ made + i \in 1 .. Len(o)
          BY <1>a, <1>e, <1>1, <1>4, <1>7, <1>8, <4>1 DEF o
        <4>3. x[i] = o[made + i] /\ o[made + i] = s[made + i]
          BY <1>2, <1>6, <3>1, <4>2
        <4>4. s[made + i] = <<made + i, FALSE>> /\ emitted[made + i] = <<made + i, FALSE>>
          BY <1>c, <4>2, Zenon DEF Middle, E, Replays
        <4> QED BY <4>1, <4>3, <4>4
      <3> DEFINE y == SubSeq(x, 1, k)
                 z == SubSeq(emitted, pos + 1, pos + k)
      <3>7. y \in Seq(Item) /\ z \in Seq(Item) /\ Len(y) = Len(z)
        BY <3>3, <3>5
      <3>8. \A i \in 1 .. Len(y) : y[i] = z[i]
        BY <3>3, <3>5, <3>6
      <3> HIDE DEF y, z
      <3>9. y = z
        BY <3>7, <3>8, SeqEqual
      <3> QED BY <3>9 DEF y, z
    <2>3. "replay" \in Errors /\ "replay" # "nil"
      BY DEF Errors
    <2> QED BY <1>a, <1>7, <2>1, <2>2, <2>3 DEF Emitted
  <1>12. CASE x # <<>> /\ SubSeq(x, 1, k) = SubSeq(emitted, pos + 1, pos + k)
    <2>1. /\ pos' = pos + k
          /\ IF k = Len(x) THEN dest' = dest /\ err' = err
                           ELSE Deliver(SubSeq(x, k + 1, Len(x)))
      BY <1>9, <1>12 DEF Emit, k, E
    \* So far, the replay made what the first job did.
    <2>2. \A i \in 1 .. k : x[i] = emitted[pos + i]
      <3>1. \A i \in 1 .. k : x[i] \in Item
        <4> TAKE i \in 1 .. k
        <4>1. i \in 1 .. m - made /\ made + i \in made + 1 .. m
          BY <1>e, <1>8
        <4> QED BY <4>1, <1>5, <1>6
      <3>2. \A i \in pos + 1 .. pos + k : emitted[i] \in Item
        BY <1>a, <1>1, <1>7, <1>8, LenProperties DEF E
      <3> DEFINE y == SubSeq(x, 1, k)
                 z == SubSeq(emitted, pos + 1, pos + k)
      <3>3. \A i \in 1 .. k - 1 + 1 : y[i] = x[1 + i - 1]
        BY <3>1, <1>8, SubSeqProperties
      <3>4. \A i \in 1 .. (pos + k) - (pos + 1) + 1 : z[i] = emitted[pos + 1 + i - 1]
        <4>1. pos + 1 \in Int /\ pos + k \in Int
          BY <1>7, <1>8
        <4> QED BY <3>2, <4>1, SubSeqProperties
      <3>5. y = z
        BY <1>12
      <3> HIDE DEF y, z
      <3>6. \A i \in 1 .. k : /\ i \in 1 .. k - 1 + 1 /\ 1 + i - 1 = i
                              /\ i \in 1 .. (pos + k) - (pos + 1) + 1 /\ pos + 1 + i - 1 = pos + i
        BY <1>7, <1>8
      <3> QED BY <3>3, <3>4, <3>5, <3>6
    <2>3. /\ lib.how = "differs" => m < lib.at
          /\ lib.how = "short" => m <= lib.at
      <3>3. E = Len(emitted)
        BY DEF E
      <3>1. ASSUME lib.how = "short" PROVE m <= lib.at
        BY <1>a, <1>d, <1>1, <1>3, <1>4, <3>1 DEF o
      <3>2. ASSUME lib.how = "differs" PROVE m < lib.at
        <4>1. SUFFICES ASSUME m >= lib.at PROVE FALSE
          BY <1>e, <1>3
        <4>2. made < lib.at /\ lib.at <= E /\ pos = made
          BY <1>a, <1>d, <3>2, <3>3, <1>1, <1>3, <1>7
        <4> DEFINE i == lib.at - made
        <4>3. i \in 1 .. k /\ i \in 1 .. m - made /\ made + i = lib.at /\ pos + i = lib.at
          <5>1. E \in Nat /\ k \in Nat /\ lib.at \in Nat /\ lib.at <= m
            BY <1>1, <1>3, <1>8, <4>1, <1>e
          <5>2. k = E - made \/ k = m - made
            BY <1>8, <4>2
          <5> QED BY <1>e, <4>2, <5>1, <5>2, AmongCompared
        <4>4. lib.at \in 1 .. Len(o) /\ lib.at \in 1 .. E
          BY <1>a, <1>1, <1>3, <4>1, <4>2 DEF o
        <4> HIDE DEF i
        <4>5. x[i] = <<0, FALSE>>
          <5>1. x[i] = o[lib.at]
            BY <1>6, <4>3
          <5> QED BY <1>2, <3>2, <4>4, <5>1, Zenon
        <4>6. x[i] = <<lib.at, FALSE>>
          <5>1. x[i] = emitted[lib.at]
            BY <2>2, <4>3
          <5> QED BY <1>c, <4>4, <5>1, Zenon DEF Middle, E
        <4>7. lib.at = 0
          <5>1. <<0, FALSE>>[1] = <<lib.at, FALSE>>[1]
            BY <4>5, <4>6
          <5> QED BY <5>1
        <4> QED BY <1>e, <4>2, <4>7
      <3> QED BY <3>1, <3>2
    <2>4. pos + k = Least(m, E)
      BY <1>15
    <2>5. CASE k = Len(x)
      <3>1. dest' = dest /\ err' = err
        BY <2>1, <2>5
      <3>2. m <= E
        <4>1. k = m - made /\ k > 0
          <5>1. Len(x) # 0
            BY <1>6, <1>12, EmptyIffNone
          <5> QED BY <1>6, <1>8, <2>5, <5>1
        <4> QED BY <1>e, <1>1, <1>7, <1>8, <4>1
      <3>3. Len(dest') = IF m < E THEN E ELSE m
        <4>1. made < E
          <5>1. Len(x) # 0
            BY <1>6, <1>12, EmptyIffNone
          <5> QED BY <1>e, <1>1, <1>6, <3>2, <5>1
        <4> QED BY <1>e, <3>1, <3>2, <4>1, <1>1, <1>13 DEF d
      <3>4. \A i \in 1 .. Len(dest') : i <= Len(dest)
        BY <3>1, LenProperties
      <3>5. "nil" \in Errors
        BY DEF Errors
      <3> QED BY <1>a, <1>b, <1>7, <1>8, <2>1, <2>3, <2>4, <3>1, <3>3, <3>4, <3>5 DEF E, Emitted
    <2>6. CASE k # Len(x)
      <3> DEFINE y == SubSeq(x, k + 1, Len(x))
      <3>1. Deliver(y)
        BY <2>1, <2>6
      <3>2. k = E - pos /\ m > E /\ k < m - made
        BY <1>e, <1>1, <1>6, <1>7, <1>8, <2>6
      <3>3. \A i \in k + 1 .. Len(x) : x[i] \in Item
        <4> TAKE i \in k + 1 .. Len(x)
        <4>1. i \in 1 .. m - made /\ made + i \in made + 1 .. m
          BY <1>e, <1>6, <1>8, <3>2
        <4> QED BY <4>1, <1>5, <1>6
      <3>4. /\ y \in Seq(Item) /\ Len(y) = m - made - k
            /\ \A i \in 1 .. m - made - k : y[i] = x[k + i]
        <4>1. /\ y \in Seq(Item) /\ Len(y) = IF k + 1 <= Len(x) THEN Len(x) - (k + 1) + 1 ELSE 0
              /\ \A i \in 1 .. Len(x) - (k + 1) + 1 : y[i] = x[k + 1 + i - 1]
          <5>1. k + 1 \in Int /\ Len(x) \in Int
            BY <1>6, <1>8
          <5> QED BY <3>3, <5>1, SubSeqProperties
        <4> HIDE DEF y
        <4>2. \A i \in 1 .. m - made - k : i \in 1 .. Len(x) - (k + 1) + 1 /\ k + 1 + i - 1 = k + i
          BY <1>6, <1>8
        <4>3. Len(y) = m - made - k
          BY <4>1, <1>6, <1>8, <3>2
        <4> QED BY <4>1, <4>2, <4>3
      <3> HIDE DEF y
      <3>6. d = made + k /\ d \in Nat
        BY <1>1, <1>7, <1>13, <3>2
      <3>7. CASE err' = "write" /\ dest' = dest
        <4>1. "write" \in Errors /\ "write" # "nil" /\ "write" # "replay"
          BY DEF Errors
        <4>2. pos' \in Nat
          BY <1>7, <1>8, <2>1
        <4> QED BY <1>a, <3>7, <4>1, <4>2, Zenon DEF Emitted
      <3>8. CASE dest' = dest \o y /\ err' = err
        <4>1. /\ dest \o y \in Seq(Item) /\ Len(dest \o y) = d + Len(y)
              /\ \A i \in 1 .. d + Len(y) :
                   (dest \o y)[i] = IF i <= d THEN dest[i] ELSE y[i - d]
          <5>1. y \in Seq(Item) /\ dest \in Seq(Item)
            BY <1>a, <3>4
          <5>2. /\ dest \o y \in Seq(Item) /\ Len(dest \o y) = Len(dest) + Len(y)
                /\ \A i \in 1 .. Len(dest) + Len(y) :
                     (dest \o y)[i] = IF i <= Len(dest) THEN dest[i] ELSE y[i - Len(dest)]
            <6>1. \A t \in Seq(Item) :
                    /\ t \o y \in Seq(Item) /\ Len(t \o y) = Len(t) + Len(y)
                    /\ \A i \in 1 .. Len(t) + Len(y) :
                         (t \o y)[i] = IF i <= Len(t) THEN t[i] ELSE y[i - Len(t)]
              BY <5>1, ConcatProperties
            <6> QED BY <5>1, <6>1, Zenon
          <5> QED BY <5>2, Zenon DEF d
        <4>7. d + Len(y) = m
          <5>1. Len(y) = m - made - k
            BY <3>4
          <5> QED BY <1>e, <5>1, <3>6, <1>8
        <4>2. Len(dest') = m
          BY <4>1, <4>7, <3>8
        <4>3. \A i \in 1 .. m : dest'[i] = IF i <= d THEN dest[i] ELSE s[i]
          <5> TAKE i \in 1 .. m
          <5>1. CASE i <= d
            BY <3>8, <4>1, <4>7, <5>1
          <5>2. CASE ~(i <= d)
            <6> DEFINE j == i - d
            <6>1. j \in 1 .. m - made - k /\ k + j \in 1 .. m - made /\ made + (k + j) = i
              <7>1. i \in Nat /\ i > d /\ i <= m /\ j = i - d
                BY <3>6, <5>2
              <7> HIDE DEF j
              <7>2. k \in Nat /\ d = made + k
                BY <1>8, <3>6
              <7>3. j >= 1 /\ j <= m - made - k /\ j \in Int
                BY <1>e, <7>1, <7>2
              <7>4. k + j >= 1 /\ k + j <= m - made /\ made + (k + j) = i
                BY <1>e, <7>1, <7>2, <7>3
              <7> QED BY <7>2, <7>3, <7>4
            <6>2. i \in 1 .. Len(o)
              BY <1>a, <1>e, <1>1 DEF o
            <6>3. dest'[i] = y[j]
              BY <3>8, <4>1, <4>7, <5>2
            <6> HIDE DEF j
            <6>4. y[j] = o[i]
              BY <1>6, <3>4, <6>1
            <6>5. o[i] = s[i]
              <7>1. ~(lib.how = "differs" /\ i = lib.at)
                BY <1>e, <2>3, <1>3
              <7> QED BY <1>2, <6>2, <7>1, Zenon
            <6> QED BY <5>2, <6>3, <6>4, <6>5
          <5> QED BY <5>1, <5>2
        <4>4. "nil" \in Errors
          BY DEF Errors
        <4>5. pos' \in Nat /\ dest' \in Seq(Item) /\ err' = "nil" /\ pos' = Least(m, E)
          BY <1>a, <1>b, <1>7, <1>8, <2>1, <2>4, <3>8, <4>1
        <4>6. Len(dest') = IF m < E THEN E ELSE m
          BY <1>1, <3>2, <4>2
        <4> QED BY <1>e, <2>3, <4>2, <4>3, <4>4, <4>5, <4>6 DEF E, d, Emitted
      <3> QED BY <3>1, <3>7, <3>8 DEF Deliver
    <2> QED BY <2>5, <2>6
  <1> QED BY <1>10, <1>11, <1>12

\* The compressor can only give out chunks it has whole, and with workers it
\* can once it has a job.
LEMMA ReadyIs ==
    ASSUME NEW n \in Nat
    PROVE  /\ Ready(n) \in Nat /\ Chunk * Ready(n) \in Nat /\ Chunk * Ready(n) <= n
           /\ Jobs /\ n >= JobSize => Ready(n) >= 1
  <1>1. CASE Jobs
    <2> DEFINE q == n \div JobSize
               r == n % JobSize
               c == JobChunks
    <2>1. q \in Nat /\ r \in 0 .. JobSize - 1 /\ n = JobSize * q + r
      BY Divides
    <2>2. c \in Nat \ {0} /\ Chunk * c = JobSize
      BY JobIsChunks
    <2>3. Ready(n) = q * c
      BY <1>1 DEF Ready, JobChunks
    <2> HIDE DEF q, r, c
    <2>4. q * c \in Nat /\ Chunk * (q * c) = JobSize * q
      <3>1. q * c \in Nat
        BY <2>1, <2>2
      <3>2. Chunk * (q * c) = (Chunk * c) * q
        BY <2>1, <2>2
      <3> QED BY <3>1, <3>2, <2>2
    <2>5. JobSize * q \in Nat /\ JobSize * q <= n
      BY <2>1
    <2>6. ASSUME n >= JobSize PROVE q * c >= 1
      <3>1. q # 0
        <4>1. SUFFICES ASSUME q = 0 PROVE FALSE
          OBVIOUS
        <4>2. JobSize * q = 0
          BY <4>1
        <4> QED BY <2>1, <2>6, <4>2
      <3>2. c * (q - 1) \in Nat /\ q * c = c * (q - 1) + c
        BY <2>1, <2>2, <3>1
      <3> QED BY <2>2, <3>2
    <2> QED BY <2>3, <2>4, <2>5, <2>6
  <1>2. CASE ~Jobs
    <2> DEFINE q == n \div Chunk
               r == n % Chunk
    <2>1. q \in Nat /\ r \in 0 .. Chunk - 1 /\ n = Chunk * q + r
      BY Divides
    <2>2. Ready(n) = q
      BY <1>2 DEF Ready
    <2> HIDE DEF q, r
    <2>3. Chunk * q \in Nat
      BY <2>1, TimesNat
    <2> QED BY <1>2, <2>1, <2>2, <2>3
  <1> QED BY <1>1, <1>2

LEMMA WholeChunks ==
    ASSUME NEW k \in Nat
    PROVE  Chunk * k \in Nat /\ Chunks(Chunk * k) = k
  <1> DEFINE r == Chunk - 1
  <1>1. Chunk * k \in Nat /\ Chunk * k + Chunk - 1 \in Nat
    OBVIOUS
  <1>2. r \in 0 .. Chunk - 1 /\ Chunk * k + Chunk - 1 = Chunk * k + r
    BY <1>1
  <1> HIDE DEF r
  <1>3. (Chunk * k + Chunk - 1) \div Chunk = k
    BY <1>1, <1>2, QuotientIs
  <1> QED BY <1>1, <1>3 DEF Chunks

\* Whatever is whole of a frame's input comes out of it as chunks.
LEMMA InTheWhole ==
    ASSUME NEW n \in Nat, NEW k \in Nat, Chunk * k <= n
    PROVE  k <= Chunks(n)
  <1>1. k <= (n + Chunk - 1) \div Chunk
    BY WithinRoundUp
  <1> QED BY <1>1 DEF Chunks

-----------------------------------------------------------------------------
(* The beginning.                                                          *)

\* The stream and the calls due depend on what was given alone.
LEMMA SameInput ==
    ASSUME kind' = kind
    PROVE  /\ Calls(given)' = Calls(given') /\ Frame(given)' = Frame(given')
           /\ Eager' = Eager /\ WithData' = WithData /\ Jobs' = Jobs
           /\ BatchSize' = BatchSize /\ BatchCall' = BatchCall
  <1>1. Eager' = Eager /\ WithData' = WithData /\ Jobs' = Jobs
    BY DEF Eager, WithData, Jobs
  <1>2. BatchSize' = BatchSize /\ BatchCall' = BatchCall
    BY DEF BatchSize, BatchCall
  <1>3. Frame(given)' = Frame(given')
    BY Zenon DEF Frame
  <1>4. Calls(given)' = Calls(given')
    BY <1>1, Zenon DEF Calls
  <1> QED BY <1>1, <1>2, <1>3, <1>4

LEMMA InitHolds == Init => IInv
  <1> SUFFICES ASSUME Init PROVE IInv
    OBVIOUS
  <1>1. TypeOK
    <2>1. emitted \in Seq(Item) /\ dest \in Seq(Item) /\ calls \in Seq(Call)
      BY DEF Init
    <2> QED BY <2>1 DEF Init, TypeOK, Kinds, Errors, Memory
  <1>2. GivenOK
    BY DEF Init, GivenOK
  <1>3. PlaceOK
    <2>1. job - chunked = 0
      BY DEF Init
    <2>2. ~ChunkDue
      BY <2>1 DEF ChunkDue
    <2> QED BY <2>2 DEF Init, PlaceOK, Closing, Emulating
  <1>4. CountOK
    BY DEF Init, CountOK
  <1>5. Len(emitted) = 0 /\ Len(dest) = 0 /\ Len(calls) = 0
    BY DEF Init
  <1>6. CallsOK
    <2>1. BatchSize * Len(calls) = 0
      BY <1>5 DEF BatchSize
    <2>2. Cap \in Nat \ {0}
      BY DEF Cap
    <2>3. Body
      BY <1>5, <2>1, <2>2 DEF Body, Init
    <2>4. ~BatchDue
      BY <2>2 DEF BatchDue, Init
    <2> QED BY <2>3, <2>4 DEF CallsOK, Init, Closing
  <1>7. Middle(emitted) /\ Middle(dest)
    BY <1>5 DEF Middle
  <1>8. JobOK
    <2>1. Chunk * Len(emitted) = 0
      BY <1>5
    <2> QED BY <1>7, <2>1 DEF JobOK, Init
  <1>9. OutputOK
    <2>1. Chunk * made = 0
      BY DEF Init
    <2>2. lib.how = "differs" => made < lib.at
      BY <1>1, LibIs DEF Init, TypeOK
    <2>3. lib.how = "short" => made <= lib.at
      BY <1>1, LibIs DEF Init, TypeOK
    <2>4. took < JobSize /\ ~Ending
      BY DEF Init, Ending
    <2> QED BY <1>5, <1>7, <2>1, <2>2, <2>3, <2>4 DEF OutputOK, Init, Least
  <1>10. ReturnOK
    BY DEF Init, ReturnOK
  <1>11. LiveOK
    BY DEF Init, LiveOK, Kinds
  <1>12. err = "nil"
    BY DEF Init
  <1> QED BY <1>1, <1>2, <1>3, <1>4, <1>6, <1>8, <1>9, <1>10, <1>11, <1>12 DEF IInv, Core

-----------------------------------------------------------------------------
(* What the invariant says of the calls and the output.                    *)

LEMMA CallsArePrefix ==
    ASSUME Core, err = "nil"
    PROVE  SplitFree
  <1>1. TypeOK /\ GivenOK /\ PlaceOK /\ CountOK /\ CallsOK
    BY DEF Core
  <1>2. kind \in Kinds /\ given \in Nat /\ calls \in Seq(Call)
    BY <1>1 DEF TypeOK
  <1>3. Calls(given) \in Seq(Call)
    BY <1>2, CallsType
  <1>4. CASE direct = "none"
    <2>1. Len(calls) = 0
      <3>1. calls = <<>>
        BY <1>1, <1>4 DEF PlaceOK
      <3> QED BY <3>1
    <2>2. Len(calls) <= Len(Calls(given)) /\ \A i \in 1 .. Len(calls) : calls[i] = Calls(given)[i]
      BY <1>3, <2>1, LenProperties
    <2> QED BY <1>2, <1>3, <2>2, PrefixByItem DEF SplitFree
  <1>5. CASE direct = "open" /\ Body
    <2>1. took + rest + pending + again = given - left
      BY <1>1, <1>5 DEF CountOK
    <2>2. /\ took \in Nat /\ rest \in Nat /\ pending \in Nat /\ again \in Nat /\ left \in Nat
          /\ Source = IF pc = "replay" THEN again ELSE left
      BY <1>1 DEF TypeOK, Source
    <2>3. took + rest <= given /\ (pending > 0 \/ Source > 0 => took + rest < given)
      BY <1>2, <2>1, <2>2
    <2>4. BatchSize * Len(calls) = took + rest
      BY <1>5 DEF Body
    <2>5. calls # <<>> /\ ~Eager => BatchSize * Len(calls) < given
      BY <1>5, <2>3, <2>4 DEF Body
    <2>6. BatchSize * Len(calls) <= given
      BY <2>3, <2>4
    <2>7. \A i \in 1 .. Len(calls) : calls[i] = BatchCall
      BY <1>5 DEF Body
    <2>8. (kind = "all" => calls = <<>>) /\ (kind = "head" => Len(calls) <= 1)
      BY <1>5 DEF Body
    <2>9. IsPrefix(calls, Calls(given))
      BY <1>2, <2>5, <2>6, <2>7, <2>8, BodyIsPrefix
    <2> QED BY <2>9 DEF SplitFree
  <1>6. CASE direct = "open" /\ Remainder
    BY <1>6 DEF Remainder
  <1>7. CASE direct = "open" /\ Ended
    <2>1. calls = Calls(given)
      BY <1>7 DEF Ended
    <2> DEFINE c == Calls(given)
    <2>2. c \in Seq(Call) /\ calls = c
      BY <1>3, <2>1
    <2> HIDE DEF c
    <2>3. IsPrefix(c, c)
      <3>1. Len(c) <= Len(c)
        BY <2>2, LenProperties
      <3> QED BY <2>2, <3>1, PrefixByItem
    <2> QED BY <2>2, <2>3 DEF SplitFree, c
  <1>8. direct \in {"none", "open"}
    BY <1>1 DEF TypeOK
  <1> QED BY <1>1, <1>4, <1>5, <1>6, <1>7, <1>8 DEF CallsOK

\* How much was written once the direct writer is there.
LEMMA WrittenLength ==
    ASSUME Core, err = "nil", direct = "open"
    PROVE  /\ Frame(given) = WholeFrame(given)
           /\ made \in Nat /\ Len(emitted) \in Nat /\ given \in Nat
           /\ took <= given /\ took \in Nat
           /\ Len(dest) = IF made < Len(emitted) THEN Len(emitted) ELSE made
           /\ Len(emitted) <= Chunks(given) /\ Chunk * Len(emitted) <= given
           /\ kind # "emulated" => Len(emitted) = 0
           /\ kind = "emulated" => Len(emitted) = JobChunks /\ given > JobSize
  <1>1. TypeOK /\ GivenOK /\ PlaceOK /\ CountOK /\ JobOK /\ OutputOK
    BY DEF Core
  <1>2. /\ made \in Nat /\ given \in Nat /\ took \in Nat /\ rest \in Nat /\ pending \in Nat
        /\ again \in Nat /\ left \in Nat /\ emitted \in Seq(Item)
    BY <1>1 DEF TypeOK
  <1>3. took <= given
    <2>1. took + rest + pending + again = given - left
      BY <1>1 DEF CountOK
    <2> QED BY <1>2, <2>1
  <1>4. kind = "emulated" => Len(emitted) = JobChunks /\ given > JobSize
    BY <1>1 DEF CountOK, JobOK
  <1>5. kind # "emulated" => Len(emitted) = 0
    <2>1. kind # "emulated" => emitted = <<>>
      BY <1>1 DEF PlaceOK
    <2> QED BY <2>1
  <1>6. Frame(given) = WholeFrame(given)
    <2>1. ~(kind = "emulated" /\ given <= JobSize)
      BY <1>2, <1>4
    <2> QED BY <1>2, <2>1, FrameInOrder
  <1>7. Chunk * Len(emitted) <= given /\ Len(emitted) \in Nat
    <2>1. CASE kind = "emulated"
      BY <1>2, <1>4, <2>1, JobIsChunks
    <2>2. CASE kind # "emulated"
      <3>1. Chunk * 0 = 0
        OBVIOUS
      <3> QED BY <1>2, <1>5, <2>2, <3>1
    <2> QED BY <2>1, <2>2
  <1>8. Len(emitted) <= Chunks(given)
    BY <1>2, <1>7, InTheWhole
  <1>9. Len(dest) = IF made < Len(emitted) THEN Len(emitted) ELSE made
    BY <1>1 DEF OutputOK
  <1> QED BY <1>2, <1>3, <1>4, <1>5, <1>6, <1>7, <1>8, <1>9

LEMMA WrittenIsPrefix ==
    ASSUME Core, err = "nil"
    PROVE  WrittenInOrder
  <1>1. TypeOK /\ PlaceOK /\ CountOK /\ JobOK /\ OutputOK
    BY DEF Core
  <1>2. /\ given \in Nat /\ left \in Nat /\ job \in Nat /\ chunked \in Nat
        /\ emitted \in Seq(Item) /\ dest \in Seq(Item)
    BY <1>1 DEF TypeOK
  <1>3. Frame(given) \in Seq(Item)
    BY <1>2, FrameType
  <1>4. CASE direct = "none" /\ dpc = "done"
    <2> DEFINE f == Frame(given)
    <2>1. dest = f
      BY <1>1, <1>4 DEF JobOK
    <2>2. f \in Seq(Item)
      BY <1>3
    <2> HIDE DEF f
    <2>3. IsPrefix(f, f)
      <3>1. Len(f) <= Len(f)
        BY <2>2, LenProperties
      <3> QED BY <2>2, <3>1, PrefixByItem
    <2> QED BY <2>1, <2>3 DEF WrittenInOrder, f
  <1>5. CASE direct = "none" /\ dpc # "done"
    <2>1. /\ dest = emitted /\ Middle(emitted) /\ chunked = Chunk * Len(emitted)
          /\ emitted = <<>> \/ chunked < job \/ (pc = "handover" /\ chunked = job)
      BY <1>1, <1>5 DEF JobOK
    <2>2. job = given - left /\ (pc = "handover" => left > 0 /\ job = JobSize)
      BY <1>1, <1>5 DEF CountOK, PlaceOK
    <2>3. emitted = <<>> \/ chunked < given
      BY <1>2, <2>1, <2>2
    <2>4. Chunk * Len(emitted) <= given
      <3>1. emitted = <<>> => Len(emitted) = 0
        OBVIOUS
      <3>2. Chunk * 0 = 0
        OBVIOUS
      <3> QED BY <1>2, <2>1, <2>3, <3>1, <3>2
    <2>5. emitted = <<>> \/ Chunk * Len(emitted) < given
      BY <2>1, <2>3
    <2>6. IsPrefix(emitted, Frame(given))
      BY <1>2, <2>1, <2>4, <2>5, MiddleIsPrefix
    <2> QED BY <2>1, <2>6 DEF WrittenInOrder
  <1>6. CASE direct = "open" /\ ~Ending
    <2>1. Middle(dest) /\ Chunk * made <= took
      BY <1>1, <1>6 DEF OutputOK
    <2>2. /\ made \in Nat /\ took <= given /\ took \in Nat
          /\ Len(dest) = Len(emitted) \/ Len(dest) = made
          /\ Chunk * Len(emitted) <= given
          /\ kind = "emulated" => given > JobSize
      BY <1>6, WrittenLength
    <2>3. Chunk * Len(dest) <= given
      BY <1>2, <2>1, <2>2
    <2>4. ~(kind = "emulated" /\ given <= JobSize)
      BY <1>2, <2>2
    <2>5. IsPrefix(dest, Frame(given))
      BY <1>2, <2>1, <2>3, <2>4, MiddleIsPrefix
    <2> QED BY <2>5 DEF WrittenInOrder
  <1>7. CASE direct = "open" /\ Ending
    <2>1. /\ made <= Len(WholeFrame(given))
          /\ \A i \in 1 .. Len(dest) : dest[i] = WholeFrame(given)[i]
      BY <1>1, <1>7 DEF OutputOK
    <2>2. /\ Frame(given) = WholeFrame(given) /\ Len(emitted) <= Chunks(given)
          /\ Len(dest) = Len(emitted) \/ Len(dest) = made
          /\ Len(emitted) \in Nat
      BY <1>7, WrittenLength
    <2>3. Len(WholeFrame(given)) = Chunks(given) + 1 /\ Chunks(given) \in Nat
      BY <1>2, WholeInOrder, ItemsInOrder
    <2>4. Len(dest) <= Len(WholeFrame(given))
      BY <2>1, <2>2, <2>3
    <2>5. IsPrefix(dest, Frame(given))
      BY <1>2, <1>3, <2>1, <2>2, <2>4, PrefixByItem
    <2> QED BY <2>5 DEF WrittenInOrder
  <1>8. direct \in {"none", "open"}
    BY <1>1 DEF TypeOK
  <1> QED BY <1>4, <1>5, <1>6, <1>7, <1>8

-----------------------------------------------------------------------------
(* The steps, one by one.                                                  *)

LEMMA BodyStays ==
    ASSUME Body, kind' = kind, calls' = calls, took' + rest' = took + rest,
           pending' <= Cap, calls # <<>> /\ ~Eager => pending' > 0 \/ Source' > 0
    PROVE  Body'
  <1>1. Cap' = Cap
    BY DEF Cap
  <1>2. Eager' = Eager /\ BatchSize' = BatchSize /\ BatchCall' = BatchCall
    BY SameInput
  <1> QED BY <1>1, <1>2, Zenon DEF Body

LEMMA JobStays ==
    ASSUME JobOK, direct = "open", direct' = "open", kind' = kind, emitted' = emitted
    PROVE  JobOK'
  BY DEF JobOK, Middle

\* Neither does the jobWriter do anything between two calls.
LEMMA JobWaits ==
    ASSUME JobOK, direct = "none", err = "nil", direct' = "none", kind' = kind,
           UNCHANGED emulation, dest' = dest, dpc' = dpc,
           pc # "handover", dpc # "done" \/ given' = given
    PROVE  JobOK'
  <1>1. dest = emitted /\ dest' = emitted' /\ emitted' = emitted /\ job' = job /\ chunked' = chunked
    BY DEF JobOK, emulation
  <1>2. CASE dpc = "done"
    <2>1. Frame(given)' = Frame(given')
      BY SameInput
    <2>2. Frame(given)' = Frame(given)
      BY <1>2, <2>1
    <2>3. emitted = Frame(given) /\ chunked = job
      BY <1>2 DEF JobOK
    <2> QED BY <1>1, <1>2, <2>2, <2>3, Zenon DEF JobOK
  <1>3. CASE dpc # "done"
    <2>1. Middle(emitted)' <=> Middle(emitted)
      BY <1>1 DEF Middle
    <2>2. /\ Middle(emitted) /\ chunked = Chunk * Len(emitted)
          /\ emitted = <<>> \/ chunked < job
      BY <1>3 DEF JobOK
    <2> QED BY <1>1, <1>3, <2>1, <2>2, Zenon DEF JobOK
  <1> QED BY <1>2, <1>3

LEMMA OutputStays ==
    ASSUME OutputOK, direct = "open", direct' = "open", err' = "nil" => err = "nil",
           UNCHANGED <<kind, lib, emitted, pos, dest, made, took>>,
           (~Ending /\ ~Ending') \/ (given' = given /\ dpc' = dpc),
           dpc' = "fill" => dpc = "fill"
    PROVE  OutputOK'
  <1> SUFFICES ASSUME err' = "nil" PROVE OutputOK'
    BY DEF OutputOK
  <1>1. Jobs' = Jobs
    BY SameInput
  <1>2. /\ pos' = Least(made', Len(emitted'))
        /\ Len(dest') = IF made' < Len(emitted') THEN Len(emitted') ELSE made'
        /\ lib'.how = "differs" => made' < lib'.at
        /\ lib'.how = "short" => made' <= lib'.at
        /\ Jobs' /\ dpc' = "fill" /\ took' >= JobSize => made' > 0
    BY <1>1 DEF OutputOK
  <1>3. ~Ending' => Chunk * made' <= took' /\ Middle(dest)'
    <2>1. ~Ending' => ~Ending
      BY DEF Ending
    <2> QED BY <2>1 DEF OutputOK, Middle
  <1>4. Ending' => Ending /\ given' = given
    BY DEF Ending
  <1>5. Ending' => /\ made' <= Len(WholeFrame(given'))
                   /\ \A i \in 1 .. Len(dest') : dest'[i] = WholeFrame(given')[i]
    BY <1>4, Zenon DEF OutputOK
  <1>6. dpc' = "done" => made' = Len(Output(WholeFrame(given))')
    <2>1. ASSUME dpc' = "done" PROVE given' = given /\ dpc = "done"
      BY <2>1 DEF Ending
    <2>2. ASSUME given' = given PROVE Output(WholeFrame(given))' = Output(WholeFrame(given))
      BY <2>2 DEF Output
    <2> QED BY <2>1, <2>2 DEF OutputOK
  <1> QED BY <1>2, <1>3, <1>5, <1>6, Zenon DEF OutputOK

LEMMA CallWriteHolds ==
    ASSUME Core, NEW n \in 1 .. MaxInput - given, CallWrite(n)
    PROVE  Core'
  <1>1. TypeOK /\ GivenOK /\ PlaceOK /\ CountOK /\ CallsOK /\ JobOK /\ OutputOK /\ ReturnOK /\ LiveOK
    BY DEF Core
  <1>2. /\ pc = "ready" /\ err = "nil" /\ pc' = "write" /\ given' = given + n /\ left' = n
        /\ UNCHANGED <<kind, lib, job, chunked, emitted, again, pos, direct, dpc, pending,
                       calls, rest, took, made, err, ret, live, dest>>
    BY DEF CallWrite, emulation, compressor
  <1>3. n \in Nat /\ n > 0 /\ given \in Nat /\ given + n <= MaxInput /\ given + n \in Nat
    BY <1>1 DEF TypeOK
  <1>4. TypeOK'
    BY <1>1, <1>2, <1>3 DEF TypeOK
  <1>5. GivenOK'
    BY <1>1, <1>2, <1>3 DEF GivenOK
  <1>6. ~Closing /\ ~Closing' /\ left = 0 /\ again = 0 /\ dpc \notin {"end", "done"}
    BY <1>1, <1>2 DEF PlaceOK, Closing
  <1>7. PlaceOK'
    BY <1>1, <1>2, <1>3, <1>6 DEF PlaceOK, Closing, Emulating
  <1>8. CountOK'
    BY <1>1, <1>2, <1>3, <1>6 DEF CountOK, TypeOK
  <1>9. CallsOK'
    <2> SUFFICES ASSUME direct = "open" PROVE Body'
      BY <1>2, <1>6 DEF CallsOK
    <2>1. Body
      BY <1>1, <1>2, <1>6 DEF CallsOK
    <2>2. Source' > 0
      BY <1>2, <1>3 DEF Source
    <2>3. pending' <= Cap
      BY <2>1, <1>2 DEF Body
    <2> QED BY <1>2, <2>1, <2>2, <2>3, BodyStays
  <1>10. JobOK'
    <2>1. CASE direct = "none"
      BY <1>1, <1>2, <1>6, <2>1, JobWaits DEF emulation
    <2>2. CASE direct = "open"
      BY <1>1, <1>2, <2>2, JobStays
    <2> QED BY <1>1, <2>1, <2>2 DEF TypeOK
  <1>11. OutputOK'
    <2>1. CASE direct = "none"
      BY <1>2, <2>1 DEF OutputOK
    <2>2. CASE direct = "open"
      BY <1>1, <1>2, <1>6, <2>2, OutputStays DEF Ending
    <2> QED BY <1>1, <2>1, <2>2 DEF TypeOK
  <1>12. ReturnOK' /\ LiveOK'
    BY <1>1, <1>2 DEF ReturnOK, LiveOK
  <1> QED BY <1>4, <1>5, <1>7, <1>8, <1>9, <1>10, <1>11, <1>12 DEF Core

LEMMA CallCloseHolds ==
    ASSUME Core, CallClose
    PROVE  Core'
  <1>1. TypeOK /\ GivenOK /\ PlaceOK /\ CountOK /\ CallsOK /\ JobOK /\ OutputOK /\ ReturnOK /\ LiveOK
    BY DEF Core
  <1>2. /\ pc = "ready" /\ pc' = "close"
        /\ UNCHANGED <<kind, lib, given, left, job, chunked, emitted, again, pos, direct, dpc, pending,
                       calls, rest, took, made, err, ret, live, dest>>
    BY DEF CallClose, caller, emulation, compressor
  <1>4. TypeOK'
    BY <1>1, <1>2 DEF TypeOK
  <1>5. GivenOK'
    BY <1>1, <1>2 DEF GivenOK
  <1>6. /\ ~Closing /\ Closing' /\ dpc \notin {"end", "done"}
        /\ err = "nil" => left = 0 /\ again = 0
    BY <1>1, <1>2 DEF PlaceOK, Closing
  <1>7. PlaceOK'
    BY <1>1, <1>2, <1>6 DEF PlaceOK, Closing, Emulating
  <1>8. CountOK'
    BY <1>1, <1>2 DEF CountOK
  <1>9. CallsOK'
    <2> SUFFICES ASSUME direct = "open", err = "nil" PROVE Body' /\ ~BatchDue' /\ dpc' = "fill"
      BY <1>2, <1>6 DEF CallsOK, Closing
    <2>1. Body /\ ~BatchDue
      BY <1>1, <1>2, <1>6 DEF CallsOK
    <2>2. Source' = Source /\ Cap' = Cap /\ Eager' = Eager
      BY <1>2 DEF Source, Cap, Eager
    <2>3. pending' <= Cap
      BY <2>1, <1>2 DEF Body
    <2>4. calls # <<>> /\ ~Eager => pending' > 0 \/ Source' > 0
      BY <1>2, <2>1, <2>2 DEF Body
    <2>5. Body'
      BY <1>2, <2>1, <2>3, <2>4, BodyStays
    <2>6. ~BatchDue'
      BY <1>2, <2>1, <2>2 DEF BatchDue
    <2>7. dpc = "fill"
      BY <1>1, <1>2 DEF PlaceOK, Emulating
    <2> QED BY <1>2, <2>5, <2>6, <2>7
  <1>10. JobOK'
    <2>1. CASE direct = "none" /\ err = "nil"
      BY <1>1, <1>2, <1>6, <2>1, JobWaits DEF emulation
    <2>2. CASE direct = "open"
      BY <1>1, <1>2, <2>2, JobStays
    <2>3. CASE direct = "none" /\ err # "nil"
      BY <1>2, <2>3 DEF JobOK
    <2> QED BY <1>1, <2>1, <2>2, <2>3 DEF TypeOK
  <1>11. OutputOK'
    <2>1. CASE direct = "none"
      BY <1>2, <2>1 DEF OutputOK
    <2>2. CASE direct = "open"
      BY <1>1, <1>2, <1>6, <2>2, OutputStays DEF Ending
    <2> QED BY <1>1, <2>1, <2>2 DEF TypeOK
  <1>12. ReturnOK' /\ LiveOK'
    BY <1>1, <1>2 DEF ReturnOK, LiveOK
  <1> QED BY <1>4, <1>5, <1>7, <1>8, <1>9, <1>10, <1>11, <1>12 DEF Core

\* While there is no direct writer, nothing is said of its calls and output.
LEMMA NoDirect ==
    ASSUME direct' = "none"
    PROVE  CallsOK' /\ OutputOK' /\ (err' # "nil" => JobOK')
  BY DEF CallsOK, OutputOK, JobOK

LEMMA KeepInputHolds ==
    ASSUME Core, KeepInput
    PROVE  Core'
  <1>1. TypeOK /\ GivenOK /\ PlaceOK /\ CountOK /\ JobOK /\ ReturnOK /\ LiveOK
    BY DEF Core
  <1> DEFINE n == Least(JobSize - job, left)
  <1>2. /\ direct = "none" /\ pc = "write" /\ err = "nil" /\ left > 0 /\ job < JobSize
        /\ job' = job + n /\ left' = left - n
        /\ UNCHANGED <<kind, lib, given, pc, chunked, emitted, again, pos, direct, dpc, pending,
                       calls, rest, took, made, err, ret, live, dest>>
    BY DEF KeepInput, Emulating, caller, compressor
  <1>3. job \in Nat /\ left \in Nat /\ given \in Nat /\ left <= given /\ job = given - left
    BY <1>1, <1>2 DEF TypeOK, GivenOK, CountOK
  <1>4. n \in Nat /\ n <= left /\ n <= JobSize - job
    <2>1. JobSize - job \in Nat
      BY <1>2, <1>3
    <2> QED BY <2>1, <1>3, LeastIs
  <1> HIDE DEF n
  <1>5. TypeOK'
    BY <1>1, <1>2, <1>3, <1>4 DEF TypeOK
  <1>6. GivenOK'
    BY <1>1, <1>2, <1>3, <1>4 DEF GivenOK
  <1>7. kind = "emulated" /\ dpc # "done" /\ again = 0
    BY <1>1, <1>2 DEF PlaceOK, Closing
  <1>8. PlaceOK'
    BY <1>1, <1>2, <1>7 DEF PlaceOK, Closing
  <1>9. CountOK'
    BY <1>2, <1>3, <1>4 DEF CountOK
  <1>10. JobOK'
    <2>1. /\ dest = emitted /\ Middle(emitted) /\ chunked = Chunk * Len(emitted)
          /\ emitted = <<>> \/ chunked < job
      BY <1>1, <1>2, <1>7 DEF JobOK
    <2>2. Middle(emitted)'
      BY <2>1, <1>2 DEF Middle
    <2>3. emitted' = <<>> \/ chunked' < job'
      <3>1. chunked \in Nat
        BY <1>1 DEF TypeOK
      <3> QED BY <3>1, <2>1, <1>2, <1>3, <1>4
    <2> QED BY <1>2, <1>7, <2>1, <2>2, <2>3 DEF JobOK
  <1>11. ReturnOK' /\ LiveOK'
    BY <1>1, <1>2 DEF ReturnOK, LiveOK
  <1> QED BY <1>2, <1>5, <1>6, <1>8, <1>9, <1>10, <1>11, NoDirect DEF Core

LEMMA HandOverHolds ==
    ASSUME Core, HandOver
    PROVE  Core'
  <1>1. TypeOK /\ GivenOK /\ PlaceOK /\ CountOK /\ JobOK /\ ReturnOK /\ LiveOK
    BY DEF Core
  <1>2. /\ direct = "none" /\ pc = "write" /\ err = "nil" /\ left > 0 /\ job = JobSize
        /\ pc' = "handover"
        /\ UNCHANGED <<kind, lib, given, left, job, chunked, emitted, again, pos, direct, dpc, pending,
                       calls, rest, took, made, err, ret, live, dest>>
    BY DEF HandOver, Emulating, caller, emulation, compressor
  <1>3. TypeOK' /\ GivenOK' /\ CountOK'
    BY <1>1, <1>2 DEF TypeOK, GivenOK, CountOK
  <1>4. kind = "emulated" /\ dpc # "done" /\ again = 0
    BY <1>1, <1>2 DEF PlaceOK, Closing
  <1>5. PlaceOK'
    BY <1>1, <1>2, <1>4 DEF PlaceOK, Closing
  <1>6. JobOK'
    BY <1>1, <1>2, <1>4, JobWaits DEF emulation
  <1>7. ReturnOK' /\ LiveOK'
    BY <1>1, <1>2 DEF ReturnOK, LiveOK
  <1> QED BY <1>2, <1>3, <1>5, <1>6, <1>7, NoDirect DEF Core

\* A chunk is compressed and written, or one of the two fails.
LEMMA ChunkIs ==
    ASSUME emitted \in Seq(Item), dest = emitted, err = "nil",
           NEW n \in Nat, NEW end \in BOOLEAN, CompressChunk(n, end)
    PROVE  LET l == Len(emitted) IN
           \/ err' = "compress" /\ UNCHANGED <<chunked, emitted, dest>>
           \/ /\ chunked' = chunked + n /\ emitted' \in Seq(Item) /\ Len(emitted') = l + 1
              /\ \A i \in 1 .. l : emitted'[i] = emitted[i]
              /\ emitted'[l + 1] = <<l + 1, end>>
              /\ (err' = "write" /\ dest' = dest) \/ (err' = "nil" /\ dest' = emitted')
  <1> DEFINE l == Len(emitted)
             x == <<l + 1, end>>
  <1>1. l \in Nat
    BY LenProperties
  <1>2. x \in Item
    BY <1>1 DEF Item
  <1>3. \/ err' = "compress" /\ UNCHANGED <<chunked, emitted, dest>>
        \/ chunked' = chunked + n /\ emitted' = Append(emitted, x) /\ Deliver(<<x>>)
    BY DEF CompressChunk
  <1> HIDE DEF x
  <1>4. /\ Append(emitted, x) \in Seq(Item) /\ Len(Append(emitted, x)) = l + 1
        /\ \A i \in 1 .. l : Append(emitted, x)[i] = emitted[i]
        /\ Append(emitted, x)[l + 1] = x
    BY <1>1, <1>2, AppendProperties
  <1>5. Append(emitted, x) = dest \o <<x>>
    BY <1>2, AppendIsConcat
  <1>6. Deliver(<<x>>) =>
          \/ err' = "write" /\ dest' = dest
          \/ err' = "nil" /\ dest' = Append(emitted, x)
    <2>1. Deliver(<<x>>) =>
            \/ err' = "write" /\ dest' = dest
            \/ err' = err /\ dest' = dest \o <<x>>
      BY Zenon DEF Deliver
    <2> QED BY <1>5, <2>1, Zenon
  <1> QED BY <1>3, <1>4, <1>6, Zenon DEF x

\* A chunk in the middle of the job.
CompressWhole == CompressChunk(Chunk, FALSE)

LEMMA MiddleChunk ==
    ASSUME Core, direct = "none", err = "nil", CompressWhole,
           chunked + Chunk <= job, chunked + Chunk < job \/ pc = "handover",
           UNCHANGED <<kind, lib, given, left, pc, job, again, pos, direct, dpc, pending,
                       calls, rest, took, made, ret, live>>
    PROVE  Core'
  <1>1. TypeOK /\ GivenOK /\ PlaceOK /\ CountOK /\ JobOK /\ ReturnOK /\ LiveOK
    BY DEF Core
  <1>2. chunked \in Nat /\ job \in Nat /\ emitted \in Seq(Item) /\ Len(emitted) \in Nat
    BY <1>1, LenProperties DEF TypeOK
  <1>3. dpc # "done" /\ dest = emitted /\ Middle(emitted) /\ chunked = Chunk * Len(emitted)
    BY <1>1, <1>2 DEF JobOK
  <1> DEFINE l == Len(emitted)
  <1>4. \/ err' = "compress" /\ UNCHANGED <<chunked, emitted, dest>>
        \/ /\ chunked' = chunked + Chunk /\ emitted' \in Seq(Item) /\ Len(emitted') = l + 1
           /\ \A i \in 1 .. l : emitted'[i] = emitted[i]
           /\ emitted'[l + 1] = <<l + 1, FALSE>>
           /\ (err' = "write" /\ dest' = dest) \/ (err' = "nil" /\ dest' = emitted')
    <2>1. CompressChunk(Chunk, FALSE) /\ FALSE \in BOOLEAN /\ Chunk \in Nat
      BY Zenon DEF CompressWhole
    <2> QED BY <1>2, <1>3, <2>1, ChunkIs, Zenon
  <1> HIDE DEF l
  <1>12. chunked' = chunked \/ chunked' = chunked + Chunk
    BY <1>4, Zenon
  <1>13. emitted' \in Seq(Item) /\ dest' \in Seq(Item) /\ err' \in {"nil", "compress", "write"}
    <2>1. dest' = dest \/ dest' = emitted'
      BY <1>4, Zenon
    <2>2. emitted' = emitted \/ emitted' \in Seq(Item)
      BY <1>4, Zenon
    <2>3. err' = "compress" \/ err' = "write" \/ err' = "nil"
      BY <1>4, Zenon
    <2> QED BY <1>2, <1>3, <2>1, <2>2, <2>3
  <1>5. /\ chunked' \in Nat /\ emitted' \in Seq(Item) /\ dest' \in Seq(Item)
        /\ err' \in {"nil", "compress", "write"}
        /\ job - chunked' <= job - chunked
    BY <1>2, <1>12, <1>13
  <1>6. TypeOK'
    BY <1>1, <1>5 DEF TypeOK, Errors
  <1>7. GivenOK' /\ CountOK'
    BY <1>1 DEF GivenOK, CountOK
  <1>8. PlaceOK'
    <2>1. kind = "emulated" /\ again = 0 /\ pc # "replay"
      BY <1>1 DEF PlaceOK
    <2>2. job' = job
      OBVIOUS
    <2>3. ~ChunkDue => ~ChunkDue'
      <3>1. chunked' \in Nat /\ chunked' >= chunked
        BY <1>2, <1>12
      <3> DEFINE a == job - chunked
                 b == job - chunked'
      <3>2. a \in Int /\ b \in Int /\ b <= a
        <4>1. a \in Int
          BY <1>2
        <4>2. b \in Int
          BY <1>2, <3>1
        <4>3. b <= a
          <5>1. \A j \in Nat, c \in Nat, d \in Nat : d >= c => j - d <= j - c
            OBVIOUS
          <5> QED BY <1>2, <3>1, <5>1
        <4> QED BY <4>1, <4>2, <4>3
      <3>3. (ChunkDue <=> a > Chunk) /\ (ChunkDue' <=> b > Chunk)
        BY <2>2 DEF ChunkDue
      <3> HIDE DEF a, b
      <3> QED BY <3>2, <3>3
    <2> QED BY <1>1, <2>1, <2>3 DEF PlaceOK, Closing, Emulating
  <1>9. JobOK'
    <2>1. CASE err' # "nil"
      BY <2>1, NoDirect
    <2>2. CASE err' = "nil"
      <3>1. /\ chunked' = chunked + Chunk /\ Len(emitted') = l + 1 /\ dest' = emitted'
            /\ \A i \in 1 .. l : emitted'[i] = emitted[i]
            /\ emitted'[l + 1] = <<l + 1, FALSE>>
        BY <1>4, <2>2
      <3>2. Middle(emitted)'
        <4> SUFFICES ASSUME NEW i \in 1 .. l + 1 PROVE emitted'[i] = <<i, FALSE>>
          BY <3>1 DEF Middle
        <4>1. CASE i \in 1 .. l
          BY <4>1, <1>3, <3>1, Zenon DEF Middle, l
        <4>2. CASE i = l + 1
          BY <4>2, <3>1
        <4>3. i \in 1 .. l \/ i = l + 1
          BY <1>2 DEF l
        <4> QED BY <4>1, <4>2, <4>3
      <3>3. chunked' = Chunk * Len(emitted')
        <4>1. Chunk * (l + 1) = Chunk * l + Chunk
          BY <1>2 DEF l
        <4> QED BY <3>1, <1>3, <4>1 DEF l
      <3>4. chunked' < job' \/ (pc' = "handover" /\ chunked' = job')
        <4>1. chunked' = chunked + Chunk /\ job' = job /\ pc' = pc
          BY <3>1
        <4>2. chunked + Chunk < job \/ (pc = "handover" /\ chunked + Chunk = job)
          BY <1>2
        <4> QED BY <4>1, <4>2, Zenon
      <3> QED BY <2>2, <1>3, <3>1, <3>2, <3>3, <3>4, Zenon DEF JobOK
    <2> QED BY <2>1, <2>2
  <1>10. ReturnOK'
    <2>1. pc # "closed"
      BY <1>1, <1>3 DEF PlaceOK
    <2> QED BY <1>1, <1>5, <2>1 DEF ReturnOK
  <1>11. LiveOK'
    BY <1>1 DEF LiveOK
  <1> QED BY <1>6, <1>7, <1>8, <1>9, <1>10, <1>11, NoDirect DEF Core

LEMMA ContinueChunkHolds ==
    ASSUME Core, ContinueChunk
    PROVE  Core'
  <1>1. TypeOK
    BY DEF Core
  <1>2. /\ direct = "none" /\ err = "nil" /\ ChunkDue /\ CompressWhole
        /\ UNCHANGED <<kind, lib, given, left, pc, job, again, pos, direct, dpc, pending,
                       calls, rest, took, made, ret, live>>
    BY Zenon DEF ContinueChunk, Emulating, CompressWhole, caller, compressor
  <1>3. chunked \in Nat /\ job \in Nat
    BY <1>1 DEF TypeOK
  <1>4. chunked + Chunk < job /\ chunked + Chunk <= job
    <2>1. job - chunked > Chunk
      BY <1>2 DEF ChunkDue
    <2> QED BY <1>3, <2>1
  <1> QED BY <1>2, <1>4, MiddleChunk

LEMMA FinishJobHolds ==
    ASSUME Core, FinishJob
    PROVE  Core'
  <1>1. TypeOK /\ PlaceOK /\ JobOK
    BY DEF Core
  <1>2. pc = "handover" /\ err = "nil" /\ chunked < job
    BY DEF FinishJob
  <1>3. chunked \in Nat /\ job \in Nat /\ emitted \in Seq(Item) /\ Len(emitted) \in Nat
    BY <1>1, LenProperties DEF TypeOK
  <1>4. direct = "none" /\ job = JobSize
    BY <1>1, <1>2 DEF PlaceOK
  <1>5. chunked = Chunk * Len(emitted)
    <2>1. dpc # "done"
      BY <1>1, <1>2 DEF PlaceOK, Closing
    <2> QED BY <1>1, <1>2, <1>4, <2>1 DEF JobOK
  \* A job is a number of whole chunks.
  <1>6. chunked + Chunk <= job
    <2> DEFINE k == Len(emitted)
               c == JobChunks
    <2>1. k \in Nat /\ c \in Nat /\ Chunk * c = JobSize /\ chunked = Chunk * k
      BY <1>3, <1>5, JobIsChunks
    <2> HIDE DEF k, c
    <2>2. k < c
      <3>1. CASE k = c
        BY <1>2, <1>4, <2>1, <3>1
      <3>2. CASE c < k
        <4>1. Chunk * c + Chunk <= Chunk * k
          BY <2>1, <3>2, BatchEnds
        <4> QED BY <1>2, <1>3, <1>4, <2>1, <4>1
      <3> QED BY <2>1, <3>1, <3>2
    <2>3. Chunk * k + Chunk <= Chunk * c
      BY <2>1, <2>2, BatchEnds
    <2> QED BY <1>4, <2>1, <2>3
  <1>7. Least(Chunk, job - chunked) = Chunk
    BY <1>3, <1>6 DEF Least
  <1>8. /\ CompressWhole
        /\ UNCHANGED <<kind, lib, given, left, pc, job, again, pos, direct, dpc, pending,
                       calls, rest, took, made, ret, live>>
    BY <1>7, Zenon DEF FinishJob, CompressWhole, caller, compressor
  <1> QED BY <1>2, <1>4, <1>6, <1>8, MiddleChunk

LEMMA StartDirectHolds ==
    ASSUME Core, StartDirect
    PROVE  Core'
  <1>1. TypeOK /\ GivenOK /\ PlaceOK /\ CountOK /\ JobOK /\ ReturnOK /\ LiveOK
    BY DEF Core
  <1>2. /\ pc = "handover" /\ err = "nil" /\ chunked = job
        /\ UNCHANGED <<kind, lib, given, left, job, chunked, emitted, pos, dpc, pending,
                       calls, rest, took, made, ret, dest>>
    BY DEF StartDirect, caller, emulation, compressor
  <1>3. /\ direct = "none" /\ kind = "emulated" /\ dpc = "fill" /\ job = JobSize /\ left > 0
        /\ calls = <<>> /\ pending = 0 /\ rest = 0 /\ took = 0 /\ made = 0 /\ again = 0 /\ pos = 0
        /\ job = given - left
    BY <1>1, <1>2 DEF PlaceOK, Closing, CountOK
  <1>4. live = {"cctx", "out", "job"}
    BY <1>1, <1>2, <1>3 DEF LiveOK
  <1>5. dest = emitted /\ Middle(emitted) /\ chunked = Chunk * Len(emitted)
    BY <1>1, <1>2, <1>3 DEF JobOK
  <1>6. GivenOK'
    BY <1>1, <1>2 DEF GivenOK
  <1>7. CASE err' = "compress" /\ live' = live \ {"cctx", "out"} /\ UNCHANGED <<pc, direct, again>>
    <2>1. TypeOK'
      BY <1>1, <1>2, <1>4, <1>7 DEF TypeOK, Errors, Memory
    <2>2. PlaceOK' /\ CountOK'
      BY <1>1, <1>2, <1>3, <1>7 DEF PlaceOK, CountOK, Closing
    <2>3. ReturnOK' /\ LiveOK'
      BY <1>1, <1>2, <1>3, <1>4, <1>7 DEF ReturnOK, LiveOK
    <2>4. direct' = "none" /\ err' # "nil"
      BY <1>3, <1>7
    <2> QED BY <1>6, <2>1, <2>2, <2>3, <2>4, NoDirect DEF Core
  <1>8. CASE /\ live' = (live \ {"cctx", "out"}) \cup {"direct"}
             /\ direct' = "open" /\ again' = job /\ pc' = "replay" /\ err' = err
    <2>1. live' = {"job", "direct"}
      BY <1>4, <1>8
    <2>2. job \in Nat /\ given \in Nat /\ left \in Nat /\ emitted \in Seq(Item) /\ lib \in Lib
      BY <1>1 DEF TypeOK
    <2>3. TypeOK'
      BY <1>1, <1>2, <1>8, <2>1, <2>2 DEF TypeOK, Memory
    <2>4. PlaceOK'
      BY <1>1, <1>2, <1>3, <1>8 DEF PlaceOK, Closing
    <2>5. CountOK'
      BY <1>2, <1>3, <1>8, <2>2 DEF CountOK
    <2>6. Len(emitted) = JobChunks
      <3> DEFINE k == Len(emitted)
                 c == JobChunks
      <3>1. k \in Nat /\ c \in Nat /\ Chunk * c = JobSize /\ JobSize = Chunk * k
        BY <2>2, <1>2, <1>3, <1>5, LenProperties, JobIsChunks
      <3> HIDE DEF k, c
      <3>2. 0 \in 0 .. Chunk - 1 /\ Chunk * k + 0 = Chunk * c + 0
        BY <3>1
      <3>3. k = c
        BY <3>1, <3>2, OneQuotient
      <3> QED BY <3>3 DEF k, c
    <2>7. Middle(emitted)' /\ Middle(dest)'
      BY <1>2, <1>5 DEF Middle
    <2>8. JobOK'
      BY <1>2, <1>3, <1>8, <2>6, <2>7, JobIsChunks DEF JobOK
    <2>9. OutputOK'
      <3>1. JobChunks \in Nat \ {0} /\ Len(emitted') = JobChunks /\ Len(dest') = JobChunks
        BY <1>2, <1>5, <2>6, JobIsChunks
      <3>2. pos' = Least(made', Len(emitted'))
        BY <1>2, <1>3, <3>1 DEF Least
      <3>3. Chunk * made' <= took' /\ ~Ending'
        <4>1. Chunk * 0 = 0
          OBVIOUS
        <4> QED BY <1>2, <1>3, <4>1 DEF Ending
      <3>4. (lib'.how = "differs" => made' < lib'.at) /\ (lib'.how = "short" => made' <= lib'.at)
        BY <1>2, <1>3, <2>2, LibIs
      <3>5. ~(took' >= JobSize)
        BY <1>2, <1>3
      <3>6. Len(dest') = IF made' < Len(emitted') THEN Len(emitted') ELSE made'
        BY <1>2, <1>3, <3>1
      <3>7. dpc' # "done"
        BY <1>2, <1>3
      <3> QED BY <2>7, <3>2, <3>3, <3>4, <3>5, <3>6, <3>7 DEF OutputOK
    <2>10. CallsOK'
      <3>1. Len(calls') = 0 /\ calls' = <<>>
        BY <1>2, <1>3
      <3>2. BatchSize' * Len(calls') = 0
        <4>1. BatchSize' = InCap
          BY <1>2, <1>3 DEF BatchSize
        <4> QED BY <3>1, <4>1
      <3>3. pending' = 0 /\ Cap' = InCap /\ took' + rest' = 0 /\ kind' = "emulated"
        BY <1>2, <1>3 DEF Cap
      <3>4. Body'
        BY <3>1, <3>2, <3>3 DEF Body
      <3> QED BY <1>8, <3>4 DEF CallsOK, Closing
    <2>11. ReturnOK'
      BY <1>1, <1>2, <1>8 DEF ReturnOK
    <2>12. LiveOK'
      BY <1>2, <1>3, <1>8, <2>1 DEF LiveOK
    <2> QED BY <1>6, <2>3, <2>4, <2>5, <2>8, <2>9, <2>10, <2>11, <2>12 DEF Core
  <1> QED BY <1>7, <1>8 DEF StartDirect

\* The frame that ends within the job.
CompressLast == CompressChunk(job - chunked, TRUE)

LEMMA EndChunkHolds ==
    ASSUME Core, EndChunk
    PROVE  Core'
  <1>1. TypeOK /\ GivenOK /\ PlaceOK /\ CountOK /\ JobOK /\ ReturnOK /\ LiveOK
    BY DEF Core
  <1>2. /\ direct = "none" /\ pc = "close" /\ err = "nil" /\ ~ChunkDue /\ dpc # "done"
        /\ dpc' = "done" /\ CompressLast
        /\ UNCHANGED <<kind, lib, given, left, pc, job, again, pos, direct, pending,
                       calls, rest, took, made, ret, live>>
    BY Zenon DEF EndChunk, CompressLast, Emulating, caller, compressor
  <1>3. /\ chunked \in Nat /\ job \in Nat /\ emitted \in Seq(Item) /\ Len(emitted) \in Nat
        /\ given \in Nat
    BY <1>1, LenProperties DEF TypeOK
  <1>4. kind = "emulated" /\ left = 0 /\ job = given /\ given <= JobSize
    BY <1>1, <1>2, <1>3 DEF PlaceOK, CountOK
  <1> DEFINE l == Len(emitted)
  <1>5. /\ dest = emitted /\ Middle(emitted) /\ chunked = Chunk * l
        /\ emitted = <<>> \/ chunked < job
    BY <1>1, <1>2 DEF JobOK
  <1>6. (l = 0 \/ chunked < job) /\ (l = 0 => chunked = 0) /\ chunked <= job
    <2>1. l = 0 \/ chunked < job
      BY <1>5
    <2>2. l = 0 => chunked = 0
      <3>1. Chunk * 0 = 0
        OBVIOUS
      <3> QED BY <1>5, <3>1
    <2> QED BY <1>3, <2>1, <2>2
  <1>7. job - chunked \in Nat /\ job - chunked <= Chunk
    BY <1>2, <1>3, <1>6 DEF ChunkDue
  <1>8. \/ err' = "compress" /\ UNCHANGED <<chunked, emitted, dest>>
        \/ /\ chunked' = chunked + (job - chunked)
           /\ emitted' \in Seq(Item) /\ Len(emitted') = l + 1
           /\ \A i \in 1 .. l : emitted'[i] = emitted[i]
           /\ emitted'[l + 1] = <<l + 1, TRUE>>
           /\ (err' = "write" /\ dest' = dest) \/ (err' = "nil" /\ dest' = emitted')
    <2>1. CompressChunk(job - chunked, TRUE) /\ TRUE \in BOOLEAN
      BY <1>2, Zenon DEF CompressLast
    <2> QED BY <1>2, <1>3, <1>5, <1>7, <2>1, ChunkIs, Zenon
  <1>9. /\ chunked' \in Nat /\ emitted' \in Seq(Item) /\ dest' \in Seq(Item)
        /\ err' \in {"nil", "compress", "write"}
    <2>1. dest' = dest \/ dest' = emitted'
      BY <1>8, Zenon
    <2>2. emitted' = emitted \/ emitted' \in Seq(Item)
      BY <1>8, Zenon
    <2>3. err' = "compress" \/ err' = "write" \/ err' = "nil"
      BY <1>8, Zenon
    <2>4. chunked' = chunked \/ chunked' = chunked + (job - chunked)
      BY <1>8, Zenon
    <2>5. chunked + (job - chunked) = job
      BY <1>3
    <2> QED BY <1>3, <1>5, <2>1, <2>2, <2>3, <2>4, <2>5
  <1>10. TypeOK'
    BY <1>1, <1>2, <1>9 DEF TypeOK, Errors
  <1>11. GivenOK' /\ CountOK'
    BY <1>1, <1>2 DEF GivenOK, CountOK
  <1>12. PlaceOK'
    BY <1>1, <1>2, <1>4 DEF PlaceOK, Closing
  <1>13. JobOK'
    <2>1. CASE err' # "nil"
      BY <1>2, <2>1, NoDirect
    <2>2. CASE err' = "nil"
      <3>1. /\ chunked' = chunked + (job - chunked) /\ Len(emitted') = l + 1 /\ dest' = emitted'
            /\ \A i \in 1 .. l : emitted'[i] = emitted[i]
            /\ emitted'[l + 1] = <<l + 1, TRUE>>
        BY <1>8, <2>2, Zenon
      <3>2. chunked' = job'
        <4>1. chunked + (job - chunked) = job
          BY <1>3
        <4> QED BY <1>2, <3>1, <4>1
      \* The chunk is the last one.
      <3>3. (IF given = 0 THEN 1 ELSE Chunks(given)) = l + 1
        <4>1. CASE given = 0
          <5>1. l = 0
            BY <1>3, <1>4, <1>6, <4>1
          <5> QED BY <4>1, <5>1
        <4>2. CASE given > 0
          <5>1. Chunk * l < given /\ given <= Chunk * l + Chunk
            BY <1>3, <1>4, <1>5, <1>6, <1>7, <4>2
          <5>2. l \in Nat
            BY <1>3
          <5> HIDE DEF l
          <5>3. (given + Chunk - 1) \div Chunk = l + 1
            BY <1>3, <5>1, <5>2, RoundUpIs
          <5> QED BY <4>2, <5>3 DEF Chunks
        <4> QED BY <1>3, <4>1, <4>2
      <3> DEFINE f == Frame(given)
                 last == <<l + 1, TRUE>>
      <3>4. /\ f \in Seq(Item) /\ Len(f) = l + 1
            /\ \A i \in 1 .. l : f[i] = <<i, FALSE>>
            /\ f[l + 1] = last
        <4>1. kind = "emulated" /\ given <= JobSize
          BY <1>4
        <4> DEFINE k == IF given = 0 THEN 1 ELSE Chunks(given)
        <4>2. /\ f \in Seq(Item) /\ Len(f) = k
              /\ \A i \in 1 .. k - 1 : f[i] = <<i, FALSE>>
              /\ f[k] = <<k, TRUE>>
          BY <1>3, <4>1, FrameInOrder, Zenon
        <4>3. k = l + 1
          BY <3>3
        <4>4. 1 .. k - 1 = 1 .. l
          <5>1. k - 1 = l
            <6> HIDE DEF k
            <6> QED BY <1>3, <4>3
          <5> HIDE DEF k
          <5> QED BY <5>1
        <4> HIDE DEF f, k
        <4> QED BY <4>2, <4>3, <4>4, Zenon
      <3> HIDE DEF f, last
      <3>5. \A i \in 1 .. l + 1 : emitted'[i] = f[i]
        <4> TAKE i \in 1 .. l + 1
        <4>1. CASE i \in 1 .. l
          BY <4>1, <1>5, <3>1, <3>4, Zenon DEF Middle
        <4>2. CASE i = l + 1
          BY <4>2, <3>1, <3>4, Zenon DEF last
        <4>3. i \in 1 .. l \/ i = l + 1
          BY <1>3
        <4> QED BY <4>1, <4>2, <4>3
      <3>6. emitted' = f
        <4>1. Len(emitted') = Len(f) /\ f \in Seq(Item) /\ emitted' \in Seq(Item)
          BY <1>9, <3>1, <3>4, Zenon
        <4>2. \A i \in 1 .. Len(emitted') : emitted'[i] = f[i]
          BY <3>1, <3>5, Zenon
        <4> QED BY <4>1, <4>2, SeqEqual
      <3>7. Frame(given)' = f
        <4>1. Frame(given)' = Frame(given')
          BY <1>2, SameInput
        <4> QED BY <1>2, <4>1 DEF f
      <3>8. dpc' = "done" /\ dest' = emitted' /\ direct' = "none"
        BY <1>2, <3>1, Zenon
      <3> QED BY <3>2, <3>6, <3>7, <3>8 DEF JobOK
    <2> QED BY <2>1, <2>2
  <1>14. ReturnOK' /\ LiveOK'
    BY <1>1, <1>2, <1>9 DEF ReturnOK, LiveOK
  <1> QED BY <1>2, <1>10, <1>11, <1>12, <1>13, <1>14, NoDirect DEF Core

LEMMA CapIs ==
    ASSUME TypeOK, GivenOK
    PROVE  /\ Cap \in Nat \ {0} /\ BatchSize \in Nat \ {0}
           /\ kind = "all" \/ (kind = "head" /\ calls # <<>>) => Cap > given
           /\ ~(kind = "all" \/ (kind = "head" /\ calls # <<>>)) => Cap = BatchSize
  <1>1. given \in Nat /\ given <= MaxInput
    BY DEF TypeOK, GivenOK
  <1> QED BY <1>1 DEF Cap, BatchSize

LEMMA FillHolds ==
    ASSUME Core, Fill
    PROVE  Core'
  <1>1. TypeOK /\ GivenOK /\ PlaceOK /\ CountOK /\ CallsOK /\ JobOK /\ OutputOK /\ ReturnOK /\ LiveOK
    BY DEF Core
  <1> DEFINE n == Least(Room, Source)
  <1>2. /\ direct = "open" /\ err = "nil" /\ pc \in {"write", "replay"} /\ dpc = "fill"
        /\ ~BatchDue /\ Source > 0
        /\ Take(n) /\ pending' = pending + n
        /\ UNCHANGED <<kind, lib, given, pc, job, chunked, emitted, pos, direct, dpc,
                       calls, rest, took, made, err, ret, live, dest>>
    BY DEF Fill, Driving, caller, emulation, compressor
  <1>3. /\ pending \in Nat /\ again \in Nat /\ left \in Nat /\ given \in Nat /\ left <= given
        /\ took \in Nat /\ rest \in Nat
    BY <1>1 DEF TypeOK, GivenOK
  <1>4. Source \in Nat /\ Source = IF pc = "replay" THEN again ELSE left
    BY <1>3 DEF Source
  <1>5. Body
    BY <1>1, <1>2 DEF CallsOK, Closing
  <1>6. Cap \in Nat /\ pending < Cap
    <2>1. Cap \in Nat /\ pending <= Cap
      BY <1>1, <1>5, CapIs DEF Body
    <2>2. pending # Cap
      BY <1>2 DEF BatchDue
    <2> QED BY <1>3, <2>1, <2>2
  <1>7. n \in Nat /\ n >= 1 /\ n <= Source /\ pending + n <= Cap
    <2>1. Room = Cap - pending /\ Room \in Nat /\ Room >= 1
      BY <1>3, <1>6 DEF Room
    <2>2. n \in Nat /\ n <= Room /\ n <= Source /\ (n = Room \/ n = Source)
      BY <1>4, <2>1, LeastIs
    <2> HIDE DEF n
    <2> QED BY <1>2, <1>3, <1>4, <1>6, <2>1, <2>2
  <1>8. \/ pc = "replay" /\ again' = again - n /\ left' = left /\ n <= again
        \/ pc = "write" /\ left' = left - n /\ again' = again /\ n <= left
    BY <1>2, <1>4, <1>7 DEF Take
  <1> HIDE DEF n
  <1>9. again' \in Nat /\ left' \in Nat /\ pending' \in Nat /\ left' <= given
    BY <1>2, <1>3, <1>7, <1>8
  <1>10. TypeOK' /\ GivenOK'
    BY <1>1, <1>2, <1>9 DEF TypeOK, GivenOK
  <1>11. PlaceOK'
    BY <1>1, <1>2, <1>8 DEF PlaceOK, Closing
  <1>12. CountOK'
    <2>1. took' + rest' + pending' + again' = given' - left'
      <3>1. took + rest + pending + again = given - left
        BY <1>1, <1>2 DEF CountOK
      <3>2. /\ took' = took /\ rest' = rest /\ given' = given /\ pending' = pending + n
        BY <1>2
      <3> QED BY <3>1, <3>2, <1>3, <1>7, <1>8
    <2> QED BY <1>1, <1>2, <2>1 DEF CountOK
  <1>13. CallsOK'
    <2>1. pending' <= Cap /\ pending' > 0
      BY <1>2, <1>3, <1>7
    <2>2. Body'
      BY <1>2, <1>5, <2>1, BodyStays
    <2> QED BY <1>2, <2>2 DEF CallsOK, Closing
  <1>14. JobOK' /\ OutputOK'
    BY <1>1, <1>2, JobStays, OutputStays DEF Ending
  <1>15. ReturnOK' /\ LiveOK'
    BY <1>1, <1>2 DEF ReturnOK, LiveOK
  <1> QED BY <1>10, <1>11, <1>12, <1>13, <1>14, <1>15 DEF Core

\* Before Close or after it, the last batch is what is left of the input.
LEMMA RemainderIs ==
    ASSUME Core, err = "nil", direct = "open", pc = "close", dpc = "fill", Body, ~BatchDue,
           Batching
    PROVE  /\ Full(given) = Len(calls) /\ LastBatch(given) = pending
           /\ took = InCap * Len(calls) /\ given = took + pending /\ rest = 0
           /\ Len(calls) \in Nat
  <1>1. TypeOK /\ GivenOK /\ PlaceOK /\ CountOK
    BY DEF Core
  <1>2. /\ given \in Nat /\ pending \in Nat /\ took \in Nat /\ rest \in Nat /\ calls \in Seq(Call)
        /\ again \in Nat
    BY <1>1 DEF TypeOK
  <1>3. rest = 0 /\ again = 0 /\ left = 0
    <2>1. ~(rest > 0)
      BY <1>1 DEF PlaceOK
    <2> QED BY <1>1, <1>2, <2>1 DEF PlaceOK
  <1>4. given = took + pending
    BY <1>1, <1>2, <1>3 DEF CountOK
  <1> DEFINE k == Len(calls)
  <1>5. k \in Nat /\ (calls = <<>> <=> k = 0)
    BY <1>2, EmptyIffNone
  <1>6. took = InCap * k
    <2>1. BatchSize = InCap /\ took + rest = BatchSize * k
      BY DEF Batching, BatchSize, Body
    <2> QED BY <1>2, <1>3, <2>1
  <1>7. Cap = InCap
    BY DEF Cap, Batching
  <1>8. /\ pending <= InCap
        /\ Eager => pending < InCap
        /\ ~Eager => (given > 0 => pending > 0)
    <2>1. pending <= InCap
      BY <1>7 DEF Body
    <2>2. Eager => pending # InCap
      BY <1>7 DEF BatchDue
    <2>3. ASSUME ~Eager, given > 0 PROVE pending > 0
      <3>1. Source = 0
        BY <1>3 DEF Source
      <3>2. CASE k = 0
        <4>1. InCap * k = 0
          <5> HIDE DEF k
          <5> QED BY <3>2
        <4> QED BY <1>2, <1>4, <1>6, <2>3, <4>1
      <3>3. CASE k # 0
        BY <1>5, <2>3, <3>1, <3>3 DEF Body
      <3> QED BY <3>2, <3>3
    <2> QED BY <1>2, <2>1, <2>2, <2>3
  <1>9. given = InCap * k + pending
    BY <1>4, <1>6
  <1> HIDE DEF k
  <1>10. Full(given) = k /\ LastBatch(given) = pending
    BY <1>2, <1>5, <1>8, <1>9, OneWayToBatch
  <1> QED BY <1>3, <1>4, <1>5, <1>6, <1>10 DEF k

\* Each time the batch is as large as it gets.
LEMMA BatchIsFull ==
    ASSUME Core, direct = "open", pc \in {"write", "replay"}, BatchDue
    PROVE  /\ pending = BatchSize /\ Cap = BatchSize
           /\ kind # "all" /\ (kind = "head" => calls = <<>>)
  <1>1. TypeOK /\ GivenOK /\ CountOK
    BY DEF Core
  <1>2. /\ given \in Nat /\ pending \in Nat /\ took \in Nat /\ rest \in Nat /\ again \in Nat
        /\ left \in Nat /\ took + rest + pending + again = given - left
    BY <1>1 DEF TypeOK, CountOK
  <1>3. pending <= given
    BY <1>2
  <1>4. pending = Cap
    BY DEF BatchDue
  <1>5. ~(kind = "all" \/ (kind = "head" /\ calls # <<>>))
    <2>1. Cap \in Nat
      BY <1>1, CapIs
    <2> QED BY <1>1, <1>2, <1>3, <1>4, <2>1, CapIs
  <1> QED BY <1>1, <1>4, <1>5, CapIs

LEMMA BatchHolds ==
    ASSUME Core, Batch
    PROVE  Core'
  <1>1. TypeOK /\ GivenOK /\ PlaceOK /\ CountOK /\ CallsOK /\ JobOK /\ OutputOK /\ ReturnOK /\ LiveOK
    BY DEF Core
  <1> DEFINE x == <<IF kind = "head" THEN "flush" ELSE "continue", pending>>
  <1>2. /\ direct = "open" /\ err = "nil" /\ dpc = "fill"
        /\ \/ pc \in {"write", "replay"} /\ BatchDue
           \/ pc = "close" /\ ~WithData /\ pending > 0
        /\ calls' = Append(calls, x)
        /\ rest' = pending /\ pending' = 0 /\ dpc' = "compress"
        /\ UNCHANGED <<kind, lib, given, left, pc, job, chunked, emitted, again, pos, direct,
                       took, made, err, ret, live, dest>>
    BY DEF Batch, Driving, caller, emulation
  <1>3. /\ pending \in Nat /\ took \in Nat /\ rest \in Nat /\ calls \in Seq(Call) /\ given \in Nat
        /\ kind \in Kinds /\ again \in Nat /\ left \in Nat
    BY <1>1 DEF TypeOK
  <1>4. x \in Call
    BY <1>3 DEF Call
  <1> DEFINE k == Len(calls)
  <1>5. k \in Nat /\ (calls = <<>> <=> k = 0)
    BY <1>3, EmptyIffNone
  <1>17. calls' = Append(calls, x)
    BY <1>2
  <1> HIDE DEF x
  <1>6. /\ calls' \in Seq(Call) /\ Len(calls') = k + 1
        /\ \A i \in 1 .. k : calls'[i] = calls[i]
        /\ calls'[k + 1] = x
    BY <1>3, <1>4, <1>17, AppendProperties
  <1>7. pending > 0 /\ rest = 0
    <2>1. Cap > 0
      BY <1>1, CapIs
    <2>2. ~(rest > 0)
      BY <1>1, <1>2 DEF PlaceOK
    <2> QED BY <1>2, <1>3, <2>1, <2>2 DEF BatchDue
  <1>8. TypeOK'
    BY <1>1, <1>2, <1>3, <1>6 DEF TypeOK
  <1>9. GivenOK'
    BY <1>1, <1>2 DEF GivenOK
  <1>10. PlaceOK'
    BY <1>1, <1>2, <1>7 DEF PlaceOK, Closing
  <1>11. CountOK'
    <2>1. took' + rest' + pending' + again' = given' - left'
      BY <1>1, <1>2, <1>3, <1>7 DEF CountOK
    <2> QED BY <1>1, <1>2, <2>1 DEF CountOK
  <1>12. CallsOK'
    <2>1. CASE pc \in {"write", "replay"} /\ BatchDue
      <3>1. Body
        BY <1>1, <1>2, <2>1 DEF CallsOK, Closing
      <3>2. /\ pending = BatchSize /\ Cap = BatchSize
            /\ kind # "all" /\ (kind = "head" => calls = <<>>)
        BY <1>2, <2>1, BatchIsFull
      <3>3. BatchSize' = BatchSize /\ BatchCall' = BatchCall /\ Eager' = Eager
        BY <1>2, SameInput
      <3>4. x = BatchCall
        BY <3>2 DEF BatchSize, BatchCall, x
      <3>5. \A i \in 1 .. Len(calls') : calls'[i] = BatchCall'
        <4>1. \A i \in 1 .. k : calls[i] = BatchCall
          BY <3>1 DEF Body
        <4>2. \A i \in 1 .. k + 1 : i \in 1 .. k \/ i = k + 1
          BY <1>5
        <4> QED BY <1>6, <3>3, <3>4, <4>1, <4>2
      <3>6. (kind' = "all" => calls' = <<>>) /\ (kind' = "head" => Len(calls') <= 1)
        BY <1>2, <1>5, <1>6, <3>2
      <3>7. took' + rest' = BatchSize' * Len(calls')
        <4>1. took + rest = BatchSize * k /\ BatchSize \in Nat
          BY <1>1, <3>1, CapIs DEF Body
        <4>2. BatchSize * (k + 1) = BatchSize * k + BatchSize
          BY <1>5, <4>1
        <4>3. took' + rest' = took + BatchSize
          BY <1>2, <3>2
        <4> HIDE DEF k
        <4> QED BY <1>3, <1>6, <1>7, <3>3, <4>1, <4>2, <4>3
      <3>8. pending' <= Cap'
        <4>1. Cap' \in Nat
          BY <1>2, <1>1 DEF Cap, GivenOK
        <4> QED BY <1>2, <4>1
      <3>9. ~Eager' => Source' > 0
        <4>1. ~Eager => Source > 0
          BY <2>1 DEF BatchDue
        <4>2. Source' = Source
          BY <1>2 DEF Source
        <4> QED BY <3>3, <4>1, <4>2
      <3>10. Body'
        BY <3>5, <3>6, <3>7, <3>8, <3>9 DEF Body
      <3> QED BY <1>2, <2>1, <3>10 DEF CallsOK, Closing
    <2>2. CASE pc = "close" /\ ~WithData /\ pending > 0
      <3>1. Body /\ ~BatchDue
        BY <1>1, <1>2, <2>2 DEF CallsOK, Closing, Remainder, Ended
      <3>2. Batching
        BY <2>2, <1>3 DEF Batching, WithData
      <3>3. /\ Full(given) = k /\ LastBatch(given) = pending /\ given = took + pending
        BY <1>2, <2>2, <3>1, <3>2, RemainderIs
      <3>4. /\ EndingCalls(given) = <<<<"continue", pending>>, <<"end", 0>>>>
        BY <1>3, <2>2, <3>3 DEF EndingCalls
      <3>5. /\ Len(EndingCalls(given)) = 2
            /\ EndingCalls(given)[1] = <<"continue", pending>>
        BY <3>4
      <3> DEFINE c == Calls(given)
      <3>6. /\ c \in Seq(Call) /\ Len(c) = k + 2
            /\ \A i \in 1 .. k : c[i] = <<"continue", InCap>>
            /\ c[k + 1] = <<"continue", pending>>
        <4>1. /\ c \in Seq(Call) /\ Len(c) = Full(given) + Len(EndingCalls(given))
              /\ \A i \in 1 .. Full(given) : c[i] = <<"continue", InCap>>
              /\ \A i \in 1 .. Len(EndingCalls(given)) : c[Full(given) + i] = EndingCalls(given)[i]
          BY <1>3, <3>2, BatchedCalls
        <4>2. 1 \in 1 .. Len(EndingCalls(given))
          BY <3>5
        <4> HIDE DEF c, k
        <4>3. c[k + 1] = EndingCalls(given)[1]
          BY <3>3, <4>1, <4>2
        <4> QED BY <3>3, <3>5, <4>1, <4>3
      <3> HIDE DEF c
      <3>7. \A i \in 1 .. k : calls[i] = <<"continue", InCap>>
        <4>1. BatchCall = <<"continue", InCap>>
          BY <3>2 DEF BatchCall, Batching
        <4> QED BY <3>1, <4>1 DEF Body
      <3>8. x = <<"continue", pending>>
        BY <3>2 DEF x, Batching
      <3>9. \A i \in 1 .. k + 1 : calls'[i] = c[i]
        <4>1. \A i \in 1 .. k + 1 : i \in 1 .. k \/ i = k + 1
          BY <1>5
        <4> QED BY <1>6, <3>6, <3>7, <3>8, <4>1
      <3>10. IsPrefix(calls', c)
        <4>1. Len(calls') <= Len(c)
          BY <1>5, <1>6, <3>6
        <4> QED BY <1>6, <3>6, <3>9, <4>1, PrefixByItem
      <3>11. Calls(given)' = c
        <4>1. Calls(given)' = Calls(given')
          BY <1>2, SameInput
        <4> QED BY <1>2, <4>1 DEF c
      <3>12. Remainder'
        <4>1. WithData' = WithData
          BY <1>2, SameInput
        <4>2. took' + rest' = given'
          BY <1>2, <3>3
        <4>3. SplitFree'
          BY <3>10, <3>11 DEF SplitFree
        <4>4. Len(calls') = Len(Calls(given)') - 1
          BY <1>5, <1>6, <3>6, <3>11
        <4> QED BY <1>2, <2>2, <4>1, <4>2, <4>3, <4>4 DEF Remainder
      <3> QED BY <1>2, <2>2, <3>12 DEF CallsOK, Closing
    <2> QED BY <1>2, <2>1, <2>2
  <1>13. JobOK'
    BY <1>1, <1>2, JobStays
  <1>14. OutputOK'
    <2>1. ~Ending /\ ~Ending' /\ dpc' # "fill"
      BY <1>2 DEF Ending
    <2> QED BY <1>1, <1>2, <2>1, OutputStays
  <1>15. ReturnOK' /\ LiveOK'
    BY <1>1, <1>2 DEF ReturnOK, LiveOK
  <1> QED BY <1>8, <1>9, <1>10, <1>11, <1>12, <1>13, <1>14, <1>15 DEF Core

\* A call into the compressor: an error, or some more of the output is passed on.
LEMMA Produced ==
    ASSUME Core, direct = "open", err = "nil", NEW s \in Seq(Item), NEW l \in Nat, Replays(s),
           Produce(Output(s), l)
    PROVE  /\ err' \in Errors /\ pos' \in Nat /\ dest' \in Seq(Item) /\ made' \in Nat
           /\ err' = "replay" => lib.how # "same"
           /\ err' # "nil" => dest' = dest
           /\ err' = "nil" =>
                /\ made <= made' /\ made' <= Len(Output(s))
                /\ made' >= Least(made + l, Len(Output(s)))
                /\ pos' = Least(made', Len(emitted))
                /\ Len(dest') = IF made' < Len(emitted) THEN Len(emitted) ELSE made'
                /\ \A i \in 1 .. Len(dest') :
                     dest'[i] = IF i <= Len(dest) THEN dest[i] ELSE s[i]
                /\ lib.how = "differs" => made' < lib.at
                /\ lib.how = "short" => made' <= lib.at
  <1>1. TypeOK /\ GivenOK /\ OutputOK /\ JobOK
    BY DEF Core
  <1>2. /\ lib \in Lib /\ emitted \in Seq(Item) /\ dest \in Seq(Item) /\ made \in Nat /\ pos \in Nat
        /\ Len(emitted) \in Nat
    BY <1>1, LenProperties DEF TypeOK
  <1>3. /\ pos = Least(made, Len(emitted))
        /\ Len(dest) = IF made < Len(emitted) THEN Len(emitted) ELSE made
        /\ lib.how = "differs" => made < lib.at
        /\ lib.how = "short" => made <= lib.at
    BY <1>1 DEF OutputOK
  <1>4. Middle(emitted) /\ (kind = "emulated" => Len(emitted) = JobChunks)
    BY <1>1 DEF JobOK
  <1>5. lib.how = "differs" => lib.at <= Len(emitted)
    <2>1. lib.how = "differs" => kind = "emulated"
      BY <1>1 DEF GivenOK
    <2> QED BY <1>2, <1>4, <2>1, LibIs
  <1>6. Len(Output(s)) \in Nat
    BY <1>2, OutputIs, LenProperties
  <1>7. CASE err' = "compress" /\ UNCHANGED <<made, pos, dest>>
    BY <1>2, <1>7 DEF Errors
  <1>8. CASE \E m \in made .. Len(Output(s)) :
               /\ m >= Least(made + l, Len(Output(s)))
               /\ made' = m
               /\ Emit(SubSeq(Output(s), made + 1, m))
    <2>1. PICK m \in made .. Len(Output(s)) :
               /\ m >= Least(made + l, Len(Output(s)))
               /\ made' = m
               /\ Emit(SubSeq(Output(s), made + 1, m))
      BY <1>8
    <2>2. m \in Nat /\ made <= m /\ m <= Len(Output(s))
      BY <1>2, <1>6
    <2>3. /\ err' \in Errors /\ pos' \in Nat /\ dest' \in Seq(Item)
          /\ err' = "replay" => lib.how # "same"
          /\ err' # "nil" => dest' = dest
          /\ err' = "nil" =>
               /\ pos' = Least(m, Len(emitted))
               /\ Len(dest') = IF m < Len(emitted) THEN Len(emitted) ELSE m
               /\ \A i \in 1 .. Len(dest') :
                    dest'[i] = IF i <= Len(dest) THEN dest[i] ELSE s[i]
               /\ lib.how = "differs" => m < lib.at
               /\ lib.how = "short" => m <= lib.at
      <3>1. CanEmit(s, m)
        BY <1>2, <1>3, <1>4, <1>5, <2>1, <2>2 DEF CanEmit
      <3> QED BY <3>1, EmitIs DEF Emitted
    <2> HIDE <1>8
    <2> QED BY <2>1, <2>2, <2>3, Zenon
  <1> QED BY <1>7, <1>8 DEF Produce

\* In the middle of the frame, what comes out are chunks the compressor has whole.
LEMMA MoreChunks ==
    ASSUME Core, direct = "open", err = "nil", ~Ending, NEW t \in Nat, took <= t,
           NEW l \in Nat, Produce(Output(Items(Chunk * Ready(t))), l)
    PROVE  /\ err' \in Errors /\ pos' \in Nat /\ dest' \in Seq(Item) /\ made' \in Nat
           /\ err' = "replay" => lib.how # "same"
           /\ err' # "nil" => dest' = dest
           /\ err' = "nil" =>
                /\ pos' = Least(made', Len(emitted))
                /\ Len(dest') = IF made' < Len(emitted) THEN Len(emitted) ELSE made'
                /\ Chunk * made' <= t /\ Middle(dest)'
                /\ lib.how = "differs" => made' < lib.at
                /\ lib.how = "short" => made' <= lib.at
                /\ Jobs /\ l > 0 /\ t >= JobSize => made' > 0
  <1>1. TypeOK /\ OutputOK /\ JobOK
    BY DEF Core
  <1> DEFINE s == Items(Chunk * Ready(t))
             r == Ready(t)
  <1>2. /\ r \in Nat /\ Chunk * r \in Nat /\ Chunk * r <= t
        /\ Jobs /\ t >= JobSize => r >= 1
    BY ReadyIs
  <1>3. s \in Seq(Item) /\ Len(s) = r /\ Middle(s)
    <2>1. Chunk * r \in Nat /\ Chunks(Chunk * r) = r
      BY <1>2, WholeChunks
    <2>2. s = Items(Chunk * r)
      OBVIOUS
    <2> HIDE DEF s, r
    <2> QED BY <2>1, <2>2, ItemsInOrder
  <1>4. Replays(s)
    <2>1. Len(s) \in Nat
      BY <1>2, <1>3
    <2>2. \A i \in 1 .. Len(emitted) : i <= Len(s) => i \in 1 .. Len(s)
      BY <1>1, <2>1, LenProperties DEF TypeOK
    <2> HIDE DEF s
    <2> QED BY <1>3, <2>2, Zenon DEF Replays, Middle
  <1>5. lib \in Lib /\ made \in Nat /\ took \in Nat /\ dest \in Seq(Item)
    BY <1>1 DEF TypeOK
  <1> HIDE DEF s, r
  <1>6. /\ Chunk * made <= took /\ Middle(dest)
        /\ lib.how = "short" => made <= lib.at
    BY <1>1 DEF OutputOK
  <1>7. Len(Output(s)) \in Nat /\ Len(Output(s)) <= r /\ (r >= 1 => Len(Output(s)) >= 1)
    <2>1. /\ lib.how # "short" => Len(Output(s)) = r
          /\ lib.how = "short" => Len(Output(s)) = Least(lib.at, r)
      BY <1>3, <1>5, OutputIs
    <2>2. lib.at \in Nat /\ (lib.how = "short" => lib.at >= 1)
      BY <1>5, LibIs
    <2> QED BY <1>2, <2>1, <2>2 DEF Least
  <1>8. /\ err' \in Errors /\ pos' \in Nat /\ dest' \in Seq(Item) /\ made' \in Nat
        /\ err' = "replay" => lib.how # "same"
        /\ err' # "nil" => dest' = dest
        /\ err' = "nil" =>
             /\ made <= made' /\ made' <= Len(Output(s))
             /\ made' >= Least(made + l, Len(Output(s)))
             /\ pos' = Least(made', Len(emitted))
             /\ Len(dest') = IF made' < Len(emitted) THEN Len(emitted) ELSE made'
             /\ \A i \in 1 .. Len(dest') :
                  dest'[i] = IF i <= Len(dest) THEN dest[i] ELSE s[i]
             /\ lib.how = "differs" => made' < lib.at
             /\ lib.how = "short" => made' <= lib.at
    <2>1. Produce(Output(s), l)
      BY DEF s
    <2> QED BY <1>3, <1>4, <2>1, Produced
  <1> SUFFICES ASSUME err' = "nil"
               PROVE  /\ Chunk * made' <= t /\ Middle(dest)'
                      /\ Jobs /\ l > 0 /\ t >= JobSize => made' > 0
    BY <1>8, Zenon
  <1>9. /\ made' \in Nat /\ made' <= Len(Output(s)) /\ made' >= Least(made + l, Len(Output(s)))
        /\ Len(dest') = IF made' < Len(emitted) THEN Len(emitted) ELSE made'
        /\ \A i \in 1 .. Len(dest') :
             dest'[i] = IF i <= Len(dest) THEN dest[i] ELSE s[i]
    BY <1>8, Zenon
  <1>10. Chunk * made' <= t
    <2>1. Chunk * made' <= Chunk * r
      <3>1. made' = r \/ made' < r
        BY <1>2, <1>7, <1>9
      <3>2. ASSUME made' < r PROVE Chunk * made' + Chunk <= Chunk * r
        BY <1>2, <1>9, <3>2, BatchEnds
      <3>3. Chunk * made' \in Nat
        BY <1>9, TimesNat
      <3> QED BY <1>2, <3>1, <3>2, <3>3
    <2>2. Chunk * made' \in Nat
      BY <1>9, TimesNat
    <2> QED BY <1>2, <2>1, <2>2
  <1>11. Middle(dest)'
    <2>1. /\ Len(dest) = IF made < Len(emitted) THEN Len(emitted) ELSE made
          /\ Len(emitted) \in Nat
      BY <1>1, LenProperties DEF OutputOK, TypeOK
    <2> SUFFICES ASSUME NEW i \in 1 .. Len(dest') PROVE dest'[i] = <<i, FALSE>>
      BY DEF Middle
    <2>2. CASE i <= Len(dest)
      <3>1. i \in 1 .. Len(dest)
        BY <1>5, <2>1, <2>2
      <3> QED BY <1>6, <1>9, <2>2, <3>1, Zenon DEF Middle
    <2>3. CASE ~(i <= Len(dest))
      <3>1. i \in 1 .. Len(s)
        <4>1. Len(dest') = made' /\ made' <= r
          <5>1. i \in Nat /\ i <= Len(dest') /\ i > Len(dest) /\ Len(dest) >= Len(emitted)
            BY <1>5, <1>9, <2>1, <2>3
          <5> QED BY <1>2, <1>7, <1>9, <2>1, <5>1
        <4> QED BY <1>2, <1>3, <1>9, <4>1
      <3> QED BY <1>3, <1>9, <2>3, <3>1, Zenon DEF Middle
    <2> QED BY <2>2, <2>3
  <1>12. ASSUME Jobs, l > 0, t >= JobSize PROVE made' > 0
    <2>1. Len(Output(s)) >= 1 /\ made + l >= 1 /\ made + l \in Nat
      BY <1>2, <1>5, <1>7, <1>12
    <2>2. Least(made + l, Len(Output(s))) >= 1
      BY <1>7, <2>1 DEF Least
    <2> QED BY <1>9, <1>7, <2>1, <2>2 DEF Least
  <1> QED BY <1>10, <1>11, <1>12

LEMMA CompressStepHolds ==
    ASSUME Core, CompressStep
    PROVE  Core'
  <1>1. TypeOK /\ GivenOK /\ PlaceOK /\ CountOK /\ CallsOK /\ JobOK /\ OutputOK /\ ReturnOK /\ LiveOK
    BY DEF Core
  <1>2. /\ direct = "open" /\ err = "nil" /\ dpc = "compress"
        /\ UNCHANGED <<kind, lib, given, left, pc, job, chunked, emitted, again, direct,
                       pending, calls, ret, live>>
    BY DEF CompressStep, Driving, caller, emulation
  <1>3. PICK n \in 1 .. rest :
          /\ rest' = rest - n /\ took' = took + n
          /\ dpc' = IF n < rest THEN "compress" ELSE IF Waits THEN "flush" ELSE "fill"
    BY DEF CompressStep
  <1>4. /\ rest \in Nat /\ took \in Nat /\ given \in Nat /\ left \in Nat /\ pending \in Nat
        /\ again \in Nat /\ n \in Nat /\ n >= 1 /\ n <= rest
    BY <1>1 DEF TypeOK
  <1>5. PICK t \in Nat : t = took + n
    BY <1>4
  <1>6. took' = t /\ took <= t /\ took' + rest' = took + rest /\ rest' \in Nat
    BY <1>3, <1>4, <1>5
  <1>7. Produce(Output(Items(Chunk * Ready(t))), 0)
    <2>1. Produce(Output(Items(Chunk * Ready(took'))), 0)
      BY DEF CompressStep
    <2>2. took' = t
      BY <1>6
    <2> QED BY <2>1, <2>2, Zenon
  <1>8. /\ err' \in Errors /\ pos' \in Nat /\ dest' \in Seq(Item) /\ made' \in Nat
        /\ err' = "replay" => lib.how # "same"
        /\ err' = "nil" =>
             /\ pos' = Least(made', Len(emitted))
             /\ Len(dest') = IF made' < Len(emitted) THEN Len(emitted) ELSE made'
             /\ Chunk * made' <= t /\ Middle(dest)'
             /\ lib.how = "differs" => made' < lib.at
             /\ lib.how = "short" => made' <= lib.at
    <2>1. 0 \in Nat /\ ~Ending
      BY <1>2 DEF Ending
    <2> QED BY <1>2, <1>6, <1>7, <2>1, MoreChunks
  <1>9. dpc' \in {"compress", "flush", "fill"} /\ (dpc' = "fill" => ~Jobs)
    BY <1>3 DEF Waits
  <1>10. dpc' = "compress" <=> rest' > 0
    BY <1>3, <1>4
  <1>11. TypeOK'
    BY <1>1, <1>2, <1>6, <1>8, <1>9 DEF TypeOK
  <1>12. GivenOK'
    BY <1>1, <1>2 DEF GivenOK
  <1>13. pc \notin {"ready", "closed"}
    BY <1>1, <1>2 DEF PlaceOK, Emulating
  <1>14. PlaceOK'
    BY <1>1, <1>2, <1>9, <1>10, <1>13 DEF PlaceOK, Closing
  <1>15. CountOK'
    <2>1. took' + rest' + pending' + again' = given' - left'
      <3>1. took + rest + pending + again = given - left
        BY <1>1, <1>2 DEF CountOK
      <3> QED BY <1>2, <1>4, <1>6, <3>1
    <2> QED BY <1>1, <1>2, <2>1 DEF CountOK
  <1>16. CallsOK'
    <2> SUFFICES ASSUME err' = "nil" PROVE CallsOK'
      BY DEF CallsOK
    <2>1. CASE ~Closing
      <3>1. Body
        BY <1>1, <1>2, <2>1 DEF CallsOK
      <3>2. pending' <= Cap /\ (calls # <<>> /\ ~Eager => pending' > 0 \/ Source' > 0)
        BY <1>2, <3>1 DEF Body, Source
      <3>3. Body'
        BY <1>2, <1>6, <3>1, <3>2, BodyStays
      <3> QED BY <1>2, <1>13, <2>1, <3>3 DEF CallsOK, Closing
    <2>2. CASE Closing
      <3>1. Remainder
        BY <1>1, <1>2, <2>2 DEF CallsOK, Ended, Ending
      <3>2. Calls(given)' = Calls(given) /\ WithData' = WithData
        BY <1>2, SameInput
      <3>3. SplitFree'
        BY <1>2, <3>1, <3>2 DEF Remainder, SplitFree
      <3>4. Remainder'
        BY <1>2, <1>6, <1>9, <3>1, <3>2, <3>3 DEF Remainder
      <3> QED BY <1>2, <2>2, <3>4 DEF CallsOK, Closing
    <2> QED BY <2>1, <2>2
  <1>17. JobOK'
    BY <1>1, <1>2, JobStays
  <1>18. OutputOK'
    <2> SUFFICES ASSUME err' = "nil" PROVE OutputOK'
      BY DEF OutputOK
    <2>1. ~Ending' /\ dpc' # "done" /\ ~(Jobs' /\ dpc' = "fill")
      <3>1. Jobs' = Jobs
        BY <1>2, SameInput
      <3> QED BY <1>9, <3>1 DEF Ending
    <2> QED BY <1>2, <1>6, <1>8, <2>1 DEF OutputOK
  <1>19. ReturnOK' /\ LiveOK'
    BY <1>1, <1>2, <1>8, <1>13 DEF ReturnOK, LiveOK
  <1> QED BY <1>11, <1>12, <1>14, <1>15, <1>16, <1>17, <1>18, <1>19 DEF Core

LEMMA FlushHolds ==
    ASSUME Core, Flush
    PROVE  Core'
  <1>1. TypeOK /\ GivenOK /\ PlaceOK /\ CountOK /\ CallsOK /\ JobOK /\ OutputOK /\ ReturnOK /\ LiveOK
    BY DEF Core
  <1>2. /\ direct = "open" /\ err = "nil" /\ dpc = "flush" /\ dpc' = "fill"
        /\ UNCHANGED <<kind, lib, given, left, pc, job, chunked, emitted, again, direct,
                       pending, calls, rest, took, ret, live>>
        /\ Produce(Output(Items(Chunk * Ready(took))), 1)
    BY DEF Flush, Driving, caller, emulation
  <1>3. took \in Nat /\ rest = 0
    BY <1>1, <1>2 DEF TypeOK, PlaceOK
  <1>4. /\ err' \in Errors /\ pos' \in Nat /\ dest' \in Seq(Item) /\ made' \in Nat
        /\ err' = "replay" => lib.how # "same"
        /\ err' = "nil" =>
             /\ pos' = Least(made', Len(emitted))
             /\ Len(dest') = IF made' < Len(emitted) THEN Len(emitted) ELSE made'
             /\ Chunk * made' <= took /\ Middle(dest)'
             /\ lib.how = "differs" => made' < lib.at
             /\ lib.how = "short" => made' <= lib.at
             /\ Jobs /\ took >= JobSize => made' > 0
    <2>1. 1 \in Nat /\ 1 > 0 /\ ~Ending /\ took <= took
      BY <1>2, <1>3 DEF Ending
    <2> QED BY <1>2, <1>3, <2>1, MoreChunks
  <1>5. TypeOK'
    BY <1>1, <1>2, <1>4 DEF TypeOK
  <1>6. GivenOK' /\ CountOK'
    BY <1>1, <1>2 DEF GivenOK, CountOK
  <1>7. pc \notin {"ready", "closed"}
    BY <1>1, <1>2 DEF PlaceOK, Emulating
  <1>8. PlaceOK'
    BY <1>1, <1>2, <1>3, <1>7 DEF PlaceOK, Closing
  <1>9. CallsOK'
    <2> SUFFICES ASSUME err' = "nil" PROVE CallsOK'
      BY DEF CallsOK
    <2>1. CASE ~Closing
      <3>1. Body
        BY <1>1, <1>2, <2>1 DEF CallsOK
      <3>2. /\ pending' <= Cap /\ (calls # <<>> /\ ~Eager => pending' > 0 \/ Source' > 0)
            /\ took' + rest' = took + rest
        BY <1>2, <3>1 DEF Body, Source
      <3>3. Body'
        BY <1>2, <3>1, <3>2, BodyStays
      <3> QED BY <1>2, <1>7, <2>1, <3>3 DEF CallsOK, Closing
    <2>2. CASE Closing
      <3>1. Remainder
        BY <1>1, <1>2, <2>2 DEF CallsOK, Ended, Ending
      <3>2. Calls(given)' = Calls(given) /\ WithData' = WithData
        BY <1>2, SameInput
      <3>3. SplitFree'
        BY <1>2, <3>1, <3>2 DEF Remainder, SplitFree
      <3>4. Remainder'
        BY <1>2, <3>1, <3>2, <3>3 DEF Remainder
      <3> QED BY <1>2, <2>2, <3>4 DEF CallsOK, Closing
    <2> QED BY <2>1, <2>2
  <1>10. JobOK'
    BY <1>1, <1>2, JobStays
  <1>11. OutputOK'
    <2> SUFFICES ASSUME err' = "nil" PROVE OutputOK'
      BY DEF OutputOK
    <2>1. ~Ending' /\ dpc' # "done" /\ Jobs' = Jobs
      <3>1. Jobs' = Jobs
        BY <1>2, SameInput
      <3> QED BY <1>2, <3>1 DEF Ending
    <2> QED BY <1>2, <1>4, <2>1 DEF OutputOK
  <1>12. ReturnOK' /\ LiveOK'
    BY <1>1, <1>2, <1>4, <1>7 DEF ReturnOK, LiveOK
  <1> QED BY <1>5, <1>6, <1>8, <1>9, <1>10, <1>11, <1>12 DEF Core

LEMMA ReplayedHolds ==
    ASSUME Core, Replayed
    PROVE  Core'
  <1>1. TypeOK /\ GivenOK /\ PlaceOK /\ CountOK /\ CallsOK /\ JobOK /\ OutputOK /\ ReturnOK /\ LiveOK
    BY DEF Core
  <1>2. /\ pc = "replay" /\ pc' = "write" /\ (err = "nil" => dpc = "fill" /\ again = 0 /\ ~BatchDue)
        /\ live' = live \ {"job"}
        /\ UNCHANGED <<kind, lib, given, left, job, chunked, emitted, again, pos, direct, dpc, pending,
                       calls, rest, took, made, err, ret, dest>>
    BY DEF Replayed, FreedJob, caller, emulation, compressor
  <1>3. direct = "open" /\ kind = "emulated" /\ left > 0 /\ dpc \notin {"end", "done"}
    BY <1>1, <1>2 DEF PlaceOK, TypeOK, Closing
  <1>4. live = {"job", "direct"}
    BY <1>1, <1>2, <1>3 DEF LiveOK
  <1>5. TypeOK' /\ GivenOK' /\ CountOK'
    BY <1>1, <1>2 DEF TypeOK, GivenOK, CountOK
  <1>6. PlaceOK'
    BY <1>1, <1>2, <1>3 DEF PlaceOK, Closing
  <1>7. CallsOK'
    <2> SUFFICES ASSUME err = "nil" PROVE Body'
      BY <1>2 DEF CallsOK, Closing
    <2>1. Body
      BY <1>1, <1>2, <1>3 DEF CallsOK, Closing
    <2>2. Source' > 0 /\ pending' <= Cap /\ took' + rest' = took + rest
      BY <1>2, <1>3, <2>1 DEF Source, Body
    <2> QED BY <1>2, <2>1, <2>2, BodyStays
  <1>8. JobOK'
    BY <1>1, <1>2, <1>3, JobStays
  <1>9. OutputOK'
    BY <1>1, <1>2, <1>3, OutputStays DEF Ending
  <1>10. ReturnOK'
    BY <1>1, <1>2 DEF ReturnOK
  <1>11. LiveOK'
    <2>1. live' = {"direct"}
      BY <1>2, <1>4
    <2> QED BY <1>2, <1>3, <2>1 DEF LiveOK
  <1> QED BY <1>5, <1>6, <1>7, <1>8, <1>9, <1>10, <1>11 DEF Core

LEMMA WriteReturnsHolds ==
    ASSUME Core, WriteReturns
    PROVE  Core'
  <1>1. TypeOK /\ GivenOK /\ PlaceOK /\ CountOK /\ CallsOK /\ JobOK /\ OutputOK /\ ReturnOK /\ LiveOK
    BY DEF Core
  <1>2. /\ \/ pc \in {"write", "handover"} /\ err # "nil"
           \/ /\ pc = "write" /\ left = 0
              /\ IF direct = "none" THEN ~ChunkDue ELSE dpc = "fill" /\ ~BatchDue
        /\ pc' = "ready"
        /\ UNCHANGED <<kind, lib, given, left, job, chunked, emitted, again, pos, direct, dpc, pending,
                       calls, rest, took, made, err, ret, live, dest>>
    BY DEF WriteReturns, Emulating, caller, emulation, compressor
  <1>3. dpc \notin {"end", "done"} /\ ~Closing /\ ~Closing'
    BY <1>1, <1>2 DEF PlaceOK, Closing
  <1>4. TypeOK' /\ GivenOK' /\ CountOK'
    BY <1>1, <1>2 DEF TypeOK, GivenOK, CountOK
  <1>5. PlaceOK'
    <2>1. ChunkDue' <=> ChunkDue
      BY <1>2 DEF ChunkDue
    <2> QED BY <1>1, <1>2, <1>3, <2>1 DEF PlaceOK, Closing, Emulating
  <1>6. CallsOK'
    <2> SUFFICES ASSUME direct = "open", err = "nil" PROVE Body' /\ ~BatchDue'
      BY <1>2, <1>3 DEF CallsOK
    <2>1. Body /\ ~BatchDue /\ pc = "write"
      BY <1>1, <1>2, <1>3 DEF CallsOK
    <2>2. Source' = Source /\ Cap' = Cap /\ Eager' = Eager
      BY <1>2, <2>1 DEF Source, Cap, Eager
    <2>3. /\ pending' <= Cap /\ took' + rest' = took + rest
          /\ calls # <<>> /\ ~Eager => pending' > 0 \/ Source' > 0
      BY <1>2, <2>1, <2>2 DEF Body
    <2>4. Body'
      BY <1>2, <2>1, <2>3, BodyStays
    <2>5. ~BatchDue'
      BY <1>2, <2>1, <2>2 DEF BatchDue
    <2> QED BY <2>4, <2>5
  <1>7. JobOK'
    <2>1. CASE direct = "open"
      BY <1>1, <1>2, <2>1, JobStays
    <2>2. CASE direct = "none" /\ err = "nil"
      BY <1>1, <1>2, <1>3, <2>2, JobWaits DEF emulation
    <2>3. CASE direct = "none" /\ err # "nil"
      BY <1>2, <2>3, NoDirect
    <2> QED BY <1>1, <2>1, <2>2, <2>3 DEF TypeOK
  <1>8. OutputOK'
    <2>1. CASE direct = "open"
      BY <1>1, <1>2, <2>1, OutputStays DEF Ending
    <2>2. CASE direct = "none"
      BY <1>2, <2>2, NoDirect
    <2> QED BY <1>1, <2>1, <2>2 DEF TypeOK
  <1>9. ReturnOK' /\ LiveOK'
    BY <1>1, <1>2 DEF ReturnOK, LiveOK
  <1> QED BY <1>4, <1>5, <1>6, <1>7, <1>8, <1>9 DEF Core

LEMMA OneMore ==
    ASSUME NEW S, NEW s \in Seq(S), NEW t \in Seq(S), Len(t) = Len(s) + 1,
           \A i \in 1 .. Len(s) : s[i] = t[i]
    PROVE  Append(s, t[Len(s) + 1]) = t
  <1> DEFINE k == Len(s)
             x == t[k + 1]
  <1>1. k \in Nat
    BY LenProperties
  <1>2. x \in S
    <2>1. k + 1 \in 1 .. Len(t)
      BY <1>1
    <2> QED BY <2>1, LenProperties
  <1>3. k = Len(s)
    OBVIOUS
  <1> DEFINE a == Append(s, x)
  <1> HIDE DEF x
  <1>4. /\ a \in Seq(S) /\ Len(a) = k + 1
        /\ \A i \in 1 .. k : a[i] = s[i]
        /\ a[k + 1] = x
    BY <1>1, <1>2, AppendProperties
  <1> HIDE DEF a, k
  <1>5. \A i \in 1 .. k + 1 : a[i] = t[i]
    <2> TAKE i \in 1 .. k + 1
    <2>1. CASE i \in 1 .. k
      BY <2>1, <1>3, <1>4
    <2>2. CASE i = k + 1
      BY <2>2, <1>4 DEF x
    <2>3. i \in 1 .. k \/ i = k + 1
      BY <1>1
    <2> QED BY <2>1, <2>2, <2>3
  <1>6. a = t
    BY <1>3, <1>4, <1>5, SeqEqual
  <1> QED BY <1>6, <1>3 DEF a, x

\* With the end, the compressor has had all its calls.
LEMMA AllCalls ==
    ASSUME Core, direct = "open", err = "nil", pc = "close", dpc = "fill",
           WithData \/ pending = 0
    PROVE  /\ Append(calls, <<"end", pending>>) = Calls(given)
           /\ took + pending = given
  <1>1. TypeOK /\ GivenOK /\ PlaceOK /\ CountOK /\ CallsOK
    BY DEF Core
  <1>2. /\ given \in Nat /\ pending \in Nat /\ took \in Nat /\ rest \in Nat /\ calls \in Seq(Call)
        /\ again \in Nat /\ kind \in Kinds
    BY <1>1 DEF TypeOK
  <1>3. rest = 0 /\ again = 0 /\ left = 0
    <2>1. ~(rest > 0)
      BY <1>1 DEF PlaceOK
    <2> QED BY <1>1, <1>2, <2>1 DEF PlaceOK
  <1>4. took + pending = given
    BY <1>1, <1>2, <1>3 DEF CountOK
  <1> DEFINE k == Len(calls)
             c == Calls(given)
             x == <<"end", pending>>
  <1>5. k \in Nat /\ (calls = <<>> <=> k = 0)
    BY <1>2, EmptyIffNone
  <1>6. c \in Seq(Call)
    BY <1>2, CallsType
  <1>7. SUFFICES Len(c) = k + 1 /\ c[k + 1] = x /\ \A i \in 1 .. k : calls[i] = c[i]
    <2>1. ASSUME Len(c) = k + 1, c[k + 1] = x, \A i \in 1 .. k : calls[i] = c[i]
          PROVE  Append(calls, x) = c
      <3> HIDE DEF c, x
      <3>1. Append(calls, c[Len(calls) + 1]) = c
        BY <1>2, <1>6, <2>1, OneMore
      <3> QED BY <3>1, <2>1
    <2> QED BY <1>4, <2>1
  <1>8. CASE Body /\ ~BatchDue /\ Batching
    <2>1. Full(given) = k /\ LastBatch(given) = pending
      BY <1>8, RemainderIs
    <2>2. EndingCalls(given) = <<x>>
      BY <2>1 DEF EndingCalls
    <2>3. /\ Len(c) = Full(given) + Len(EndingCalls(given))
          /\ \A i \in 1 .. Full(given) : c[i] = <<"continue", InCap>>
          /\ \A i \in 1 .. Len(EndingCalls(given)) : c[Full(given) + i] = EndingCalls(given)[i]
      BY <1>2, <1>8, BatchedCalls
    <2>4. BatchCall = <<"continue", InCap>>
      BY <1>8 DEF BatchCall, Batching
    <2>5. \A i \in 1 .. k : calls[i] = <<"continue", InCap>>
      BY <1>8, <2>4 DEF Body
    <2> HIDE DEF c, k, x
    <2>6. Len(EndingCalls(given)) = 1 /\ EndingCalls(given)[1] = x /\ 1 \in 1 .. 1
      BY <2>2
    <2>7. c[k + 1] = x
      BY <2>1, <2>3, <2>6
    <2> QED BY <2>1, <2>3, <2>5, <2>6, <2>7
  <1>9. CASE Body /\ ~BatchDue /\ kind = "all"
    <2>1. calls = <<>> /\ k = 0
      BY <1>9, <1>5 DEF Body
    <2>2. took = 0
      <3>1. took + rest = BatchSize * k
        BY <1>9 DEF Body
      <3>2. BatchSize * 0 = 0
        BY <1>1, CapIs
      <3> QED BY <1>2, <1>3, <2>1, <3>1, <3>2
    <2>3. c = <<<<"end", given>>>> /\ given = pending
      BY <1>2, <1>4, <1>9, <2>2, OtherCalls
    <2>4. c = <<x>>
      BY <2>3
    <2> HIDE DEF c, x, k
    <2>5. Len(c) = 1 /\ c[1] = x
      BY <2>4
    <2> QED BY <2>1, <2>5
  <1>10. CASE Body /\ ~BatchDue /\ kind = "head"
    <2>1. /\ k <= 1 /\ took = HeadSize * k /\ pending <= Cap /\ pending # Cap
          /\ \A i \in 1 .. k : calls[i] = <<"flush", HeadSize>>
      <3>1. BatchSize = HeadSize /\ BatchCall = <<"flush", HeadSize>> /\ Eager
        BY <1>10 DEF BatchSize, BatchCall, Eager
      <3>2. took + rest = HeadSize * k
        BY <1>10, <3>1 DEF Body
      <3> QED BY <1>2, <1>3, <1>10, <3>1, <3>2 DEF Body, BatchDue
    <2>2. CASE k = 0
      <3>1. took = 0
        <4>1. HeadSize * 0 = 0
          OBVIOUS
        <4> QED BY <2>1, <2>2, <4>1
      <3>2. Cap = HeadSize
        BY <1>5, <1>10, <2>2 DEF Cap
      <3>3. given = pending /\ given < HeadSize
        BY <1>2, <1>4, <2>1, <3>1, <3>2
      <3>4. c = <<x>>
        BY <1>2, <1>10, <3>3, OtherCalls
      <3> HIDE DEF c, x, k
      <3>5. Len(c) = 1 /\ c[1] = x
        BY <3>4
      <3> QED BY <2>2, <3>5
    <2>3. CASE k = 1
      <3>1. took = HeadSize
        <4>1. HeadSize * 1 = HeadSize
          OBVIOUS
        <4> QED BY <2>1, <2>3, <4>1
      <3>2. given >= HeadSize /\ given - HeadSize = pending
        BY <1>2, <1>4, <3>1
      <3> DEFINE y == <<"flush", HeadSize>>
      <3>3. c = <<y, x>>
        <4>1. c = <<<<"flush", HeadSize>>, <<"end", given - HeadSize>>>>
          BY <1>2, <1>10, <3>2, OtherCalls
        <4> QED BY <3>2, <4>1
      <3>4. calls[1] = y
        <4>1. 1 \in 1 .. k
          BY <2>3
        <4> QED BY <2>1, <4>1
      <3> HIDE DEF c, x, y, k
      <3>5. Len(c) = 2 /\ c[1] = y /\ c[2] = x
        BY <3>3
      <3>6. \A i \in 1 .. 1 : i = 1
        OBVIOUS
      <3> QED BY <2>3, <3>4, <3>5, <3>6
    <2>4. k <= 1
      BY <2>1
    <2>5. k = 0 \/ k = 1
      <3> HIDE DEF k
      <3> QED BY <1>5, <2>4
    <2> QED BY <2>2, <2>3, <2>5
  <1>11. CASE Remainder
    <2>1. /\ ~WithData /\ pending = 0 /\ SplitFree /\ k = Len(c) - 1
      BY <1>11 DEF Remainder
    <2>2. Batching
      BY <1>2, <2>1 DEF Batching, WithData
    <2> DEFINE e == EndingCalls(given)
    <2>3. Len(e) \in {1, 2} /\ e[Len(e)] = x
      <3>1. CASE LastBatch(given) = 0
        <4>1. e = <<x>>
          BY <2>1, <3>1 DEF EndingCalls
        <4> QED BY <4>1
      <3>2. CASE LastBatch(given) # 0
        <4> DEFINE y == <<"continue", LastBatch(given)>>
        <4>1. e = <<y, x>>
          BY <2>1, <3>2 DEF EndingCalls
        <4> HIDE DEF e, x, y
        <4> QED BY <4>1
      <3> QED BY <3>1, <3>2
    <2>4. /\ Len(c) = Full(given) + Len(e) /\ Full(given) \in Nat
          /\ \A i \in 1 .. Len(e) : c[Full(given) + i] = e[i]
      BY <1>2, <2>2, BatchedCalls, LastFits
    <2>5. \A i \in 1 .. k : calls[i] = c[i]
      BY <1>2, <1>6, <2>1, PrefixByItem DEF SplitFree
    <2> HIDE DEF c, x, k, e
    <2>6. Len(e) \in 1 .. Len(e) /\ Full(given) + Len(e) = k + 1
      <3> DEFINE n == Len(e)
                 f == Full(given)
                 m == Len(c)
      <3>1. n = 1 \/ n = 2
        BY <2>3
      <3>2. m = f + n /\ k = m - 1 /\ f \in Nat
        BY <2>1, <2>4
      <3> HIDE DEF n, f, m
      <3>3. n \in 1 .. n /\ f + n = k + 1
        BY <3>1, <3>2
      <3> QED BY <3>3 DEF n, f
    <2>7. Len(c) = k + 1
      BY <2>4, <2>6
    <2>8. c[k + 1] = x
      BY <2>3, <2>4, <2>6
    <2> QED BY <2>5, <2>7, <2>8
  <1>12. (Body /\ ~BatchDue) \/ Remainder
    BY <1>1 DEF CallsOK, Closing, Ended, Ending
  <1>13. Batching \/ kind = "all" \/ kind = "head"
    BY <1>2 DEF Batching
  <1> QED BY <1>8, <1>9, <1>10, <1>11, <1>12, <1>13

LEMMA EndHolds ==
    ASSUME Core, End
    PROVE  Core'
  <1>1. TypeOK /\ GivenOK /\ PlaceOK /\ CountOK /\ CallsOK /\ JobOK /\ OutputOK /\ ReturnOK /\ LiveOK
    BY DEF Core
  <1>2. /\ direct = "open" /\ err = "nil" /\ pc = "close" /\ dpc = "fill" /\ (WithData \/ pending = 0)
        /\ calls' = Append(calls, <<"end", pending>>)
        /\ took' = took + pending /\ pending' = 0 /\ dpc' = "end"
        /\ UNCHANGED <<kind, lib, given, left, pc, job, chunked, emitted, again, pos, direct,
                       rest, made, err, ret, live, dest>>
    BY DEF End, Driving, caller, emulation
  <1>3. calls' = Calls(given) /\ took' = given
    BY <1>2, AllCalls
  <1>4. /\ given \in Nat /\ kind \in Kinds /\ pending \in Nat /\ took \in Nat /\ rest \in Nat
        /\ dest \in Seq(Item) /\ again \in Nat /\ left \in Nat
    BY <1>1 DEF TypeOK
  <1>5. calls' \in Seq(Call)
    BY <1>3, <1>4, CallsType
  <1>6. rest = 0
    BY <1>1, <1>2, <1>4 DEF PlaceOK
  <1>7. TypeOK'
    BY <1>1, <1>2, <1>3, <1>4, <1>5 DEF TypeOK
  <1>8. GivenOK'
    BY <1>1, <1>2 DEF GivenOK
  <1>9. PlaceOK'
    BY <1>1, <1>2, <1>6 DEF PlaceOK, Closing
  <1>10. CountOK'
    <2>1. took' + rest' + pending' + again' = given' - left'
      BY <1>1, <1>2, <1>4 DEF CountOK
    <2> QED BY <1>1, <1>2, <2>1 DEF CountOK
  <1>11. CallsOK'
    <2>1. Calls(given)' = Calls(given)
      BY <1>2, SameInput
    <2>2. Ended'
      BY <1>2, <1>3, <2>1 DEF Ended, Ending
    <2> QED BY <1>2, <2>2 DEF CallsOK, Closing
  <1>12. JobOK'
    BY <1>1, <1>2, JobStays
  <1>13. OutputOK'
    <2>1. /\ pos = Least(made, Len(emitted))
          /\ Len(dest) = IF made < Len(emitted) THEN Len(emitted) ELSE made
          /\ Chunk * made <= took /\ Middle(dest)
          /\ lib.how = "differs" => made < lib.at
          /\ lib.how = "short" => made <= lib.at
      BY <1>1, <1>2 DEF OutputOK, Ending
    <2>2. /\ made \in Nat /\ Len(emitted) \in Nat /\ took <= given
          /\ Len(emitted) <= Chunks(given)
      BY <1>2, WrittenLength
    <2>3. made <= Chunks(given)
      <3>1. Chunk * made <= given
        <4>1. Chunk * made \in Nat
          BY <2>2, TimesNat
        <4> QED BY <1>4, <2>1, <2>2, <4>1
      <3> QED BY <1>4, <2>2, <3>1, InTheWhole
    <2>4. /\ Len(WholeFrame(given)) = Chunks(given) + 1 /\ Chunks(given) \in Nat
          /\ \A i \in 1 .. Chunks(given) : WholeFrame(given)[i] = <<i, FALSE>>
      BY <1>4, WholeInOrder, ItemsInOrder
    <2>5. made <= Len(WholeFrame(given))
      BY <2>2, <2>3, <2>4
    <2>6. \A i \in 1 .. Len(dest) : dest[i] = WholeFrame(given)[i]
      <3>1. \A i \in 1 .. Len(dest) : i \in 1 .. Chunks(given)
        BY <2>1, <2>2, <2>3, <2>4
      <3> QED BY <2>1, <2>4, <3>1, Zenon DEF Middle
    <2>7. \A i \in 1 .. Len(dest') : dest'[i] = WholeFrame(given')[i]
      BY <1>2, <2>6
    <2>8. /\ dpc' # "done" /\ dpc' # "fill" /\ Ending'
          /\ pos' = Least(made', Len(emitted'))
          /\ Len(dest') = IF made' < Len(emitted') THEN Len(emitted') ELSE made'
          /\ lib'.how = "differs" => made' < lib'.at
          /\ lib'.how = "short" => made' <= lib'.at
          /\ made' <= Len(WholeFrame(given'))
      BY <1>2, <2>1, <2>5 DEF Ending
    <2> QED BY <2>7, <2>8, Zenon DEF OutputOK
  <1>14. ReturnOK' /\ LiveOK'
    BY <1>1, <1>2 DEF ReturnOK, LiveOK
  <1> QED BY <1>7, <1>8, <1>9, <1>10, <1>11, <1>12, <1>13, <1>14 DEF Core

LEMMA EndStepHolds ==
    ASSUME Core, EndStep
    PROVE  Core'
  <1>1. TypeOK /\ GivenOK /\ PlaceOK /\ CountOK /\ CallsOK /\ JobOK /\ OutputOK /\ ReturnOK /\ LiveOK
    BY DEF Core
  <1>2. /\ direct = "open" /\ err = "nil" /\ dpc = "end"
        /\ UNCHANGED <<kind, lib, given, left, pc, job, chunked, emitted, again, direct,
                       pending, calls, rest, took, ret, live>>
        /\ Produce(Output(WholeFrame(took)), 1)
        /\ dpc' = IF made' = Len(Output(WholeFrame(took))) THEN "done" ELSE "end"
    BY DEF EndStep, Driving, caller, emulation
  <1>3. Closing /\ Ended
    BY <1>1, <1>2 DEF PlaceOK, CallsOK, Remainder
  <1>4. took = given /\ pc = "close" /\ rest = 0
    BY <1>1, <1>2, <1>3 DEF PlaceOK, Ended, Closing, TypeOK
  <1> DEFINE s == WholeFrame(given)
  <1>5. /\ given \in Nat /\ dest \in Seq(Item) /\ emitted \in Seq(Item) /\ lib \in Lib
        /\ Len(emitted) \in Nat /\ made \in Nat
    BY <1>1, LenProperties DEF TypeOK
  <1>6. /\ s \in Seq(Item) /\ Len(s) = Chunks(given) + 1 /\ Chunks(given) \in Nat
        /\ \A i \in 1 .. Chunks(given) : s[i] = <<i, FALSE>>
    BY <1>5, WholeInOrder, ItemsInOrder
  <1>7. Len(emitted) <= Chunks(given)
    BY <1>2, WrittenLength
  <1>8. Replays(s)
    <2>1. \A i \in 1 .. Len(emitted) : i \in 1 .. Chunks(given)
      BY <1>5, <1>6, <1>7
    <2> HIDE DEF s
    <2> QED BY <1>6, <2>1, Zenon DEF Replays
  <1>9. Produce(Output(s), 1)
    BY <1>2, <1>4
  <1>10. dpc' = IF made' = Len(Output(s)) THEN "done" ELSE "end"
    BY <1>2, <1>4
  <1> HIDE DEF s
  <1>11. /\ err' \in Errors /\ pos' \in Nat /\ dest' \in Seq(Item) /\ made' \in Nat
         /\ err' = "replay" => lib.how # "same"
         /\ err' = "nil" =>
              /\ made' <= Len(Output(s))
              /\ pos' = Least(made', Len(emitted))
              /\ Len(dest') = IF made' < Len(emitted) THEN Len(emitted) ELSE made'
              /\ \A i \in 1 .. Len(dest') :
                   dest'[i] = IF i <= Len(dest) THEN dest[i] ELSE s[i]
              /\ lib.how = "differs" => made' < lib.at
              /\ lib.how = "short" => made' <= lib.at
    <2>1. 1 \in Nat
      OBVIOUS
    <2>2. s \in Seq(Item)
      BY <1>6
    <2> QED BY <1>2, <1>8, <1>9, <2>1, <2>2, Produced
  <1>12. dpc' \in {"end", "done"}
    BY <1>10
  <1>13. TypeOK'
    BY <1>1, <1>2, <1>11, <1>12 DEF TypeOK
  <1>14. GivenOK' /\ CountOK'
    BY <1>1, <1>2 DEF GivenOK, CountOK
  <1>15. PlaceOK'
    BY <1>1, <1>2, <1>4, <1>12 DEF PlaceOK, Closing
  <1>16. CallsOK'
    <2>1. Calls(given)' = Calls(given)
      BY <1>2, SameInput
    <2>2. Ended'
      BY <1>2, <1>3, <1>12, <2>1 DEF Ended, Ending
    <2> QED BY <1>2, <1>4, <2>2 DEF CallsOK, Closing
  <1>17. JobOK'
    BY <1>1, <1>2, JobStays
  <1>18. OutputOK'
    <2> SUFFICES ASSUME err' = "nil" PROVE OutputOK'
      BY DEF OutputOK
    <2>1. Len(Output(s)) <= Len(s) /\ Len(Output(s)) \in Nat /\ Len(s) \in Nat
      <3>1. /\ lib.how # "short" => Len(Output(s)) = Len(s)
            /\ lib.how = "short" => Len(Output(s)) = Least(lib.at, Len(s))
        BY <1>5, <1>6, OutputIs
      <3>2. lib.at \in Nat /\ Len(s) \in Nat
        BY <1>5, <1>6, LibIs
      <3> QED BY <3>1, <3>2 DEF Least
    <2>2. made' \in Nat /\ made' <= Len(s)
      <3>1. made' \in Nat /\ made' <= Len(Output(s))
        BY <1>11, Zenon
      <3> QED BY <2>1, <3>1
    <2>3. \A i \in 1 .. Len(dest') : dest'[i] = s[i]
      <3>1. \A i \in 1 .. Len(dest) : dest[i] = s[i]
        BY <1>1, <1>2 DEF OutputOK, Ending, s
      <3>2. \A i \in 1 .. Len(dest') : dest'[i] = IF i <= Len(dest) THEN dest[i] ELSE s[i]
        BY <1>11, Zenon
      <3>3. \A i \in 1 .. Len(dest') : i <= Len(dest) => i \in 1 .. Len(dest)
        BY <1>5, <1>11, LenProperties
      <3> QED BY <3>1, <3>2, <3>3, Zenon
    <2>4. s = WholeFrame(given')
      BY <1>2 DEF s
    <2>5. dpc' = "done" => made' = Len(Output(WholeFrame(given))')
      <3>1. Output(WholeFrame(given))' = Output(s)
        BY <1>2 DEF Output, s
      <3>2. dpc' = "done" => made' = Len(Output(s))
        BY <1>10
      <3> QED BY <3>1, <3>2
    <2>6. Ending' /\ dpc' # "fill"
      BY <1>12 DEF Ending
    <2>7. /\ pos' = Least(made', Len(emitted'))
          /\ Len(dest') = IF made' < Len(emitted') THEN Len(emitted') ELSE made'
          /\ lib'.how = "differs" => made' < lib'.at
          /\ lib'.how = "short" => made' <= lib'.at
      <3>1. /\ pos' = Least(made', Len(emitted))
            /\ Len(dest') = IF made' < Len(emitted) THEN Len(emitted) ELSE made'
            /\ lib.how = "differs" => made' < lib.at
            /\ lib.how = "short" => made' <= lib.at
        BY <1>11, Zenon
      <3> QED BY <1>2, <3>1
    <2> QED BY <2>2, <2>3, <2>4, <2>5, <2>6, <2>7, Zenon DEF OutputOK
  <1>19. ReturnOK' /\ LiveOK'
    BY <1>1, <1>2, <1>4, <1>11 DEF ReturnOK, LiveOK
  <1> QED BY <1>13, <1>14, <1>15, <1>16, <1>17, <1>18, <1>19 DEF Core

LEMMA CloseReturnsHolds ==
    ASSUME Core, CloseReturns
    PROVE  Core'
  <1>1. TypeOK /\ GivenOK /\ PlaceOK /\ CountOK /\ CallsOK /\ JobOK /\ OutputOK /\ ReturnOK /\ LiveOK
    BY DEF Core
  <1>2. /\ pc = "close" /\ pc' = "closed" /\ (err # "nil" \/ dpc = "done")
        /\ ret' = IF err = "nil" /\ CutShort THEN "replay" ELSE err
        /\ live' = live \ (IF direct = "none" THEN {"cctx", "out", "job"} ELSE {"direct"})
        /\ UNCHANGED <<kind, lib, given, left, job, chunked, emitted, again, pos, direct, dpc, pending,
                       calls, rest, took, made, err, dest>>
    BY DEF CloseReturns, Emulating, caller, emulation, compressor
  <1>3. live' = {}
    <2>1. CASE direct = "none"
      BY <1>1, <1>2, <2>1 DEF LiveOK
    <2>2. CASE direct = "open"
      BY <1>1, <1>2, <2>2, Zenon DEF LiveOK, PlaceOK
    <2> QED BY <1>1, <2>1, <2>2 DEF TypeOK
  <1>4. err \in Errors /\ ret' \in Errors
    BY <1>1, <1>2 DEF TypeOK, Errors
  <1>5. TypeOK'
    BY <1>1, <1>2, <1>3, <1>4 DEF TypeOK
  <1>6. GivenOK' /\ CountOK'
    BY <1>1, <1>2 DEF GivenOK, CountOK
  <1>7. PlaceOK'
    BY <1>1, <1>2 DEF PlaceOK, Closing
  <1>8. CallsOK'
    <2> SUFFICES ASSUME direct = "open", err = "nil" PROVE Ended'
      BY <1>2 DEF CallsOK, Closing
    <2>1. Ended
      BY <1>1, <1>2 DEF CallsOK, Remainder, Closing
    <2>2. Calls(given)' = Calls(given)
      BY <1>2, SameInput
    <2> QED BY <1>2, <2>1, <2>2 DEF Ended, Ending
  <1>9. JobOK'
    <2>1. CASE direct = "open"
      BY <1>1, <1>2, <2>1, JobStays
    <2>2. CASE direct = "none" /\ err = "nil"
      BY <1>1, <1>2, <2>2, JobWaits DEF emulation
    <2>3. CASE direct = "none" /\ err # "nil"
      BY <1>2, <2>3, NoDirect
    <2> QED BY <1>1, <2>1, <2>2, <2>3 DEF TypeOK
  <1>10. OutputOK'
    <2>1. CASE direct = "open"
      BY <1>1, <1>2, <2>1, OutputStays DEF Ending
    <2>2. CASE direct = "none"
      BY <1>2, <2>2, NoDirect
    <2> QED BY <1>1, <2>1, <2>2 DEF TypeOK
  <1>11. ReturnOK'
    <2>1. CutShort' <=> CutShort
      BY <1>2 DEF CutShort, Emulating
    <2>2. "pending" \notin Errors
      BY DEF Errors
    <2>3. err' = "replay" => lib'.how # "same" /\ direct' = "open"
      BY <1>1, <1>2 DEF ReturnOK
    <2>4. ret' = IF err' = "nil" /\ CutShort' THEN "replay" ELSE err'
      BY <1>2, <2>1
    <2>5. pc' = "closed" /\ ret' # "pending"
      BY <1>2, <1>4, <2>2
    <2> QED BY <2>3, <2>4, <2>5, Zenon DEF ReturnOK
  <1>12. LiveOK'
    BY <1>2, <1>3 DEF LiveOK
  <1> QED BY <1>5, <1>6, <1>7, <1>8, <1>9, <1>10, <1>11, <1>12 DEF Core

\* A step that leaves an error leaves the calls and the output alone.
LEMMA ErrorKeeps ==
    ASSUME Writer, err' # "nil"
    PROVE  kind' = kind /\ given' = given /\ calls' = calls /\ dest' = dest
  <1>1. CASE KeepInput
    BY <1>1 DEF KeepInput, caller, compressor
  <1>2. CASE ContinueChunk
    BY <1>2, Zenon DEF ContinueChunk, CompressChunk, Deliver, caller, compressor
  <1>3. CASE HandOver
    BY <1>3 DEF HandOver, caller, compressor
  <1>4. CASE FinishJob
    BY <1>4, Zenon DEF FinishJob, CompressChunk, Deliver, caller, compressor
  <1>5. CASE StartDirect
    BY <1>5 DEF StartDirect, caller, compressor
  <1>6. CASE EndChunk
    BY <1>6, Zenon DEF EndChunk, CompressChunk, Deliver, caller, compressor
  <1>7. CASE Fill
    BY <1>7 DEF Fill, caller, compressor
  <1>8. CASE Batch \/ End
    BY <1>8 DEF Batch, End, Driving
  <1>9. ASSUME NEW items, Emit(items), err = "nil" PROVE dest' = dest
    BY <1>9 DEF Emit, Deliver
  <1>10. ASSUME NEW o, NEW l, Produce(o, l), err = "nil" PROVE dest' = dest
    BY <1>9, <1>10 DEF Produce
  <1>11. CASE CompressStep
    BY <1>10, <1>11 DEF CompressStep, Driving, caller
  <1>12. CASE Flush
    BY <1>10, <1>12 DEF Flush, Driving, caller
  <1>13. CASE EndStep
    BY <1>10, <1>13 DEF EndStep, Driving, caller
  <1>14. CASE Replayed
    BY <1>14 DEF Replayed, caller, compressor
  <1>15. CASE WriteReturns
    BY <1>15 DEF WriteReturns, caller, compressor
  <1>16. CASE CloseReturns
    BY <1>16 DEF CloseReturns, caller, compressor
  <1> QED BY <1>1, <1>2, <1>3, <1>4, <1>5, <1>6, <1>7, <1>8, <1>11, <1>12, <1>13, <1>14, <1>15,
             <1>16 DEF Writer

LEMMA NextHolds ==
    ASSUME Core, Next
    PROVE  Core'
  <1>1. CASE CallClose
    BY <1>1, CallCloseHolds
  <1>2. CASE \E n \in 1 .. MaxInput - given : CallWrite(n)
    BY <1>2, CallWriteHolds
  <1>3. CASE Writer
    BY <1>3, KeepInputHolds, ContinueChunkHolds, HandOverHolds, FinishJobHolds, StartDirectHolds,
       EndChunkHolds, FillHolds, BatchHolds, CompressStepHolds, FlushHolds, EndHolds, EndStepHolds,
       ReplayedHolds, WriteReturnsHolds, CloseReturnsHolds DEF Writer
  <1> QED BY <1>1, <1>2, <1>3 DEF Next

\* A step of nothing.
LEMMA StutterHolds ==
    ASSUME IInv, UNCHANGED vars
    PROVE  IInv'
  <1>1. UNCHANGED <<kind, lib, given, left, pc, job, chunked, emitted, again, pos, direct, dpc,
                    pending, calls, rest, took, made, err, ret, live, dest>>
    BY DEF vars, caller, emulation, compressor
  <1>2. /\ Calls(given)' = Calls(given) /\ Frame(given)' = Frame(given)
        /\ Eager' = Eager /\ WithData' = WithData /\ Jobs' = Jobs
        /\ BatchSize' = BatchSize /\ BatchCall' = BatchCall
    BY <1>1, SameInput
  <1>3. Cap' = Cap /\ Source' = Source /\ (BatchDue' <=> BatchDue) /\ (ChunkDue' <=> ChunkDue)
    BY <1>1, <1>2 DEF Cap, Source, BatchDue, ChunkDue
  <1>4. (SplitFree' <=> SplitFree) /\ (WrittenInOrder' <=> WrittenInOrder)
    BY <1>1, <1>2 DEF SplitFree, WrittenInOrder
  <1>5. (Body' <=> Body) /\ (Remainder' <=> Remainder) /\ (Ended' <=> Ended) /\ (Ending' <=> Ending)
    BY <1>1, <1>2, <1>3, <1>4 DEF Body, Remainder, Ended, Ending
  <1>6. TypeOK' /\ GivenOK' /\ PlaceOK' /\ CountOK'
    BY <1>1, <1>3 DEF IInv, Core, TypeOK, GivenOK, PlaceOK, CountOK, Closing, Emulating
  <1>7. CallsOK'
    BY <1>1, <1>3, <1>5 DEF IInv, Core, CallsOK, Closing
  <1>8. JobOK'
    BY <1>1, <1>2 DEF IInv, Core, JobOK, Middle
  <1>9. OutputOK'
    <2>1. CASE direct = "open"
      BY <1>1, <2>1, OutputStays DEF IInv, Core
    <2>2. CASE direct = "none"
      BY <1>1, <2>2, NoDirect
    <2> QED BY <2>1, <2>2 DEF IInv, Core, TypeOK
  <1>10. ReturnOK' /\ LiveOK'
    BY <1>1 DEF IInv, Core, ReturnOK, LiveOK, CutShort, Emulating
  <1> QED BY <1>1, <1>4, <1>6, <1>7, <1>8, <1>9, <1>10 DEF IInv, Core

LEMMA Invariance == Spec => []IInv
  <1>1. IInv /\ [Next]_vars => IInv'
    <2> SUFFICES ASSUME IInv, Next PROVE IInv'
      BY StutterHolds
    <2>1. Core'
      BY NextHolds DEF IInv
    <2>2. SplitFree /\ WrittenInOrder
      BY CallsArePrefix, WrittenIsPrefix DEF IInv
    <2>3. ASSUME err' # "nil" PROVE SplitFree' /\ WrittenInOrder'
      <3>1. kind' = kind /\ given' = given /\ calls' = calls /\ dest' = dest
        <4>1. CASE Writer
          BY <2>3, <4>1, ErrorKeeps
        <4>2. CASE CallClose
          BY <4>2 DEF CallClose, caller, compressor
        <4>3. CASE \E n \in 1 .. MaxInput - given : CallWrite(n)
          BY <2>3, <4>3 DEF CallWrite
        <4> QED BY <4>1, <4>2, <4>3 DEF Next
      <3>2. Calls(given)' = Calls(given) /\ Frame(given)' = Frame(given)
        BY <3>1, SameInput
      <3> QED BY <2>2, <3>1, <3>2 DEF SplitFree, WrittenInOrder
    <2> QED BY <2>1, <2>3 DEF IInv
  <1> QED BY <1>1, InitHolds, PTL DEF Spec

-----------------------------------------------------------------------------
(* The properties.                                                         *)

\* The compressor gets the calls of one Write of everything, in order, however
\* the caller splits it, for every batch, head and job.
THEOREM SplitTheorem == Spec => []SplitFree
  <1>1. IInv => SplitFree
    BY CallsArePrefix DEF IInv
  <1> QED BY <1>1, Invariance, PTL

\* What is written begins the stream of the content, also when the first job is
\* replayed.
THEOREM OrderTheorem == Spec => []WrittenInOrder
  <1>1. IInv => WrittenInOrder
    BY WrittenIsPrefix DEF IInv
  <1> QED BY <1>1, Invariance, PTL

\* A nil Close has written the whole stream of what was given; the replay error
\* is only returned when libzstd made something else of the first job.
THEOREM CloseTheorem == Spec => []CloseIsHonest
  <1>1. ASSUME IInv, pc = "closed", ret = "nil"
        PROVE  dest = Frame(given) /\ (direct = "open" => calls = Calls(given))
    <2>1. TypeOK /\ GivenOK /\ PlaceOK /\ CountOK /\ CallsOK /\ JobOK /\ OutputOK /\ ReturnOK
      BY <1>1 DEF IInv, Core
    <2>2. err = "nil" /\ ~CutShort /\ dpc = "done"
      BY <1>1, <2>1 DEF ReturnOK, PlaceOK
    <2>3. CASE direct = "none"
      BY <2>1, <2>2, <2>3 DEF JobOK
    <2>4. CASE direct = "open"
      <3>1. Ended
        BY <1>1, <2>1, <2>2, <2>4 DEF CallsOK, Closing, Remainder
      <3>2. /\ Frame(given) = WholeFrame(given) /\ made \in Nat /\ Len(emitted) \in Nat /\ given \in Nat
            /\ Len(dest) = IF made < Len(emitted) THEN Len(emitted) ELSE made
            /\ kind = "emulated" => Len(emitted) = JobChunks
        BY <1>1, <2>2, <2>4, WrittenLength DEF IInv
      <3>3. /\ pos = Least(made, Len(emitted))
            /\ \A i \in 1 .. Len(dest) : dest[i] = WholeFrame(given)[i]
            /\ lib.how = "differs" => made < lib.at
            /\ lib.how = "short" => made <= lib.at
            /\ made = Len(Output(WholeFrame(given)))
        BY <2>1, <2>2, <2>4, <3>1 DEF OutputOK, Ended
      <3>4. made >= Len(emitted)
        <4>1. ~(pos < Len(emitted))
          BY <2>2, <2>4 DEF CutShort, Emulating
        <4> QED BY <3>2, <3>3, <4>1 DEF Least
      <3>5. lib.how = "same"
        <4>1. lib.how # "same" => kind = "emulated"
          BY <2>1 DEF GivenOK
        <4>2. /\ lib.how \in {"same", "differs", "short"} /\ lib.at \in Nat /\ JobChunks \in Nat
              /\ lib.how = "differs" => lib.at <= JobChunks
              /\ lib.how = "short" => lib.at < JobChunks
          BY <2>1, LibIs, JobIsChunks DEF TypeOK
        <4>3. lib.how # "same" => made >= JobChunks
          BY <3>2, <3>4, <4>1
        <4> QED BY <3>2, <3>3, <4>2, <4>3
      <3>6. Output(WholeFrame(given)) = WholeFrame(given)
        BY <3>5 DEF Output
      <3> DEFINE f == WholeFrame(given)
      <3>7. f \in Seq(Item) /\ dest \in Seq(Item)
        BY <2>1, <3>2, WholeInOrder DEF TypeOK
      <3>8. Len(dest) = Len(f)
        BY <3>2, <3>3, <3>4, <3>6
      <3>9. \A i \in 1 .. Len(dest) : dest[i] = f[i]
        BY <3>3
      <3> HIDE DEF f
      <3>10. dest = f
        BY <3>7, <3>8, <3>9, SeqEqual
      <3> QED BY <3>1, <3>2, <3>10 DEF f, Ended
    <2> QED BY <2>1, <2>3, <2>4 DEF TypeOK
  <1>2. ASSUME IInv, pc = "closed", ret = "replay"
        PROVE  lib.how # "same" /\ given > JobSize
    <2>1. TypeOK /\ GivenOK /\ PlaceOK /\ CountOK /\ CallsOK /\ JobOK /\ OutputOK /\ ReturnOK
      BY <1>2 DEF IInv, Core
    <2>2. \/ err = "replay"
          \/ err = "nil" /\ CutShort
      BY <1>2, <2>1 DEF ReturnOK
    <2>3. CASE err = "replay"
      <3>1. lib.how # "same" /\ direct = "open"
        BY <2>1, <2>3 DEF ReturnOK
      <3> QED BY <2>1, <3>1 DEF GivenOK, CountOK
    <2>4. CASE err = "nil" /\ CutShort
      <3>1. direct = "open" /\ pos < Len(emitted) /\ dpc = "done"
        BY <1>2, <2>1, <2>4 DEF CutShort, Emulating, TypeOK, PlaceOK
      <3>2. /\ made \in Nat /\ Len(emitted) \in Nat /\ given \in Nat
            /\ Len(emitted) <= Chunks(given)
            /\ kind # "emulated" => Len(emitted) = 0
            /\ kind = "emulated" => given > JobSize
        BY <1>2, <2>4, <3>1, WrittenLength DEF IInv
      <3>3. /\ pos = Least(made, Len(emitted))
            /\ made = Len(Output(WholeFrame(given)))
        BY <2>1, <2>4, <3>1 DEF OutputOK
      <3>4. made < Len(emitted)
        BY <3>1, <3>2, <3>3 DEF Least
      <3>5. kind = "emulated"
        BY <3>2, <3>4
      <3>6. lib.how # "same"
        <4>1. SUFFICES ASSUME lib.how = "same" PROVE FALSE
          OBVIOUS
        <4>2. Output(WholeFrame(given)) = WholeFrame(given)
          BY <4>1 DEF Output
        <4>3. made = Chunks(given) + 1 /\ Chunks(given) \in Nat
          BY <3>2, <3>3, <4>2, WholeInOrder, ItemsInOrder
        <4> QED BY <3>2, <3>4, <4>3
      <3> QED BY <3>2, <3>5, <3>6
    <2> QED BY <2>2, <2>3, <2>4
  <1>3. IInv => CloseIsHonest
    BY <1>1, <1>2 DEF CloseIsHonest
  <1> QED BY <1>3, Invariance, PTL

\* What a writer uses is there, and nothing is left after Close.
THEOREM MemoryTheorem == Spec => []MemoryHeld
  <1>1. ASSUME IInv PROVE MemoryHeld
    <2>1. TypeOK /\ PlaceOK /\ LiveOK
      BY <1>1 DEF IInv, Core
    <2>2. pc = "closed" => live = {}
      BY <2>1 DEF LiveOK
    <2>3. Emulating /\ pc \in {"write", "close"} /\ err = "nil" => {"cctx", "out", "job"} \subseteq live
      BY <2>1 DEF LiveOK, PlaceOK, Emulating
    <2>4. pc = "replay" => live = {"job", "direct"}
      BY <2>1 DEF LiveOK, PlaceOK, TypeOK
    <2>5. kind = "emulated" /\ direct = "open" /\ pc \in {"ready", "write", "close"} =>
            live = {"direct"}
      BY <2>1 DEF LiveOK
    <2> QED BY <2>2, <2>3, <2>4, <2>5 DEF MemoryHeld
  <1> QED BY <1>1, Invariance, PTL

\* Something is written once more than a job, where one is buffered, and a chunk
\* was given: the silence the search allows for is enough.  A writer that takes
\* jobs is libzstd's: its batch is ZSTD_CStreamInSize, a block, and jobChunk is
\* four blocks.
THEOREM HeardTheorem ==
    ASSUME InCap <= Chunk PROVE Spec => []HeardInTime
  <1>1. ASSUME IInv, Jobs, pc = "ready", err = "nil", given > Buffered + Chunk
        PROVE  dest # <<>>
    <2>1. TypeOK /\ GivenOK /\ PlaceOK /\ CountOK /\ CallsOK /\ JobOK /\ OutputOK
      BY <1>1 DEF IInv, Core
    <2>2. /\ given \in Nat /\ took \in Nat /\ rest \in Nat /\ pending \in Nat /\ again \in Nat
          /\ left \in Nat /\ chunked \in Nat /\ job \in Nat /\ emitted \in Seq(Item)
          /\ dest \in Seq(Item) /\ made \in Nat /\ Len(emitted) \in Nat
      BY <2>1, LenProperties DEF TypeOK
    <2>3. left = 0 /\ again = 0
      BY <1>1, <2>1 DEF PlaceOK
    <2>4. CASE direct = "none"
      <3>1. kind = "emulated" /\ job = given /\ ~ChunkDue /\ dpc # "done"
        BY <1>1, <2>1, <2>2, <2>3, <2>4 DEF PlaceOK, CountOK, Emulating, Closing
      <3>2. given > Chunk
        BY <1>1, <3>1 DEF Buffered
      <3>3. chunked > 0
        BY <2>2, <3>1, <3>2 DEF ChunkDue
      <3>4. dest = emitted /\ chunked = Chunk * Len(emitted)
        BY <1>1, <2>1, <2>4, <3>1 DEF JobOK
      <3>5. Len(emitted) # 0
        <4>1. Chunk * 0 = 0
          OBVIOUS
        <4> QED BY <3>3, <3>4, <4>1
      <3> QED BY <2>2, <3>4, <3>5, EmptyIffNone
    <2>5. CASE direct = "open"
      <3>1. Len(dest) = IF made < Len(emitted) THEN Len(emitted) ELSE made
        BY <1>1, <2>5, WrittenLength DEF IInv
      <3>2. Len(emitted) > 0 \/ made > 0
        <4>1. CASE kind = "emulated"
          BY <2>1, <2>5, <4>1, JobIsChunks DEF JobOK
        <4>2. CASE kind = "workers"
          <5>1. given > JobSize + Chunk
            BY <1>1, <4>2 DEF Buffered
          <5>2. dpc = "fill" /\ rest = 0
            BY <1>1, <2>1, <2>2, <2>5 DEF PlaceOK, Emulating
          <5>3. pending <= Cap /\ Cap = InCap
            BY <1>1, <2>1, <2>5, <4>2 DEF CallsOK, Body, Closing, Cap
          <5>4. took + pending = given
            BY <2>1, <2>2, <2>3, <2>5, <5>2 DEF CountOK
          <5>5. took >= JobSize
            BY <2>2, <5>1, <5>3, <5>4
          <5> QED BY <1>1, <2>1, <2>5, <5>2, <5>5 DEF OutputOK
        <4> QED BY <1>1, <4>1, <4>2 DEF Jobs
      <3>3. Len(dest) # 0
        BY <2>2, <3>1, <3>2
      <3> QED BY <2>2, <3>3, EmptyIffNone
    <2> QED BY <2>1, <2>4, <2>5 DEF TypeOK
  <1>2. IInv => HeardInTime
    BY <1>1 DEF HeardInTime
  <1> QED BY <1>2, Invariance, PTL

==============================================================================
