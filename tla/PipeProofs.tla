------------------------------ MODULE PipeProofs ------------------------------
(***************************************************************************)
(* What the consumer of a pipe reads, and what a pipe accepts after the    *)
(* consumer has hung up, for any number of slots, of writes and of pieces  *)
(* a write is read in.                                                     *)
(*                                                                         *)
(* The producer numbers its writes, so that the n-th write accepted is     *)
(* write n and the n-th piece read has a known place in a known write.     *)
(* The invariant says where each write is: read, held by Read, queued, or  *)
(* in the hands of a Write that waits.                                     *)
(***************************************************************************)
EXTENDS PipeUse, Integers, SequenceTheorems, TLAPS

Places == (1 .. Writes) \X (1 .. Pieces)

Errors == {<<"EOF">>, <<"boom">>, <<"ErrClosedPipe">>}

TypeOK == /\ ch \in Seq(1 .. Writes) /\ Len(ch) <= Slots
          /\ ended \in BOOLEAN /\ closed \in BOOLEAN /\ reading \in BOOLEAN
          /\ over \in BOOLEAN
          /\ werr \in {"nil", "boom"} /\ wret \in {"nil", "ErrClosedPipe"}
          /\ cur \in Seq(Places) /\ got \in Seq(Places)
          /\ writing \in Seq(1 .. Writes) /\ Len(writing) <= 1
          /\ rret \in {<<>>} \cup Places \cup Errors
          /\ offered \in 0 .. Writes /\ sent \in Seq(1 .. Writes)
          /\ hung \in {<<>>} \cup (Nat \X Nat)

\* How many writes have been taken from the queue.
Taken == Len(sent) - Len(ch)

\* The n-th piece of all.
PieceNo(n) == <<1 + ((n - 1) \div Pieces), 1 + ((n - 1) % Pieces)>>

\* Every write offered was accepted, is waiting or, the last one, was refused;
\* and none is refused unless the consumer is gone.
ProducerOK == /\ offered = Len(sent) + Len(writing) + (IF wret = "nil" THEN 0 ELSE 1)
              /\ writing # <<>> => writing[1] = offered /\ wret = "nil"
              /\ ended => writing = <<>>
              /\ wret # "nil" => closed
              /\ \A n \in 1 .. Len(sent) : sent[n] = n

\* What was accepted and is not queued was taken, in order.
QueueOK == /\ Len(ch) <= Len(sent)
           /\ \A n \in 1 .. Len(ch) : ch[n] = Taken + n

\* What was taken was read, but for the end of the write taken last.
ReadOK == /\ Len(cur) < Pieces
          /\ Len(got) + Len(cur) = Pieces * Taken
          /\ \A n \in 1 .. Len(cur) : cur[n] = <<Taken, Pieces - Len(cur) + n>>
          /\ \A n \in 1 .. Len(got) : got[n] = PieceNo(n)
          /\ reading => cur = <<>>
          /\ ~over => rret = IF got = <<>> THEN <<>> ELSE got[Len(got)]

\* An error before the hang-up is the end, and nothing comes after it.
OverOK == over /\ ~closed =>
    /\ ended /\ ch = <<>> /\ cur = <<>>
    /\ rret = IF werr = "nil" THEN <<"EOF">> ELSE <<werr>>

\* After the hang-up nothing is taken, so that the queue only grows, and only
\* by a Write that had not seen it.
HungOK == /\ closed <=> hung # <<>>
          /\ closed => /\ ~reading
                       /\ hung[1] <= Len(sent)
                       /\ Len(ch) - hung[2] = Len(sent) - hung[1]
                       /\ Len(sent) + Len(writing) <= hung[1] + 1

IInv == TypeOK /\ ProducerOK /\ QueueOK /\ ReadOK /\ OverOK /\ HungOK

-----------------------------------------------------------------------------
(* Division.                                                               *)

\* The block after a number of whole blocks ends before the next number of them.
LEMMA BlockEnds ==
    ASSUME NEW P \in Nat \ {0}, NEW i \in Nat, NEW t \in Nat, i < t
    PROVE  P * i + P <= P * t
  <1>1. PICK d \in Nat : t = i + 1 + d
    <2>1. t - i - 1 \in Nat /\ t = i + 1 + (t - i - 1)
      OBVIOUS
    <2> QED BY <2>1
  <1>2. P * t = P * i + P + P * d
    BY <1>1
  <1>3. P * d \in Nat /\ P * i \in Nat
    OBVIOUS
  <1> QED BY <1>2, <1>3

\* Quotient and remainder are what they are by division, and by nothing else.
LEMMA Divides ==
    ASSUME NEW P \in Nat \ {0}, NEW a \in Nat
    PROVE  /\ a \div P \in Nat /\ a % P \in 0 .. P - 1
           /\ a = P * (a \div P) + (a % P)
  OBVIOUS

LEMMA OneQuotient ==
    ASSUME NEW P \in Nat \ {0}, NEW i \in Nat, NEW t \in Nat,
           NEW r \in 0 .. P - 1, NEW s \in 0 .. P - 1, P * i + r = P * t + s
    PROVE  i = t /\ r = s
  <1>1. P * i \in Nat /\ P * t \in Nat
    OBVIOUS
  <1>2. CASE i < t
    BY <1>1, <1>2, BlockEnds
  <1>3. CASE t < i
    BY <1>1, <1>3, BlockEnds
  <1> QED BY <1>1, <1>2, <1>3

LEMMA QuotientOf ==
    ASSUME NEW P \in Nat \ {0}, NEW q \in Nat, NEW r \in 0 .. P - 1
    PROVE  /\ P * q + r \in Nat
           /\ (P * q + r) \div P = q /\ (P * q + r) % P = r
  <1> DEFINE a == P * q + r
  <1>1. a \in Nat
    <2>1. P * q \in Nat
      OBVIOUS
    <2> QED BY <2>1
  <1>2. /\ a \div P \in Nat /\ a % P \in 0 .. P - 1
        /\ P * (a \div P) + (a % P) = P * q + r
    BY <1>1, Divides
  <1> HIDE DEF a
  <1>3. a \div P = q /\ a % P = r
    BY <1>2, OneQuotient
  <1> QED BY <1>1, <1>3 DEF a

\* A number below t blocks is in one of them.
LEMMA QuotientBelow ==
    ASSUME NEW P \in Nat \ {0}, NEW a \in Nat, NEW t \in Nat, a < P * t
    PROVE  a \div P \in 0 .. t - 1
  <1>1. /\ a \div P \in Nat /\ a % P \in 0 .. P - 1
        /\ a = P * (a \div P) + (a % P)
    BY Divides
  <1>2. P * t \in Nat /\ P * (a \div P) \in Nat
    BY <1>1
  <1>3. a \div P < t
    <2>1. SUFFICES ASSUME t <= a \div P PROVE FALSE
      BY <1>1
    <2>2. P * t <= P * (a \div P)
      <3>1. CASE t = a \div P
        BY <3>1, <1>2
      <3>2. CASE t < a \div P
        BY <3>2, <1>1, <1>2, BlockEnds
      <3> QED BY <3>1, <3>2, <2>1, <1>1
    <2> QED BY <2>2, <1>1, <1>2
  <1> QED BY <1>1, <1>3

-----------------------------------------------------------------------------
(* Sequences.                                                              *)

\* A sequence of at most one element is empty or has that one.
LEMMA AtMostOne ==
    ASSUME NEW S, NEW s \in Seq(S), Len(s) <= 1
    PROVE  IF s = <<>> THEN Len(s) = 0 ELSE Len(s) = 1 /\ s = <<s[1]>> /\ s[1] \in S
  <1>1. CASE s = <<>>
    BY <1>1
  <1>2. CASE s # <<>>
    <2>1. Len(s) = 1
      <3> DEFINE n == Len(s)
      <3>1. n \in Nat \ {0} /\ n <= 1
        BY <1>2, EmptySeq, Zenon
      <3> HIDE DEF n
      <3>2. n = 1
        BY <3>1
      <3> QED BY <3>2 DEF n
    <2>2. s[1] \in S
      BY <2>1, ElementOfSeq
    <2>3. s = <<s[1]>>
      <3>1. <<s[1]>> \in Seq(S) /\ Len(<<s[1]>>) = 1 /\ <<s[1]>>[1] = s[1]
        BY <2>2
      <3> QED BY <2>1, <3>1, SeqEqual
    <2> QED BY <1>2, <2>1, <2>2, <2>3
  <1> QED BY <1>1, <1>2

-----------------------------------------------------------------------------
USE PipeAssumption, PipeUseAssumption

\* No two pieces have the same number.
LEMMA PiecesDiffer ==
    ASSUME NEW n \in Nat \ {0}
    PROVE  PieceNo(n + 1) # PieceNo(n)
  <1>1. /\ (n - 1) \div Pieces \in Nat /\ (n - 1) % Pieces \in 0 .. Pieces - 1
        /\ n - 1 = Pieces * ((n - 1) \div Pieces) + ((n - 1) % Pieces)
    <2>1. n - 1 \in Nat
      OBVIOUS
    <2> QED BY <2>1, Divides
  <1>2. /\ n \div Pieces \in Nat /\ n % Pieces \in 0 .. Pieces - 1
        /\ n = Pieces * (n \div Pieces) + (n % Pieces)
    BY Divides
  <1>3. SUFFICES ASSUME n \div Pieces = (n - 1) \div Pieces,
                        n % Pieces = (n - 1) % Pieces
                 PROVE  FALSE
    BY <1>1, <1>2 DEF PieceNo
  <1> QED BY <1>1, <1>2, <1>3

\* The piece after the first c of write t + 1.
LEMMA PieceAt ==
    ASSUME NEW t \in Nat, NEW c \in 0 .. Pieces - 1
    PROVE  PieceNo(Pieces * t + c + 1) = <<t + 1, c + 1>>
  <1> DEFINE a == Pieces * t + c
  <1>1. a \in Nat /\ a \div Pieces = t /\ a % Pieces = c
    BY QuotientOf
  <1> HIDE DEF a
  <1>2. PieceNo(a + 1) = <<t + 1, c + 1>>
    <2>1. (a + 1) - 1 = a
      BY <1>1
    <2> QED BY <1>1, <2>1 DEF PieceNo
  <1> QED BY <1>2 DEF a

LEMMA FirstPiece ==
    ASSUME NEW t \in Nat
    PROVE  PieceNo(Pieces * t + 1) = <<t + 1, 1>>
  <1>1. PICK c \in 0 .. Pieces - 1 : c = 0
    OBVIOUS
  <1>2. PieceNo(Pieces * t + c + 1) = <<t + 1, c + 1>>
    BY PieceAt
  <1>3. Pieces * t + c + 1 = Pieces * t + 1 /\ c + 1 = 1
    BY <1>1
  <1> QED BY <1>2, <1>3

-----------------------------------------------------------------------------
LEMMA InitIInv == UseInit => IInv
  <1>1. SUFFICES ASSUME UseInit PROVE IInv
    OBVIOUS
  <1>2. TypeOK
    <2>1. /\ ch \in Seq(1 .. Writes) /\ cur \in Seq(Places) /\ got \in Seq(Places)
          /\ writing \in Seq(1 .. Writes) /\ sent \in Seq(1 .. Writes)
          /\ Len(ch) = 0 /\ Len(writing) = 0
      BY <1>1 DEF UseInit, PInit
    <2>2. /\ ended \in BOOLEAN /\ closed \in BOOLEAN /\ reading \in BOOLEAN
          /\ over \in BOOLEAN
          /\ werr \in {"nil", "boom"} /\ wret \in {"nil", "ErrClosedPipe"}
      BY <1>1 DEF UseInit, PInit
    <2>3. rret = <<>> /\ hung = <<>> /\ offered = 0 /\ 0 \in 0 .. Writes
      BY <1>1 DEF UseInit, PInit
    <2> QED BY <2>1, <2>2, <2>3 DEF TypeOK
  <1>3. ProducerOK /\ QueueOK /\ OverOK /\ HungOK
    BY <1>1 DEF UseInit, PInit, ProducerOK, QueueOK, OverOK, HungOK, Taken
  <1>4. ReadOK
    <2>1. Pieces * 0 = 0
      OBVIOUS
    <2> QED BY <1>1, <2>1 DEF UseInit, PInit, ReadOK, Taken
  <1> QED BY <1>2, <1>3, <1>4 DEF IInv

\* Write's first select: the write gets the next number, or is refused for good.
LEMMA OfferKeeps == IInv /\ Offer => IInv'
  <1>1. SUFFICES ASSUME IInv, Offer PROVE IInv'
    OBVIOUS
  <1> USE DEF IInv
  <1>2. /\ offered < Writes /\ ~ended /\ wret = "nil" /\ writing = <<>>
        /\ offered' = offered + 1
        /\ UNCHANGED <<sent, got, over, hung, ch, ended, werr, closed, cur, reading, rret>>
    BY <1>1 DEF Offer, WriteCalled
  <1>3. CASE closed
    <2>1. wret' = "ErrClosedPipe" /\ writing' = writing
      BY <1>1, <1>3 DEF Offer, WriteCalled
    <2>2. TypeOK'
      BY <1>1, <1>2, <2>1 DEF TypeOK
    <2>3. ProducerOK'
      BY <1>1, <1>2, <1>3, <2>1 DEF TypeOK, ProducerOK
    <2>4. QueueOK' /\ ReadOK' /\ OverOK' /\ HungOK'
      BY <1>1, <1>2, <2>1 DEF TypeOK, QueueOK, ReadOK, OverOK, HungOK, Taken
    <2> QED BY <2>2, <2>3, <2>4
  <1>4. CASE ~closed
    <2>1. writing' = <<offered + 1>> /\ wret' = wret
      BY <1>1, <1>4 DEF Offer, WriteCalled
    <2>2. TypeOK'
      <3>1. offered + 1 \in 1 .. Writes
        BY <1>1, <1>2 DEF TypeOK
      <3>2. writing' \in Seq(1 .. Writes) /\ Len(writing') = 1
        BY <2>1, <3>1
      <3> QED BY <1>1, <1>2, <2>1, <3>1, <3>2 DEF TypeOK
    <2>3. ProducerOK'
      BY <1>1, <1>2, <2>1 DEF TypeOK, ProducerOK
    <2>4. QueueOK' /\ ReadOK' /\ OverOK'
      BY <1>1, <1>2, <2>1 DEF TypeOK, QueueOK, ReadOK, OverOK, Taken
    <2>5. HungOK'
      BY <1>1, <1>2, <1>4, <2>1 DEF TypeOK, HungOK
    <2> QED BY <2>2, <2>3, <2>4, <2>5
  <1> QED BY <1>3, <1>4

\* The waiting write is queued, and is the last one accepted.
LEMMA QueuesKeeps == IInv /\ WriteQueues /\ Produced => IInv'
  <1>1. SUFFICES ASSUME IInv, WriteQueues, Produced PROVE IInv'
    OBVIOUS
  <1> USE DEF IInv
  <1> DEFINE b == writing[1]
  <1>2. /\ writing # <<>> /\ Len(ch) < Slots
        /\ ch' = Append(ch, b) /\ writing' = <<>> /\ wret' = "nil"
        /\ sent' = sent \o writing
        /\ UNCHANGED <<offered, got, over, hung, ended, werr, closed, cur, reading, rret>>
    BY <1>1 DEF WriteQueues, SlotFree, Produced
  <1>3. Len(writing) = 1 /\ writing = <<b>> /\ b \in 1 .. Writes
    BY <1>1, <1>2, AtMostOne DEF TypeOK
  <1>4. b = offered /\ wret = "nil" /\ offered = Len(sent) + 1 /\ ~ended
    BY <1>1, <1>2, <1>3 DEF TypeOK, ProducerOK
  <1> HIDE DEF b
  <1>5. /\ sent' \in Seq(1 .. Writes) /\ Len(sent') = Len(sent) + 1
        /\ \A n \in 1 .. Len(sent) : sent'[n] = sent[n]
        /\ sent'[Len(sent) + 1] = b
    <2>1. sent \in Seq(1 .. Writes) /\ sent' = sent \o <<b>>
      BY <1>1, <1>2, <1>3 DEF TypeOK
    <2> QED BY <1>3, <2>1
  <1>6. /\ ch' \in Seq(1 .. Writes) /\ Len(ch') = Len(ch) + 1
        /\ \A n \in 1 .. Len(ch) : ch'[n] = ch[n]
        /\ ch'[Len(ch) + 1] = b
    <2>1. ch \in Seq(1 .. Writes)
      BY <1>1 DEF TypeOK
    <2> QED BY <1>2, <1>3, <2>1, AppendProperties
  <1>7. Len(sent) \in Nat /\ Len(ch) \in Nat /\ Taken' = Taken
    BY <1>1, <1>5, <1>6 DEF TypeOK, Taken
  <1>8. TypeOK'
    BY <1>1, <1>2, <1>5, <1>6, <1>7 DEF TypeOK
  <1>9. ProducerOK'
    <2>1. offered' = Len(sent') + Len(writing') + 0
      BY <1>2, <1>4, <1>5, <1>7
    <2>2. \A n \in 1 .. Len(sent') : sent'[n] = n
      BY <1>1, <1>4, <1>5, <1>7 DEF ProducerOK
    <2> QED BY <1>2, <1>4, <2>1, <2>2 DEF ProducerOK
  <1>10. QueueOK'
    <2>1. Taken + (Len(ch) + 1) = b
      BY <1>4, <1>7 DEF Taken
    <2>2. \A n \in 1 .. Len(ch') : ch'[n] = Taken + n
      <3> TAKE n \in 1 .. Len(ch')
      <3>1. n \in 1 .. Len(ch) \/ n = Len(ch) + 1
        BY <1>6, <1>7
      <3>2. \A k \in 1 .. Len(ch) : ch[k] = Taken + k
        BY <1>1 DEF QueueOK
      <3>3. CASE n \in 1 .. Len(ch)
        BY <1>6, <3>2, <3>3, Zenon
      <3>4. CASE n = Len(ch) + 1
        BY <1>6, <2>1, <3>4, Zenon
      <3> QED BY <3>1, <3>3, <3>4
    <2>3. Len(ch') <= Len(sent')
      BY <1>1, <1>5, <1>6, <1>7 DEF QueueOK
    <2> QED BY <1>7, <2>2, <2>3 DEF QueueOK
  <1>11. ReadOK' /\ OverOK'
    BY <1>1, <1>2, <1>4, <1>7 DEF ReadOK, OverOK, PieceNo
  <1>12. HungOK'
    <2>1. /\ closed <=> hung # <<>>
          /\ closed => /\ ~reading /\ hung[1] <= Len(sent)
                       /\ Len(ch) - hung[2] = Len(sent) - hung[1]
                       /\ Len(sent) + Len(writing) <= hung[1] + 1
      BY <1>1 DEF HungOK
    <2>2. closed => hung[1] \in Nat /\ hung[2] \in Nat
      <3>1. hung \in {<<>>} \cup (Nat \X Nat)
        BY <1>1 DEF TypeOK
      <3>2. \A h \in Nat \X Nat : h[1] \in Nat /\ h[2] \in Nat
        OBVIOUS
      <3> QED BY <2>1, <3>1, <3>2, Zenon
    <2>3. UNCHANGED <<closed, hung, reading>> /\ Len(writing') = 0
      BY <1>2
    <2>4. Len(sent') = Len(sent) + 1 /\ Len(ch') = Len(ch) + 1
      BY <1>5, <1>6
    <2>5. ASSUME closed
          PROVE  /\ hung[1] <= Len(sent') /\ Len(ch') - hung[2] = Len(sent') - hung[1]
                 /\ Len(sent') + Len(writing') <= hung[1] + 1
      <3>1. Len(sent) \in Nat /\ Len(ch) \in Nat /\ Len(writing) = 1
        BY <1>3, <1>7
      <3>2. /\ hung[1] \in Nat /\ hung[2] \in Nat /\ hung[1] <= Len(sent)
            /\ Len(ch) - hung[2] = Len(sent) - hung[1] /\ Len(sent) + Len(writing) <= hung[1] + 1
        BY <2>1, <2>2, <2>5
      <3> QED BY <2>3, <2>4, <3>1, <3>2
    <2> QED BY <2>1, <2>3, <2>5 DEF HungOK
  <1> QED BY <1>8, <1>9, <1>10, <1>11, <1>12

\* The waiting write is refused.
LEMMA RefusedKeeps == IInv /\ WriteSeesClosed /\ Produced => IInv'
  <1>1. SUFFICES ASSUME IInv, WriteSeesClosed, Produced PROVE IInv'
    OBVIOUS
  <1> USE DEF IInv
  <1>2. /\ writing # <<>> /\ closed /\ writing' = <<>> /\ wret' = "ErrClosedPipe"
        /\ UNCHANGED <<sent, offered, got, over, hung, ch, ended, werr, closed, cur,
                       reading, rret>>
    BY <1>1 DEF WriteSeesClosed, Produced
  <1>3. Len(writing) = 1 /\ Len(writing') = 0
    BY <1>1, <1>2, AtMostOne DEF TypeOK
  <1>4. TypeOK'
    BY <1>1, <1>2 DEF TypeOK
  <1>5. ProducerOK'
    BY <1>1, <1>2, <1>3 DEF TypeOK, ProducerOK
  <1>6. QueueOK' /\ ReadOK' /\ OverOK'
    BY <1>1, <1>2 DEF TypeOK, QueueOK, ReadOK, OverOK, Taken, PieceNo
  <1>7. HungOK'
    BY <1>1, <1>2, <1>3 DEF TypeOK, HungOK
  <1> QED BY <1>4, <1>5, <1>6, <1>7

LEMMA EndStreamKeeps == IInv /\ EndStream => IInv'
  <1>1. SUFFICES ASSUME IInv, EndStream PROVE IInv'
    OBVIOUS
  <1> USE DEF IInv
  <1>2. /\ writing = <<>> /\ ~ended /\ ended' = TRUE /\ werr' \in {"nil", "boom"}
        /\ UNCHANGED <<offered, sent, got, over, hung, ch, closed, cur, writing,
                       reading, wret, rret>>
    BY <1>1 DEF EndStream, CloseWrite, uvars
  <1>3. TypeOK'
    BY <1>1, <1>2 DEF TypeOK
  <1>4. ProducerOK'
    BY <1>1, <1>2 DEF ProducerOK
  <1>5. QueueOK' /\ ReadOK' /\ HungOK'
    BY <1>1, <1>2 DEF QueueOK, ReadOK, HungOK, Taken, PieceNo
  <1>6. OverOK'
    BY <1>1, <1>2 DEF OverOK
  <1> QED BY <1>3, <1>4, <1>5, <1>6

LEMMA HangupKeeps == IInv /\ Hangup => IInv'
  <1>1. SUFFICES ASSUME IInv, Hangup PROVE IInv'
    OBVIOUS
  <1> USE DEF IInv
  <1>2. /\ ~closed /\ ~reading /\ closed' = TRUE /\ hung' = <<Len(sent), Len(ch)>>
        /\ UNCHANGED <<offered, sent, got, over, ch, ended, werr, cur, writing,
                       reading, wret, rret>>
    BY <1>1 DEF Hangup, CloseRead
  <1>3. Len(sent) \in Nat /\ Len(ch) \in Nat /\ Len(writing) \in 0 .. 1
    <2>1. /\ sent \in Seq(1 .. Writes) /\ ch \in Seq(1 .. Writes)
          /\ writing \in Seq(1 .. Writes) /\ Len(writing) <= 1
      BY <1>1 DEF TypeOK
    <2>2. Len(sent) \in Nat
      BY <2>1, LenProperties
    <2>3. Len(ch) \in Nat
      BY <2>1, LenProperties
    <2>4. Len(writing) \in Nat
      BY <2>1, LenProperties
    <2>5. Len(writing) \in 0 .. 1
      <3> DEFINE n == Len(writing)
      <3>1. n \in Nat /\ n <= 1
        BY <2>1, <2>4
      <3> HIDE DEF n
      <3>2. n \in 0 .. 1
        BY <3>1
      <3> QED BY <3>2 DEF n
    <2> QED BY <2>2, <2>3, <2>5
  <1>4. TypeOK'
    BY <1>1, <1>2, <1>3 DEF TypeOK
  <1>5. ProducerOK'
    BY <1>1, <1>2 DEF ProducerOK
  <1>6. QueueOK' /\ ReadOK' /\ OverOK'
    BY <1>1, <1>2 DEF QueueOK, ReadOK, OverOK, Taken, PieceNo
  <1>7. HungOK'
    <2>1. hung'[1] = Len(sent) /\ hung'[2] = Len(ch) /\ hung' # <<>>
      BY <1>2
    <2>2. Len(sent') = Len(sent) /\ Len(ch') = Len(ch) /\ Len(writing') = Len(writing)
      BY <1>2
    <2>3. /\ hung'[1] <= Len(sent')
          /\ Len(ch') - hung'[2] = Len(sent') - hung'[1]
          /\ Len(sent') + Len(writing') <= hung'[1] + 1
      BY <1>3, <2>1, <2>2
    <2>4. closed' = TRUE /\ reading' = FALSE
      BY <1>1, <1>2 DEF TypeOK
    <2> QED BY <2>1, <2>3, <2>4 DEF HungOK
  <1> QED BY <1>4, <1>5, <1>6, <1>7

\* A piece read is told from the piece before it, and is the next one.
LEMMA PieceRead ==
    ASSUME IInv, Consume, NEW p \in Places, rret' = p, p = PieceNo(Len(got) + 1)
    PROVE  /\ got' \in Seq(Places) /\ Len(got') = Len(got) + 1
           /\ \A n \in 1 .. Len(got') : got'[n] = PieceNo(n)
           /\ rret' = got'[Len(got')] /\ got' # <<>>
           /\ over' = FALSE /\ UNCHANGED <<offered, sent, hung>>
  <1> USE DEF IInv
  <1>1. got \in Seq(Places) /\ Len(got) \in Nat
    BY LenProperties DEF TypeOK
  <1>2. /\ ~over /\ rret = IF got = <<>> THEN <<>> ELSE got[Len(got)]
        /\ \A n \in 1 .. Len(got) : got[n] = PieceNo(n)
    BY DEF Consume, ReadOK
  <1>3. Len(p) = 2 /\ p # <<>>
    BY DEF Places
  <1>4. p # rret
    <2>1. CASE got = <<>>
      BY <2>1, <1>2, <1>3
    <2>2. CASE got # <<>>
      <3>1. Len(got) \in Nat \ {0}
        BY <2>2, <1>1, EmptySeq
      <3>2. rret = PieceNo(Len(got))
        BY <3>1, <2>2, <1>2
      <3> QED BY <3>1, <3>2, PiecesDiffer
    <2> QED BY <2>1, <2>2
  <1>5. /\ got' = Append(got, p) /\ over' = FALSE
        /\ UNCHANGED <<offered, sent, hung>>
    BY <1>3, <1>4 DEF Consume, Piece
  <1>6. /\ got' \in Seq(Places) /\ Len(got') = Len(got) + 1
        /\ \A n \in 1 .. Len(got) : got'[n] = got[n]
        /\ got'[Len(got) + 1] = p
    BY <1>1, <1>5, AppendProperties
  <1>7. got' # <<>>
    BY <1>1, <1>6, EmptySeq
  <1>8. \A n \in 1 .. Len(got') : got'[n] = PieceNo(n)
    BY <1>1, <1>2, <1>6
  <1> QED BY <1>5, <1>6, <1>7, <1>8

\* An error read is no piece, and the first one.
LEMMA ErrorRead ==
    ASSUME IInv, Consume, rret' \in Errors
    PROVE  over' = TRUE /\ UNCHANGED <<got, offered, sent, hung>>
  <1> USE DEF IInv
  <1>1. got \in Seq(Places) /\ Len(got) \in Nat
    BY LenProperties DEF TypeOK
  <1>2. Len(rret') = 1
    BY DEF Errors
  <1>3. rret # rret'
    <2>1. rret = IF got = <<>> THEN <<>> ELSE got[Len(got)]
      BY DEF Consume, ReadOK
    <2>2. CASE got = <<>>
      BY <1>2, <2>1, <2>2
    <2>3. CASE got # <<>>
      <3>1. Len(got) \in Nat \ {0}
        BY <2>3, <1>1, EmptySeq
      <3>2. rret \in Places
        BY <1>1, <2>1, <2>3, <3>1, ElementOfSeq
      <3>3. Len(rret) = 2
        BY <3>2 DEF Places
      <3> QED BY <1>2, <3>3
    <2> QED BY <2>2, <2>3
  <1>4. Piece(rret') = FALSE
    BY <1>2 DEF Piece
  <1>5. over' = TRUE
    BY <1>3, <1>4 DEF Consume
  <1>6. got' = got
    BY <1>4 DEF Consume
  <1> QED BY <1>5, <1>6 DEF Consume

\* What Read holds is the rest of the write taken last.
LEMMA CopiesKeeps == IInv /\ ReadCopies /\ Consume => IInv'
  <1>1. SUFFICES ASSUME IInv, ReadCopies, Consume PROVE IInv'
    OBVIOUS
  <1> USE DEF IInv
  <1> DEFINE p == Head(cur)
             c == Pieces - Len(cur)
             t == Taken - 1
  <1>2. /\ ~reading /\ cur # <<>> /\ rret' = p /\ cur' = Tail(cur)
        /\ UNCHANGED <<ch, ended, werr, closed, writing, reading, wret>>
    BY <1>1 DEF ReadCopies
  <1>3. /\ cur \in Seq(Places) /\ Len(cur) \in Nat \ {0} /\ Len(got) \in Nat
        /\ Len(sent) \in Nat /\ Len(ch) \in Nat
    BY <1>1, <1>2, EmptySeq, LenProperties DEF TypeOK
  <1>4. /\ Len(cur) < Pieces /\ Len(got) + Len(cur) = Pieces * Taken
        /\ Len(ch) <= Len(sent)
    BY <1>1 DEF ReadOK, QueueOK
  <1>5. p = cur[1] /\ p \in Places
    BY <1>3, HeadTailProperties
  <1>6. Taken \in Nat \ {0} /\ c \in 1 .. Pieces - 1
    <2>1. Taken \in Nat
      BY <1>3, <1>4 DEF Taken
    <2>2. Taken # 0
      <3>1. SUFFICES ASSUME Taken = 0 PROVE FALSE
        OBVIOUS
      <3>2. Pieces * Taken = 0
        BY <3>1
      <3> QED BY <3>2, <1>3, <1>4
    <2> QED BY <1>3, <1>4, <2>1, <2>2
  <1>7. p = <<t + 1, c + 1>>
    BY <1>1, <1>3, <1>5, <1>6 DEF ReadOK
  <1>8. Len(got) = Pieces * t + c
    BY <1>3, <1>4, <1>6
  <1>9. p = PieceNo(Len(got) + 1)
    <2>1. t \in Nat /\ c \in 0 .. Pieces - 1
      BY <1>6
    <2> HIDE DEF t, c, p
    <2>2. PieceNo(Pieces * t + c + 1) = <<t + 1, c + 1>>
      BY <2>1, PieceAt
    <2> QED BY <1>7, <1>8, <2>2
  <1>10. /\ got' \in Seq(Places) /\ Len(got') = Len(got) + 1
         /\ \A n \in 1 .. Len(got') : got'[n] = PieceNo(n)
         /\ rret' = got'[Len(got')] /\ got' # <<>>
         /\ over' = FALSE /\ UNCHANGED <<offered, sent, hung>>
    BY <1>1, <1>2, <1>5, <1>9, PieceRead
  <1>11. /\ cur' \in Seq(Places) /\ Len(cur') = Len(cur) - 1
         /\ \A n \in 1 .. Len(cur') : cur'[n] = cur[n + 1]
    BY <1>2, <1>3, HeadTailProperties
  <1>12. Taken' = Taken
    BY <1>2, <1>10 DEF Taken
  <1> HIDE DEF p, c, t
  <1>13. TypeOK'
    BY <1>1, <1>2, <1>5, <1>10, <1>11 DEF TypeOK
  <1>14. ProducerOK' /\ QueueOK' /\ HungOK' /\ OverOK'
    BY <1>1, <1>2, <1>10, <1>12 DEF ProducerOK, QueueOK, HungOK, OverOK
  <1>15. ReadOK'
    <2>1. \A n \in 1 .. Len(cur') : cur'[n] = <<Taken, Pieces - Len(cur') + n>>
      <3> TAKE n \in 1 .. Len(cur')
      <3>1. n + 1 \in 1 .. Len(cur) /\ cur'[n] = cur[n + 1]
        BY <1>3, <1>11
      <3>2. cur[n + 1] = <<Taken, Pieces - Len(cur) + (n + 1)>>
        BY <1>1, <3>1 DEF ReadOK
      <3>3. Pieces - Len(cur) + (n + 1) = Pieces - Len(cur') + n
        BY <1>3, <1>11
      <3> QED BY <3>1, <3>2, <3>3
    <2>2. Len(cur') < Pieces /\ Len(got') + Len(cur') = Pieces * Taken
      BY <1>3, <1>4, <1>10, <1>11
    <2> QED BY <1>2, <1>10, <1>12, <2>1, <2>2 DEF ReadOK, PieceNo
  <1> QED BY <1>13, <1>14, <1>15

\* Read's first select: it goes and waits, unless the consumer has hung up.
LEMMA CalledKeeps == IInv /\ ReadCalled /\ Consume => IInv'
  <1>1. SUFFICES ASSUME IInv, ReadCalled, Consume PROVE IInv'
    OBVIOUS
  <1> USE DEF IInv
  <1>2. /\ ~reading /\ cur = <<>> /\ ~over
        /\ UNCHANGED <<ch, ended, werr, closed, cur, writing, wret>>
    BY <1>1 DEF ReadCalled, Consume
  <1>3. CASE closed
    <2>1. rret' = <<"ErrClosedPipe">> /\ reading' = reading
      BY <1>1, <1>3 DEF ReadCalled
    <2>2. rret' \in Errors
      BY <2>1 DEF Errors
    <2>3. over' = TRUE /\ UNCHANGED <<got, offered, sent, hung>>
      BY <1>1, <2>2, ErrorRead
    <2>4. TypeOK'
      BY <1>1, <1>2, <2>1, <2>2, <2>3 DEF TypeOK
    <2>5. ProducerOK' /\ QueueOK' /\ HungOK' /\ OverOK'
      BY <1>1, <1>2, <1>3, <2>1, <2>3 DEF ProducerOK, QueueOK, HungOK, OverOK, Taken
    <2>6. ReadOK'
      BY <1>1, <1>2, <2>1, <2>3 DEF ReadOK, Taken, PieceNo
    <2> QED BY <2>4, <2>5, <2>6
  <1>4. CASE ~closed
    <2>1. reading' = TRUE /\ rret' = rret
      BY <1>1, <1>4 DEF ReadCalled
    <2>2. over' = FALSE /\ UNCHANGED <<got, offered, sent, hung>>
      BY <1>1, <2>1 DEF Consume
    <2>3. TypeOK'
      BY <1>1, <1>2, <2>1, <2>2 DEF TypeOK
    <2>4. ProducerOK' /\ QueueOK' /\ HungOK' /\ OverOK'
      BY <1>1, <1>2, <1>4, <2>1, <2>2 DEF ProducerOK, QueueOK, HungOK, OverOK, Taken
    <2>5. ReadOK'
      BY <1>1, <1>2, <2>1, <2>2 DEF ReadOK, Taken, PieceNo
    <2> QED BY <2>3, <2>4, <2>5
  <1> QED BY <1>3, <1>4

\* Nobody reads after the hang-up, so what is taken is taken before it.
LEMMA TakesKeeps == IInv /\ ReadTakes /\ Consume => IInv'
  <1>1. SUFFICES ASSUME IInv, ReadTakes, Consume PROVE IInv'
    OBVIOUS
  <1> USE DEF IInv
  <1> DEFINE b == Head(ch)
             p == Head(Copied(b))
  <1>2. /\ reading /\ ch # <<>> /\ rret' = p /\ cur' = Rest(b)
        /\ ch' = Tail(ch) /\ reading' = FALSE
        /\ UNCHANGED <<ended, werr, closed, writing, wret>>
    BY <1>1 DEF ReadTakes
  <1>3. /\ ch \in Seq(1 .. Writes) /\ Len(ch) \in Nat \ {0} /\ Len(got) \in Nat
        /\ Len(sent) \in Nat
    BY <1>1, <1>2, EmptySeq, LenProperties DEF TypeOK
  <1>4. /\ cur = <<>> /\ Len(cur) = 0 /\ Len(got) + Len(cur) = Pieces * Taken
        /\ Len(ch) <= Len(sent) /\ ~closed
    BY <1>1, <1>2 DEF ReadOK, QueueOK, HungOK
  <1>5. /\ b = ch[1] /\ b \in 1 .. Writes /\ Len(ch') = Len(ch) - 1
        /\ ch' \in Seq(1 .. Writes)
        /\ \A n \in 1 .. Len(ch') : ch'[n] = ch[n + 1]
    BY <1>2, <1>3, HeadTailProperties
  <1>6. Taken \in Nat
    BY <1>3, <1>4 DEF Taken
  <1>7. b = Taken + 1
    BY <1>1, <1>3, <1>5 DEF QueueOK
  <1>8. /\ Copied(b) \in Seq(Places) /\ Len(Copied(b)) = Pieces
        /\ \A n \in 1 .. Pieces : Copied(b)[n] = <<b, n>>
    <2>1. \A n \in 1 .. Pieces : <<b, n>> \in Places
      BY <1>5 DEF Places
    <2>2. Copied(b) \in [1 .. Pieces -> Places]
      BY <2>1 DEF Copied
    <2>3. Copied(b) \in Seq(Places)
      BY <2>2, IsASeq
    <2>4. DOMAIN Copied(b) = 1 .. Pieces
      BY DEF Copied
    <2>5. Len(Copied(b)) = Pieces
      BY <2>3, <2>4, LenProperties
    <2> QED BY <2>3, <2>5 DEF Copied
  <1> HIDE DEF b
  <1>9. /\ p = <<b, 1>> /\ p \in Places
        /\ cur' \in Seq(Places) /\ Len(cur') = Pieces - 1
        /\ \A n \in 1 .. Len(cur') : cur'[n] = <<b, n + 1>>
    <2>1. Copied(b) # <<>>
      BY <1>8, EmptySeq
    <2>2. /\ p = Copied(b)[1] /\ p \in Places
          /\ cur' \in Seq(Places) /\ Len(cur') = Len(Copied(b)) - 1
          /\ \A n \in 1 .. Len(cur') : cur'[n] = Copied(b)[n + 1]
      BY <1>2, <1>8, <2>1, HeadTailProperties DEF Rest
    <2> QED BY <1>8, <2>2
  <1>10. p = PieceNo(Len(got) + 1)
    <2>1. PieceNo(Pieces * Taken + 1) = <<Taken + 1, 1>>
      BY <1>6, FirstPiece
    <2>2. Len(got) = Pieces * Taken
      BY <1>3, <1>4, <1>6
    <2> QED BY <1>7, <1>9, <2>1, <2>2
  <1> HIDE DEF p
  <1>11. /\ got' \in Seq(Places) /\ Len(got') = Len(got) + 1
         /\ \A n \in 1 .. Len(got') : got'[n] = PieceNo(n)
         /\ rret' = got'[Len(got')] /\ got' # <<>>
         /\ over' = FALSE /\ UNCHANGED <<offered, sent, hung>>
    BY <1>1, <1>2, <1>9, <1>10, PieceRead
  <1>12. Taken' = Taken + 1 /\ Taken' = b
    BY <1>3, <1>5, <1>7, <1>11 DEF Taken
  <1>13. TypeOK'
    <2>1. Len(ch') <= Slots
      BY <1>1, <1>3, <1>5 DEF TypeOK
    <2>2. rret' \in Places
      BY <1>2, <1>9
    <2> QED BY <1>1, <1>2, <1>5, <1>9, <1>11, <2>1, <2>2 DEF TypeOK
  <1>14. ProducerOK' /\ HungOK' /\ OverOK'
    BY <1>1, <1>2, <1>4, <1>11 DEF ProducerOK, HungOK, OverOK
  <1>15. QueueOK'
    <2>1. \A n \in 1 .. Len(ch') : ch'[n] = Taken' + n
      BY <1>1, <1>3, <1>5, <1>6, <1>12 DEF QueueOK
    <2> QED BY <1>3, <1>4, <1>5, <1>11, <2>1 DEF QueueOK
  <1>16. ReadOK'
    <2>1. \A n \in 1 .. Len(cur') : cur'[n] = <<Taken', Pieces - Len(cur') + n>>
      BY <1>9, <1>12
    <2>2. Len(got') + Len(cur') = Pieces * Taken'
      <3> DEFINE m == Pieces * Taken
      <3>1. m \in Nat /\ Pieces * (Taken + 1) = m + Pieces
        BY <1>6
      <3>2. Len(got) = m
        BY <1>3, <1>4
      <3> HIDE DEF m
      <3>3. Len(got') = m + 1 /\ Len(cur') = Pieces - 1
        BY <1>9, <1>11, <3>2
      <3> QED BY <1>12, <3>1, <3>3
    <2>3. Len(cur') < Pieces
      BY <1>9
    <2> QED BY <1>2, <1>11, <2>1, <2>2, <2>3 DEF ReadOK, PieceNo
  <1> QED BY <1>13, <1>14, <1>15, <1>16

\* The end is read when nothing is held and nothing is queued.
LEMMA EndsKeeps == IInv /\ ReadEnds /\ Consume => IInv'
  <1>1. SUFFICES ASSUME IInv, ReadEnds, Consume PROVE IInv'
    OBVIOUS
  <1> USE DEF IInv
  <1>2. /\ reading /\ ch = <<>> /\ ended /\ reading' = FALSE
        /\ rret' = IF werr = "nil" THEN <<"EOF">> ELSE <<werr>>
        /\ UNCHANGED <<ch, ended, werr, closed, cur, writing, wret>>
    BY <1>1 DEF ReadEnds, Drained
  <1>3. rret' \in Errors
    BY <1>1, <1>2 DEF TypeOK, Errors
  <1>4. over' = TRUE /\ UNCHANGED <<got, offered, sent, hung>>
    BY <1>1, <1>3, ErrorRead
  <1>5. cur = <<>>
    BY <1>1, <1>2 DEF ReadOK
  <1>6. TypeOK'
    BY <1>1, <1>2, <1>3, <1>4 DEF TypeOK
  <1>7. ProducerOK' /\ QueueOK' /\ HungOK'
    BY <1>1, <1>2, <1>4 DEF ProducerOK, QueueOK, HungOK, Taken
  <1>8. ReadOK'
    BY <1>1, <1>2, <1>4 DEF ReadOK, Taken, PieceNo
  <1>9. OverOK'
    BY <1>2, <1>5 DEF OverOK
  <1> QED BY <1>6, <1>7, <1>8, <1>9

-----------------------------------------------------------------------------
LEMMA StepKeepsIInv == IInv /\ [UseNext]_useVars => IInv'
  <1>1. SUFFICES ASSUME IInv, [UseNext]_useVars PROVE IInv'
    OBVIOUS
  <1>2. CASE Offer
    BY <1>1, <1>2, OfferKeeps
  <1>3. CASE Produced
    BY <1>1, <1>3, QueuesKeeps, RefusedKeeps DEF Produced, WriteEnds
  <1>4. CASE EndStream
    BY <1>1, <1>4, EndStreamKeeps
  <1>5. CASE Consume
    BY <1>1, <1>5, CopiesKeeps, CalledKeeps, TakesKeeps, EndsKeeps
       DEF Consume, ReadReturns
  <1>6. CASE Hangup
    BY <1>1, <1>6, HangupKeeps
  <1>7. CASE UNCHANGED useVars
    BY <1>1, <1>7 DEF useVars, uvars, pvars, IInv, TypeOK, ProducerOK, QueueOK, ReadOK,
       OverOK, HungOK, Taken, PieceNo
  <1> QED BY <1>1, <1>2, <1>3, <1>4, <1>5, <1>6, <1>7 DEF UseNext

\* The invariant holds of everything the producer and the consumer may do.
THEOREM Invariance == UseSpec => []IInv
  <1> QED BY InitIInv, StepKeepsIInv, PTL DEF UseSpec

\* What was read is the first pieces of what was accepted.
LEMMA ReadIsPrefix ==
    ASSUME IInv
    PROVE  /\ AllPieces \in Seq(Places) /\ Len(AllPieces) = Pieces * Len(sent)
           /\ Len(got) <= Pieces * Len(sent)
           /\ \A n \in 1 .. Len(got) : got[n] = AllPieces[n]
  <1> USE DEF IInv
  <1> DEFINE l == Pieces * Len(sent)
  <1>1. /\ sent \in Seq(1 .. Writes) /\ got \in Seq(Places) /\ Len(sent) \in Nat
        /\ Len(got) \in Nat /\ Len(cur) \in Nat /\ Len(ch) \in Nat
    BY LenProperties DEF TypeOK
  <1>2. l \in Nat
    BY <1>1
  <1>3. \A n \in 1 .. l : AllPieces[n] = PieceNo(n) /\ AllPieces[n] \in Places
    <2> TAKE n \in 1 .. l
    <2>1. n - 1 \in Nat /\ n - 1 < Pieces * Len(sent)
      BY <1>2
    <2>2. (n - 1) \div Pieces \in 0 .. Len(sent) - 1
      BY <1>1, <2>1, QuotientBelow
    <2>3. (n - 1) % Pieces \in 0 .. Pieces - 1
      BY <2>1, Divides
    <2> DEFINE w == 1 + ((n - 1) \div Pieces)
               j == 1 + ((n - 1) % Pieces)
    <2>4. w \in 1 .. Len(sent) /\ j \in 1 .. Pieces
      BY <1>1, <2>2, <2>3
    <2>5. AllPieces[n] = Copied(sent[w])[j] /\ PieceNo(n) = <<w, j>>
      BY DEF AllPieces, PieceNo
    <2> HIDE DEF w, j
    <2>6. sent[w] = w /\ w \in 1 .. Writes
      BY <1>1, <2>4, ElementOfSeq DEF ProducerOK
    <2>7. Copied(w)[j] = <<w, j>>
      BY <2>4 DEF Copied
    <2> QED BY <2>4, <2>5, <2>6, <2>7 DEF Places
  <1>4. AllPieces \in Seq(Places) /\ Len(AllPieces) = l
    <2>1. AllPieces \in [1 .. l -> Places]
      BY <1>3 DEF AllPieces
    <2>2. AllPieces \in Seq(Places)
      BY <1>2, <2>1, IsASeq
    <2>3. DOMAIN AllPieces = 1 .. l
      BY DEF AllPieces
    <2> HIDE DEF l
    <2> QED BY <1>2, <2>2, <2>3, LenProperties
  <1>5. Len(got) <= l
    <2>1. Len(got) <= Pieces * Taken /\ Taken \in Nat /\ Taken <= Len(sent)
      BY <1>1 DEF ReadOK, QueueOK, Taken
    <2>2. Pieces * Taken <= l
      <3>1. CASE Taken = Len(sent)
        BY <3>1, <1>2
      <3>2. CASE Taken < Len(sent)
        <4>1. Pieces * Taken + Pieces <= l
          BY <3>2, <1>1, <2>1, BlockEnds
        <4>2. Pieces * Taken \in Nat
          BY <2>1
        <4> QED BY <4>1, <4>2, <1>2
      <3> QED BY <3>1, <3>2, <1>1, <2>1
    <2> DEFINE m == Pieces * Taken
               n == Len(got)
    <2>3. m \in Nat /\ m <= l /\ n \in Nat /\ n <= m
      BY <1>1, <2>1, <2>2
    <2> HIDE DEF m, n, l
    <2>4. n <= l
      BY <1>2, <2>3
    <2> QED BY <2>4 DEF n
  <1>6. \A n \in 1 .. Len(got) : got[n] = AllPieces[n]
    <2> HIDE DEF l
    <2> QED BY <1>1, <1>2, <1>3, <1>5 DEF ReadOK
  <1> QED BY <1>4, <1>5, <1>6

LEMMA ReadsAccepted == IInv => ReadsWhatWasWritten
  <1>1. SUFFICES ASSUME IInv PROVE ReadsWhatWasWritten
    OBVIOUS
  <1>2. /\ AllPieces \in Seq(Places) /\ Len(AllPieces) = Pieces * Len(sent)
        /\ Len(got) <= Pieces * Len(sent)
        /\ \A n \in 1 .. Len(got) : got[n] = AllPieces[n]
    BY <1>1, ReadIsPrefix
  <1>3. got \in Seq(Places) /\ Len(got) \in Nat /\ Len(sent) \in Nat
    BY <1>1, LenProperties DEF IInv, TypeOK
  <1> HIDE DEF AllPieces
  <1>4. IsPrefix(got, AllPieces)
    <2>1. Len(AllPieces) \in Nat /\ Len(got) <= Len(AllPieces)
      BY <1>2, LenProperties
    <2>2. /\ SubSeq(got, 1, Len(got)) = [n \in 1 .. Len(got) |-> got[n]]
          /\ SubSeq(AllPieces, 1, Len(got)) = [n \in 1 .. Len(got) |-> AllPieces[n]]
      BY <1>2, <1>3, <2>1
    <2>3. SubSeq(got, 1, Len(got)) = SubSeq(AllPieces, 1, Len(got))
      BY <1>2, <2>2
    <2> QED BY <2>1, <2>3 DEF IsPrefix
  <1>5. ASSUME over, ~closed
        PROVE  /\ got = AllPieces /\ offered = Len(sent)
               /\ rret = IF werr = "nil" THEN <<"EOF">> ELSE <<werr>>
    <2>1. /\ ended /\ ch = <<>> /\ cur = <<>>
          /\ rret = IF werr = "nil" THEN <<"EOF">> ELSE <<werr>>
      BY <1>1, <1>5 DEF IInv, OverOK
    <2>2. Len(got) = Pieces * Len(sent)
      BY <1>1, <1>3, <2>1 DEF IInv, ReadOK, Taken
    <2>3. got = AllPieces
      BY <1>2, <1>3, <2>2, SeqEqual
    <2>4. offered = Len(sent)
      <3>1. wret = "nil" /\ writing = <<>>
        BY <1>1, <1>5, <2>1 DEF IInv, ProducerOK
      <3> QED BY <1>1, <1>3, <3>1 DEF IInv, ProducerOK
    <2> QED BY <2>1, <2>3, <2>4
  <1> QED BY <1>4, <1>5 DEF ReadsWhatWasWritten

\* Two selects that choose as they like between a queue and a closed channel
\* neither lose, repeat nor reorder a piece, and the end comes last.
THEOREM ReadsWritten == UseSpec => []ReadsWhatWasWritten
  <1> QED BY Invariance, ReadsAccepted, PTL

LEMMA RefusesAfter == IInv => HangupRefuses
  <1>1. SUFFICES ASSUME IInv, hung # <<>>
                 PROVE  Len(sent) <= hung[1] + (IF hung[2] < Slots THEN 1 ELSE 0)
    BY DEF HangupRefuses
  <1>2. /\ hung[1] <= Len(sent) /\ Len(ch) - hung[2] = Len(sent) - hung[1]
        /\ Len(sent) + Len(writing) <= hung[1] + 1
    BY <1>1 DEF IInv, HungOK
  <1>3. hung[1] \in Nat /\ hung[2] \in Nat /\ Len(ch) <= Slots
    BY <1>1 DEF IInv, TypeOK
  <1>4. Len(sent) \in Nat /\ Len(ch) \in Nat /\ Len(writing) \in Nat
    BY <1>1, LenProperties DEF IInv, TypeOK
  <1> QED BY <1>2, <1>3, <1>4

\* A hang-up is final: no write is called after it and accepted, and a write
\* that was waiting on a full queue is not accepted either.
THEOREM HangupIsFinal == UseSpec => []HangupRefuses
  <1> QED BY Invariance, RefusesAfter, PTL

==============================================================================
