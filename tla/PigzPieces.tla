----------------------------- MODULE PigzPieces -----------------------------
(***************************************************************************)
(* What the pigz engine (engine/pigz/pigz.go) compresses at a time, on     *)
(* either path: compressJob for a job of cutJobs', single for the whole    *)
(* input, endPiece on both, and the space a job's output is given.         *)
(***************************************************************************)
EXTENDS PigzCut

CONSTANTS Stream,     \* streamChunk
          Amounts     \* what a run of deflate puts out

ASSUME PiecesAssumption == Stream \in Nat \ {0} /\ Amounts \subseteq Nat

VARIABLES one, pieces,  \* single's locals, and what it has compressed
          plain, streamed   \* the same job's outSpace, handed out whole and in chunks

pieceVars == <<one, pieces, plain, streamed>>

PiecesInit == CutInit /\ one = None /\ pieces = <<>> /\ plain = None /\ streamed = None

-----------------------------------------------------------------------------
\* compressJob: the pieces of a job and, at each one's end, whether the stream
\* goes on; what is behind the last length is one more.
JobPieces(curr, lens, more) ==
    LET at[i \in 0 .. Len(lens) + 1] ==
            IF i = 0 THEN 0 ELSE IF i > Len(lens) THEN Len(curr) ELSE at[i-1] + lens[i]
        last == Min({i \in 1 .. Len(lens) + 1 : at[i] = Len(curr)})
    IN  [i \in 1 .. last |-> [data |-> SubSeq(curr, at[i-1] + 1, at[i]),
                              more |-> at[i] # Len(curr) \/ more]]

-----------------------------------------------------------------------------
(* single: the buffers in and next are kept in place; 0 is what was there  *)
(* before any input.                                                       *)

Places == 0 .. Block + DictSize - 1
Put(buf, at, data) == [k \in Places |-> IF k \in at .. at + Len(data) - 1 THEN data[k - at + 1] ELSE buf[k]]
Slice(buf, at, n) == [k \in 1 .. n |-> buf[at + k - 1]]

Reread(s) == LET data == Readn(s.read)
             IN  [s EXCEPT !.next = Put(@, 0, data), !.more = Len(data), !.start = 0,
                           !.read = @ + Len(data)]

\* The input is used up: on with what was read ahead.
Swap(s) == Reread([s EXCEPT !.in = s.next, !.next = s.in, !.nextIn = s.start, !.got = s.more])

\* The end of what there is, without a hit: what is there moves to the front and
\* as much of next as fits behind it.
Refill(s) ==
    LET left == Min({s.more, Block - s.got})
        t == [s EXCEPT !.in = Put(Put(@, 0, Slice(s.in, s.nextIn, s.got)), s.got,
                                  Slice(s.next, s.start, left)),
                       !.nextIn = 0, !.sc = s.got, !.left = left, !.got = @ + left,
                       !.more = @ - left, !.start = @ + left]
    IN  IF t.more = 0 THEN Reread(t) ELSE t

\* A byte of the search for a hit, which is over at a hit or when it has been
\* over a block's worth or all there is: no more than Block bytes.
HashByte(s) ==
    LET t == IF s.left = 0 THEN Refill(s) ELSE s
    IN  [t EXCEPT !.left = @ - 1, !.sc = @ + 1, !.hashed = Append(@, t.in[t.sc])]
Over(s) == s.left = 0 /\ (s.more = 0 \/ s.got = Block)
Search(s) ==
    LET after[k \in 0 .. Block] ==
            IF k = 0 THEN s
            ELSE IF Over(after[k-1]) \/ (k > 1 /\ Last(after[k-1].hashed) \in cfg.hits)
            THEN after[k-1] ELSE HashByte(after[k-1])
    IN  after[Block]

StartSingle ==
    /\ cfg # None /\ ~Cutting /\ one = None
    /\ one' = Reread([in |-> [k \in Places |-> 0], next |-> [k \in Places |-> 0], got |-> 0, more |-> 0,
                      start |-> 0, have |-> 0, nextIn |-> 0, sc |-> 0, left |-> 0,
                      hashed |-> <<>>, read |-> 0])
    /\ UNCHANGED <<cutVars, pieces, plain, streamed>>

SinglePending == one # None /\ (pieces # <<>> => Last(pieces).more)

\* Independent blocks: the history goes when the piece would make the block
\* longer than a block.
Fresh_Full(have) == have >= Block
Fresh(have) == have > Block

\* One round of single's loop, with the piece it compresses.
SinglePiece ==
    /\ SinglePending
    /\ LET s == IF one.got = 0 THEN Swap(one) ELSE one
           t == IF cfg.rsync /\ s.got > 0 THEN Search([s EXCEPT !.sc = s.nextIn, !.left = s.got])
                ELSE [s EXCEPT !.left = 0]
           n == t.got - t.left
           have  == t.have + n
           fresh == ~cfg.setdict /\ Fresh(have)
       IN  /\ pieces' = Append(pieces, [data |-> Slice(t.in, t.nextIn, n), fresh |-> fresh,
                                        more |-> t.more > 0 \/ t.left > 0])
           /\ one' = [t EXCEPT !.nextIn = @ + n, !.got = t.left, !.left = 0, !.sc = 0,
                               !.have = IF cfg.setdict THEN 0 ELSE IF fresh THEN n ELSE have]
    /\ UNCHANGED <<cutVars, plain, streamed>>

-----------------------------------------------------------------------------
(* engine and endPiece.                                                    *)

OutPool == Block + Block \div 16 + DictSize

\* The next size up: at least a quarter more, a power of two when near one.
Grow(size) ==
    LET larger == size + size \div 4
        near[top \in 0 .. larger] ==
            IF top > 7 THEN 2 * near[top \div 2] ELSE IF top = 7 THEN 8 ELSE 0
    IN  Max({16, IF near[larger] # 0 THEN near[larger] ELSE larger})

Spaces == {out \in [size : Nat, n : Nat] : out.n <= out.size}
Grown(out) == IF out.size = out.n THEN [out EXCEPT !.size = Grow(@)] ELSE out

\* What a call of deflate may write: all the space there is or, for the job
\* that streams, at most chunk of it.
CallRoom(out, chunk) == LET all == out.size - out.n IN IF chunk # 0 /\ all > chunk THEN chunk ELSE all

\* deflate_engine: calls of deflate until one leaves room.  owed is what deflate
\* has to write, and again what it writes once more if the space runs out with
\* the last of it: a marker is repeated.
Engine(out, owed, again, chunk) ==
    LET call[s \in [out : Spaces, owed : 0 .. Max({owed, again})]] ==
            LET room == CallRoom(Grown(s.out), chunk)
                n    == Min({room, s.owed})
                new  == [Grown(s.out) EXCEPT !.n = @ + n]
            IN  IF n < room THEN new
                ELSE call[[out |-> new, owed |-> IF n = s.owed THEN again ELSE s.owed - n]]
    IN  call[[out |-> out, owed |-> owed]]

\* What a flush writes behind so many bits, and how many bits empty static
\* blocks of ten make of them.
Marker(bits) == (bits + 3 + 7) \div 8 + 4
Primed(bits) == Min({b \in {bits + 10 * k : k \in 0 .. 3} : b % 8 = 0})

\* endPiece, when more follows: the block ends, here with so many bits behind
\* its last whole byte, and they are filled up to a byte.  Markers are not
\* handed out in chunks.
EndPiece_Chunks(out, owed, bits, chunk) ==
    LET ended  == Engine(out, owed, 0, chunk)
        marked == Engine(ended, Marker(bits), Marker(0), chunk)
    IN  IF ~cfg.setdict THEN Engine(marked, Marker(0), Marker(0), chunk)
        ELSE IF bits % 2 # 0 THEN marked
        ELSE IF bits = 0 THEN ended ELSE Engine(ended, Primed(bits) \div 8, 0, chunk)
EndPiece(out, owed, bits, chunk) ==
    LET ended  == Engine(out, owed, 0, chunk)
        marked == Engine(ended, Marker(bits), Marker(0), 0)
    IN  IF ~cfg.setdict THEN Engine(marked, Marker(0), Marker(0), 0)
        ELSE IF bits % 2 # 0 THEN marked
        ELSE IF bits = 0 THEN ended ELSE Engine(ended, Primed(bits) \div 8, 0, chunk)

StartOut == /\ cfg # None /\ cfg.size = 0 /\ ~Cutting /\ plain = None
            /\ plain' = [size |-> OutPool, n |-> 0] /\ streamed' = plain'
            /\ UNCHANGED <<cutVars, one, pieces>>
CompressPiece ==
    /\ plain # None /\ plain.n < 4 * OutPool
    /\ \E owed \in Amounts, bits \in 0 .. 7 :
          /\ plain' = EndPiece(plain, owed, bits, 0)
          /\ streamed' = EndPiece(streamed, owed, bits, Stream)
    /\ UNCHANGED <<cutVars, one, pieces>>

PiecesNext == \/ CutNext /\ UNCHANGED pieceVars
              \/ StartSingle \/ SinglePiece \/ StartOut \/ CompressPiece

PiecesSpec == PiecesInit /\ [][PiecesNext]_<<cutVars, pieceVars>>

-----------------------------------------------------------------------------
\* The byte at which the single path's k-th piece ends, 0 before the first.
PieceEnd(k) == IF k = 0 THEN 0 ELSE IF pieces[k].data = <<>> THEN 0 ELSE Last(pieces[k].data)

\* The single-thread path flushes at the same block boundaries as the parallel
\* path, ends the stream at the same piece and hashes each byte once, in order.
\* Independent blocks drop their history where the parallel path begins a job,
\* and with --rsyncable never look back more than a block.
SamePieces ==
    one # None /\ ~SinglePending =>
        LET Upto(n) == FlattenSeq([k \in 1 .. n |-> JobPieces(jobs[k].curr, jobs[k].lens, jobs[k].more)])
            begins  == {Len(Upto(k)) + 1 : k \in 1 .. Len(jobs) - 1}
            resets  == {k \in DOMAIN pieces : pieces[k].fresh}
        IN  /\ [k \in DOMAIN pieces |-> [data |-> pieces[k].data, more |-> pieces[k].more]]
                   = Upto(Len(jobs))
            /\ cfg.rsync => one.hashed = Bytes(1, Size)
            /\ cfg.setdict => resets = {}
            /\ ~cfg.setdict /\ ~cfg.rsync => resets = begins
            /\ ~cfg.setdict => \A i, j \in DOMAIN pieces :
                   i <= j /\ (\A k \in i + 1 .. j : k \notin resets) => PieceEnd(j) - PieceEnd(i - 1) <= Block

\* The first job's output, written as it comes, leaves the output space as if
\* it had been written whole, so that deflate is given the same space next.
StreamedAsWhole == streamed = plain
=============================================================================
