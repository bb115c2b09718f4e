----------------------------- MODULE GzipStream -----------------------------
(***************************************************************************)
(* The deflate stream of engine/gnugzip: blocks through GzipTrees, one     *)
(* after another, and read back by Inflate; and trees by themselves.       *)
(***************************************************************************)
EXTENDS GzipTrees, Inflate

CONSTANTS Blocks,       \* blocks of a stream, at the real program's sizes
          MaxBlocks,
          Samples       \* [desc, freq] to build a tree for

ASSUME StreamAssumption == \A s \in Samples : \A n \in DOMAIN s.freq : s.freq[n] \in 0 .. 2^16 - 1

VARIABLES blocks,       \* written so far
          before,       \* the stream as it was before each of them
          stream,       \* and after them
          sample, tree  \* the tree built, and for what

streamVars == <<blocks, before, stream, sample, tree>>

NewStream == [w |-> NewBits, compressedLen |-> 0]
None == [desc |-> "none"]

StreamInit == blocks = <<>> /\ before = <<>> /\ stream = NewStream /\ sample = None /\ tree = None

Ended == blocks # <<>> /\ Last(blocks).eof

AddBlock == /\ ~Ended /\ Len(blocks) < MaxBlocks /\ sample = None
            /\ \E b \in Blocks :
                  /\ b.eof \/ Len(blocks) + 1 < MaxBlocks
                  /\ blocks' = Append(blocks, b) /\ before' = Append(before, stream)
                  /\ stream' = FlushBlock(stream, b)
            /\ UNCHANGED <<sample, tree>>

Build == /\ blocks = <<>> /\ sample = None
         /\ \E s \in Samples : sample' = s /\ tree' = BuildTree(s.desc, s.freq)
         /\ UNCHANGED <<blocks, before, stream>>

StreamNext == AddBlock \/ Build

-----------------------------------------------------------------------------
BitsOut(s) == 8 * Len(s.w.out) + s.w.valid

\* An inflating reader gets back the blocks of a finished stream and no more,
\* but for the empty ones that only pad, whichever of the three encodings each
\* is in and at whatever bit it begins: stored, the input itself; otherwise its
\* literals and matches.
Holds(found) ==
    /\ Len(found) = Len(blocks)
    /\ \A k \in DOMAIN blocks : IF found[k].kind = StoredBlock
                                 THEN found[k].data = blocks[k].data
                                 ELSE found[k].tokens = blocks[k].tokens
StreamLossless ==
    Ended => Holds(SelectSeq(InflateFrom(stream.w.out, 0),
                             LAMBDA b : b.kind # StoredBlock \/ b.final \/ b.data # <<>>))

\* The choice between the encodings, and where a sequence point's padding goes,
\* rest on bits counted and not on bits written: the counts are right, the
\* stream's in remainder by 8, so that the encoding chosen is not longer by a
\* byte than another, and a padded block ends a byte.
CountsRight(b, t, start) ==
    LET Sized(kind) == BitsOut(Encode(start, [b EXCEPT !.eof = FALSE], t, kind))
    IN  /\ Sized(DynTrees) = t.optLen + 3 /\ Sized(StaticTrees) = t.staticLen + 3
        /\ Sized(Encoding(b, t)) \div 8 <= Min({Sized(StaticTrees), Sized(DynTrees)}) \div 8 + 1
        /\ ~b.eof => (BitsOut(stream) - stream.compressedLen) % 8 = 0
        /\ b.pad \/ b.eof => stream.w.valid % 8 = 0
CountsAreBits ==
    blocks # <<>> => CountsRight(Last(blocks), BlockTrees(Last(blocks)),
                                 [Last(before) EXCEPT !.w = NewBits])

\* The least that symbols of these frequencies can cost in any prefix code.
RECURSIVE Huffman(_)
Huffman(freqs) ==
    IF Len(freqs) < 2 THEN 0
    ELSE LET f == SortSeq(freqs, <)
         IN  f[1] + f[2] + Huffman(<<f[1] + f[2]>> \o SubSeq(f, 3, Len(f)))

\* A tree has a code for each symbol that occurs, no longer than the limit; no
\* code is the beginning of another and none is wasted; it costs the least
\* possible unless codes are as long as the limit; and opt says what it costs.
TreesOptimal == sample # None =>
    LET desc == sample.desc
        used == SelectSeq([n \in 1 .. desc.elems |-> n - 1], LAMBDA n : sample.freq[n] # 0)
        have == {n \in 0 .. tree.maxCode : tree.len[n] # 0}
        X(n) == IF n >= desc.base THEN desc.extra[n - desc.base] ELSE 0
        Cost(E(_)) == MapThenSumSet(LAMBDA i : sample.freq[used[i]] * E(used[i]), DOMAIN used)
        cost == Cost(LAMBDA n : tree.len[n])
    IN  /\ ToSet(used) \subseteq have /\ \A n \in have : tree.len[n] <= desc.maxLength
        /\ \A m, n \in have : m # n /\ tree.len[m] <= tree.len[n] =>
               tree.code[n] % 2^tree.len[m] # tree.code[m]
        /\ MapThenSumSet(LAMBDA n : 2^(desc.maxLength - tree.len[n]), have) = 2^desc.maxLength
        /\ \/ Len(used) < 2
           \/ \E n \in have : tree.len[n] = desc.maxLength
           \/ cost = Huffman([i \in DOMAIN used |-> sample.freq[used[i]]])
        /\ tree.opt = cost + Cost(X)
=============================================================================
