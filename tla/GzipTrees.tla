------------------------------ MODULE GzipTrees ------------------------------
(***************************************************************************)
(* engine/gnugzip/trees.go: how a block of literals and matches becomes    *)
(* bits.  Pure operators with gzip's own constants.                        *)
(*                                                                         *)
(* A tree is built for a description (an alphabet of elems symbols, the    *)
(* extra bits of each, a limit on the lengths and the lengths of a static  *)
(* tree, if there is one) and the symbols' frequencies.  The code overlays *)
(* frequency with code and parent with length; here they have names of     *)
(* their own.  Frequencies stay below 2^16: a block has less than 2^15     *)
(* literals and matches.                                                   *)
(***************************************************************************)
EXTENDS GzipBits, SequencesExt

MaxBits == 15
MaxBLBits == 7
LengthCodes == 29
Literals == 256
EndBlock == 256
LCodes == Literals + 1 + LengthCodes
DCodes == 30
BLCodes == 19
MinMatch == 3
MaxMatch == 258

Rep36 == 16
RepZ310 == 17
RepZ11138 == 18

StoredBlock == 0
StaticTrees == 1
DynTrees == 2

\* Distances and lengths in classes with extra bits.
ExtraLbits == [c \in 0 .. LengthCodes-1 |->
                  IF c < 8 \/ c = LengthCodes-1 THEN 0 ELSE c \div 4 - 1]
ExtraDbits == [c \in 0 .. DCodes-1 |-> IF c < 4 THEN 0 ELSE c \div 2 - 1]
ExtraBLbits == [c \in 0 .. BLCodes-1 |->
                   CASE c = Rep36 -> 2 [] c = RepZ310 -> 3 [] c = RepZ11138 -> 7 [] OTHER -> 0]
BLOrder == <<16, 17, 18, 0, 8, 7, 9, 6, 10, 5, 11, 4, 12, 3, 13, 2, 14, 1, 15>>

-----------------------------------------------------------------------------
(* ctInit: the tables.                                                     *)

\* Each class begins where the one before ends.
Bases(extra) ==
    LET base[c \in DOMAIN extra] == IF c = 0 THEN 0 ELSE base[c-1] + 2^extra[c-1] IN base

\* The last length has a code to itself, for which no base is set.
BaseLength == [Bases(ExtraLbits) EXCEPT ![LengthCodes-1] = 0]
LengthCode == [l \in 0 .. MaxMatch - MinMatch |->
                  IF l = MaxMatch - MinMatch THEN LengthCodes-1
                  ELSE CHOOSE c \in 0 .. LengthCodes-2 :
                          l \in BaseLength[c] .. BaseLength[c] + 2^ExtraLbits[c] - 1]
BaseDist == Bases(ExtraDbits)

\* The first half is indexed by the distance, the second by its top bits.
DistCode == [i \in 0 .. 511 |->
    IF i < 256
    THEN CHOOSE c \in 0 .. 15 : i \in BaseDist[c] .. BaseDist[c] + 2^ExtraDbits[c] - 1
    ELSE IF i < 258 THEN 0
    ELSE CHOOSE c \in 16 .. DCodes-1 :
            (i - 256) * 128 \in BaseDist[c] .. BaseDist[c] + 2^ExtraDbits[c] - 1]

DCode_Edge(dist) == IF dist <= 256 THEN DistCode[dist] ELSE DistCode[256 + dist \div 128]
DCode(dist) == IF dist < 256 THEN DistCode[dist] ELSE DistCode[256 + dist \div 128]

\* Counting the codes of the length itself, not of the one below.
NextCode_Same(count) ==
    LET next[bits \in 0 .. MaxBits] ==
            IF bits = 0 THEN 0 ELSE (next[bits-1] + count[bits]) * 2
    IN  next

\* Codes of equal length are consecutive and follow the shorter ones, low
\* bits sent last.
NextCode(count) ==
    LET next[bits \in 0 .. MaxBits] ==
            IF bits = 0 THEN 0 ELSE (next[bits-1] + count[bits-1]) * 2
    IN  next

GenCodes(len, maxCode, count) ==
    LET next == NextCode(count)
        Before(n) == Cardinality({k \in 0 .. n-1 : len[k] = len[n]})
    IN  [n \in 0 .. maxCode |->
            IF len[n] = 0 THEN 0 ELSE BiReverse((next[len[n]] + Before(n)) % 2^16, len[n])]

StaticLlen == [n \in 0 .. LCodes+1 |->
                  IF n <= 143 THEN 8 ELSE IF n <= 255 THEN 9 ELSE IF n <= 279 THEN 7 ELSE 8]
StaticLtree ==
    LET count == [bits \in 0 .. MaxBits |->
                     CASE bits = 7 -> 24 [] bits = 8 -> 152 [] bits = 9 -> 112 [] OTHER -> 0]
    IN  [len |-> StaticLlen, code |-> GenCodes(StaticLlen, LCodes+1, count)]
StaticDtree == [len  |-> [n \in 0 .. DCodes-1 |-> 5],
                code |-> [n \in 0 .. DCodes-1 |-> BiReverse(n, 5)]]

NoStatic == [n \in {} |-> 0]
LDesc == [elems |-> LCodes, extra |-> ExtraLbits, base |-> Literals + 1,
          maxLength |-> MaxBits, static |-> StaticLlen]
DDesc == [elems |-> DCodes, extra |-> ExtraDbits, base |-> 0,
          maxLength |-> MaxBits, static |-> StaticDtree.len]
BLDesc == [elems |-> BLCodes, extra |-> ExtraBLbits, base |-> 0,
           maxLength |-> MaxBLBits, static |-> NoStatic]

-----------------------------------------------------------------------------
(* build_tree and its helpers.  While it is built a tree is a record of    *)
(* freq, depth and dad of each node, the heap, the nodes taken off it      *)
(* (sorted, most frequent first) and the next internal node.               *)

Smaller(t, n, m) == \/ t.freq[n] < t.freq[m]
                    \/ t.freq[n] = t.freq[m] /\ t.depth[n] <= t.depth[m]

RECURSIVE PqDownHeap(_, _, _)
PqDownHeap(t, heap, k) ==
    LET left == 2 * k
        j == IF left < Len(heap) /\ Smaller(t, heap[left+1], heap[left]) THEN left+1 ELSE left
    IN  IF left > Len(heap) \/ Smaller(t, heap[k], heap[j]) THEN heap
        ELSE PqDownHeap(t, [heap EXCEPT ![k] = heap[j], ![j] = heap[k]], j)

\* Combine the two least frequent nodes until one is left.
RECURSIVE Combine(_)
Combine(t) ==
    LET n == t.heap[1]
        rest == PqDownHeap(t, [Front(t.heap) EXCEPT ![1] = Last(t.heap)], 1)
        m == rest[1]
        u == [t EXCEPT !.sorted = <<m, n>> \o @, !.node = @ + 1,
                       !.freq[t.node] = t.freq[n] + t.freq[m],
                       !.depth[t.node] = 1 + Max({t.depth[n], t.depth[m]}),
                       !.dad[n] = t.node, !.dad[m] = t.node]
        heap == PqDownHeap(u, [rest EXCEPT ![1] = t.node], 1)
    IN  IF Len(heap) < 2 THEN [u EXCEPT !.sorted = heap \o @]
        ELSE Combine([u EXCEPT !.heap = heap])

\* At least two codes: symbols that do not occur are made to occur once.
RECURSIVE ForceTwo(_, _)
ForceTwo(used, maxCode) ==
    IF Len(used) >= 2 THEN [used |-> used, maxCode |-> maxCode]
    ELSE IF maxCode < 2 THEN ForceTwo(Append(used, maxCode + 1), maxCode + 1)
    ELSE ForceTwo(Append(used, 0), maxCode)

\* Lengths down from the root, cut at the limit; whatever is cut, internal
\* nodes too, is counted.
RECURSIVE Level(_, _)
Level(t, n) == IF n = Head(t.sorted) THEN 0 ELSE Level(t, t.dad[n]) + 1

CutAt(maxLength, level) ==
    [len  |-> [n \in DOMAIN level |-> Min({level[n], maxLength})],
     over |-> Cardinality({n \in DOMAIN level : level[n] > maxLength})]
RawLengths(t, maxLength) == CutAt(maxLength, Now([n \in ToSet(t.sorted) |-> Level(t, n)]))

\* Make room for what was cut: a leaf goes one level down and takes an
\* overflow item as its brother.
RECURSIVE Lengthen(_, _, _)
Lengthen(count, over, maxLength) ==
    LET bits == Max({b \in 1 .. maxLength - 1 : count[b] # 0})
        c1 == [count EXCEPT ![bits] = @ - 1]
        c2 == [c1 EXCEPT ![bits+1] = @ + 2]
        c3 == [c2 EXCEPT ![maxLength] = @ - 1]
    IN  IF over - 2 <= 0 THEN c3 ELSE Lengthen(c3, over - 2, maxLength)

\* gen_bitlen: the length of each leaf and how many there are of each.
Fitted(sorted, leaves, maxLength, raw) ==
    LET CountOf(len) == [b \in 0 .. MaxBits |-> Cardinality({n \in leaves : len[n] = b /\ b > 0})]
        count == Lengthen(CountOf(raw.len), raw.over, maxLength)
        rising == Reverse(SelectSeq(sorted, LAMBDA n : n \in leaves))
        \* the i-th least frequent leaf gets the i-th longest length
        Longest(i) == Max({b \in 1 .. maxLength :
                              MapThenSumSet(LAMBDA c : count[c], b .. maxLength) >= i})
        fixed == [n \in leaves |-> Longest(CHOOSE i \in DOMAIN rising : rising[i] = n)]
    IN  IF raw.over = 0 THEN [len |-> raw.len, count |-> CountOf(raw.len)]
        ELSE [len |-> fixed, count |-> count]
GenBitlen(t, leaves, maxLength) ==
    Fitted(t.sorted, leaves, maxLength, RawLengths(t, maxLength))

\* The nodes before any are combined: the leaves, in a heap.
Heaped(t) ==
    LET half == Len(t.heap) \div 2
    IN  [t EXCEPT !.heap = FoldLong(LAMBDA h, i : PqDownHeap(t, h, half + 1 - i), @,
                                    [i \in 1 .. half |-> i])]
NewTree(freq, used, elems) ==
    [freq |-> freq, depth |-> [n \in DOMAIN freq |-> 0], dad |-> [n \in DOMAIN freq |-> 0],
     heap |-> used, sorted |-> <<>>, node |-> elems]

\* build_tree: lengths and codes up to maxCode, and what the symbols cost
\* with them (opt) and with the static tree (static), in bits.
Coded(desc, maxCode, leaves, added, freq, bl) ==
    LET len  == Now([n \in 0 .. maxCode |-> IF n \in leaves THEN bl.len[n] ELSE 0])
        X(n) == IF n >= desc.base THEN desc.extra[n - desc.base] ELSE 0
    IN  [len |-> len, maxCode |-> maxCode, code |-> GenCodes(len, maxCode, bl.count),
         opt |-> MapThenSumSet(LAMBDA n : freq[n] * (len[n] + X(n)), leaves)
                 - Cardinality(added),
         static |-> IF desc.static = NoStatic THEN 0
                    ELSE MapThenSumSet(LAMBDA n : freq[n] * (desc.static[n] + X(n)), leaves)
                         - MapThenSumSet(LAMBDA n : desc.static[n], added)]

BuildFrom(desc, forced, added, freq) ==
    Coded(desc, forced.maxCode, ToSet(forced.used), added, freq,
          GenBitlen(Combine(Heaped(NewTree(freq, forced.used, desc.elems))),
                    ToSet(forced.used), desc.maxLength))

BuildTree(desc, freq0) ==
    LET there  == SelectSeq([i \in 1 .. desc.elems |-> i - 1], LAMBDA n : freq0[n] # 0)
        forced == ForceTwo(there, IF there = <<>> THEN -1 ELSE Last(there))
        added  == ToSet(forced.used) \ ToSet(there)
    IN  BuildFrom(desc, forced, added,
                  Now([n \in 0 .. 2 * desc.elems |->
                          CASE n \in added      -> 1
                            [] n >= desc.elems  -> 0
                            [] OTHER            -> freq0[n]]))

-----------------------------------------------------------------------------
(* The trees themselves are sent as run-lengths of code lengths.           *)

\* The loop scan_tree and send_tree share, a run of equal lengths at a time: no
\* longer than max, and repeated as such only from min.
RECURSIVE RunsFrom(_, _, _, _)
RunsFrom(len, maxCode, n, prev) ==
    LET cur == len[n]
        lim == IF cur = 0 THEN [max |-> 138, min |-> 3]
               ELSE IF cur = prev THEN [max |-> 6, min |-> 3] ELSE [max |-> 7, min |-> 4]
        end == Min({k \in n .. Min({maxCode, n + lim.max - 1}) :
                       k = maxCode \/ k = n + lim.max - 1 \/ len[k+1] # cur})
    IN  <<[len |-> cur, count |-> end - n + 1, prev |-> prev, min |-> lim.min]>>
        \o (IF end = maxCode THEN <<>> ELSE RunsFrom(len, maxCode, end + 1, cur))
Runs(len, maxCode) == RunsFrom(len, maxCode, 0, -1)

\* The first of a run's codes counted even when it repeats the one before.
Uses_First(r, code) ==
    LET repeat == IF r.len # 0 THEN Rep36 ELSE IF r.count <= 10 THEN RepZ310 ELSE RepZ11138
    IN  IF r.count < r.min THEN (IF code = r.len THEN r.count ELSE 0)
        ELSE IF code = repeat \/ (code = r.len /\ r.len # 0) THEN 1 ELSE 0

\* scan_tree: how often a run uses a code of the bit length tree.
Uses(r, code) ==
    LET repeat == IF r.len # 0 THEN Rep36 ELSE IF r.count <= 10 THEN RepZ310 ELSE RepZ11138
    IN  IF r.count < r.min THEN (IF code = r.len THEN r.count ELSE 0)
        ELSE IF code = repeat \/ (code = r.len /\ r.len \notin {0, r.prev}) THEN 1 ELSE 0

\* send_tree: the codes a run is sent as, with the value of their extra bits.
SendRun(r) ==
    LET Code(c, x) == [code |-> c, x |-> x]
        new == r.len # r.prev
    IN  IF r.count < r.min THEN [i \in 1 .. r.count |-> Code(r.len, 0)]
        ELSE IF r.len # 0 THEN (IF new THEN <<Code(r.len, 0)>> ELSE <<>>)
                               \o <<Code(Rep36, r.count - (IF new THEN 1 ELSE 0) - 3)>>
        ELSE IF r.count <= 10 THEN <<Code(RepZ310, r.count - 3)>>
        ELSE <<Code(RepZ11138, r.count - 11)>>

SendTree(len, maxCode) ==
    LET runs == Runs(len, maxCode) IN FlattenSeq([i \in DOMAIN runs |-> SendRun(runs[i])])

\* build_bl_tree: the tree of code lengths of both trees, and the last of
\* its own lengths, in BLOrder, that must be sent.
BLTree(t) ==
    LET len == [b \in 0 .. BLCodes-1 |-> IF b <= t.maxCode THEN t.len[b] ELSE 0]
        max == Max({2} \cup {i \in 3 .. BLCodes-1 : len[BLOrder[i+1]] # 0})
    IN  [len |-> len, code |-> t.code, maxBlindex |-> max,
         opt |-> t.opt + 3 * (max + 1) + 5 + 5 + 4]
BLFreq(runs) ==
    [b \in 0 .. BLCodes-1 |-> MapThenSumSet(LAMBDA i : Uses(runs[i], b),
                                            {i \in DOMAIN runs : Uses(runs[i], b) # 0})]
BuildBLTree(lt, dt) ==
    BLTree(BuildTree(BLDesc, BLFreq(Runs(lt.len, lt.maxCode) \o Runs(dt.len, dt.maxCode))))

-----------------------------------------------------------------------------
(* A block's tokens: a literal has dist 0 and its byte as lc, a match its  *)
(* length less MinMatch.                                                   *)

Codes(tree, c) == [v |-> tree.code[c], n |-> tree.len[c]]
Bits(v, n) == IF n = 0 THEN <<>> ELSE <<[v |-> v, n |-> n]>>
SendAll(w, items) == FoldLong(LAMBDA b, i : SendBits(b, i.v, i.n), w, items)

\* ct_tally's counts; every block ends with an EndBlock.
LFreq(tokens) ==
    LET sym == [i \in DOMAIN tokens |-> IF tokens[i].dist = 0 THEN tokens[i].lc
                                        ELSE LengthCode[tokens[i].lc] + Literals + 1]
        Times(n) == Cardinality({i \in DOMAIN sym : sym[i] = n})
    IN  Now([n \in 0 .. LCodes-1 |-> Times(n) + (IF n = EndBlock THEN 1 ELSE 0)])
DFreq(tokens) ==
    LET sym == [i \in DOMAIN tokens |-> IF tokens[i].dist = 0 THEN -1 ELSE DCode(tokens[i].dist - 1)]
    IN  Now([n \in 0 .. DCodes-1 |-> Cardinality({i \in DOMAIN sym : sym[i] = n})])

\* compress_block.
TokenBits(tok, lt, dt) ==
    IF tok.dist = 0 THEN <<Codes(lt, tok.lc)>>
    ELSE LET lcode == LengthCode[tok.lc]
             dist  == tok.dist - 1
             dcode == DCode(dist)
         IN  <<Codes(lt, lcode + Literals + 1)>>
             \o Bits(tok.lc - BaseLength[lcode], ExtraLbits[lcode])
             \o <<Codes(dt, dcode)>> \o Bits(dist - BaseDist[dcode], ExtraDbits[dcode])
CompressBlock(tokens, lt, dt) ==
    FlattenSeq([i \in DOMAIN tokens |-> TokenBits(tokens[i], lt, dt)]) \o <<Codes(lt, EndBlock)>>

\* send_all_trees: the counts, the lengths of the bit length codes and both
\* trees in those codes.
SendAllTrees(lt, dt, bl) ==
    LET sent == SendTree(lt.len, lt.maxCode) \o SendTree(dt.len, dt.maxCode)
    IN  <<[v |-> lt.maxCode + 1 - 257, n |-> 5], [v |-> dt.maxCode, n |-> 5],
          [v |-> bl.maxBlindex + 1 - 4, n |-> 4]>>
        \o [i \in 1 .. bl.maxBlindex + 1 |-> [v |-> bl.len[BLOrder[i]], n |-> 3]]
        \o FlattenSeq([i \in DOMAIN sent |->
               <<Codes(bl, sent[i].code)>> \o Bits(sent[i].x, ExtraBLbits[sent[i].code])])

UpToByte(bits) == 8 * ((bits + 7) \div 8)

\* The trees of a block and what it takes, in bits, with them and without.
Trees(lt, dt, bl) == [lt |-> lt, dt |-> dt, bl |-> bl, optLen |-> lt.opt + dt.opt + bl.opt,
                      staticLen |-> lt.static + dt.static]
WithBLTree(lt, dt) == Trees(lt, dt, BuildBLTree(lt, dt))
BlockTrees(b) == WithBLTree(BuildTree(LDesc, LFreq(b.tokens)), BuildTree(DDesc, DFreq(b.tokens)))

\* Which encoding is the least in bytes; storing needs the input at hand.
Encoding(b, t) ==
    LET optLenb    == (t.optLen + 3 + 7) \div 8
        staticLenb == (t.staticLen + 3 + 7) \div 8
    IN  IF Len(b.data) + 4 <= Min({optLenb, staticLenb}) /\ b.hasBuf THEN StoredBlock
        ELSE IF staticLenb <= optLenb THEN StaticTrees ELSE DynTrees

\* A block in an encoding.  s is the bit writer and compressedLen, the count
\* of bits written, of which only the remainder by 8 is used.
Encode(s, b, t, kind) ==
    LET w0 == SendBits(s.w, kind * 2 + (IF b.eof THEN 1 ELSE 0), 3)
        n0 == s.compressedLen
    IN  CASE kind = StoredBlock ->
                 [w |-> CopyBlock(w0, b.data), compressedLen |-> UpToByte(n0 + 3) + 8 * (Len(b.data) + 4)]
          [] kind = StaticTrees ->
                 [w |-> SendAll(w0, CompressBlock(b.tokens, StaticLtree, StaticDtree)),
                  compressedLen |-> n0 + 3 + t.staticLen]
          [] kind = DynTrees ->
                 [w |-> SendAll(w0, SendAllTrees(t.lt, t.dt, t.bl) \o CompressBlock(b.tokens, t.lt, t.dt)),
                  compressedLen |-> n0 + 3 + t.optLen]

\* After the last block, or at a sequence point, whole bytes: an empty stored
\* block makes them.
Align(s, b) ==
    IF b.eof THEN [w |-> BiWindup(s.w), compressedLen |-> s.compressedLen + 7]
    ELSE IF b.pad /\ s.compressedLen % 8 # 0
    THEN [w |-> CopyBlock(SendBits(s.w, StoredBlock * 2, 3), <<>>),
          compressedLen |-> UpToByte(s.compressedLen + 3)]
    ELSE s

\* flush_block.
FlushWith(s, b, t) == Align(Encode(s, b, t, Encoding(b, t)), b)
FlushBlock(s, b) == FlushWith(s, b, BlockTrees(b))
=============================================================================
