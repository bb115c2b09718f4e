------------------------------- MODULE Inflate -------------------------------
(***************************************************************************)
(* What a deflate stream says, as RFC 1951 defines it: the reading side,   *)
(* written from the format and from nothing in engine/gnugzip, as the      *)
(* reference GzipTrees is checked against.                                 *)
(***************************************************************************)
EXTENDS Integers, Sequences, SequencesExt, FiniteSetsExt, Once

LOCAL BaseLen == <<3, 4, 5, 6, 7, 8, 9, 10, 11, 13, 15, 17, 19, 23, 27, 31, 35, 43, 51, 59,
                   67, 83, 99, 115, 131, 163, 195, 227, 258>>
LOCAL XLen == <<0, 0, 0, 0, 0, 0, 0, 0, 1, 1, 1, 1, 2, 2, 2, 2, 3, 3, 3, 3, 4, 4, 4, 4,
                5, 5, 5, 5, 0>>
LOCAL BaseDst == <<1, 2, 3, 4, 5, 7, 9, 13, 17, 25, 33, 49, 65, 97, 129, 193, 257, 385, 513,
                   769, 1025, 1537, 2049, 3073, 4097, 6145, 8193, 12289, 16385, 24577>>
LOCAL XDst == <<0, 0, 0, 0, 1, 1, 2, 2, 3, 3, 4, 4, 5, 5, 6, 6, 7, 7, 8, 8, 9, 9, 10, 10,
                11, 11, 12, 12, 13, 13>>
LOCAL Order == <<16, 17, 18, 0, 8, 7, 9, 6, 10, 5, 11, 4, 12, 3, 13, 2, 14, 1, 15>>

LOCAL BitAt(bytes, pos) == (bytes[pos \div 8 + 1] \div 2^(pos % 8)) % 2
LOCAL Value(bytes, pos, n) ==
    MapThenSumSet(LAMBDA k : BitAt(bytes, pos + k) * 2^k, 0 .. n - 1)

\* A sequence of lengths, for symbols 0, 1, ..., as a table of the symbols of
\* each length, in order, and the first one's code.
LOCAL CodeTable(lens) ==
    LET With(l) == SelectSeq([n \in 1 .. Len(lens) |-> n - 1], LAMBDA n : lens[n+1] = l)
        syms == Now([l \in 1 .. 15 |-> With(l)])
    IN  [l \in 1 .. 15 |-> [syms  |-> syms[l],
            first |-> MapThenSumSet(LAMBDA k : Len(syms[k]) * 2^(l-k), 1 .. l-1)]]

\* The next symbol: a code's first bit is its most significant.
RECURSIVE ReadSym(_, _, _, _, _)
LOCAL ReadSym(bytes, table, pos, n, code) ==
    LET c == code * 2 + BitAt(bytes, pos + n)
        k == c - table[n+1].first + 1
    IN  IF k \in DOMAIN table[n+1].syms THEN [sym |-> table[n+1].syms[k], pos |-> pos + n + 1]
        ELSE ReadSym(bytes, table, pos, n + 1, c)
LOCAL Sym(bytes, table, pos) == ReadSym(bytes, table, pos, 0, 0)

\* Tokens up to the end of the block.
RECURSIVE ReadTokens(_, _, _, _, _)
LOCAL ReadTokens(bytes, lits, dists, pos, got) ==
    LET s == Sym(bytes, lits, pos)
        l == s.sym - 256
        x == Value(bytes, s.pos, XLen[l])
        d == Sym(bytes, dists, s.pos + XLen[l])
        y == Value(bytes, d.pos, XDst[d.sym + 1])
    IN  IF s.sym = 256 THEN [tokens |-> got, pos |-> s.pos]
        ELSE IF s.sym < 256
        THEN ReadTokens(bytes, lits, dists, s.pos, Append(got, [dist |-> 0, lc |-> s.sym]))
        ELSE ReadTokens(bytes, lits, dists, d.pos + XDst[d.sym + 1],
                        Append(got, [dist |-> BaseDst[d.sym + 1] + y, lc |-> BaseLen[l] + x - 3]))

\* Code lengths, themselves coded, until there are n.
RECURSIVE ReadLengths(_, _, _, _, _)
LOCAL ReadLengths(bytes, table, pos, n, got) ==
    LET s == Sym(bytes, table, pos)
        bits == CASE s.sym = 16 -> 2 [] s.sym = 17 -> 3 [] s.sym = 18 -> 7 [] OTHER -> 0
        x == Value(bytes, s.pos, bits)
        new == CASE s.sym = 16 -> [i \in 1 .. 3 + x |-> Last(got)]
                 [] s.sym = 17 -> [i \in 1 .. 3 + x |-> 0]
                 [] s.sym = 18 -> [i \in 1 .. 11 + x |-> 0]
                 [] OTHER -> <<s.sym>>
    IN  IF Len(got) >= n THEN [lens |-> got, pos |-> pos]
        ELSE ReadLengths(bytes, table, s.pos + bits, n, got \o new)

\* The tokens at pos, in the codes of the given lengths.
LOCAL Tokens(bytes, pos, lits, dists) ==
    CHOOSE r \in {ReadTokens(bytes, l, d, pos, <<>>) :
                      l \in {Now(CodeTable(lits))}, d \in {Now(CodeTable(dists))}} : TRUE
LOCAL Lengths(bytes, pos, lens, n) ==
    CHOOSE r \in {ReadLengths(bytes, t, pos, n, <<>>) : t \in {Now(CodeTable(lens))}} : TRUE

LOCAL StaticLits == [n \in 1 .. 288 |-> IF n <= 144 THEN 8 ELSE IF n <= 256 THEN 9
                                        ELSE IF n <= 280 THEN 7 ELSE 8]
LOCAL StaticDists == [n \in 1 .. 30 |-> 5]

\* One block: what it holds, whether it is the last, and where it ends.
InflateBlock(bytes, pos) ==
    LET final == BitAt(bytes, pos) = 1
        type  == Value(bytes, pos + 1, 2)
        Got(kind, r) == [kind |-> kind, tokens |-> r.tokens, data |-> <<>>,
                         final |-> final, pos |-> r.pos]
        byte == (pos + 3 + 7) \div 8
        n    == bytes[byte + 1] + 256 * bytes[byte + 2]
        nlit  == 257 + Value(bytes, pos + 3, 5)
        ndist == 1 + Value(bytes, pos + 8, 5)
        nlen  == 4 + Value(bytes, pos + 13, 4)
        where(s) == CHOOSE i \in 1 .. 19 : Order[i] = s
        cl == [s \in 1 .. 19 |-> IF where(s - 1) > nlen THEN 0
                                 ELSE Value(bytes, pos + 17 + 3 * (where(s - 1) - 1), 3)]
        ls == Lengths(bytes, pos + 17 + 3 * nlen, cl, nlit + ndist)
        whole == n + bytes[byte + 3] + 256 * bytes[byte + 4] = 65535
    IN  CASE type = 0 -> [kind |-> 0, tokens |-> <<>>,
                          data |-> IF whole THEN SubSeq(bytes, byte + 5, byte + 4 + n) ELSE <<"bad">>,
                          final |-> final, pos |-> 8 * (byte + 4 + n)]
          [] type = 1 -> Got(1, Tokens(bytes, pos + 3, StaticLits, StaticDists))
          [] type = 2 -> Got(2, Tokens(bytes, ls.pos, SubSeq(ls.lens, 1, nlit),
                                        SubSeq(ls.lens, nlit + 1, nlit + ndist)))

\* All blocks up to the last.
RECURSIVE InflateFrom(_, _)
RECURSIVE AndOn(_, _)
LOCAL AndOn(bytes, b) == <<b>> \o IF b.final THEN <<>> ELSE InflateFrom(bytes, b.pos)
InflateFrom(bytes, pos) == AndOn(bytes, Now(InflateBlock(bytes, pos)))

\* The content a sequence of literals and matches stands for.
RECURSIVE Copy(_, _, _)
LOCAL Copy(got, dist, n) ==
    IF n = 0 THEN got ELSE Copy(Append(got, got[Len(got) + 1 - dist]), dist, n - 1)
Expand(got, tokens) ==
    FoldLeft(LAMBDA g, t : IF t.dist = 0 THEN Append(g, t.lc) ELSE Copy(g, t.dist, t.lc + 3),
             got, tokens)
=============================================================================
