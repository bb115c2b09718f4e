----------------------------- MODULE MCStreams ------------------------------
(***************************************************************************)
(* A stream of writes on its way: through a pipe, through the writer of an *)
(* engine, through gzip's deflate, and the bits that gzip makes of blocks. *)
(* The four machines stand side by side; one is started and the others     *)
(* stay where they are, the pipe at its end, for its goroutines are fair.  *)
(***************************************************************************)
EXTENDS PipeUse, Writers, GzipDeflate, GzipStream

VARIABLE running

Repeat(pattern, n) == [i \in 1 .. n |-> pattern[((i - 1) % Len(pattern)) + 1]]

\* Runs, short and long periods, bytes with no order to speak of, and mixtures
\* that have matches up to and past the limit on distances.
Noise(n) == [i \in 1 .. n |-> ((i * i + i \div 3) % 7) % 4]
Contents == {<<>>, <<2>>, <<1, 2>>, Repeat(<<3>>, 52), Repeat(<<1, 2>>, 37), Noise(53),
             Repeat(<<1, 2, 3, 0, 2>>, 45), Repeat(<<0, 1, 1, 3, 2, 2, 1>>, 52),
             Noise(20) \o Repeat(<<0>>, 14) \o Noise(17),
             <<1, 2, 3>> \o Repeat(<<0>>, 19) \o <<3, 1>> \o Noise(9),
             Repeat(<<1, 1, 2, 0>>, 21) \o Noise(11) \o Repeat(<<1, 1, 2, 0>>, 20)}

Config(good, lazy, nice, chain) ==
    [goodLength |-> good, maxLazy |-> lazy, niceLength |-> nice, maxChain |-> chain]
Input(c, l, cfg, r) == [content |-> c, level |-> l, config |-> cfg, rsync |-> r]

MCInputs == {Input(c, 1, Config(4, 4, 5, 4), FALSE) : c \in Contents}
            \cup {Input(c, 3, Config(4, 3, 6, 8), TRUE) : c \in Contents}
            \cup {Input(c, 4, Config(4, 5, 6, 4), FALSE) : c \in Contents}
            \cup {Input(c, 9, Config(6, 6, 6, 8), TRUE) : c \in Contents}

-----------------------------------------------------------------------------
\* Nothing; a few literals, for the static trees; many unlike ones, to store;
\* two over and over, for trees of their own; literals that leave gaps of 3, 10,
\* 11, 138 and more without a code and runs of the same length; matches at both
\* ends of the classes of length and distance.
Literal(v) == [dist |-> 0, lc |-> v]
Match(dist, length) == [dist |-> dist, lc |-> length - MinMatch]
Lits(values) == [i \in DOMAIN values |-> Literal(values[i])]
MCTokens == {<<>>, Lits(<<1, 1, 200>>), Lits([i \in 1 .. 40 |-> 143 + i]),
             Lits(Repeat(<<7, 9>>, 130)),
             Lits(Repeat(<<0, 4, 15, 27, 166, 167, 168, 169, 170>>, 108)),
             Lits(Repeat([i \in 1 .. 31 |-> 30 + i], 124)),
             Lits(Repeat(<<3, 3, 3, 3, 3, 3, 3, 250, 251, 252>>, 70))
                \o <<Match(1, 258), Match(5, 257), Match(32768, 3), Match(24577, 10), Match(257, 11),
                     Match(256, 227), Match(24576, 226)>>}
Block(tokens, hasBuf, pad, eof) ==
    LET matches == \E i \in DOMAIN tokens : tokens[i].dist # 0
    IN  [tokens |-> tokens, hasBuf |-> hasBuf /\ ~matches, len |-> Len(tokens),
         data |-> IF hasBuf /\ ~matches THEN [i \in DOMAIN tokens |-> tokens[i].lc] ELSE <<>>, pad |-> pad, eof |-> eof]
MCBlocks == {Block(t, h, p, e) : t \in MCTokens, h \in BOOLEAN, p \in {FALSE}, e \in BOOLEAN}
            \cup {Block(t, TRUE, TRUE, FALSE) : t \in MCTokens}

\* Every choice of some frequencies for a few symbols, and the ones that make
\* the deepest trees.
Few(elems, max) == [DDesc EXCEPT !.elems = elems, !.maxLength = max]
Fibonacci(n) == LET f[i \in 0 .. n-1] == IF i < 2 THEN 1 ELSE f[i-1] + f[i-2] IN f
Padded(f, elems) == [n \in 0 .. elems-1 |-> IF n \in DOMAIN f THEN f[n] ELSE 0]
MCSamples == {[desc |-> Few(5, 3), freq |-> f] : f \in [0 .. 4 -> {0, 1, 2, 5}]}
             \cup {[desc |-> BLDesc, freq |-> Padded(Fibonacci(n), BLCodes)] : n \in 8 .. 12}
             \cup {[desc |-> DDesc, freq |-> Padded(Fibonacci(n), DCodes)] : n \in 15 .. 22}

-----------------------------------------------------------------------------
PipeOver == /\ ch = <<>> /\ ended = TRUE /\ werr = "nil" /\ closed = TRUE /\ cur = <<>>
            /\ writing = <<>> /\ reading = FALSE /\ wret = "nil" /\ rret = <<"EOF">>
            /\ offered = 0 /\ sent = <<>> /\ got = <<>> /\ over = TRUE /\ hung = <<0, 0>>

NoWriter == kind = "zlib" /\ Init
NoDeflate == input = Input(<<2>>, 1, Config(4, 4, 5, 4), FALSE) /\ GInit

MCInit == \/ running = "pipe" /\ UseInit /\ NoWriter /\ NoDeflate /\ StreamInit
          \/ running = "writer" /\ PipeOver /\ Init /\ NoDeflate /\ StreamInit
          \/ running = "deflate" /\ PipeOver /\ NoWriter /\ GInit /\ StreamInit
          \/ running = "bits" /\ PipeOver /\ NoWriter /\ NoDeflate /\ StreamInit

MCNext == \/ running = "pipe" /\ UseNext /\ UNCHANGED <<vars, gvars, streamVars, running>>
          \/ running = "writer" /\ Next /\ UNCHANGED <<useVars, gvars, streamVars, running>>
          \/ running = "deflate" /\ GNext /\ UNCHANGED <<useVars, vars, streamVars, running>>
          \/ running = "bits" /\ StreamNext /\ UNCHANGED <<useVars, vars, gvars, running>>

MCSpec == MCInit /\ [][MCNext]_<<useVars, vars, gvars, streamVars, running>> /\ UseFair
=============================================================================
