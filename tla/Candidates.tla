------------------------------ MODULE Candidates ------------------------------
(***************************************************************************)
(* Which parameters the engines propose for a file (the Candidates methods *)
(* and engine/engine.go), how their lists become one (analyze.go), and     *)
(* which parameters their NewWriter methods refuse.  Sizes are in bytes,   *)
(* blocks in KiB, windows in logarithms, as in the code.                   *)
(*                                                                         *)
(* X_Bug is X with a bug, as in Run.                                       *)
(***************************************************************************)
EXTENDS Headers

KiB == 1024
MiB == 1024 * KiB

Each(F(_), s) == [i \in DOMAIN s |-> F(s[i])]
But(s, x) == SelectSeq(s, LAMBDA y : y # x)

-----------------------------------------------------------------------------
(* Deflate.                                                                *)

NoDeflate == [level |-> 0, strategy |-> "", windowBits |-> 0, memLevel |-> 0, rsyncable |-> FALSE,
              blockSize |-> 0, independent |-> FALSE, singleThread |-> FALSE]

\* A DeflateParams literal.
Deflate(fields) == fields @@ NoDeflate
AtLevels(levels, fields) == Each(LAMBDA l : Deflate([level |-> l] @@ fields), levels)
Plain(levels) == Each(LAMBDA l : Deflate([level |-> l]), levels)

HuffmanOnly == -2

LevelOrder(xfl) ==
    CASE xfl = 2 -> <<9, 8, 7, 6, 5, 4, 3, 2, 1, 0>>
      [] xfl = 4 -> <<1, 2, 3, 4, 5, 6, 7, 8, 9, 0>>
      [] OTHER   -> <<6, 5, 7, 4, 8, 3, 9, 2, 1, 0>>

GnuGzip(xfl) == LET levels == But(LevelOrder(xfl), 0)
                IN  <<Plain(levels), AtLevels(levels, [rsyncable |-> TRUE])>>

Zlib(xfl) ==
    LET levels == LevelOrder(xfl)
        usual  == [windowBits |-> 15, memLevel |-> 8]
        others == FlattenSeq([i \in 1 .. 9 |-> [j \in 1 .. 7 |-> [windowBits |-> 16 - j, memLevel |-> 10 - i]]])
    IN  << AtLevels(levels, [strategy |-> "default"] @@ usual),
           FlattenSeq(Each(LAMBDA s : AtLevels(But(levels, 0), [strategy |-> s] @@ usual),
                           <<"filtered", "huffman_only", "rle", "fixed">>)),
           FlattenSeq(Each(LAMBDA l : Each(LAMBDA f : Deflate([level |-> l, strategy |-> "default"] @@ f),
                                           But(others, usual)),
                           But(levels, 0))) >>

\* Of the blocks, the ones that do not hold the whole input, and the first that
\* does unless the default block does.
Tried(blocks, default, holding) ==
    SelectSeq(blocks, LAMBDA b : b \in holding => default \notin holding /\ b = Min(holding))

PigzDefault == 128
PigzBlocks == <<32, 64, 256, 512, 1024, 2048, 4096>>

\* Bug: a block the input fills is taken for one it does not fill.
PigzHolds_Strictly(block, size) == block * KiB > size

PigzHolds(block, size) == block * KiB >= size

Pigz(xfl, size) ==
    LET levels  == LevelOrder(xfl)
        holding == {b \in Range(PigzBlocks) \cup {PigzDefault} : PigzHolds(b, size)}
    IN  << Plain(levels),
           AtLevels(levels, [singleThread |-> TRUE]) \o AtLevels(levels, [independent |-> TRUE])
               \o AtLevels(levels, [rsyncable |-> TRUE]),
           FlattenSeq(Each(LAMBDA b : AtLevels(levels, [blockSize |-> b]),
                           Tried(PigzBlocks, PigzDefault, holding))),
           FlattenSeq(Each(LAMBDA s : AtLevels(But(levels, 0), [strategy |-> s]), <<"huffman_only", "rle">>)) >>

PgzipDefault == 1024
PgzipBlocks == <<128, 256, 512, 2048, 4096>>

\* Bug: a block the input fills is taken to hold it, but Close compresses an
\* empty one after it.
PgzipHolds_Filled(block, size) == block * KiB >= size

PgzipHolds(block, size) == block * KiB > size

PgzipLevels(xfl) ==
    (IF xfl \in {2, 4} THEN LevelOrder(xfl) ELSE <<5, 6, 7, 4, 8, 3, 9, 2, 1, 0>>) \o <<HuffmanOnly>>

Pgzip(xfl, size) ==
    LET holding == {b \in Range(PgzipBlocks) \cup {PgzipDefault} : PgzipHolds(b, size)}
    IN  << Plain(PgzipLevels(xfl)),
           FlattenSeq(Each(LAMBDA b : AtLevels(PgzipLevels(xfl), [blockSize |-> b]),
                           Tried(PgzipBlocks, PgzipDefault, holding))) >>

\* goflate and kpflate.
FlateLevels(xfl) == <<Plain(LevelOrder(xfl) \o <<HuffmanOnly>>)>>

\* NewWriter's conditions.
AcceptsDeflate(engine, p) ==
    /\ p.level \in (CASE engine = "gnu-gzip" -> 1 .. 9
                      [] engine \in {"zlib", "pigz"} -> 0 .. 9
                      [] engine = "pgzip" -> {HuffmanOnly} \cup 0 .. 9
                      [] OTHER -> -2 .. 9)
    /\ p.strategy \in (CASE engine = "zlib" -> {"", "default", "filtered", "huffman_only", "rle", "fixed"}
                         [] engine = "pigz" -> {"", "default", "huffman_only", "rle"}
                         [] OTHER -> {""})
    /\ IF engine = "zlib" THEN p.windowBits \in {0} \cup 9 .. 15 /\ p.memLevel \in 0 .. 9
                          ELSE p.windowBits = 0 /\ p.memLevel = 0
    /\ p.rsyncable => engine \in {"gnu-gzip", "pigz"}
    /\ p.independent \/ p.singleThread => engine = "pigz"
    /\ p.blockSize # 0 => \/ engine = "pigz" /\ p.blockSize \in 32 .. 2^19
                          \/ engine = "pgzip" /\ p.blockSize >= 17

-----------------------------------------------------------------------------
(* zstd.                                                                   *)

NoZstd == [level |-> 0, windowLog |-> 0, checksum |-> FALSE, contentSize |-> FALSE, pledgedSize |-> FALSE,
           singleSegment |-> FALSE, workers |-> 0, long |-> FALSE, endWithData |-> FALSE,
           encodeAll |-> FALSE, head |-> 0]

KpBlockSize(level) == IF level = 1 THEN 64 * KiB ELSE 128 * KiB

\* At a level: streamed, and in one call if that could have made the header.
KpAtLevel(h, level) ==
    LET head == FlushedHead(h, KpBlockSize(level))
        p    == [level |-> level, windowLog |-> h.windowLog, checksum |-> h.checksum,
                 contentSize |-> h.hasContentSize, pledgedSize |-> h.hasContentSize,
                 singleSegment |-> h.singleSegment, head |-> head] @@ NoZstd
    IN  IF head > 0 /\ h.singleSegment THEN <<>>
        ELSE <<p>> \o IF h.hasContentSize /\ ~h.singleSegment /\ head = 0
                      THEN <<[p EXCEPT !.encodeAll = TRUE]>> ELSE <<>>

KpZstd(h) == IF h.windowLog > 0 /\ h.windowSize # 2^h.windowLog THEN <<>>
             ELSE <<FlattenSeq(Each(LAMBDA l : KpAtLevel(h, l), <<2, 1, 3, 4>>))>>

\* The table of ZSTD_getCParams: the window of a level, and the log of its
\* match finder's cycle.
LevelWindow(level) ==
    CASE level <= 1 -> 19 [] level = 2 -> 20 [] level \in 3 .. 8 -> 21 [] level \in 9 .. 16 -> 22
      [] level \in 17 .. 19 -> 23 [] OTHER -> level + 5
LevelCycle(level) ==
    IF level < 1 THEN 13
    ELSE <<13, 15, 16, 18, 18, 18, 19, 19, 20, 21, 21, 22, 21, 21, 22, 21, 22, 22, 23, 24, 25, 26>>[level]

\* A window of 2^log bytes holds size bytes.
HoldsAll(log, size) == log >= 30 \/ size <= 2^log
LogOf(size) == Min({k \in 10 .. 30 : HoldsAll(k, size)})

\* resolve's window.
Window(p, size) ==
    LET asked == IF p.windowLog # 0 THEN p.windowLog ELSE IF p.long THEN 27 ELSE LevelWindow(p.level)
    IN  IF p.pledgedSize THEN Min({asked, LogOf(size)}) ELSE asked

\* Bug: the pledged size is taken to make a single segment by itself.
Fits_ByPledge(p, h, size) ==
    LET single == p.pledgedSize /\ HoldsAll(Window(p, size), size)
    IN  IF h.singleSegment THEN single ELSE ~single /\ Window(p, size) = h.windowLog

\* p writes the header's window descriptor, or, like it, none.
Fits(p, h, size) ==
    LET single == p.pledgedSize /\ p.contentSize /\ HoldsAll(Window(p, size), size)
    IN  IF h.singleSegment THEN single ELSE ~single /\ Window(p, size) = h.windowLog

Tier1Levels == <<3, 1, 2, 4, 5, 6, 7, 8, 9, 10, 11, 12, 13, 14, 15, 16, 17, 18, 19>>
Tier2Levels == <<20, 21, 22, -1, -2, -3, -4, -5, -6, -7>>
ExplicitLevels(h) == SelectSeq(Tier1Levels, LAMBDA l : LevelWindow(l) # h.windowLog)

\* The levels with each number of workers and each pledge the header leaves
\* open, as far as they fit.
Expand(levels, workers, fields, h, size) ==
    LET Made(l, w, pledged) ==
            fields @@ [level |-> l, workers |-> w, pledgedSize |-> pledged, checksum |-> h.checksum,
                       contentSize |-> h.hasContentSize, singleSegment |-> h.singleSegment,
                       endWithData |-> w = 0 /\ ~h.emptyLastBlock] @@ NoZstd
        pledges == IF h.hasContentSize THEN <<TRUE>> ELSE <<FALSE, TRUE>>
        all == FlattenSeq(Each(LAMBDA l :
                   FlattenSeq(Each(LAMBDA w : Each(LAMBDA pl : Made(l, w, pl), pledges), workers)), levels))
    IN  SelectSeq(all, LAMBDA p : Fits(p, h, size))

LibZstd(h, size) ==
    LET both == <<0, 1>>
        plain == [long |-> FALSE]
        longLog == IF h.windowLog < 27 THEN 27 ELSE h.windowLog
        t1 == Expand(Tier1Levels, <<0>>, plain, h, size)
        t2 == Expand(Tier1Levels, <<1>>, plain, h, size)
              \o Expand(Tier2Levels, both, plain, h, size)
              \o (IF h.windowLog >= 27 \/ h.singleSegment
                  THEN Expand(Tier1Levels \o <<20, 21, 22>>, both, [long |-> TRUE, windowLog |-> longLog], h, size)
                  ELSE <<>>)
              \o (IF h.windowLog > 0
                  THEN Expand(ExplicitLevels(h), both, [windowLog |-> h.windowLog], h, size) ELSE <<>>)
    IN  IF \/ FlushedHead(h, 128 * KiB) > 0
           \/ ~h.singleSegment /\ h.windowSize # 0 /\ h.windowSize # 2^h.windowLog
        THEN <<>> ELSE <<t1, t2>>

-----------------------------------------------------------------------------
(* What a candidate of libzstd takes in before it shows output.            *)

JobSize(p, size) ==
    2^Min({30, IF p.long THEN Max({21, LevelCycle(p.level) + 3}) ELSE Max({20, Window(p, size) + 2})})

JobSizeMin == 512 * KiB
MaxEmulatedJob == 32 * MiB

Emulated(p, size) ==
    /\ p.workers > 0 /\ ~p.long /\ size > 0
    /\ p.pledgedSize => size > JobSizeMin
    /\ JobSize(p, size) <= MaxEmulatedJob

Buffered(p, size) == IF p.workers = 0 \/ Emulated(p, size) THEN 0 ELSE JobSize(p, size)

AcceptsZstd(engine, p) ==
    IF engine = "libzstd" THEN ~p.encodeAll
    ELSE /\ p.level \in 1 .. 4 /\ ~p.long /\ p.workers = 0 /\ p.head >= 0
         /\ p.head > 0 => ~p.singleSegment /\ ~p.encodeAll

-----------------------------------------------------------------------------
(* One list.                                                               *)

\* lists: a sequence of an engine's tiers, for every engine.  Every engine's
\* tier i comes before any engine's tier i + 1.
Flatten(lists) ==
    LET tier(i) == FlattenSeq(Each(LAMBDA l : IF i \in DOMAIN l THEN l[i] ELSE <<>>, lists))
    IN  FlattenSeq([i \in 1 .. 4 |-> tier(i)])

Of(engine, tiers) == Each(LAMBDA t : Each(LAMBDA p : [engine |-> engine, params |-> p], t), tiers)

\* In the order of DefaultEngines.
GzipCandidates(xfl, size) ==
    Flatten(<<Of("gnu-gzip", GnuGzip(xfl)), Of("zlib", Zlib(xfl)), Of("pigz", Pigz(xfl, size)),
              Of("go-flate", FlateLevels(xfl)), Of("klauspost-flate", FlateLevels(xfl)),
              Of("pgzip", Pgzip(xfl, size))>>)

ZstdCandidates(h, size) ==
    Each(LAMBDA c : c @@ [buffered |-> IF c.engine = "libzstd" THEN Buffered(c.params, size) ELSE 0],
         Flatten(<<Of("libzstd", LibZstd(h, size)), Of("klauspost-zstd", KpZstd(h))>>))
=============================================================================
