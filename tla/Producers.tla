------------------------------- MODULE Producers -------------------------------
(***************************************************************************)
(* Who made the file: the compressors the engines stand for, with the      *)
(* settings people run them with, and what the header shows of those.  The *)
(* candidates are asked for once, for a header and a size; the lists have  *)
(* to find every producer that could have made such a file.                *)
(*                                                                         *)
(* Stream keeps what tells two streams of one engine and one content       *)
(* apart.  For pigz and pgzip that is how the input falls into blocks; for *)
(* libzstd it is the window, what libzstd knows of the size and on which   *)
(* path it compresses, as far as the comments in libzstd.go say.           *)
(***************************************************************************)
EXTENDS Candidates

CONSTANTS GzipSizes, ZstdSizes    \* sizes of content

ASSUME SizesAssumption == GzipSizes \subseteq 0 .. 2^30 /\ ZstdSizes \subseteq 1 .. 2^30

VARIABLES
    file,    \* [format, header, size]; of a gzip header its XFL
    asked,   \* the candidates have been asked for
    list     \* the candidates

pvars == <<file, asked, list>>

-----------------------------------------------------------------------------
(* gzip.                                                                   *)

\* Into how many jobs pigz cuts the input, and how many blocks pgzip's writer
\* compresses, the last one by Close, full or not.
PigzJobs(block, size) == IF size = 0 THEN 1 ELSE (size + block - 1) \div block
PgzipParts(block, size) == size \div block + 1

\* The blocks' size, unless there is only one.
Cut(engine, p, size) ==
    LET block == KiB * (IF p.blockSize > 0 THEN p.blockSize
                        ELSE IF engine = "pigz" THEN PigzDefault ELSE PgzipDefault)
        parts == IF engine = "pigz" THEN PigzJobs(block, size) ELSE PgzipParts(block, size)
    IN  IF engine \notin {"pigz", "pgzip"} \/ parts = 1 THEN 0 ELSE block

GzipStream(engine, p, size) == <<engine, [p EXCEPT !.blockSize = Cut(engine, p, size)]>>

\* Settings people use; a block size no list has is found if it holds the input
\* and the largest one listed does, too.
GzipProducers(size) ==
    LET D(levels, fields) == {Deflate([level |-> l] @@ fields) : l \in levels}
        any == 0 .. 9
        pigzBlocks == Range(PigzBlocks) \cup {b \in {8192, 16384} : PigzJobs(4096 * KiB, size) = 1}
        pgzipBlocks == Range(PgzipBlocks) \cup {b \in {8192} : PgzipParts(4096 * KiB, size) = 1}
        Z == [windowBits |-> 15, memLevel |-> 8]
    IN  ({"gnu-gzip"} \X (D(1 .. 9, [rsyncable |-> FALSE]) \cup D(1 .. 9, [rsyncable |-> TRUE])))
        \cup ({"zlib"} \X (D(any, [strategy |-> "default"] @@ Z)
                \cup UNION {D(1 .. 9, [strategy |-> s] @@ Z) : s \in {"filtered", "huffman_only", "rle", "fixed"}}
                \cup UNION {D(1 .. 9, [strategy |-> "default", windowBits |-> w, memLevel |-> m])
                            : w \in 9 .. 15, m \in any \ {0}}))
        \cup ({"pigz"} \X (D(any, [singleThread |-> TRUE]) \cup D(any, [independent |-> TRUE])
                \cup D(any, [rsyncable |-> TRUE]) \cup UNION {D(any, [blockSize |-> b]) : b \in {0} \cup pigzBlocks}
                \cup UNION {D(1 .. 9, [strategy |-> s]) : s \in {"huffman_only", "rle"}}))
        \cup ({"pgzip"} \X UNION {D({HuffmanOnly} \cup any, [blockSize |-> b]) : b \in {0} \cup pgzipBlocks})
        \cup ({"go-flate", "klauspost-flate"} \X D({HuffmanOnly} \cup any, [blockSize |-> 0]))

-----------------------------------------------------------------------------
(* zstd.                                                                   *)

\* A stream whose first call is its last tells libzstd its size.
Batch == 128 * KiB
Known(engine, p, size) ==
    p.pledgedSize \/ (engine = "libzstd" /\ p.workers = 0 /\ p.endWithData /\ size <= Batch)
Settled(engine, p, size) == [p EXCEPT !.pledgedSize = Known(engine, p, size)]

\* libzstd compresses on its job-based path, and in more than one block.
InJobs(p, size) == p.workers > 0 /\ size > (IF p.pledgedSize THEN JobSizeMin ELSE Batch)

\* The end is signalled by itself, with every block written.
EndsEmpty(p, size) == p.workers = 0 /\ ~p.endWithData /\ size % Batch = 0

ZstdStream(engine, q, size) ==
    LET p == Settled(engine, q, size)
        single == p.contentSize /\ p.pledgedSize /\ HoldsAll(Window(p, size), size)
    IN  IF engine = "klauspost-zstd" THEN <<engine, p>>
        ELSE <<engine, [level |-> p.level, window |-> Window(p, size), known |-> p.pledgedSize,
                        size |-> p.contentSize /\ p.pledgedSize, single |-> single, checksum |-> p.checksum,
                        long |-> p.long, jobs |-> InJobs(p, size), empty |-> EndsEmpty(p, size)]>>

\* The first block: the only one, or a full one of any type, or what was flushed.
FirstBlocks(full, size, head) ==
    IF head > 0 THEN [last : {FALSE}, type : {RawBlock, RLEBlock}, size : {head}]
    ELSE IF size <= full THEN {[last |-> TRUE, type |-> CompressedBlock, size |-> 9]}
    ELSE [last : {FALSE}, type : {RawBlock, RLEBlock}, size : {full}]
         \cup {[last |-> FALSE, type |-> CompressedBlock, size |-> 9]}

\* The headers of the frames a producer's settings lead to.
HeadersOf(engine, q, size) ==
    LET p == Settled(engine, q, size)
        hasSize == p.contentSize /\ p.pledgedSize
        single == IF engine = "libzstd" THEN hasSize /\ HoldsAll(Window(p, size), size) ELSE p.singleSegment
        log == IF engine = "libzstd" THEN Window(p, size) ELSE p.windowLog
        block == IF engine = "libzstd" THEN Batch ELSE KpBlockSize(p.level)
        full == IF single \/ HoldsAll(log, block) THEN block ELSE 2^log
    IN  {[singleSegment |-> single, checksum |-> p.checksum, hasContentSize |-> hasSize,
          windowLog |-> IF single THEN 0 ELSE log, windowSize |-> IF single THEN size ELSE 2^log,
          emptyLastBlock |-> EndsEmpty(p, size), firstBlock |-> b] : b \in FirstBlocks(full, size, p.head)}

LibSettings ==
    {[f EXCEPT !.endWithData = e, !.pledgedSize = pl, !.contentSize = c, !.long = lo, !.windowLog = w] :
        f \in {[level |-> l, workers |-> k, checksum |-> TRUE] @@ NoZstd :
                  l \in (-7 .. 22) \ {0}, k \in {0, 1}},
        e \in BOOLEAN, pl \in BOOLEAN, c \in BOOLEAN, lo \in BOOLEAN, w \in {0, 16, 22, 28}}
KpSettings ==
    {s \in [level : 1 .. 4, windowLog : {0, 16, 22}, checksum : {TRUE}, contentSize : BOOLEAN,
            singleSegment : BOOLEAN, encodeAll : BOOLEAN, head : {0, 8, 40 * KiB}] :
        /\ s.singleSegment = (s.windowLog = 0)
        /\ s.singleSegment \/ s.encodeAll => s.contentSize /\ s.head = 0
        /\ s.encodeAll => ~s.singleSegment}

\* Settings people use, with the header h they led to.  Long distance matching
\* and explicit windows are looked for where the header has such a window (a
\* window of more than 128 MiB that holds the content shows in no header).
IsZstdProducer(engine, p, h, size) ==
    IF engine = "klauspost-zstd" THEN p.head > 0 \/ p.encodeAll \/ p.singleSegment \/ size > Batch
    ELSE /\ p.workers > 0 => ~p.endWithData
         /\ p.long => p.windowLog \in {0, 28} /\ p.level > 0
                      /\ (h.windowLog >= 27 \/ (h.singleSegment /\ size <= 2^27))
         /\ p.windowLog # 0 /\ ~p.long => p.windowLog # 28 /\ h.windowLog > 0 /\ p.level \in 1 .. 19

ZstdProducers ==
    ({"libzstd"} \X LibSettings)
    \cup ({"klauspost-zstd"} \X {s @@ [pledgedSize |-> s.contentSize] @@ NoZstd : s \in KpSettings})

-----------------------------------------------------------------------------
Files ==
    [format : {"gzip"}, header : {0, 2, 4}, size : GzipSizes]
    \cup UNION {{[format |-> "zstd", header |-> h, size |-> n] :
                    h \in UNION {HeadersOf(p[1], p[2], n) : p \in ZstdProducers}} : n \in ZstdSizes}

PInit == file \in Files /\ asked = FALSE /\ list = <<>>

Ask == /\ ~asked /\ asked' = TRUE
       /\ list' = IF file.format = "gzip" THEN GzipCandidates(file.header, file.size)
                                          ELSE ZstdCandidates(file.header, file.size)
       /\ UNCHANGED file

Producing ==
    IF file.format = "gzip" THEN GzipProducers(file.size)
    ELSE {p \in ZstdProducers : /\ IsZstdProducer(p[1], p[2], file.header, file.size)
                                           /\ file.header \in HeadersOf(p[1], p[2], file.size)}
Stream(engine, p) == IF file.format = "gzip" THEN GzipStream(engine, p, file.size)
                                             ELSE ZstdStream(engine, p, file.size)

\* How much input a candidate of libzstd gets before its first output, and how
\* much the search gives one that says it needs no more.
FirstOutput(p) ==
    IF p.workers = 0 \/ (p.pledgedSize /\ file.size <= JobSizeMin) THEN Batch
    ELSE IF Emulated(p, file.size) THEN 512 * KiB ELSE Min({JobSize(p, file.size), file.size})
UntestedLimit == 33 * MiB
Heard(c) == c.engine = "libzstd" /\ Min({c.buffered, file.size}) <= UntestedLimit
                => FirstOutput(c.params) <= UntestedLimit

\* Whoever made the file, with any settings the lists are meant for, the list
\* has a candidate that makes the same stream.  Those of a gzip file all make
\* different ones: a block that cuts the input as another does is not tried
\* again.  Their own NewWriter refuses none, and one that is started shows
\* output before the search gives up on it.
ListFindsProducer ==
    asked =>
        LET streams == {Stream(c.engine, c.params) : c \in Range(list)}
        IN  /\ \A p \in Producing : Stream(p[1], p[2]) \in streams
            /\ file.format = "gzip" =>
                  /\ Cardinality(streams) = Len(list)
                  /\ \A c \in Range(list) : AcceptsDeflate(c.engine, c.params)
            /\ file.format = "zstd" =>
                  \A c \in Range(list) : /\ AcceptsZstd(c.engine, c.params)
                                         /\ Heard(c)
=============================================================================
