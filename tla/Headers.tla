------------------------------- MODULE Headers -------------------------------
(***************************************************************************)
(* Package format: which container a file is in, and what the headers of a *)
(* gzip member and of a zstd frame say.  A file is the sequence of its     *)
(* bytes; a parser returns a record whose err is "nil", or an error.       *)
(***************************************************************************)
EXTENDS Integers, Sequences, SequencesExt, FiniteSetsExt, TLC

FHCRC == 2
FEXTRA == 4
FNAME == 8
FCOMMENT == 16

RawBlock == 0
RLEBlock == 1
CompressedBlock == 2

ErrBadHeader == [err |-> "ErrBadHeader"]
ErrSkippableFrame == [err |-> "ErrSkippableFrame"]

Has(flags, mask) == (flags \div mask) % 2 = 1
LittleEndian(bytes) == FoldRight(LAMBDA b, n : n * 256 + b, bytes, 0)

GzipMagic == <<31, 139>>
ZstdMagic == <<40, 181, 47, 253>>
IsSkippable(bytes) == Len(bytes) >= 4 /\ bytes[1] \div 16 = 5 /\ SubSeq(bytes, 2, 4) = <<42, 77, 24>>

DetectBytes(bytes) ==
    IF IsPrefix(GzipMagic, bytes) THEN "gzip"
    ELSE IF IsPrefix(ZstdMagic, bytes) \/ IsSkippable(bytes) THEN "zstd" ELSE "none"

-----------------------------------------------------------------------------
(* gzip.  A place beyond the last byte stands for a field that is not all  *)
(* there.                                                                  *)

AfterExtra(bytes) ==
    IF ~Has(bytes[4], FEXTRA) THEN 10
    ELSE IF Len(bytes) < 12 THEN Len(bytes) + 1 ELSE 12 + LittleEndian(SubSeq(bytes, 11, 12))

\* Behind a string that begins after the place at and ends with a zero.
AfterString(bytes, at) == Min({k \in at + 1 .. Len(bytes) : bytes[k] = 0} \cup {Len(bytes) + 1})

ParseGzipHeader(bytes) ==
    LET flags   == bytes[4]
        name    == IF Has(flags, FNAME) THEN AfterString(bytes, AfterExtra(bytes)) ELSE AfterExtra(bytes)
        comment == IF Has(flags, FCOMMENT) THEN AfterString(bytes, name) ELSE name
        end     == IF Has(flags, FHCRC) THEN comment + 2 ELSE comment
    IN  IF Len(bytes) < 10 \/ ~IsPrefix(GzipMagic, bytes) \/ bytes[3] # 8 \/ end > Len(bytes)
        THEN ErrBadHeader
        ELSE [err |-> "nil", raw |-> end, xfl |-> bytes[9]]

-----------------------------------------------------------------------------
(* zstd.                                                                   *)

ParseZstdFrameHeader(bytes) ==
    LET fhd      == bytes[5]
        single   == Has(fhd, 32)
        dictAt   == IF single THEN 5 ELSE 6
        dictSize == <<0, 1, 2, 4>>[(fhd % 4) + 1]
        sizeAt   == dictAt + dictSize
        sizeLen  == IF fhd \div 64 = 0 THEN (IF single THEN 1 ELSE 0) ELSE 2^(fhd \div 64)
        end      == sizeAt + sizeLen
        content  == LittleEndian(SubSeq(bytes, sizeAt + 1, end)) + (IF sizeLen = 2 THEN 256 ELSE 0)
        base     == 2^(10 + bytes[6] \div 8)
    IN  IF IsSkippable(bytes) THEN ErrSkippableFrame
        ELSE IF ~IsPrefix(ZstdMagic, bytes) \/ Len(bytes) < 5 \/ Has(fhd, 8) \/ end > Len(bytes)
        THEN ErrBadHeader
        ELSE [err |-> "nil", headerLen |-> end, singleSegment |-> single, checksum |-> Has(fhd, 4),
              windowLog |-> IF single THEN 0 ELSE 10 + bytes[6] \div 8,
              windowSize |-> IF single THEN content ELSE base + (base \div 8) * (bytes[6] % 8),
              dictID |-> LittleEndian(SubSeq(bytes, dictAt + 1, sizeAt)),
              hasContentSize |-> sizeLen > 0, contentSize |-> IF sizeLen > 0 THEN content ELSE 0]

\* The block header behind the place at.
BlockAt(bytes, at) ==
    LET v == LittleEndian(SubSeq(bytes, at + 1, at + 3))
    IN  [last |-> v % 2 = 1, type |-> (v \div 2) % 4, size |-> v \div 8]
OnDisk(block) == IF block.type = RLEBlock THEN 1 ELSE block.size

\* From block to block up to the last, not looking into any.
WalkBlocks(bytes, from) ==
    LET walk[at \in 0 .. Len(bytes)] ==
            LET b == BlockAt(bytes, at)
                next == at + 3 + OnDisk(b)
            IN  IF at + 3 > Len(bytes) \/ b.type = 3 \/ next > Len(bytes) THEN ErrBadHeader
                ELSE IF ~b.last THEN walk[next]
                ELSE [err |-> "nil", end |-> next,
                      emptyLastBlock |-> b.type = RawBlock /\ b.size = 0 /\ at > from]
    IN  walk[from]

ChecksumLen_None(h) == 0
ChecksumLen(h) == IF h.checksum THEN 4 ELSE 0

\* The header, with what the blocks add to it and the frame's length.
ZstdFrameLength(bytes) ==
    LET h == ParseZstdFrameHeader(bytes)
        w == WalkBlocks(bytes, h.headerLen)
    IN  IF h.err # "nil" THEN h
        ELSE IF w.err # "nil" THEN w
        ELSE IF w.end + ChecksumLen(h) > Len(bytes) THEN ErrBadHeader
        ELSE h @@ [firstBlock |-> BlockAt(bytes, h.headerLen), emptyLastBlock |-> w.emptyLastBlock,
                   frameLen |-> w.end + ChecksumLen(h)]

\* How much the producer wrote before it flushed, if the first block shows that
\* it did; 0 otherwise.
FlushedHead(h, blockSize) ==
    LET b    == h.firstBlock
        full == IF h.windowSize > 0 /\ h.windowSize < blockSize THEN h.windowSize ELSE blockSize
    IN  IF b.last \/ b.type = CompressedBlock \/ b.size >= full THEN 0 ELSE b.size
=============================================================================
