----------------------------- MODULE GzipDeflate -----------------------------
(***************************************************************************)
(* engine/gnugzip/deflate.go and gnugzip.go: gzip's deflate, which pulls   *)
(* its input from inside one loop, turned into a machine that stops        *)
(* wherever a read cannot be answered yet and goes on at the next Write.   *)
(*                                                                         *)
(* d is struct deflater.  Sizes are scaled; a block is kept as the tokens  *)
(* and the input GzipTrees turns into bits.                                *)
(***************************************************************************)
EXTENDS GzipTrees, Inflate, Bitwise

CONSTANTS WSize,         \* wsize
          MatchCap,      \* maxMatch
          TooFar, RsyncWin, HashBits,
          LitBufsize,    \* litBufsize and distBufsize
          TallyPeriod,   \* 0x1000 in ct_tally: tokens between its guesses
          InChunk,       \* inChunk
          OutFlush,      \* outFlush, in blocks
          WriteSizes,    \* sizes of a caller's writes
          Inputs         \* [content, level, config, rsync] to compress

MinLookahead == MatchCap + MinMatch + 1
MaxDist == WSize - MinLookahead
WindowSize == 2 * WSize
HashSize == 2^HashBits
HShift == (HashBits + MinMatch - 1) \div MinMatch
NilPos == 0
Unsigned == 2^20            \* arithmetic on uint64 wraps; here at this size
NoChunkEnd == Unsigned - 1

ASSUME DeflateAssumption ==
    /\ MatchCap >= MinMatch /\ MaxDist > TooFar /\ TooFar >= MinMatch /\ MaxDist > RsyncWin
    /\ \A i \in Inputs : i.config.maxChain >= 4 /\ i.content \in Seq(0 .. 3)
    /\ InChunk > 0 /\ OutFlush > 0 /\ WriteSizes \subseteq Nat \ {0}

VARIABLES input,     \* what is compressed, and how
          d,         \* the deflater
          fed,       \* bytes given to Write so far
          unfed,     \* of these, not yet passed to feed
          gpc,       \* where the writer is: "idle", "process", "deliver"
          result,    \* what process returned
          gsent,     \* blocks the destination took
          gerr, gclosed,
          whole      \* the blocks of one Write of everything, to compare with

gvars == <<input, d, fed, unfed, gpc, result, gsent, gerr, gclosed, whole>>

-----------------------------------------------------------------------------
(* The window and the hash chains.                                         *)

NewDeflater(i) ==
    [window |-> [k \in 0 .. WindowSize + 1 |-> 0],
     prev |-> [k \in 0 .. WSize-1 |-> NilPos], head |-> [k \in 0 .. HashSize-1 |-> NilPos],
     blockStart |-> 0, insH |-> 0, strstart |-> 0, matchStart |-> 0, lookahead |-> 0,
     prevLength |-> IF i.level <= 3 THEN MinMatch - 1 ELSE 0,
     matchLength |-> IF i.level <= 3 THEN 0 ELSE MinMatch - 1,
     prevMatch |-> 0, hashHead |-> 0, matchAvailable |-> FALSE, flush |-> 0,
     eofile |-> FALSE, rsyncSum |-> 0, chunkEnd |-> NoChunkEnd,
     level |-> i.level, cfg |-> i.config, rsync |-> i.rsync,
     tokens |-> <<>>, out |-> <<>>, in |-> <<>>, inEOF |-> FALSE, phase |-> "init"]

UpdateHash(s, c) == [s EXCEPT !.insH = ((@ * 2^HShift) ^^ c) % HashSize]

InsertString(s, at) ==
    LET h == UpdateHash(s, s.window[at + MinMatch - 1])
        old == h.head[h.insH]
    IN  [h EXCEPT !.prev[at % WSize] = old, !.head[h.insH] = at, !.hashHead = old]

InsertRange(s, from, to) ==
    FoldLeft(InsertString, s, [k \in 1 .. to - from + 1 |-> from + k - 1])

CanRead_Any(s, n) == Len(s.in) > 0 \/ s.inEOF
CanRead(s, n) == Len(s.in) >= n \/ s.inEOF

\* read_buf: up to n bytes of what is queued, as from a regular file.
ReadBuf(s, off, n) ==
    LET got == Min({n, Len(s.in)})
    IN  [s EXCEPT !.window = [k \in DOMAIN @ |-> IF k \in off .. off + got - 1
                                                 THEN s.in[k - off + 1] ELSE @[k]],
                  !.in = SubSeq(@, got + 1, Len(@)), !.lookahead = @ + got]

\* The block's start left where it was.
Slid_KeepsBlock(s) ==
    LET Down(p) == IF p >= WSize THEN p - WSize ELSE NilPos
    IN  [s EXCEPT !.window = [k \in DOMAIN @ |-> IF k < WSize THEN @[k + WSize] ELSE @[k]],
                  !.matchStart = @ - WSize, !.strstart = @ - WSize,
                  !.chunkEnd = IF @ = NoChunkEnd THEN @ ELSE (@ - WSize) % Unsigned,
                  !.head = [h \in DOMAIN @ |-> Down(@[h])],
                  !.prev = [k \in DOMAIN @ |-> Down(@[k])]]

\* fill_window's first half: the upper half of the window comes down.
Slid(s) ==
    LET Down(p) == IF p >= WSize THEN p - WSize ELSE NilPos
    IN  [s EXCEPT !.window = [k \in DOMAIN @ |-> IF k < WSize THEN @[k + WSize] ELSE @[k]],
                  !.matchStart = @ - WSize, !.strstart = @ - WSize, !.blockStart = @ - WSize,
                  !.chunkEnd = IF @ = NoChunkEnd THEN @ ELSE (@ - WSize) % Unsigned,
                  !.head = [h \in DOMAIN @ |-> Down(@[h])],
                  !.prev = [k \in DOMAIN @ |-> Down(@[k])]]

MustSlide(s) == s.strstart >= WSize + MaxDist
More(s) == WindowSize - s.lookahead - s.strstart + (IF MustSlide(s) THEN WSize ELSE 0)
CanFill(s) == s.eofile \/ CanRead(s, More(s))
FillWindow(s) ==
    LET t == IF MustSlide(s) THEN Slid(s) ELSE s
        end == t.strstart + t.lookahead
    IN  IF s.eofile THEN t
        ELSE IF Min({More(s), Len(s.in)}) = 0
        THEN [t EXCEPT !.eofile = TRUE, !.window[end] = 0, !.window[end + 1] = 0]
        ELSE ReadBuf(t, end, More(s))

-----------------------------------------------------------------------------
(* longest_match.                                                          *)

\* How far two positions agree that agree on their first three bytes.
MatchLength(w, scan, match) ==
    Min({k \in MinMatch .. MatchCap - 1 : w[scan + k] # w[match + k]} \cup {MatchCap})

RECURSIVE Chase(_, _, _, _)
Chase(s, match, chain, best) ==
    LET w == s.window  scan == s.strstart
        limit == Max({0, s.strstart - MaxDist})
        promising == /\ w[match + best.len] = w[scan + best.len]
                     /\ w[match + best.len - 1] = w[scan + best.len - 1]
                     /\ w[match] = w[scan] /\ w[match + 1] = w[scan + 1]
        length == MatchLength(w, scan, match)
        found  == promising /\ length > best.len
        new    == IF found THEN [len |-> length, start |-> match] ELSE best
        next   == s.prev[match % WSize]
    IN  IF \/ found /\ length >= s.cfg.niceLength
           \/ next <= limit \/ chain - 1 = 0
        THEN new ELSE Chase(s, next, chain - 1, new)

LongestMatch(s) ==
    Chase(s, s.hashHead,
          IF s.prevLength >= s.cfg.goodLength THEN s.cfg.maxChain \div 4 ELSE s.cfg.maxChain,
          [len |-> s.prevLength, start |-> s.matchStart])

\* The hash chain's head is near enough to be looked at.
Reachable(s) == /\ s.hashHead # NilPos /\ s.strstart - s.hashHead <= MaxDist
                /\ s.strstart <= WindowSize - MinLookahead

\* The best match, no longer than the input that is left.
WithMatch(s) ==
    LET m == LongestMatch(s)
    IN  [s EXCEPT !.matchLength = Min({m.len, s.lookahead}), !.matchStart = m.start]

-----------------------------------------------------------------------------
(* Blocks: ct_tally, the rsync points and FLUSH_BLOCK.                     *)

\* ct_tally: flush is 1 when the block has to end, its buffers full or, every
\* so often, because it compresses so well that a new one would do better.
CtTally(s, dist, lc) ==
    LET tokens  == Append(s.tokens, [dist |-> dist, lc |-> lc])
        matches == SelectSeq(tokens, LAMBDA t : t.dist # 0)
        bits    == FoldLeft(LAMBDA n, t : n + 5 + ExtraDbits[DCode(t.dist - 1)],
                            Len(tokens) * 8, matches)
        good    == /\ s.level > 2 /\ Len(tokens) % TallyPeriod = 0
                   /\ Len(matches) < Len(tokens) \div 2
                   /\ bits \div 8 < (s.strstart - s.blockStart) \div 2
        full    == Len(tokens) = LitBufsize - 1 \/ Len(matches) = LitBufsize
    IN  [s EXCEPT !.tokens = tokens, !.flush = IF good \/ full THEN 1 ELSE 0]

\* rsync_roll: the sum of the last RsyncWin bytes goes on by num bytes; the
\* first byte at which it is a multiple of RsyncWin is the next sequence point.
RsyncRoll(s, start, num) ==
    LET Roll(t, i) ==
            LET sum == t.rsyncSum + t.window[i] - (IF i < RsyncWin THEN 0 ELSE t.window[i - RsyncWin])
            IN  [t EXCEPT !.rsyncSum = sum,
                          !.chunkEnd = IF i >= RsyncWin /\ @ = NoChunkEnd /\ sum % RsyncWin = 0
                                       THEN i ELSE @]
    IN  IF s.rsync THEN FoldLeft(Roll, s, [k \in 1 .. num |-> start + k - 1]) ELSE s

RsyncDue(s) == s.rsync /\ s.strstart > s.chunkEnd
RsyncCheck_Keeps(s) == IF RsyncDue(s) THEN [s EXCEPT !.flush = 2] ELSE s
RsyncCheck(s) == IF RsyncDue(s) THEN [s EXCEPT !.chunkEnd = NoChunkEnd, !.flush = 2] ELSE s

\* FLUSH_BLOCK: the block's input is at hand unless its start has slid out of
\* the window; a block ended by a sequence point is padded to a byte.
FlushBlockMacro(s, eof) ==
    LET hasBuf == s.blockStart >= 0
        block  == [tokens |-> s.tokens, hasBuf |-> hasBuf, len |-> s.strstart - s.blockStart,
                   data |-> IF hasBuf THEN [k \in 1 .. s.strstart - s.blockStart |->
                                               s.window[s.blockStart + k - 1]]
                            ELSE <<>>,
                   pad |-> s.flush - 1 # 0, eof |-> eof]
    IN  [s EXCEPT !.tokens = <<>>, !.out = Append(@, block)]

EndBlockIfDue(s) ==
    IF s.flush = 0 THEN s ELSE [FlushBlockMacro(s, FALSE) EXCEPT !.blockStart = s.strstart]

-----------------------------------------------------------------------------
(* One iteration of deflate_fast and of gzip_deflate.                      *)

TakeMatchFast(s) ==
    LET n == s.matchLength  end == s.strstart + n
        t == RsyncRoll([CtTally(s, s.strstart - s.matchStart, n - MinMatch) EXCEPT !.lookahead = @ - n],
                       s.strstart, n)
        u == IF n <= s.cfg.maxLazy THEN InsertRange(t, s.strstart + 1, end - 1)
             ELSE UpdateHash([t EXCEPT !.insH = t.window[end]], t.window[end + 1])
    IN  [u EXCEPT !.strstart = end, !.matchLength = 0]

TakeLiteralFast(s) ==
    LET t == RsyncRoll(CtTally(s, 0, s.window[s.strstart]), s.strstart, 1)
    IN  [t EXCEPT !.lookahead = @ - 1, !.strstart = @ + 1]

TakeFast(s) == EndBlockIfDue(RsyncCheck(IF s.matchLength >= MinMatch THEN TakeMatchFast(s)
                                        ELSE TakeLiteralFast(s)))
IfReachable(s) == IF Reachable(s) THEN WithMatch(s) ELSE s
StepFast(s) == TakeFast(IfReachable(InsertString(s, s.strstart)))

\* The match of the step before is better than this one: take it.
TakePrevious(s) ==
    LET end == s.strstart - 1 + s.prevLength
        t == [CtTally(s, s.strstart - 1 - s.prevMatch, s.prevLength - MinMatch)
                 EXCEPT !.lookahead = @ - (s.prevLength - 1)]
        u == InsertRange(RsyncRoll(t, s.strstart, s.prevLength - 1), s.strstart + 1, end - 1)
    IN  EndBlockIfDue(RsyncCheck([u EXCEPT !.prevLength = 0, !.matchAvailable = FALSE,
                                           !.matchLength = MinMatch - 1, !.strstart = end]))

\* One more byte is decided on, or waits to be.
Advance(s) == LET t == RsyncRoll(s, s.strstart, 1)
              IN  [t EXCEPT !.strstart = @ + 1, !.lookahead = @ - 1]

TakeLiteral(s) == Advance(EndBlockIfDue(RsyncCheck(CtTally(s, 0, s.window[s.strstart - 1]))))

Postpone(s) ==
    Advance([(IF RsyncDue(s) THEN EndBlockIfDue(RsyncCheck(s)) ELSE s)
                EXCEPT !.matchAvailable = TRUE])

\* A match is looked for while the one before is not good enough; one of the
\* least length that is too far away is no match.
NotFar(s) == IF s.matchLength = MinMatch /\ s.strstart - s.matchStart > TooFar
             THEN [s EXCEPT !.matchLength = @ - 1] ELSE s
WithLazyMatch(s) ==
    IF Reachable(s) /\ s.prevLength < s.cfg.maxLazy THEN NotFar(WithMatch(s)) ELSE s

TakeLazy(s) ==
    IF s.prevLength >= MinMatch /\ s.matchLength <= s.prevLength THEN TakePrevious(s)
    ELSE IF s.matchAvailable THEN TakeLiteral(s) ELSE Postpone(s)
StepLazy(s) ==
    TakeLazy(WithLazyMatch([InsertString(s, s.strstart) EXCEPT !.prevLength = s.matchLength,
                                                               !.prevMatch = s.matchStart,
                                                               !.matchLength = MinMatch - 1]))

Finish(s) ==
    FlushBlockMacro(IF s.level > 3 /\ s.matchAvailable
                    THEN CtTally(s, 0, s.window[s.strstart - 1]) ELSE s, TRUE)

-----------------------------------------------------------------------------
(* process: what each phase does, and whether it goes on ("more"), needs   *)
(* input, has output to deliver or is done.                                *)

Went(s, how) == [d |-> s, how |-> how]

\* lm_init reads two windows' worth at once.
FirstRead(s) ==
    LET t == ReadBuf(s, 0, WindowSize)
    IN  IF ~CanRead(s, WindowSize) THEN Went(s, "needInput")
        ELSE IF t.lookahead = 0 THEN Went([t EXCEPT !.eofile = TRUE, !.phase = "loop"], "more")
        ELSE Went([t EXCEPT !.phase = "initTopUp"], "more")

\* Enough lookahead for the longest match and the string behind it, but at
\* the end of the input; then whatever comes next.
TopUp(s, then) ==
    IF s.lookahead < MinLookahead /\ ~s.eofile
    THEN IF CanFill(s) THEN Went(FillWindow(s), "more") ELSE Went(s, "needInput")
    ELSE Went(then, "more")

ToLoop(s) == [s EXCEPT !.phase = "loop"]
HashFirst(s) == ToLoop(UpdateHash(UpdateHash([s EXCEPT !.insH = 0], s.window[0]), s.window[1]))

Stepped(s) == Went([s EXCEPT !.phase = "topUp"],
                   IF Len(s.out) >= OutFlush THEN "outputFull" ELSE "more")
Step(s) == IF s.lookahead = 0 THEN Went([Finish(s) EXCEPT !.phase = "done"], "finished")
           ELSE Stepped(IF s.level <= 3 THEN StepFast(s) ELSE StepLazy(s))

Iterate(s) == CASE s.phase = "init"      -> FirstRead(s)
                [] s.phase = "initTopUp" -> TopUp(s, HashFirst(s))
                [] s.phase = "loop"      -> Step(s)
                [] s.phase = "topUp"     -> TopUp(s, ToLoop(s))

\* The same machine with the whole input at hand, as gzip itself runs.
RECURSIVE Uninterrupted(_)
Uninterrupted(s) == IF s.phase = "done" THEN s.out ELSE Uninterrupted(Iterate(s).d)

-----------------------------------------------------------------------------
(* The writer.                                                             *)

Size == Len(input.content)

GInit == /\ input \in Inputs
         /\ d = NewDeflater(input)
         /\ fed = 0 /\ unfed = 0 /\ gpc = "idle" /\ result = "more"
         /\ gsent = <<>> /\ gerr = "nil" /\ gclosed = FALSE
         /\ whole = Uninterrupted([d EXCEPT !.in = input.content, !.inEOF = TRUE])

\* feed: the next bytes of the caller's are queued.
Fed(n) == [d EXCEPT !.in = @ \o SubSeq(input.content, fed - unfed + 1, fed - unfed + n)]

\* Write is called, with something of what is left.
CallDeflate == /\ gpc = "idle" /\ ~gclosed /\ gerr = "nil" /\ unfed = 0
               /\ \E n \in WriteSizes : fed + n <= Size /\ fed' = fed + n /\ unfed' = n
               /\ UNCHANGED <<input, d, gpc, result, gsent, gerr, gclosed, whole>>

\* Write's loop: a piece of at most InChunk goes to the compressor.
Feed == /\ gpc = "idle" /\ unfed > 0
        /\ LET n == Min({unfed, InChunk}) IN d' = Fed(n) /\ unfed' = unfed - n
        /\ gpc' = "process" /\ result' = "more"
        /\ UNCHANGED <<input, fed, gsent, gerr, gclosed, whole>>

Close == /\ gpc = "idle" /\ ~gclosed /\ unfed = 0 /\ (fed = Size \/ gerr # "nil")
         /\ gclosed' = TRUE
         /\ IF gerr = "nil" THEN d' = [d EXCEPT !.inEOF = TRUE] /\ gpc' = "process"
            ELSE UNCHANGED <<d, gpc>>
         /\ result' = "more"
         /\ UNCHANGED <<input, fed, unfed, gsent, gerr, whole>>

Process(went) ==
    /\ d' = went.d /\ result' = went.how
    /\ gpc' = IF went.how = "more" THEN "process" ELSE "deliver"
    /\ UNCHANGED <<input, fed, unfed, gsent, gerr, gclosed, whole>>
Running(phase) == gpc = "process" /\ d.phase = phase

\* run: what process left is written; the loop goes on if it stopped only for
\* that.  A destination that fails ends the Write it fails in.
DeliverBlocks ==
    /\ gpc = "deliver"
    /\ \/ /\ gsent' = gsent \o d.out /\ d' = [d EXCEPT !.out = <<>>] /\ UNCHANGED <<gerr, unfed>>
          /\ gpc' = IF result = "outputFull" THEN "process" ELSE "idle"
       \/ /\ d.out # <<>> /\ gerr' = "failed" /\ d' = [d EXCEPT !.out = <<>>]
          /\ gpc' = "idle" /\ unfed' = 0 /\ UNCHANGED gsent
    /\ UNCHANGED <<input, fed, result, gclosed, whole>>

GNext == \/ CallDeflate \/ Feed \/ Close \/ DeliverBlocks
         \/ Running("init") /\ Process(FirstRead(d))
         \/ Running("initTopUp") /\ Process(TopUp(d, HashFirst(d)))
         \/ Running("loop") /\ Process(Step(d))
         \/ Running("topUp") /\ Process(TopUp(d, ToLoop(d)))

GSpec == GInit /\ [][GNext]_gvars

-----------------------------------------------------------------------------
Done == gclosed /\ gpc = "idle" /\ gerr = "nil"
Made == gsent \o d.out

\* Wherever a caller's writes end, the compressor makes the blocks of one
\* uninterrupted run, and has made them all when Close returns nil.
BlocksSplitFree == /\ gerr = "nil" => IsPrefix(Made, whole)
                   /\ Done => gsent = whole

\* How far the blocks reach into the input.
Ends(blocks) == [k \in DOMAIN blocks |-> FoldLeft(LAMBDA n, b : n + b.len, 0, SubSeq(blocks, 1, k))]

\* Blocks follow one another through the input: what each block's literals and
\* matches stand for, behind what comes before it, is its part of the input,
\* and a block that says its input is at hand holds that very input, however
\* the window slid since it began.  Together they are all of it.
BlocksAreContent == gerr = "nil" =>
    LET end == Ends(Made)
        Part(k) == SubSeq(input.content, end[k] - Made[k].len + 1, end[k])
    IN  /\ \A k \in DOMAIN Made :
             /\ Expand(SubSeq(input.content, 1, end[k] - Made[k].len), Made[k].tokens)
                    = SubSeq(input.content, 1, end[k])
             /\ Made[k].hasBuf => Made[k].data = Part(k)
        /\ Done => Last(end) = Size

\* Where the last RsyncWin bytes, this one included, add up to a multiple.
Hit(i) == i > RsyncWin
          /\ MapThenSumSet(LAMBDA k : input.content[k], i - RsyncWin + 1 .. i) % RsyncWin = 0

\* --rsyncable's promise: where a block may be cut shows in the content nearby.
\* A cut follows each such byte within the longest match, and no padded block
\* ends without one.
CutsFollowContent == input.rsync /\ gerr = "nil" =>
    LET end == Ends(Made)
        reached == IF Made = <<>> THEN 0 ELSE Last(end)
    IN  /\ \A i \in 1 .. reached : Hit(i) =>
            \E k \in DOMAIN end : end[k] \in i .. i + MatchCap
        /\ \A k \in DOMAIN end : Made[k].pad /\ ~Made[k].eof =>
            \E i \in end[k] - MatchCap .. end[k] : i > 0 /\ Hit(i)
=============================================================================
