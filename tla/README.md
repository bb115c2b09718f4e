# zrecipe in TLA+

zrecipe takes a gzip or zstd file, decompresses it once, finds the compression
engine and parameters that recreate the very same bytes, and records them; given
the content and that record it rebuilds the file. This directory holds TLA+
models of the program from one end to the other: how a file is taken apart and
what it is told about, which candidates are proposed, the search over them, the
confirming pass with its two goroutines, the pipe between them, the
multi-threaded pigz engine, the writers that batch input for C compressors,
gzip's own deflate down to its bits, and the rebuilding of a file with the
commands around it. TLC checks them on small instances; TLAPS proves the safety of
the search, of Confirm and its pipe, of pigz's goroutines, of the batching writers, of
what an analysis leaves behind and of the rebuilding for every instance.

Contents: [the system](#the-system) · [how it is modelled](#how-it-is-modelled) ·
[the modules](#the-modules) · [the runs](#the-runs) ·
[where the source disagrees with itself](#where-the-source-disagrees-with-itself) ·
[the proofs](#the-proofs) · [what is not modelled](#what-is-not-modelled) ·
[the plan](#the-plan)

## The system

### How a file goes through it

    Analyze = Start ; Confirm ; Close                            analyze.go, analysis.go

    Start:    detect the format -> pass one: decompress into the spool, hash both
              streams, check trailer and extent, list candidates
              -> Eliminate: advance the candidates in windows, drop each at its
                 first divergent byte; settle on one, or fall back to
                 -> Run: a pool of workers, each candidate run to its end
    Confirm:  reader goroutine: spool -> tee, spool -> pipe
              caller:           pipe -> rebuild -> Compare over the input
    Recompress = checks ; rebuild ; digests                      recompress.go

An engine (zlib, pigz, gnu-gzip, go-flate, klauspost-flate, pgzip,
klauspost-zstd, libzstd) is a `NewWriter(dst, params)`: `engine.Feed` writes
content to it in 32 KiB blocks, it writes compressed bytes to `dst` whenever it
likes, and `Close` flushes. `dst` in a search is a `Compare`, which reads the
original file alongside and fails at the first byte that differs.

### The components

| Component | State | Operations | Meets the others through | Hard part | What makes it correct |
|---|---|---|---|---|---|
| `search.Compare` | bytes compared, latched error, limited flag, under a mutex | Write, AtEOF, Err, Matched | engines write to it, also from goroutines of their own; the search reads it | a limit that stops a right candidate looks like an error | nothing is accepted past the first difference; limited only after VerifyLimit equal bytes |
| `search.Run` | next, winner, verified, tried, running with cancel functions, first error, under a mutex | worker loop, evaluate, report, return | Compare, contexts, Eliminate's fallback | workers report out of order, the losers' cancellation looks like an error | earliest match in list order, ErrNoMatch only if there is none |
| `search.Eliminate` | per candidate: engine, reference, position, tested, complete, dead; the round's window, survivors, stop; last death, tried, untested | start, feed, kill, retire, drop, grow, settle, fall back, close all | spool sections, engines (some asynchronous), Compare, Run | verdicts that arrive after the window they belong to; overflow in the middle of a round; three limits that interact | earliest right candidate among those tested; bounded work; every engine closed; returns |
| `pipe` | channel of copied writes, end and its error, a closed channel, what Read holds | Write, CloseWrite, Read, CloseRead | Confirm's goroutines | `select` chooses at random when both ends are ready | order, nothing lost, the end after the data, a hang-up releases the writer |
| `Analysis.Confirm` | cctx and its cause, teeErr, readErr, whether the reader still feeds | the reader goroutine, the rebuild, the judgement | pipe, spool, tee, Compare, engines | five independent failures, one cancellation, answers read without a lock | success only for a real reproduction and a complete tee; the first-hand cause otherwise; both goroutines end |
| `Analysis.Start`, pass one, Close | format, header, counters, spool; the flags of the Analysis | detect, parse, decompress, check, list, eliminate, confirm, close | everything above and the caller's reader | damage, faults and cancellation come out of one io.Copy; every error path owns the spool | an answer about the input only when the input is to blame; nothing left open or in TempDir |
| `search.Spool` | memory or file, size | Write, spill, Reader, Section, Close | pass one, Eliminate, Confirm | the spill fails half way | what is read is what was written; its file is closed once |
| candidate lists | none | each engine's Candidates, LevelOrder, flatten, NewWriter's checks | pass one, the search | settings left out as equal to another; windows and blocks that just fit | whoever made the file is in the list, once, and is accepted |
| container formats | none | Detect, ParseGzipHeader, ZstdFrameLength | pass one | truncated headers, fields in front of fields | the extent of exactly one member |
| `Recompress` | two digests, two counters | validate, look up, rebuild, drain, compare digests | engines | precedence of errors: input mismatch over the engine's | nil only for the recorded bytes |
| `engine.Feed` | bytes fed | Feed | all writers | a writer that accepts part of a block | the count is what the writer took |
| pigz engine | channels jobs, stop, accepted, order and one done per job; two locals of the printer; zlib streams; input spaces, their hits and carried-over positions; the output's space | Write, Close, cutJobs, workers, printer, single, endPiece | its caller through an io.Pipe, Compare | four kinds of goroutine waiting on each other; two implementations of one cutting | output in job order; Close tells the truth; first job alone; all end; both paths flush alike |
| batching writers: zlib, pgzip, kpzstd, libzstd | a buffer, a latched error, a closed flag | Write, drain, Close; kpzstd: the head held back; libzstd: hand-over and replay | C libraries, klauspost/compress | output must not depend on how the input was cut into writes | the same sequence of inner writes for every cut |
| gnu-gzip | window, hash chains, the block's tokens, the rsync sum; trees and a bit buffer | Write, run, Close; deflate_fast and lazy; build_tree, flush_block | | suspension anywhere in the algorithm; positions that slide | the output of one uninterrupted run, and a stream that inflates to the input |
| command line | a temporary file; two output files | analyze, recompress, detect, engines | | failure between two files, between write and rename | the target is whole or untouched; a recipe only behind its content, and whole when the command says nil |
| Params, digests, errors | none | validate, ReadParams, Write | | | |
| pgzip/flate | | | | | a third-party compressor kept beside pgzip |

## How it is modelled

- **Bytes become counts.** In the search, input is counted in Feed blocks, output in
  writes to Compare. What a candidate's output is like is fixed in the initial state
  as a *behaviour*: it agrees with the reference for `good` writes and then stops,
  differs, fails, or finds the reference unreadable. The specifications range over
  every assignment of behaviours to candidates, so "the candidate turns out
  to be right/wrong here" is never a choice the model makes half way.
- **Except where the bytes are the point.** Headers parses real header bytes,
  GzipTrees builds real Huffman trees and GzipBits packs real bits, at gzip's own
  sizes; GzipDeflate's window is a window of (few, small) bytes. PigzCut's bytes are
  their places in the input, so that a byte lost, repeated or hashed twice shows.
- **Where goroutines interleave.** A mutex's critical section is one action. Outside
  it, an action is what lies between two points where another goroutine can be
  seen: one Compare.Write (it looks at the context), one select, one channel
  operation.
- **Asynchronous engines.** In Elimination an engine owes a write `lag` blocks
  after the input it stems from. A synchronous one pays before its Write returns; an
  asynchronous one when its goroutine gets to it, at most `Lead` writes late
  before it takes no more input. PigzParallel is that engine in detail, and its
  `BoundedAhead` is the bound Elimination's `Lead` stands for.
- **Cancellation.** The caller's context may be done at any point. An engine may or
  may not wrap the error its writer gave it, so an interrupted evaluation comes
  back as "canceled" or as a failure of its own.
- **Compressors that are not this repository's.** In Writers a compressor takes any
  part of what it is handed and gives out any part of what it could have ready: the
  writer around it may rely on neither. Of libzstd's own multi-threading one thing is
  taken from a comment (libzstd.go:342-348) and not from code in this repository: a
  call without input makes it give out something of the job in flight. In Producers,
  what makes two streams of libzstd the same is what the comments of libzstd.go say.
  Marked `external` in PROJECT.json.
- **Faults.** Engines that cannot be opened, fail, or whose destination refuses a
  write; references that cannot be opened or read; a tee or spool that fails at
  any block; each file operation of the spill; seeks; zlib streams that cannot be
  allocated; an input that is not the recorded one, is damaged, cut off or followed by
  more, or cannot be read from some byte on; a file operation of a command that fails;
  a command that is killed between two of its steps.

Definitions named `X_Bug` are `X` with a bug one could plausibly write. No
specification uses them; PROJECT.json pairs each property with one that breaks it,
so that no property is true for want of anything that could go wrong.

## The modules

| Module | Models | Its state and actions in the code |
|---|---|---|
| `Compare` | search/compare.go | a record and operators: every method holds the mutex throughout, so a call belongs to the caller's step |
| `Search` | the promise in Run's doc comment | abstract: fixed verdicts, an answer given once |
| `Run` | search/run.go | Run's locals by name; `Leave`/`Take` the loop's first critical section, `Write`/`Interrupted`/`Finish` evaluate, `Accept`/`Reject` the second, `ReturnAnswer` what follows `wg.Wait` |
| `Elimination` | search/eliminate.go, Feed | `cand` is struct candidate, `elim` struct elimination, `round` the locals of round; `Start`, `Block`, `BlockFails`, `Fed`, `Closed` are feed for each goroutine, `HandOut`/`Report` the round's critical sections, `Join` … `Fallback` the caller's loop, `Emit` the engines |
| `Pipe` | pipe.go | the struct's fields, and where in Write and Read each end is; one action per select case |
| `PipeUse` | what pipe.go's comments let its users do | a producer and a consumer over Pipe |
| `Confirm` | Analysis.Confirm, rebuild, ctxWriter | composes `Pipe`; `rpc` is the line the reader goroutine is at, `cpc` the caller's; `cause` is `context.Cause(cctx)` |
| `Headers` | format/*.go | operators: detection, the gzip header with its optional fields, the zstd frame header and the walk over its blocks |
| `Analyze` | analyze.go, analysis.go, search/spool.go, the analyze command | `at` is the line Start, Confirm or the command is at; `spool`, `fds`, `entry` the spool, its open file and its name in TempDir; one action per file operation of the spill |
| `Candidates` | every engine's Candidates, engine/engine.go, NewWriter's checks, the lists in analyze.go | operators that return the lists, in order |
| `Producers` | what the compressors of the world write in their headers (external) | a file somebody made; `Ask` computes the list for it |
| `PigzParallel` | engine/pigz/pigz.go, parallel path | the channels as flags and a sequence, a program counter per goroutine |
| `PigzCut` | pigz.go: cutJobs | `par` is its locals, `jobs` what it emits; `Divide`'s three cases are its branches |
| `PigzPieces` | pigz.go: compressJob, single, endPiece, the output space | extends `PigzCut`; `one` is the locals of single, `Spaces` and `Grow` the space of a job's output, `Engine` the calls of deflate |
| `Writers` | the writers of engine/zlib, pgzip, kpzstd and libzstd | `kind` says which; the fields by name; `Fill`/`Batch`/`CompressStep`/`Flush`/`End` the batching writers, kpzstd's and libzstd's direct one, `KeepInput` … `EndChunk` the jobWriter, `StartDirect` and `Replayed` its hand-over |
| `GzipBits`, `GzipTrees` | gnugzip/bits.go, trees.go | operators: the bit buffer; tables, heap, lengths, codes, runs of lengths, the choice of an encoding, a block's bits |
| `Inflate` | RFC 1951, no code of this repository | the reading side GzipTrees is checked against |
| `GzipDeflate` | gnugzip/deflate.go, gnugzip.go | `d` is struct deflater; `Step` one iteration of either loop, the phases process's, `CallDeflate` … `DeliverBlocks` the writer |
| `GzipStream` | flush_block in sequence, build_tree by itself | blocks through GzipTrees into one stream |
| `Recompress` | recompress.go, engine/feed.go | `pc` is the line Recompress or rebuild is at; `read` and `written` are the counting readers and writers, digests are what they saw |
| `Target` | the recompress command | `cpc` is the line in cmd/zrecipe/main.go, `tmp` and `out` the two files |
| `Once` | nothing | how a value is computed once by TLC |
| `MCRun`, `MCElimination`, `MCConfirm`, `MCPigz`, `MCStreams`, `MCCommands` | | the instances; the last three run modules that do not interact side by side, so that one instance shows them all |
| `RunProofs`, `EliminationProofs`, `PipeProofs`, `ConfirmProofs`, `PigzProofs`, `WritersProofs`, `AnalyzeProofs`, `TargetProofs` | | theorems about Run, Elimination, PipeUse, Confirm, PigzParallel with PigzCut and PigzPieces, Writers, Analyze, and Recompress with Target |

Who composes whom: `Run`, `Elimination` and `Confirm` extend `Compare`; `Run` and
`Elimination` instantiate `Search`, Run as the specification it implements and
Elimination for the answer of its fallback, which in the code is a call of Run;
`Confirm` instantiates `Pipe`; `Analyze` takes what the search may answer
(`SettleOn`) from Search's and Elimination's promises and what Confirm may answer from
`OkMeansConfirmed` and `ErrorIsACause`; `Target` extends `Recompress`, whose steps it
takes between its own; `Analyze`, `Candidates` and `Producers` extend `Headers`;
`GzipDeflate` and `GzipStream` meet in `GzipTrees`, the one making the blocks whose
bits the other reads back.

Decisions a reader should know of, each at the place it concerns:

- *Run* assumes a candidate: Eliminate, its only caller, returns on an empty list.
  The gzip trailer counts as the last write.
- *Elimination* keeps `untested` and `tried` as sets where the code keeps numbers,
  so that the properties can say who was counted. `alive` is a set too: the code's slice
  is only ever filtered, so its order stays that of the list, the next candidate of a
  round is `Min(left)` and the earliest survivor `Min(alive)`. Positions are whole blocks, so
  `roundUp` does nothing. `cw.Err` and `cw.Matched` are read one after the other in
  the code and in one step here; between them only the write count can grow, which
  is the same as having read both later. A parallelism below one is one feeder. The
  lockstep's Compare has no VerifyLimit, as in the code (eliminate.go:289), while Run's
  and Confirm's have: `EarliestOfTested` says which answers that leaves. `Said` is whom
  ErrNoMatch's message counts: when it is noMatch's, what the elimination knows; when it
  comes out of the fallback, the candidates handed to Run and nobody else, because
  fallback returns Run's error as it is. `NoMatchAccounts` says what either message is
  worth, and `SaysUntested` what the doc promises of both.
- *Pipe*: Read's second select also watches `closed`. That case cannot be chosen,
  because only the consumer calls CloseRead and it is inside Read.
- *Confirm*: the rebuild's writes to Compare are synchronous with a lag; an
  asynchronous engine is Elimination's and PigzParallel's subject. A block is
  copied out by one Read (`Pieces = 1`), as Feed's buffer has the block's size.
- *Analyze*: content and checksums are not computed; an input says how many units it
  holds and what is wrong with it, and the copy writes one unit at a time. A spool that
  fails to fill its file may leave it half filled, which nobody reads. That a crash
  leaves nothing behind (spool.go:47-48) has a window between CreateTemp and Remove, in
  which `FilesLeft` allows the entry. Start returns startNone's Analysis together with
  its error; a program that ignores the error gets nil parameters from Confirm. The
  analyze command does not look at the error of closing the content's file
  (main.go:105) nor at those of its Removes: after the one the content is `lost`, after
  the others a file is `stuck`, and the command goes on as if nothing had happened.
- *Candidates and Producers*: sizes lie within a unit of each block and window. Small
  streams of klauspost-zstd whose size was not announced are found only if their head
  was flushed. Some listed candidates are refused by the library behind kpzstd's
  NewWriter (windows of 2^30 and more, one-shot content over 1 GiB) or make the same
  stream (libzstd, small sizes): both cost a candidate and nothing else. A frame of
  libzstd in one segment larger than 128 MiB, made with long distance matching, is not
  listed with its own window (libzstd.go:112-116) and is left out of the producers.
- *PigzParallel*: io.Pipe hands a block over whole. A worker between `done` and its
  next job may still be seen by nobody, so closing `done` is the end of the job.
- *PigzCut*: hits are at least `MinGap` bytes apart, as the real hash of twelve bits
  cannot hit again within a few bytes (the theorems need no such gap).
- *PigzPieces*: with both `--rsyncable` and `--independent` the
  single path drops its history at other places than the parallel path begins jobs;
  `SamePieces` then only bounds the history by a block.
- *Writers*: its caller is Feed, which does not write after an error and closes once.
  A chunk's output is one item whatever its length; `lib` fixes at the start whether
  libzstd will reproduce the first job's output when it is replayed.
- *GzipTrees*: frequency and code, and parent and length, share a field in the code and
  have names of their own here. A comment says that a symbol made to occur "is 0 or 1 so
  it does not have extra bits" (trees.go:387); it is 2 when the only symbol used is 1,
  and has none either.
- *GzipDeflate*: the constants are scaled together (`DeflateAssumption` keeps their
  inequalities), and content is over four letters, so that hash chains collide.
- *Recompress*: a reader that has failed fails again. When an engine writes the output
  of a block is open; that it has written all of it when Close returns is not.
- *Target*: the command runs under `context.Background`, so only a program's call is
  cancelled. What a power failure does to a renamed file that was never synced is left
  out; a kill is not. The deferred Remove of the temporary file is taken to succeed, and
  does not run when the command is killed: then the file may stay, and the target is
  as it was.

## The runs

Every configuration says `CHECK_DEADLOCK FALSE`: each of these calls returns and the
system then stops. That nothing stops earlier is what the `Termination` properties
say. State counts are distinct states.

| Run | Instance | States | Checks |
|---|---|---|---|
| `run` | 3 candidates, 2 workers, reference of 2 writes, VerifyLimit 0 and 1 | 216 k | `NoMatchIsComplete`, `Refines` (Run implements Search), `Termination` |
| `elim_lockstep` | 3 candidates, 2 workers, 4 blocks, at most 1 survivor: synchronous engines, faults, a VerifyLimit of 2 writes | 801 k | `EarliestOfTested`, `LockstepBound`, `NoMatchAccounts`, `NoEngineLeft`, `Termination` |
| `elim_async` | 3 candidates, at most 2 survivors: asynchronous engines, fast and slow, and an input of 3 blocks | 3.6 M | `EarliestOfTested`, `DroppedHadToBeSilent` |
| `confirm` | 4 blocks, 1 slot, input of 3 writes, VerifyLimit 0 and 2, last block short or not | 386 k | `OkMeansConfirmed`, `ErrorIsACause`, `Termination` |
| `pigz_parallel` | up to 8 blocks, 2 workers, first output of 2 writes; beside it, cuts of inputs of up to 13 bytes in blocks of 5 | 562 k | `InJobOrder`, `CloseIsHonest`, `BoundedAhead`, `Termination`; `JobsAreInput`, `SamePieces`, `StreamedAsWhole` |
| `streams` | pipe: 2 slots, 4 writes of 2 pieces; writers: inputs of up to 21 units, batches of 2, heads of 3, chunks of 4, jobs of 8, all eight kinds; gnu-gzip: 11 contents of up to 53 bytes, window of 16, four configurations; 7 kinds of block, alone and in pairs; 1037 alphabets | 77 k | `ReadsWhatWasWritten`, `HangupRefuses`, `Termination`; `WrittenInOrder`, `SplitFree`, `CloseIsHonest`, `MemoryHeld`, `HeardInTime`; `BlocksSplitFree`, `BlocksAreContent`, `CutsFollowContent`; `StreamLossless`, `CountsAreBits`; `TreesOptimal` |
| `commands` | 3 recorded blocks, inputs of 0 to 4; files of up to 3 units with 1 in memory; sizes around every block and window | 806 k | `VerdictIsRight`, `NoEngineLeft`, `OutputWholeOrUntouched`; `AnswerFits`, `FilesLeft`; `ListFindsProducer` |
| `elim_settle_matched`, `elim_untested_unsaid`, `recompress_unread`, `analyze_corrupt`, `analyze_left` | | | violated: see below |

### Why these bounds

- *Run.* A match has an earlier and a later candidate, and with two workers one of
  them may be running while the other has not been taken: three candidates
  and two workers are the least with all of "reported out of order", "cancelled" and
  "never handed out". With a reference of two writes a candidate diverges before a
  limit of one, between the limit and the end, or not at all. The theorems below cover
  the rest.
- *Elimination.* The code's constants are 2 blocks (FirstWindow), 1 (Margin), 2
  (MaxLockstep), factor 4, 128 (AgreeLimit) and 1056 blocks (UntestedLimit, 33 × 32).
  The instances shrink them to 1, 1, 1 or 2, 2, 2 and 3, keeping the inequalities the
  module's assumption names; a spool of 4 blocks then has a first window, a window
  that is a multiple of it, one cut down to UntestedLimit and one over the whole
  spool, and an engine of lag 4 passes the limit. MaxLockstep 1 with 3 candidates
  overflows in the middle of a round with one not yet reached. At MaxLockstep 2, with an
  input that fits UntestedLimit, survivors agree up to AgreeLimit, or run to the end
  within the lockstep.
- *Pipe.* Two slots tell "full" from "one left"; two pieces make a Read that leaves a
  rest; four writes fill the queue, the reader's hand and the writer's, and one more.
- *Confirm.* One slot and four blocks: the reader can be blocked with the rebuild
  stopped at any block, and blocks remain that only the tee wants. The real pipe has
  8 slots: `Pipe`'s properties do not depend on the number.
- *PigzParallel.* The order queue holds 2 × 2 jobs; 8 blocks fill it, the printer's
  hand, a worker's and the cutter's, so that `BoundedAhead` is met with equality.
- *PigzCut, PigzPieces.* Thirteen bytes in blocks of five are two full blocks and a part,
  or three jobs with the hits elsewhere; every set of hits two apart is tried, with and without
  `--rsyncable`, `--independent` and a dictionary of three. The output's space grows
  under outputs at, below and above a chunk.
- *Writers.* A job is two chunks and a chunk two batches, so that an input can end
  before, at and after each boundary; 21 units are two jobs, a chunk and one unit more,
  and the writers `HeardInTime` is about must be heard once 13 are taken. A head of
  three ends inside a batch. The sizes of a caller's writes are any that add up.
- *Recompress.* Three blocks and inputs one shorter, equal or one longer, with the
  difference and the read failure at any block, distinguish the first, a middle and the
  last block, and one past it. The theorems cover the rest.
- *Analyze.* Every subset of the gzip header's fields, every form of the zstd frame
  header that the code tells apart and each type of block, each file cut off at every
  byte, whole, with a byte or two behind it, and with a reader that fails there; one
  unit in memory and up to three of content spill before, at and after a write.
- *Producers.* The sizes are each block's or window's of the lists, one less and one
  more; the settings are every level with every value of each field the engines know.
- *GzipDeflate.* A window of 16 slides twice in the longer contents, in the middle of a block; matches
  reach the limit on distances, and the limit (6) on lengths; three bits of hash collide.
  Blocks end by a full buffer (12), by the periodic guess and at sequence points.
  Writes of 1, 7 and 20 bytes with pieces of 12 stop the machine in every phase.
- *GzipStream.* Real sizes: an empty block, one for each encoding, gaps and runs in the
  lengths at 3, 10, 11, 138 and more, matches at both ends of the classes; the Fibonacci
  frequencies overflow the limit of 15 bits and of 7. Two blocks, so that the second
  begins at any bit. The choices of five symbols' frequencies are all tried.

### Fairness

Weak fairness of each goroutine's steps: Go's scheduler runs a goroutine that can
run, and no step here can be disabled for ever by others taking turns (one select
case, one mutex). `Cancel` and the consumer's `Hangup` have none: nobody is
obliged to. The pipe's producer does end the stream (Confirm's reader calls
CloseWrite on each way out). A pigz engine is closed in the end, because
Elimination's `NoEngineLeft`, Run's evaluate and rebuild close every engine they
open. A tee, spool or engine that blocks for ever is not modelled: such a call hangs
the program, by its nature.

### What the runs show

- The pool's answer does not depend on the workers' order, and its ErrNoMatch's "tried N
  candidates" is the whole list it was given with nothing cut short.
- Whatever the order of rounds, deaths, drops, late output and fallback, elimination
  never answers with a later right candidate than the first one tested, never loses
  one to late output, and calls nothing Verified that is not. With a VerifyLimit, an
  answer that satisfied it in the fallback may be earlier than a whole reproduction.
- No candidate is dropped as untested unless its engine could stay silent for the
  whole UntestedLimit, counting what an asynchronous one may owe: one that writes what
  it has at once needs more input than that.
- Elimination's ErrNoMatch accounts for the whole list as long as nothing falls back to
  Run. After a fallback the message speaks of Run's candidates only; whoever it leaves
  out was given up as untested or refuted, but it does not say so.
- Every engine is closed on every path, cancellation included.
- Confirm's answer names the failure that came first-hand (tee, spool, context,
  engine), never its consequence at the pipe; it is nil only if the tee received
  everything. When Confirm returns, its reader goroutine has ended, so that closing the
  spool is safe.
- A sound member alone in its file is never called corrupt or unsupported, and nothing
  else is ever analyzed, wherever the file is cut or a read fails; the spool's file is
  open exactly while somebody may read it. Wherever it fails or is killed, the analyze
  command leaves a recipe only behind content written to its end, and a whole one
  exactly when it returns nil. What it does not keep is stated below: the content stays
  when the recipe cannot be written, and may be incomplete if its Close failed.
- Whoever made the file, with settings the lists are meant for, the list has a candidate
  that makes the same stream. For gzip no two listed candidates make the same one.
- pigz writes its jobs in order, and Close returns nil only for a complete stream; a
  candidate rejected on its first output has cost one job. Both of its paths cut and
  flush the input alike, wherever the hash hits.
- However a caller splits its writes, a batching writer hands its compressor the calls
  of one single write. libzstd's hand-over neither repeats nor loses output, notices a
  replay that differs or falls short, and leaves no C memory behind on any failing step.
- gnu-gzip's blocks do not depend on where a Write ends, and stand for the input however
  often the window slid; with `--rsyncable` they are cut where the content says. The
  stream inflates to what went in; its trees are complete prefix codes, optimal unless
  cut at the limit, and cost what the code counts.
- Recompress tells a wrong input from a failure of its own even if it gave up early, and
  says nil only for the recorded bytes; the command's output path never holds anything
  but what was there before or the whole recorded file.

## Where the source disagrees with itself

Five runs end in a counterexample, each to what a comment says:

1. `elim_settle_matched`: *"It settles on a lone survivor once that survivor has
   matched Margin bytes past the point where its last competitor died"*
   (eliminate.go:88-89). The code tests how far the survivor was **fed**
   (eliminate.go:158); of an asynchronous engine none of that output need have been
   compared. Confirm compares everything again, so a wrong survivor is found out there.
2. `recompress_unread`: *"let a confirmed mismatch take precedence over the engine's own
   error"* (recompress.go:51-52), and ErrInputMismatch *"reports uncompressed input that
   does not match Params"* (errors.go:14). After a failed rebuild the code reads on,
   ignores how that ends, and compares the digest of what it got (recompress.go:54): an
   input that cannot be read to its end is reported as not matching, though the part
   that was read may be right.
3. `analyze_corrupt`: *"ErrCorrupt reports an input that failed to decompress or
   verify"* (errors.go:10). One io.Copy moves the decompressor's output into the spool
   and the hashes, and whatever error it returns becomes ErrCorrupt (analyze.go:168 and
   239): so does a spool that cannot create or write its file.
4. `elim_untested_unsaid`: Eliminate *"returns ErrNoMatch when every candidate diverged,
   saying how many the limit left untested"* (eliminate.go:101-102). When those in play
   go to Run and Run refuses them, fallback returns Run's error (eliminate.go:385-388);
   the counts of the lockstep, `untested` among them, and the engine failure it kept are
   not in it. Only noMatch prints them, and it is not called.
5. `analyze_left`: *"a failing analyze does not leave a partial --uncompressed or --params
   file behind: main.go must close and remove both once Analyze (or writing params)
   errors"* (main_test.go:99-101). main.go removes the content only if Analyze fails
   (main.go:106-108): if the recipe cannot be created, written or closed
   (main.go:114-127), the content stays. The test fails only the analysis.

Four more need no run. eliminate.go:26-29 says every engine can be heard within
AgreeLimit, which pigz with a block size of 4 MiB cannot; it is heard within
UntestedLimit, which is what the code relies on. pipe.go:84-85 says *"any further
Read"* after CloseRead returns io.ErrClosedPipe; Read hands out the rest of the write
it holds first, which Confirm, the only user, never meets. VerifyLimit is *"how many
bytes of the reference a candidate must reproduce to be accepted"* (run.go:47-49), but
the lockstep does not know it (eliminate.go:289): a candidate that reproduces as much
and then diverges within a window dies, and the list can end without a match. And
trees.go:387, above.

## The proofs

`RunProofs` proves, for any list, pool, reference, limit and behaviours that meet
`RunAssumption`:

| Theorem | Statement |
|---|---|
| `TypeCorrect` | `Spec => []TypeOK` |
| `CancelsOnlyBeaten` | `Spec => []OnlyBeatenCancelled` |
| `RunImplementsSearch` | `Spec => Refines`: each step of Run is a step of Search or leaves it unchanged |

`Refines` is about the answer at the moment of return, and needs to know what the
workers did on the way. The inductive invariant `IInv` says it:

- `tried = next`: whoever was taken was counted;
- `HeldOK`: the candidates running are those the busy workers hold, each by one
  worker and all below `next`;
- `EvaluationOK`: a Compare in use has counted the equal writes of its candidate
  and nothing else;
- `ResultOK`: a result about to be reported is the candidate's verdict, unless the
  candidate was interrupted, and then its context was done;
- `WinnerOK`: the winner is a candidate whose verdict is a match, and `verified` says
  which kind;
- `OnlyBeatenCancelled`: a cancelled candidate is later than the winner;
- `NoneLost`: unless the context is done, every candidate below `next` that is a
  match is the winner, later than it, or still running;
- `LeftOK`: a worker that has left saw nothing to take, and there still is nothing.

`NoneLost` is the heart: an interrupted evaluation is rejected though its candidate may
be right, which is harmless only because OnlyBeatenCancelled makes it a later one. With
`LeftOK`, once all workers are gone nothing before the winner is running or untaken, so
the winner is the earliest match. The proof has one lemma per action, and under it one
step per conjunct the action can disturb.

A fourth theorem, `NoMatchComplete`, goes on from there to what ErrNoMatch's message
says: `Spec => []NoMatchIsComplete`. Which failure is quoted depends on what became of every rejected candidate, and an
interrupted one may report a failure that is the context's. `JInv` adds to `IInv`:
whoever is in `running` is held by a worker (`RunningOK`); a rejection nobody caused
tells a failure from a mismatch (`FailureOK`); while there is no winner and the context
is not done, the failure kept is a candidate's own, and if none is kept every candidate
that fails is still in a worker's hands (`QuotedOK`); and after ErrNoMatch no worker
takes another step (`AnsweredOK`). Nobody is cancelled before there is a winner
(`OnlyBeatenCancelled`), so at ErrNoMatch every rejection was of the untainted kind.

`TargetProofs` proves, for any number of recorded blocks and any input
(`BlocksAssumption`):

| Theorem | Statement |
|---|---|
| `TypeCorrect` | `Spec => []TypeOK` |
| `VerdictCorrect` | `Spec => []VerdictIsRight` |
| `EnginesClosed` | `Spec => []NoEngineLeft` |
| `OutputSafe` | `Spec => []OutputWholeOrUntouched` |

Its invariant has a part for Recompress and one for the command. Recompress's says, place
by place, what the earlier steps left behind: no error before something failed (`ErrOK`),
output never ahead of the input it stems from (`WrittenOK`), the input read to its end
before anything is compared, if it can be (`ReadOK`), an engine open only while it is fed
(`OpenedOK`), and an answer that is the one the digests give (`RetOK`).
`VerdictIsRight` rests on `ReadOK`: the verdict on the input is about what was read, so a
rebuild that gave up early must have read on. The command's part, `CInv`, says that it
comes to close, chmod and rename only after a call that returned nil, and past Close only
if no write was lost. One lemma has a case for each action of Recompress, another one for
each of the command's; `OutputSafe` uses Recompress's invariant only through
`NilIsRight`.

`EliminationProofs` proves, for any list of candidates and behaviours, number of
workers, size of input and setting of the limits that meets `EliminationAssumption`:

| Theorem | Statement |
|---|---|
| `AnswersEarliest` | `Spec => []EarliestOfTested` |
| `OnlySilentDropped` | `Spec => []DroppedHadToBeSilent` |
| `LockstepBounded` | `Spec => []LockstepBound` |
| `AccountsForAll` | `Spec => []NoMatchAccounts` |
| `EnginesClosed` | `Spec => []NoEngineLeft` |

What the rounds leave behind is spread over the candidates' records. `Sound` says of one
record that it claims nothing that is not so: what the comparison counted is there, the
candidate is complete only if it reproduces the input and dead only if it does not (or
was given up untested), and as long as nothing was compared its engine was due nothing or
broke (`Silent`). The rest of `IInv` says who may touch a record and what becomes of it:

- `FeedersOK`: a busy feeder's candidate is alive, handed out, nobody else's and, past its
  start, open; only the caller feeds when it settles;
- `RoundOK`: a candidate not handed out yet is as the last round left it; a report
  without an error means tested, or fed to the target in silence; without a round error
  `survived` counts the tested survivors, and without a fallback there are at most
  MaxLockstep of them;
- `BetweenOK`: what a round leaves for `drop` and `decide`, in particular that nobody is
  about to be dropped whose engine could have been heard;
- `WindowOK`: nobody is fed past UntestedLimit but a lone survivor, and that one at most
  Margin past it;
- `ListsOK`: every candidate is alive, tried or counted as untested, and one that
  reproduces the input is alive or untested;
- `AnswerOK`, and `EarliestOfTested` and `DroppedHadToBeSilent` themselves.

`EarliestOfTested` follows at the three places an answer is given: at settling and at the
first complete one from `ListsOK` and `Sound` (nobody earlier that reproduces the input
can be missing from `alive`), at the fallback from Search's promise, which
`RunImplementsSearch` proves of the code it stands for. `NoMatchAccounts` is `ListsOK` again:
whoever is not handed to Run was tried or is untested, untested if it would have been right;
and once nobody is alive an engine's own failure, if there was one, is in `firstErr`. `LockstepBound`'s count is
carried from `survived` to `alive` by counting lemmas. Two of the assumption's conjuncts
carry weight: FirstWindow is at most AgreeLimit and WindowGrowth × (AgreeLimit − 1) at most
UntestedLimit, without which a window that grows would pass
UntestedLimit before anything looks at it. The constants of eliminate.go satisfy both.

`PipeProofs` proves, for any number of slots, writes and pieces to a write:

| Theorem | Statement |
|---|---|
| `ReadsWritten` | `UseSpec => []ReadsWhatWasWritten` |
| `HangupIsFinal` | `UseSpec => []HangupRefuses` |

The producer numbers its writes, so each has a known place, and the invariant says which:
refused, waiting (`ProducerOK`), queued (`QueueOK`), held by Read or read (`ReadOK`). The
n-th piece read is piece `1 + (n-1) % Pieces` of write `1 + (n-1) \div Pieces`; the lemmas
on division carry that over the end of a write. `HungOK` says that nothing is taken after
the hang-up, so that the queue has grown by what was accepted since: one write at most,
and none if it was full.

`ConfirmProofs` proves, for contents and inputs of any length, any number of slots, any
limit and any behaviour of the settled candidate:

| Theorem | Statement |
|---|---|
| `SuccessIsReal` | `Spec => []OkMeansConfirmed` |
| `ErrorIsFirstHand` | `Spec => []ErrorIsACause` |

The invariant says where the reader is and how far tee has got (`ReaderOK`), what the
comparison and the rebuild's error tell of the candidate (`CompareOK`, `ResultOK`), and, at its
centre, what the errors in flight stand for: `Happened(e)` says that `e` is no rumour,
and `CauseOK` that until the rebuild has been judged, the cause of cctx and the error
the pipe was closed with can only be what happened outside the rebuild, and afterwards
its own error as well. So an error that reaches the rebuild through the pipe is one the
reader or the context had first, and an error it ends with on its own account is the
candidate's. What the pipe does between its ends is not needed: these theorems hold
whatever arrives, and `PipeProofs` says that it is what was sent.

`PigzProofs` proves, for any amount of input, any number of workers, any size of the
first job's output and any sizes of block, dictionary and chunk:

| Theorem | Statement |
|---|---|
| `DestInJobOrder` | `Spec => []InJobOrder` |
| `HonestClose` | `Spec => []CloseIsHonest` |
| `RunsAheadBounded` | `Spec => []BoundedAhead` |
| `JobsComeOutAsInput` | `CutSpec => []JobsAreInput` |
| `ChunksLeaveNoTrace` | `PiecesSpec => []StreamedAsWhole` |
| `SinglePathAlike` | `PiecesSpec => []SamePieces` |

The first three are about PigzParallel, and their invariant follows a job through the goroutines. `InputOK`: a block is cut only when
what follows it is known, so the cutter is at most two ahead; `PoolOK`: a job in work is
one worker's, was cut, and is not done; `OrderOK`: as long as the destination has refused
nothing, the order queue holds consecutive jobs, the printer has the one before them, and
everything before that is written; `DestOK`: what is at the destination is the beginning
of the jobs' output, completed jobs and, of the first, what it has made so far; `FirstOK` and
`EndOK`: who may know of the first job's end, and that `parallel` returns after the printer
with the printer's error. Where the order queue holds `Queued - Completed` jobs and its
capacity is twice the workers, `BoundedAhead` is arithmetic. The theorem for `Close` needs
the end as well: nil only if every job cut has been completed and everything fed was cut.

The fourth is about PigzCut, for any input, any places at which the hash hits and any
sizes of block and dictionary. Its `CutInv` says of the state between two rounds of
cutJobs (`Entry`) that next begins behind the last job and hold behind next (`Held`), that
hold is a whole block unless the input has ended, and that `scan` and `left` say how far
the hash is: in next if hold is empty, else in hold with next all hashed and no hit in it.
A round is followed through ScanCurr, ScanNext and Divide by what each leaves
(`CurrScanned`, `BothScanned`, `CutOff`); all of them speak of a space by where it begins
and how long it is (`Runs`), so that joining and slicing buffers is addition. The one
thing needed of the hits found in a space is that they lie in what was hashed (`HitsAre`).

`ChunksLeaveNoTrace` is about the space of a job's output, for any sizes and whatever deflate
has to write. `Engine` is a recursive function of the space and of what is owed, so it
has to be shown to exist, that is, the calls have to come to an end. A call that leaves no
room has written something of what is owed, or the last of it, and then what is repeated
(a marker) is owed again; but then the space was full and grows, and once it is four times the
marker a quarter more is room enough. `ToCome` adds up the two (`Weight` is what the growing may
still cost), and `EngineExists` builds the function along it. By induction along the same
measure a call with all the room there is does what calls of at most a chunk do one after another
(`ChunksAlike`, `EngineAlike`), because the space grows only when it is full. That needs
that nothing is owed again: a marker that just fills its call is repeated, and with chunks
that would be another call. endPiece does not hand out markers in chunks, and
`EndPiece_Chunks`, which does, breaks the property.

`SinglePathAlike` compares the paths by what a piece is (`IsPiece`), whoever makes it: behind byte
`p` it ends at the first hit, behind a whole block or with the input, whichever comes first.
No two lengths satisfy that (`PieceAlike`), so two chains of pieces of the whole input are
the same (`ChainsAlike`), and it remains to show that either path makes such a chain.

- The parallel path: `HitInv` adds to `CutInv` that no hit lies in what was hashed of next
  and hold, that a job's lengths are the gaps between its hits, and that it ends at a hit,
  is a whole block or ends with the input. Through a round that is `HitsRise` (HitsIn finds every
  hit of a space, in order), `BehindRises` and `GapsBehind` (the hits of curr and next, one
  behind the other), and `DivideHits` for the three ways Divide ends. `JobChain`: what
  compressJob makes of such a job is a chain; `JobsChain` appends them.
- The single path: `OneInv` says that in holds the `got` bytes behind those compressed and next
  the `more` bytes behind these, each where `nextIn` and `start` point (`Stock`), that what was
  hashed is what was compressed, and how far the history goes back (`HistoryOK`). It is followed
  through Swap, Refill (which moves bytes within a buffer and from one to the other) and each
  byte of Search. Search goes on over a Refill, so its invariant `Hashing` counts the
  bytes hashed from the piece's beginning.

Without hits a piece is a whole block, so that the blocks' histories are dropped where jobs
begin; with them the count in `have` is what bounds how far a piece looks back. `PathsInv`
is `CutInv`, `HitInv` and `OneInv` together.

`WritersProofs` proves, for any input, any split of it over Writes, any batch, head, chunk
and job size, and any behaviour of compressor and destination:

| Theorem | Statement |
|---|---|
| `SplitTheorem` | `Spec => []SplitFree` |
| `OrderTheorem` | `Spec => []WrittenInOrder` |
| `CloseTheorem` | `Spec => []CloseIsHonest` |
| `MemoryTheorem` | `Spec => []MemoryHeld` |
| `HeardTheorem` | `InCap <= Chunk` implies `Spec => []HeardInTime` |

`CountOK` says where the input is: what was given and is not left of the caller's slice
was taken by the compressor, waits in the batch or is still to be replayed. So the calls
follow from the input. Until Close they are full batches and nothing else (`Body`), and then either the
batch that was left (`Remainder`) or everything (`Ended`); that this is what one
Write would have called is a matter of division, for each kind its own
(`OneWayToBatch`: a batch that is compressed when full, and one that is compressed only
once more input follows, disagree exactly where the input ends with a batch). The output
has the same shape: chunks of the first job (`JobOK`), then what libzstd has made so far,
of which only what lies beyond the first job is written (`OutputOK`); `EmitIs` is the
replay check itself, with libzstd free to make fewer or other bytes. Both
sequences are only prefixes of what the input asks for once an error has stopped the writer, and
stay so, which is why `IInv` carries `SplitFree` and `WrittenInOrder` from there.
`HeardTheorem` alone needs the batch to fit in a chunk. It is about the writers that
take jobs, which are libzstd's, where the batch is one block and the chunk four
(libzstd.go:194); the other theorems hold for pgzip's large blocks as well.

`AnalyzeProofs` proves `LeavesWhatItShould`, `ASpec => []FilesLeft`, for content of any
length, any threshold of the spool, any place at which the input, the disk, the tee or the
engine fails, and a kill between any two steps of the command. `ContentOK` is about the
copy: the units decompressed are `1, 2, ...` in the buffer or on the disk, whichever the
spool is using, and a decoder that has not failed has the rest still to come, so that
when it ends and the container is sound the spool holds all of it (`HeldIs`). `SpoolOK`
counts the open file: from its creation on it belongs to the spilling, then to the
spool, and every way out of pass one passes `CloseSpool` or `SpillFails`. `CommandOK` says
where the two files of the command are at each of its lines, with `AtExit` for what is left when it
ends, lost closes and failed Removes included, and needs `FlagsOK`: the
command closes only what it has confirmed. What the parsers of headers say of an input
does not matter here; `AnswerFits` is the property that looks at that.

Each of these modules has a theorem `Invariance`, `Spec => []IInv`, with one lemma per action
(or per step of a goroutine) under it, and PigzProofs two more, `CutInvariance` and
`PathsInvariance`; TLC has
checked each invariant on the instance of its run before it was proved, and each property
then follows from it alone. (In MCPigz a step of PigzPieces that is not one of `CutNext`
leaves PigzCut's variables alone, so that what is proved of `CutSpec` holds there, as
`PathsKept` shows of its invariant.)

Left to TLC: `Termination` and everything else under fairness, which the prover does not
reach, and what is computed over data:

- `ListFindsProducer` is one computation over lists of candidates, and `AnswerFits`
  compares what the parsers find in a sequence of bytes, walking from block to block,
  with what was put there. Both are true of the values that are enumerated; there is no step
  of the system in them to be inductive about.
- `BlocksSplitFree`, `BlocksAreContent` and `CutsFollowContent` of GzipDeflate, `StreamLossless`,
  `CountsAreBits` and `TreesOptimal` of GzipStream compare recursive algorithms with a
  definition, over data of any length.

## What is not modelled

- What zlib, libzstd and klauspost/compress compute. Their output is the candidate's
  behaviour, or what a writer may rely on.
- engine/pgzip/flate: a copy of klauspost/compress's flate kept beside the engine, a third
  of the implementation's lines. It is that project's code, with none of this one's
  decisions in it; only what pgzip does around it is modelled.
- Hashing, checksums and the trailer's contents, the size in it modulo 2^32 included; hex,
  JSON, argument parsing, printing; the detect and engines commands.
- Where the payload lies in the file (`payloadSource`, `Section`): sections of the spool
  are the whole content.
- go-flate's and klauspost-flate's writers, which pass everything to a library.
- That pigz frees its zlib streams only after the workers have ended (pigz.go:507): one
  wait before one loop, nothing a property could say more about.
- Test support: enginetest, fixtures, testdata.

## The plan

Done, in this order: Search, Compare, Run and its theorems; Elimination; Pipe, PipeUse
and Confirm; PigzParallel; Writers; Recompress, Target and their theorems; PigzCut and
PigzPieces; gnu-gzip (GzipBits, GzipTrees, GzipDeflate, GzipStream, Inflate); Headers, Candidates, Producers,
Analyze with the spool; kpzstd's head writer; the proofs of `NoMatchIsComplete` and of
Elimination, PipeUse, Confirm, PigzParallel, PigzCut, PigzPieces, Writers and Analyze.

Next, the proofs: `BlocksSplitFree` of GzipDeflate. The matcher, the rolling sum and the
insertion of strings have to become functions first, and the queue of input and the
blocks made have to be variables of their own, so that it is plain that a step of the
compressor reads the one and appends to the other only. The division lemmas of
PipeProofs and WritersProofs belong in one module that both extend.

Next, the model: a writer that sees the whole input at once as the specification Writers
implements, in place of `SplitFree` and `WrittenInOrder`; the offsets of payload and
sections.
