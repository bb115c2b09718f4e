------------------------------- MODULE Confirm -------------------------------
(***************************************************************************)
(* Analysis.Confirm (analysis.go): one goroutine reads the content back    *)
(* from the spool, writes each block to the caller's tee and then to a     *)
(* pipe; the caller rebuilds the input from the pipe with Recompress's own *)
(* code and compares it with the input.  Either may fail, the caller's     *)
(* context may end, and the comparison may be satisfied at VerifyLimit     *)
(* while the tee still wants the rest.                                     *)
(*                                                                         *)
(* The content is counted in blocks (FeedSize), the rebuilt output in      *)
(* writes to Compare; the parameters under test owe a write lag blocks     *)
(* after the one it stems from, and the rest when the engine is closed.    *)
(*                                                                         *)
(* A definition named X_Bug is X with a bug one could plausibly write into *)
(* the code, as in Run.                                                    *)
(***************************************************************************)
EXTENDS Integers, Sequences, Compare

CONSTANTS Blocks,      \* the content's length
          Slots,       \* confirmPipeSlots
          RefLen,      \* the input's length, in writes
          Limits,      \* what Options.VerifyLimit may be, in writes; 0 for none
          Behaviours   \* what the settled candidate may turn out to do

\* Compare's account of the candidate; setup is an error before any input is
\* read: the reference cannot be opened, the engine not found, or not opened.
AllBehaviours == [good : 0 .. RefLen,
                  then : {"stops", "differs", "unreadable", "fails", "setup"},
                  lag : 0 .. Blocks]

ASSUME ConfirmAssumption ==
    /\ Blocks \in Nat /\ Slots \in Nat \ {0} /\ RefLen \in Nat /\ Limits \subseteq Nat
    /\ Behaviours \subseteq AllBehaviours
    /\ \A b \in Behaviours : b.then = "setup" => b.good = 0

VARIABLES
    behaviour,  \* of the candidate Start settled on
    limit,      \* Options.VerifyLimit
    partial,    \* the last block is shorter than FeedSize
    teeFails, spoolFails,  \* the block whose Write to tee, or whose read, fails; 0: none
    ctxDone,    \* the caller's context is done
    cause,      \* why cctx was cancelled: context.Cause(cctx), or "nil"
    \* the pipe
    ch, ended, werr, closed, cur, writing, reading, wret, rret,
    \* the reading goroutine
    rpc,        \* "check", "read", "tee", "pipe", "piping", "after" or "done"
    block,      \* the block in its buffer; Blocks + 1 at the end
    feeding,    \* it still writes to the pipe
    teed,       \* how many blocks tee has accepted
    teeErr, readErr,   \* set, by it alone
    \* the caller
    cpc,        \* "rebuild", "read", "close", "judge", "join" or "returned"
    fed,        \* how many blocks the rebuild has read
    cw,         \* the Compare over the input
    rerr,       \* the rebuild's error
    answer

pipe == <<ch, ended, werr, closed, cur, writing, reading, wret, rret>>
given == <<behaviour, limit, partial, teeFails, spoolFails>>
reader == <<rpc, block, feeding, teed, teeErr, readErr>>
caller == <<cpc, fed, cw, rerr, answer>>
vars == <<given, ctxDone, cause, pipe, reader, caller>>

\* A block is copied out by one Read: Feed reads as much as was written.
P == INSTANCE Pipe WITH Pieces <- 1

Init == /\ behaviour \in Behaviours /\ limit \in Limits /\ partial \in BOOLEAN
        /\ teeFails \in 0 .. Blocks /\ spoolFails \in 0 .. Blocks
        /\ ctxDone = FALSE /\ cause = "nil"
        /\ P!PInit
        /\ rpc = "check" /\ block = 0 /\ feeding = TRUE /\ teed = 0
        /\ teeErr = FALSE /\ readErr = FALSE
        /\ cpc = "rebuild" /\ fed = 0 /\ cw = NewCompare /\ rerr = "nil"
        /\ answer = "pending"

-----------------------------------------------------------------------------
(* The contexts.  cctx ends with its first cause.                          *)

CancelWith(e) == cause' = IF cause = "nil" THEN e ELSE cause

Cancel == /\ ~ctxDone /\ cpc # "returned"
          /\ ctxDone' = TRUE /\ CancelWith("ctxErr")
          /\ UNCHANGED <<given, pipe, reader, caller>>

-----------------------------------------------------------------------------
(* The reading goroutine.                                                  *)

\* The top of the loop.
CheckContext ==
    /\ rpc = "check"
    /\ IF cause # "nil" THEN P!CloseWrite(cause) /\ rpc' = "done"
                        ELSE rpc' = "read" /\ UNCHANGED pipe
    /\ UNCHANGED <<given, ctxDone, cause, block, feeding, teed, teeErr, readErr, caller>>

\* io.ReadFull over the spool; after the last block it reads nothing more.
ReadSpool ==
    /\ rpc = "read"
    /\ block' = block + 1
    /\ rpc' = IF block + 1 > Blocks \/ spoolFails = block + 1 THEN "after" ELSE "tee"
    /\ UNCHANGED <<given, ctxDone, cause, pipe, feeding, teed, teeErr, readErr, caller>>

\* The tee's write.  Its error is set down before anyone is told.
Tee ==
    /\ rpc = "tee"
    /\ IF teeFails = block
       THEN /\ teeErr' = TRUE
            /\ CancelWith("teeErr")
            /\ P!CloseWrite("teeErr")
            /\ rpc' = "done" /\ UNCHANGED teed
       ELSE /\ teed' = block
            /\ rpc' = IF feeding THEN "pipe" ELSE "after"
            /\ UNCHANGED <<teeErr, cause, pipe>>
    /\ UNCHANGED <<given, ctxDone, block, feeding, readErr, caller>>

WritePipe ==
    /\ rpc = "pipe" /\ P!WriteCalled(block)
    /\ IF writing' = <<>> THEN rpc' = "after" /\ feeding' = FALSE
                          ELSE rpc' = "piping" /\ UNCHANGED feeding
    /\ UNCHANGED <<given, ctxDone, cause, block, teed, teeErr, readErr, caller>>

\* An error says the rebuild has stopped reading; the tee goes on alone.
WritePipeReturns ==
    /\ rpc = "piping" /\ P!WriteEnds
    /\ feeding' = (wret' = "nil")
    /\ rpc' = "after"
    /\ UNCHANGED <<given, ctxDone, cause, block, teed, teeErr, readErr, caller>>

\* What ReadFull's error says: a full block, the end, or a failed read.
AfterBlock ==
    /\ rpc = "after"
    /\ IF spoolFails = block
       THEN /\ readErr' = TRUE /\ CancelWith("readErr")
            /\ P!CloseWrite("readErr") /\ rpc' = "done"
       ELSE /\ IF block > Blocks \/ (block = Blocks /\ partial)
               THEN P!CloseWrite("nil") /\ rpc' = "done"
               ELSE rpc' = "check" /\ UNCHANGED pipe
            /\ UNCHANGED <<readErr, cause>>
    /\ UNCHANGED <<given, ctxDone, block, feeding, teed, teeErr, caller>>

Reader == CheckContext \/ ReadSpool \/ Tee \/ WritePipe \/ WritePipeReturns \/ AfterBlock

-----------------------------------------------------------------------------
(* rebuild, on the caller's goroutine.                                     *)

\* It returns e.
Rebuilt(e) == rerr' = e /\ cpc' = "judge"

\* The parameters' next write is due.
Owes == LET b == behaviour IN
    /\ HasWrite(b, cw.n) \/ b.then = "fails"
    /\ cpc = "close" \/ cw.n + b.lag < fed

\* One write of the output, which looks at cctx first, or the engine's own
\* failure.
WriteOutput ==
    LET b == behaviour
        c == AfterWrite(cw, limit, Outcome(b, cw.n, RefLen))
    IN  /\ cpc \in {"rebuild", "close"} /\ Owes
        /\ IF ~HasWrite(b, cw.n) THEN UNCHANGED cw /\ Rebuilt("failure")
           ELSE IF cause # "nil" THEN UNCHANGED cw /\ Rebuilt("canceled")
           ELSE /\ cw' = c
                /\ IF WriteErr(c) = "nil" THEN UNCHANGED <<rerr, cpc>>
                                          ELSE Rebuilt(WriteErr(c))
        /\ UNCHANGED <<given, ctxDone, cause, pipe, reader, fed, answer>>

\* Before it reads anything: the reference, the engine.
SetupFails ==
    /\ cpc = "rebuild" /\ behaviour.then = "setup"
    /\ UNCHANGED cw /\ Rebuilt("failure")
    /\ UNCHANGED <<given, ctxDone, cause, pipe, reader, fed, answer>>

ReadPipe ==
    /\ cpc = "rebuild" /\ ~Owes /\ behaviour.then # "setup"
    /\ P!ReadCalled
    /\ cpc' = "read"
    /\ UNCHANGED <<given, ctxDone, cause, reader, fed, cw, rerr, answer>>

\* A block for the engine, the end of the content, or the error the reader
\* closed the pipe with.
ReadPipeReturns ==
    /\ cpc = "read" /\ P!ReadReturns
    /\ UNCHANGED cw
    /\ IF P!Piece(rret') THEN cpc' = "rebuild" /\ fed' = fed + 1 /\ UNCHANGED rerr
       ELSE IF rret' = <<"EOF">> THEN cpc' = "close" /\ UNCHANGED <<fed, rerr>>
       ELSE Rebuilt(rret'[1]) /\ UNCHANGED fed
    /\ UNCHANGED <<given, ctxDone, cause, reader, answer>>

\* The engine has been closed and the trailer written without error.
RebuildEnds ==
    /\ cpc = "close" /\ ~Owes
    /\ UNCHANGED cw /\ Rebuilt("nil")
    /\ UNCHANGED <<given, ctxDone, cause, pipe, reader, fed, answer>>

Rebuild == WriteOutput \/ SetupFails \/ ReadPipe \/ ReadPipeReturns \/ RebuildEnds

-----------------------------------------------------------------------------
(* The rest of Confirm.                                                    *)

\* The rebuild's error, with AtEOF's.
RebuildErr == IF rerr = "nil" /\ ~cw.limited THEN AtEOF(cw, RefLen) ELSE rerr

\* Bug: Confirm gives the pass up for any error of the rebuild's, also when
\* the comparison was satisfied.
Hopeless_AnyStop(e) == e # "nil"

Hopeless(e) == e # "nil" /\ ~cw.limited

\* AtEOF, the cancellation if that leaves an error, and CloseRead.
Judge ==
    /\ cpc = "judge"
    /\ rerr' = RebuildErr
    /\ IF Hopeless(RebuildErr) THEN CancelWith(RebuildErr) ELSE UNCHANGED cause
    /\ P!CloseRead
    /\ cpc' = "join"
    /\ UNCHANGED <<given, ctxDone, reader, fed, cw, answer>>

\* Bug: the rebuild's error is looked at before what caused it.
Answer_RebuildFirst == IF rerr = "mismatch" THEN "notReproducible"
                       ELSE IF rerr # "nil" THEN rerr
                       ELSE IF ctxDone THEN "ctxErr"
                       ELSE IF teeErr THEN "teeErr"
                       ELSE IF readErr THEN "readErr" ELSE "ok"

Answer == IF ctxDone THEN "ctxErr"
          ELSE IF teeErr THEN "teeErr"
          ELSE IF readErr THEN "readErr"
          ELSE IF cw.limited THEN "ok"
          ELSE IF rerr = "mismatch" THEN "notReproducible"
          ELSE IF rerr # "nil" THEN rerr ELSE "ok"

\* Bug: the goroutine is not waited for.
ReadDone_NotAwaited == TRUE

ReadDone == rpc = "done"

\* <-readDone, and the answer.
Return == /\ cpc = "join" /\ ReadDone
          /\ answer' = Answer
          /\ cpc' = "returned"
          /\ UNCHANGED <<given, ctxDone, cause, pipe, reader, fed, cw, rerr>>

Caller == Rebuild \/ Judge \/ Return

Next == Cancel \/ Reader \/ Caller

\* Both goroutines run, and tee's writes return.
Spec == Init /\ [][Next]_vars /\ WF_vars(Reader) /\ WF_vars(Caller)

-----------------------------------------------------------------------------
Verdict == VerdictUnder(behaviour, limit, RefLen)

\* Params are returned only if tee has received the whole content and the
\* rebuild reproduced the input, to its end or to VerifyLimit: neither a
\* race with the tee nor the limit cuts either short.
OkMeansConfirmed == answer = "ok" => teed = Blocks /\ Verdict # "no"

\* The answer is given when the reading goroutine has gone, so that nobody
\* reads a spool the caller may now close and no error of its is missed.
\* An error names what went wrong first hand, never a consequence of it in
\* the other goroutine: ErrNotReproducible only of parameters that really do
\* not reproduce the input, and the caller's context, the tee, the spool or
\* the engine only if that is where it began.
ErrorIsACause ==
    /\ answer # "pending" => rpc = "done"
    /\ answer # "canceled"
    /\ answer = "notReproducible" =>
         Verdict = "no" /\ behaviour.then \in {"differs", "stops"}
    /\ answer = "ctxErr" => ctxDone
    /\ answer = "teeErr" => teed = teeFails - 1
    /\ answer = "readErr" => teed = spoolFails - 1
    /\ answer = "failure" => behaviour.then \in {"fails", "setup", "unreadable"}

\* Confirm returns: neither goroutine waits for ever for the other at the
\* pipe, whichever of them stops first.
Termination == <>(answer # "pending")
==============================================================================
