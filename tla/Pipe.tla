--------------------------------- MODULE Pipe ---------------------------------
(***************************************************************************)
(* pipe (pipe.go): the bounded queue of copied writes between a producer   *)
(* and a consumer goroutine.  A call is as many actions as it has points   *)
(* where the other end can get in between: the first select of Write and   *)
(* of Read, which only looks whether the consumer has closed, and the      *)
(* second, which waits, and chooses either case when both are ready.       *)
(*                                                                         *)
(* Write and Read are offered as actions for the module that has a         *)
(* producer and a consumer to compose (see Confirm); PipeUse is the pair   *)
(* its comment allows, doing whatever it may.                              *)
(*                                                                         *)
(* A definition named X_Bug is X with a bug one could plausibly write into *)
(* the code, as in Run.                                                    *)
(***************************************************************************)
EXTENDS Naturals, Sequences

CONSTANTS Slots,     \* newPipe's argument
          Pieces     \* how many Reads it takes to copy one write out

ASSUME PipeAssumption == Slots \in Nat \ {0} /\ Pieces \in Nat \ {0}

VARIABLES ch,       \* the queued writes
          ended,    \* ch is closed
          werr,     \* CloseWrite's error
          closed,   \* the channel closed by CloseRead is closed
          cur,      \* what Read has left of the write last taken, in pieces
          writing,  \* Write is at its second select with <<b>>, or <<>>
          reading,  \* Read is at its second select
          wret,     \* what the last Write returned
          rret      \* what the last Read returned: an error, or a piece

pvars == <<ch, ended, werr, closed, cur, writing, reading, wret, rret>>

PInit == /\ ch = <<>> /\ ended = FALSE /\ werr = "nil" /\ closed = FALSE
         /\ cur = <<>> /\ writing = <<>> /\ reading = FALSE
         /\ wret = "nil" /\ rret = <<>>

Copied(b) == [k \in 1 .. Pieces |-> <<b, k>>]

-----------------------------------------------------------------------------
(* The producer's end.                                                     *)

\* Bug: Write does not look whether the consumer is gone.
WriteCalled_Unchecked(b) ==
    /\ writing = <<>>
    /\ writing' = <<b>>
    /\ UNCHANGED <<ch, ended, werr, closed, cur, reading, wret, rret>>

\* Write's first select: give up if the consumer is gone, else go and wait.
WriteCalled(b) ==
    /\ writing = <<>>
    /\ IF closed THEN wret' = "ErrClosedPipe" /\ UNCHANGED writing
                 ELSE writing' = <<b>> /\ UNCHANGED wret
    /\ UNCHANGED <<ch, ended, werr, closed, cur, reading, rret>>

SlotFree == Len(ch) < Slots

WriteQueues ==
    /\ writing # <<>> /\ SlotFree
    /\ ch' = Append(ch, writing[1])
    /\ writing' = <<>> /\ wret' = "nil"
    /\ UNCHANGED <<ended, werr, closed, cur, reading, rret>>

\* Bug: a Write that waits is not told that the consumer has gone.
WriteSeesClosed_Never == FALSE

WriteSeesClosed ==
    /\ writing # <<>> /\ closed
    /\ writing' = <<>> /\ wret' = "ErrClosedPipe"
    /\ UNCHANGED <<ch, ended, werr, closed, cur, reading, rret>>

WriteEnds == WriteQueues \/ WriteSeesClosed

CloseWrite(err) ==
    /\ writing = <<>> /\ ~ended
    /\ werr' = err /\ ended' = TRUE
    /\ UNCHANGED <<ch, closed, cur, writing, reading, wret, rret>>

-----------------------------------------------------------------------------
(* The consumer's end.                                                     *)

\* Read hands out a piece of what it holds without looking at anything else.
ReadCopies ==
    /\ ~reading /\ cur # <<>>
    /\ rret' = Head(cur) /\ cur' = Tail(cur)
    /\ UNCHANGED <<ch, ended, werr, closed, writing, reading, wret>>

\* Read's first select, holding nothing.
ReadCalled ==
    /\ ~reading /\ cur = <<>>
    /\ IF closed THEN rret' = <<"ErrClosedPipe">> /\ UNCHANGED reading
                 ELSE reading' = TRUE /\ UNCHANGED rret
    /\ UNCHANGED <<ch, ended, werr, closed, cur, writing, wret>>

\* Bug: what did not fit the reader's buffer is lost.
Rest_Lost(b) == <<>>

\* What is left of a write after its first piece.
Rest(b) == Tail(Copied(b))

\* The second select: a write is taken and its first piece copied out, ...
ReadTakes ==
    /\ reading /\ ch # <<>>
    /\ rret' = Head(Copied(Head(ch))) /\ cur' = Rest(Head(ch))
    /\ ch' = Tail(ch) /\ reading' = FALSE
    /\ UNCHANGED <<ended, werr, closed, writing, wret>>

\* Bug: the end is reported although writes are still queued.
Drained_Early == ended

Drained == ch = <<>> /\ ended

\* ... or the queue is empty and closed.
ReadEnds ==
    /\ reading /\ Drained
    /\ rret' = IF werr = "nil" THEN <<"EOF">> ELSE <<werr>>
    /\ reading' = FALSE
    /\ UNCHANGED <<ch, ended, werr, closed, cur, writing, wret>>

\* It also watches closed, which nobody closes meanwhile: the consumer is here.
ReadReturns == ReadTakes \/ ReadEnds

\* Closing twice is closing once.
CloseRead == /\ closed' = TRUE
             /\ UNCHANGED <<ch, ended, werr, cur, writing, reading, wret, rret>>

Piece(r) == Len(r) = 2
===============================================================================
