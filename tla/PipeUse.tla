------------------------------- MODULE PipeUse -------------------------------
(***************************************************************************)
(* A pipe between a producer and a consumer that use it as its comment     *)
(* allows: the producer writes and at any point ends the stream, with an   *)
(* error or without; the consumer reads to the end and may at any point    *)
(* close its end, and may go on reading.                                   *)
(***************************************************************************)
EXTENDS Pipe, SequencesExt

CONSTANT Writes      \* how many writes the producer has

ASSUME PipeUseAssumption == Writes \in Nat

VARIABLES offered,   \* how many writes the producer has called Write with
          sent,      \* the writes Write accepted
          got,       \* the pieces the consumer read
          over,      \* the consumer has read an error
          hung       \* when it hung up: <<writes accepted, writes queued>>

uvars == <<offered, sent, got, over, hung>>
useVars == <<pvars, uvars>>

UseInit == PInit /\ offered = 0 /\ sent = <<>> /\ got = <<>> /\ over = FALSE
        /\ hung = <<>>

Offer == /\ offered < Writes /\ ~ended /\ wret = "nil"
         /\ WriteCalled(offered + 1)
         /\ offered' = offered + 1
         /\ UNCHANGED <<sent, got, over, hung>>

Produced == /\ WriteEnds
            /\ sent' = IF wret' = "nil" THEN sent \o writing ELSE sent
            /\ UNCHANGED <<offered, got, over, hung>>

EndStream == \E err \in {"nil", "boom"} : CloseWrite(err) /\ UNCHANGED uvars

\* Once it has read an error the consumer stops.
Consume == /\ ~over /\ (ReadCopies \/ ReadCalled \/ ReadReturns)
           /\ got' = IF rret' # rret /\ Piece(rret') THEN Append(got, rret') ELSE got
           /\ over' = (rret' # rret /\ ~Piece(rret'))
           /\ UNCHANGED <<offered, sent, hung>>

Hangup == /\ ~closed /\ ~reading /\ CloseRead
          /\ hung' = <<Len(sent), Len(ch)>>
          /\ UNCHANGED <<offered, sent, got, over>>

UseNext == Offer \/ Produced \/ EndStream \/ Consume \/ Hangup

\* Both goroutines run; the producer does end the stream, once it has nothing
\* left to write or its consumer is gone.  Nobody has to hang up.
UseFair == /\ WF_useVars(Offer) /\ WF_useVars(Produced)
           /\ WF_useVars(EndStream) /\ WF_useVars(Consume)

UseSpec == UseInit /\ [][UseNext]_useVars /\ UseFair

-----------------------------------------------------------------------------
\* All that was accepted, piece by piece.
AllPieces == [k \in 1 .. Pieces * Len(sent) |->
    Copied(sent[1 + ((k - 1) \div Pieces)])[1 + ((k - 1) % Pieces)]]

\* The consumer reads the very bytes that were accepted, in order, none twice
\* and none skipped, whatever the two selects choose; and unless it had hung
\* up, the end of the stream, with the producer's own error, comes after all
\* that was written.
ReadsWhatWasWritten ==
    /\ IsPrefix(got, AllPieces)
    /\ over /\ ~closed => /\ got = AllPieces /\ offered = Len(sent)
                          /\ rret = IF werr = "nil" THEN <<"EOF">> ELSE <<werr>>

\* After the hang-up the pipe accepts at most the write that was already
\* waiting, and not even that if it was waiting on a full queue.
HangupRefuses == hung # <<>> =>
    Len(sent) <= hung[1] + (IF hung[2] < Slots THEN 1 ELSE 0)

\* Nobody is left waiting: the producer comes to the end of the stream and
\* the consumer, unless it hung up, to its error.
Termination == <>(ended /\ (over \/ closed))
==============================================================================
