------------------------------- MODULE MCPigz -------------------------------
(* PigzParallel, and PigzPieces beside a stream that is closed unused. *)
EXTENDS PigzParallel, PigzPieces

Quiet == caller = "closed" /\ fed = 0 /\ writeFails = 0 /\ allocFails = 0

MCInit == Init /\ PiecesInit
MCNext == \/ Next /\ UNCHANGED <<cutVars, pieceVars>>
          \/ Quiet /\ PiecesNext /\ UNCHANGED vars
MCSpec == MCInit /\ [][MCNext]_<<vars, cutVars, pieceVars>> /\ Fairness
=============================================================================
