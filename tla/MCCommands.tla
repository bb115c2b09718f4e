------------------------------ MODULE MCCommands ------------------------------
(***************************************************************************)
(* A process recompresses a file, analyzes one, or lists the candidates    *)
(* for one: the three machines side by side, of which one is started and   *)
(* the other two stay where they are.                                      *)
(***************************************************************************)
EXTENDS Target, Analyze, Producers

VARIABLE running

NoTarget == /\ given = "none" /\ ctxDone = FALSE /\ pc = "check" /\ read = 0 /\ written = 0
            /\ opened = FALSE /\ err = "nil" /\ ret = "pending" /\ caller = "program"
            /\ cpc = "exit" /\ tmp = FALSE /\ lost = FALSE /\ out = "old" /\ status = "none"

NoAnalyze == /\ input = "none" /\ who = "none" /\ verdict = "unknown" /\ cancelled = FALSE
             /\ at = "exit" /\ format = "none" /\ hdr = "none" /\ units = 0 /\ decoded = FALSE
             /\ spool = NewSpool /\ fds = 0 /\ entry = "none" /\ fault = "none"
             /\ flags = "none" /\ answer = "pending" /\ unc = "none" /\ recipe = "none"

NoProducers == file = "none" /\ asked = FALSE /\ list = <<>>

MCInit == \/ running = "recompress" /\ Init /\ NoAnalyze /\ NoProducers
          \/ running = "analyze" /\ NoTarget /\ AInit /\ NoProducers
          \/ running = "candidates" /\ NoTarget /\ NoAnalyze /\ PInit

MCNext == \/ running = "recompress" /\ Next /\ UNCHANGED <<avars, pvars, running>>
          \/ running = "analyze" /\ ANext /\ UNCHANGED <<vars, pvars, running>>
          \/ running = "candidates" /\ Ask /\ UNCHANGED <<vars, avars, running>>

MCSpec == MCInit /\ [][MCNext]_<<vars, avars, pvars, running>>
==============================================================================
