-------------------------------- MODULE Target --------------------------------
(***************************************************************************)
(* Who calls Recompress: a program with its own writer and context, or the *)
(* recompress command (cmd/zrecipe/main.go), which has it write to a       *)
(* temporary file beside the output and renames that on success.  The      *)
(* command may be killed between any two of its steps, and with it the     *)
(* removal of the temporary file it has deferred.                          *)
(*                                                                         *)
(* What a power failure does to a renamed file that was never synced is    *)
(* not modelled.                                                           *)
(***************************************************************************)
EXTENDS Recompress

VARIABLES
    caller,    \* "program" or "command"
    cpc,       \* "params", "input", "temp", "run", "close", "chmod", "rename",
               \* "leave", "exit" or "killed"
    tmp,       \* the temporary file is there
    lost,      \* a write to it is lost, which its Close reports
    out,       \* what is at the output path: "old" is what was there before
    status     \* the command's error, or "nil"

cvars == <<caller, cpc, tmp, lost, out, status>>
vars == <<rvars, cvars>>

Init == /\ RInit
        /\ caller \in {"program", "command"}
        /\ cpc = (IF caller = "command" THEN "params" ELSE "run")
        /\ tmp = FALSE /\ out = "old" /\ status = "nil"
        /\ lost \in IF caller = "command" THEN BOOLEAN ELSE {FALSE}

\* A step from one place to the next, after which an error leads to where.
Goto(from, next, where) ==
    /\ caller = "command" /\ cpc = from
    /\ \/ next /\ UNCHANGED status
       \/ cpc' = where /\ status' = "error" /\ UNCHANGED <<tmp, out>>
    /\ UNCHANGED <<rvars, caller, lost>>

\* ReadParams makes Recompress's checks, too.
OpenParams == Goto("params", given.params = "ok" /\ cpc' = "input" /\ UNCHANGED <<tmp, out>>, "exit")

OpenInput == Goto("input", cpc' = "temp" /\ UNCHANGED <<tmp, out>>, "exit")

CreateTemp == Goto("temp", cpc' = "run" /\ tmp' = TRUE /\ UNCHANGED out, "exit")

Call == cpc = "run" /\ Step /\ UNCHANGED cvars

\* The command's context is context.Background.
CallerCancels == cpc = "run" /\ caller = "program" /\ Cancel /\ UNCHANGED cvars

Returned ==
    /\ caller = "command" /\ cpc = "run" /\ pc = "returned"
    /\ IF ret = "nil" THEN cpc' = "close" /\ UNCHANGED status
                      ELSE cpc' = "leave" /\ status' = ret
    /\ UNCHANGED <<rvars, caller, tmp, lost, out>>

\* Bug: the error of the temporary file's Close is ignored.
CloseFails_Ignored == FALSE

CloseFails == lost

CloseTemp == Goto("close", ~CloseFails /\ cpc' = "chmod" /\ UNCHANGED <<tmp, out>>, "leave")

Chmod == Goto("chmod", cpc' = "rename" /\ UNCHANGED <<tmp, out>>, "leave")

Content == IF InputMatches /\ OutputMatches /\ ~lost THEN "recorded" ELSE "other"

Rename == Goto("rename", cpc' = "leave" /\ tmp' = FALSE /\ out' = Content, "leave")

\* The deferred os.Remove.
Leave == /\ cpc = "leave"
         /\ tmp' = FALSE /\ cpc' = "exit"
         /\ UNCHANGED <<rvars, caller, lost, out, status>>

Kill == /\ caller = "command" /\ cpc \notin {"exit", "killed"}
        /\ cpc' = "killed"
        /\ UNCHANGED <<rvars, caller, tmp, lost, out, status>>

Next == \/ OpenParams \/ OpenInput \/ CreateTemp \/ Call \/ CallerCancels \/ Returned
        \/ CloseTemp \/ Chmod \/ Rename \/ Leave \/ Kill

Spec == Init /\ [][Next]_vars

-----------------------------------------------------------------------------
\* Every variable holds a value the code could store in it.
TypeOK ==
    /\ RTypeOK
    /\ caller \in {"program", "command"} /\ tmp \in BOOLEAN /\ lost \in BOOLEAN
    /\ cpc \in {"params", "input", "temp", "run", "close", "chmod", "rename", "leave",
                "exit", "killed"}
    /\ out \in {"old", "recorded", "other"}

\* At any time, also after the command was killed, the output path is as it
\* was or holds the recorded file, whole; a command that ends by itself
\* leaves no temporary file, and succeeds only with the output in place.
OutputWholeOrUntouched ==
    /\ out \in {"old", "recorded"}
    /\ cpc = "exit" => ~tmp /\ (status = "nil" => out = "recorded")
==============================================================================
