---------------------------- MODULE TaskLifecycle ----------------------------
(***************************************************************************)
(* What the task container promises to whoever started it: the             *)
(* precommands run before the job, the job only after precommands that     *)
(* succeeded, nothing starts once the outcome is decided, the outcome is   *)
(* not decided while precommands or job are running, it is never revised,  *)
(* and it is "succeeded" only if both succeeded.  RuntimeEntry implements  *)
(* this.                                                                   *)
(***************************************************************************)

VARIABLES
    pre,      \* the precommands
    job,      \* the user's command
    outcome   \* what the container reports in the end

vars == <<pre, job, outcome>>

Results == {"ok", "failed"}

Init == pre = "idle" /\ job = "idle" /\ outcome = "none"

StartPre ==
    /\ outcome = "none" /\ pre = "idle"
    /\ pre' = "running"
    /\ UNCHANGED <<job, outcome>>

EndPre ==
    /\ pre = "running"
    /\ pre' \in Results
    /\ UNCHANGED <<job, outcome>>

StartJob ==
    /\ outcome = "none" /\ pre = "ok" /\ job = "idle"
    /\ job' = "running"
    /\ UNCHANGED <<pre, outcome>>

EndJob ==
    /\ job = "running"
    /\ job' \in Results
    /\ UNCHANGED <<pre, outcome>>

\* A failure of the platform or of the postcommands may come at any time at
\* which neither the precommands nor the job run.
Decide ==
    /\ outcome = "none" /\ pre # "running" /\ job # "running"
    /\ \/ outcome' = "succeeded" /\ pre = "ok" /\ job = "ok"
       \/ outcome' = "failed"
    /\ UNCHANGED <<pre, job>>

Next == StartPre \/ EndPre \/ StartJob \/ EndJob \/ Decide

Spec == Init /\ [][Next]_vars
=============================================================================
