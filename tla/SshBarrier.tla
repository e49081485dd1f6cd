------------------------------ MODULE SshBarrier ------------------------------
(***************************************************************************)
(* The ssh plugin in all the containers of a job: each starts its sshd     *)
(* (src/src/plugins/ssh/sshd.sh) and then waits until it has reached every *)
(* other one by ssh (src/src/plugins/ssh/sshbarrier.sh), before the user's *)
(* command starts.  The containers run independently; each one's sshd      *)
(* lives as long as the container.                                         *)
(***************************************************************************)
EXTENDS Integers, FiniteSets

CONSTANTS
    Instances,        \* PAI_TASK_ROLE_INSTANCES: the containers of the job
    Ignores,          \* those of task roles for which the plugin's failurePolicy is
                      \* "ignore" (initializer.py:124-128)
    RETRY_INTERVAL,   \* seconds between two rounds
    Minutes           \* sshbarrierTimeout, -1 if it is not given

ASSUME BarrierAssumption ==
    /\ IsFiniteSet(Instances) /\ Ignores \subseteq Instances
    /\ RETRY_INTERVAL \in Nat \ {0} /\ Minutes \in Nat \cup {-1}

VARIABLES
    phase,    \* where each container is
    up,       \* the containers whose sshd is running
    left,     \* what each one has not tried yet in this round
    failed,   \* instanceFailed: what it did not reach in this round
    retry,    \* retryCount
    gaveUp,   \* the containers whose barrier ended with exit 10
    arrived,  \* the containers whose sshd has ever been running
    tries     \* how often each one tried to reach each other one

vars == <<phase, up, left, failed, retry, gaveUp, arrived, tries>>

MAX_RETRY_COUNT == IF Minutes = -1 THEN 1800 ELSE (Minutes * 60) \div RETRY_INTERVAL

Phases == {"prep", "check", "open", "job", "end"}

TypeOK ==
    /\ phase \in [Instances -> Phases]
    /\ up \subseteq arrived /\ arrived \subseteq Instances /\ gaveUp \subseteq Instances
    /\ left \in [Instances -> SUBSET Instances]
    /\ failed \in [Instances -> SUBSET Instances]
    /\ retry \in [Instances -> 0..MAX_RETRY_COUNT]
    /\ tries \in [Instances -> [Instances -> Nat]]

Init ==
    /\ phase = [i \in Instances |-> "prep"]
    /\ up = {} /\ arrived = {} /\ gaveUp = {}
    /\ left = [i \in Instances |-> {}] /\ failed = [i \in Instances |-> {}]
    /\ retry = [i \in Instances |-> 0]
    /\ tries = [i \in Instances |-> [j \in Instances |-> 0]]

Go(i, to) == phase' = [phase EXCEPT ![i] = to]

\* get_check_instances, sshbarrier.sh 33-47: all but the container itself.
Others(i) == Instances \ {i}

\* sshd.sh, and the beginning of the barrier.  Without a port or a binary
\* sshd.sh ends well and no sshd runs (lines 106-136).
StartSshd(i) ==
    /\ phase[i] = "prep"
    /\ Go(i, "check")
    /\ \/ up' = up \cup {i} /\ arrived' = arrived \cup {i}
       \/ UNCHANGED <<up, arrived>>
    /\ left' = [left EXCEPT ![i] = Others(i)]
    /\ UNCHANGED <<failed, retry, gaveUp, tries>>

\* check_ssh_connection and lines 67-73: ssh may fail although sshd is up.
Check(i, j) ==
    /\ phase[i] = "check" /\ j \in left[i]
    /\ left' = [left EXCEPT ![i] = @ \ {j}]
    /\ \/ j \in up /\ UNCHANGED failed
       \/ failed' = [failed EXCEPT ![i] = @ \cup {j}]
    /\ tries' = [tries EXCEPT ![i][j] = @ + 1]
    /\ UNCHANGED <<phase, up, retry, gaveUp, arrived>>

\* Line 75.
Pass(i) ==
    /\ phase[i] = "check" /\ left[i] = {} /\ failed[i] = {}
    /\ Go(i, "open")
    /\ UNCHANGED <<up, left, failed, retry, gaveUp, arrived, tries>>

\* Mutants of TooLate: one round less, and a barrier that waits for ever.
TooLateEarly(i) == retry[i] + 1 >= MAX_RETRY_COUNT
TooLateNever(i) == FALSE

\* Line 77.
TooLate(i) == retry[i] >= MAX_RETRY_COUNT

\* A mutant of GiveUp: where failures are ignored the barrier just goes on.
GiveUpIfFatal(i) ==
    /\ phase[i] = "check" /\ left[i] = {} /\ failed[i] # {} /\ TooLate(i)
    /\ i \notin Ignores
    /\ gaveUp' = gaveUp \cup {i} /\ Go(i, "end") /\ up' = up \ {i}
    /\ UNCHANGED <<left, failed, retry, arrived, tries>>

\* Lines 77-80: exit 10 fails the precommands, and ends the container, unless
\* the failures of the plugin are ignored (plugin_utils.py 37-46).
GiveUp(i) ==
    /\ phase[i] = "check" /\ left[i] = {} /\ failed[i] # {} /\ TooLate(i)
    /\ gaveUp' = gaveUp \cup {i}
    /\ \/ i \in Ignores /\ Go(i, "open") /\ UNCHANGED up
       \/ i \notin Ignores /\ Go(i, "end") /\ up' = up \ {i}
    /\ UNCHANGED <<left, failed, retry, arrived, tries>>

\* A mutant of Retry: of what failed in the round only one is tried again.
RetryForgetting(i) ==
    /\ phase[i] = "check" /\ left[i] = {} /\ failed[i] # {} /\ ~ TooLate(i)
    /\ left' = [left EXCEPT ![i] = {CHOOSE j \in failed[i] : TRUE}]
    /\ failed' = [failed EXCEPT ![i] = {}]
    /\ retry' = [retry EXCEPT ![i] = @ + 1]
    /\ UNCHANGED <<phase, up, gaveUp, arrived, tries>>

\* Lines 82-85: only what failed is tried again.
Retry(i) ==
    /\ phase[i] = "check" /\ left[i] = {} /\ failed[i] # {} /\ ~ TooLate(i)
    /\ left' = [left EXCEPT ![i] = failed[i]] /\ failed' = [failed EXCEPT ![i] = {}]
    /\ retry' = [retry EXCEPT ![i] = @ + 1]
    /\ UNCHANGED <<phase, up, gaveUp, arrived, tries>>

Barrier(i) == Pass(i) \/ GiveUp(i) \/ Retry(i) \/ \E j \in Instances : Check(i, j)

\* The rest of the precommands, and the user's command.
StartJob(i) ==
    /\ phase[i] = "open" /\ Go(i, "job")
    /\ UNCHANGED <<up, left, failed, retry, gaveUp, arrived, tries>>

\* The container ends: with its command, or at any time by a failure.
End(i) ==
    /\ phase[i] # "end"
    /\ Go(i, "end") /\ up' = up \ {i}
    /\ UNCHANGED <<left, failed, retry, gaveUp, arrived, tries>>

Next == \E i \in Instances : StartSshd(i) \/ Barrier(i) \/ StartJob(i) \/ End(i)

\* The script runs on; nothing is said of when the containers begin or end.
Spec == Init /\ [][Next]_vars /\ \A i \in Instances : WF_vars(Barrier(i))

-----------------------------------------------------------------------------
\* No container starts the user's command before every other container of the
\* job has had its sshd running, if the plugin's failures are not ignored in
\* it (sshbarrier.sh 61-86).
NobodyGoesFirst ==
    \A i \in Instances \ Ignores :
        phase[i] \in {"open", "job"} => Others(i) \subseteq arrived

\* The barrier is given up only when some container was tried in every one of
\* the rounds, one more than there are retries, and never reached, and none
\* that was reached was tried again (sshbarrier.sh 77-83).
GivesUpAfterAllRounds ==
    \A i \in gaveUp :
        /\ failed[i] # {}
        /\ \A j \in Others(i) : tries[i][j] \in 1..(MAX_RETRY_COUNT + 1)
        /\ \A j \in failed[i] : tries[i][j] = MAX_RETRY_COUNT + 1

\* The barrier ends: it is passed or given up, whatever the others do.
BarrierEnds == \A i \in Instances : phase[i] = "check" ~> phase[i] # "check"
=============================================================================
