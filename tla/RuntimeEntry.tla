---------------------------- MODULE RuntimeEntry ----------------------------
(***************************************************************************)
(* The entry point of the task container, src/src/runtime.d/               *)
(* runtime_entry.sh: the last command of PID 1 of the container in which   *)
(* the user's job runs (src/src/runtime, line 30), which ends with it.     *)
(*                                                                         *)
(* The script runs the plugins' precommands, the user's command (module    *)
(* LogPipeline: the job and the processes that log its output) and the     *)
(* plugins' postcommands.  It runs under errexit: the first child that     *)
(* fails ends it.  Whatever ends it, the EXIT trap exit_handler runs, and  *)
(* after a failure gives the logs to the program exithandler, which looks  *)
(* for known failure patterns ("evidence"), writes the termination message *)
(* and decides the exit status of the container.                           *)
(***************************************************************************)
EXTENDS LogPipeline

CONSTANTS
    MaxPreLines,  \* bound: lines the precommands write
    MinLog,       \* MIN_LOG_SIZE: a smaller current file is merged with the old
    MaxSearch,    \* maxSearchLogSize: exithandler reads so much of the end of a log
    UserCode,     \* containerExitCode of the spec that user evidence matches
    PlatCode,     \* containerExitCode of the spec that platform evidence matches
    DefaultCode   \* defaultExitCode, when nothing matches

ASSUME EntryBoundsAssumption == 
    /\ MaxPreLines \in Nat /\ MinLog \in Nat \ {0} /\ MinLog <= RotSize
    /\ MaxSearch \in Nat \ {0}

\* The exit status of a process has eight bits: a spec with a code that is a
\* multiple of 256 would report a failed job as succeeded.  The template of the
\* spec file (src/deploy/runtime-exit-spec.yaml.template:19) asks for less.
ASSUME CodesAssumption ==
    \A c \in {UserCode, PlatCode, DefaultCode} : c \in Nat /\ c % 256 # 0

NoCode == 256   \* no exit status yet: a status is below 256

VARIABLES
    \* the main script
    mpc,      \* where it is
    rc,       \* the status it ended with, as exit_handler finds it in $?
    exit,     \* exit status of the container, NoCode while it runs
    dirs,     \* the log directories have been made
    \* the precommands and the FIFO RUNTIME_LOG_PIPE
    pre,      \* precommands.sh: idle, running or exited
    preCode,  \* its exit status
    preHeld,  \* who has the FIFO open for writing
    preWrote, \* lines written to the FIFO
    preEv,    \* number of the line that is evidence, 0 for none
    preLogged,\* lines of them in runtime.log
    reader,   \* process_runtime_log on the FIFO: idle, running or exited
    \* the exit handler
    merge,    \* it works on a merged copy of user-all
    input,    \* positions of user-all that exithandler is given
    seen,     \* total when CheckSize ran
    rot,      \* the end of the rotated file that CheckSize found, 0 for none
    raced,    \* user-all was rotated after that, and before exithandler ran
    msg       \* exitCode in the termination message, NoCode if there is none

mainVars    == <<mpc, rc, exit, dirs>>
preVars     == <<pre, preCode, preHeld, preWrote, preEv, preLogged, reader>>
handlerVars == <<merge, input, seen, rot, msg>>
vars        == <<pipeVars, mainVars, preVars, handlerVars, raced>>

MainPC == {"source", "mkdir", "pre", "waitPre", "user", "waitUser",
           "waitLogger", "post", "trap", "touch", "size", "tail", "cat",
           "exec", "exited"}
HandlerPC == {"touch", "size", "tail", "cat", "exec"}
Running == mpc # "exited"   \* the container lives as long as the script

TypeOK ==
    /\ PipeTypeOK
    /\ mpc \in MainPC /\ rc \in 0..255 /\ exit \in 0..NoCode /\ dirs \in BOOLEAN
    /\ (exit = NoCode) <=> Running
    /\ pre \in {"idle", "running", "exited"} /\ preCode \in Codes
    /\ preHeld \subseteq {"pre", "daemon"}
    /\ preWrote \in 0..MaxPreLines /\ preEv \in 0..MaxPreLines
    /\ preLogged \in Nat /\ reader \in {"idle", "running", "exited"}
    /\ merge \in BOOLEAN /\ input \subseteq Nat /\ seen \in Nat /\ rot \in Nat
    /\ raced \in BOOLEAN /\ msg \in Nat

Init ==
    /\ PipeInit
    /\ mpc = "source" /\ rc = 0 /\ exit = NoCode /\ dirs = FALSE
    /\ pre = "idle" /\ preCode = 0 /\ preHeld = {} /\ preWrote = 0
    /\ preEv = 0 /\ preLogged = 0 /\ reader = "idle"
    /\ merge = FALSE /\ input = {} /\ seen = 0 /\ rot = 0 /\ raced = FALSE /\ msg = NoCode

-----------------------------------------------------------------------------
(* The main script *)

Goto(pc) == mpc' = pc /\ UNCHANGED rc

\* errexit, or the end of the script: the EXIT trap runs, with $? = code.
Trap(code) == mpc' = "trap" /\ rc' = code

\* Line 115: runtime_env.sh is sourced; any command in it may fail.
SourceEnv ==
    /\ mpc = "source"
    /\ Goto("mkdir") \/ Trap(1)
    /\ UNCHANGED <<pipeVars, exit, dirs, preVars, handlerVars, raced>>

\* Lines 117-122: the log directories, and a line in runtime.log.
MakeDirs ==
    /\ mpc = "mkdir"
    /\ \/ dirs' = TRUE /\ (Goto("pre") \/ Trap(1))
       \/ UNCHANGED dirs /\ Trap(1)
    /\ UNCHANGED <<pipeVars, exit, preVars, handlerVars, raced>>

\* Lines 124-130: the FIFO (mkfifo fails if it exists already), precommands.sh
\* writing to it and process_runtime_log reading it, both in the background.
\* Neither gets past opening the FIFO before the other is there.
StartPre ==
    /\ mpc = "pre"
    /\ \/ /\ Goto("waitPre")
          /\ pre' = "running" /\ preHeld' = {"pre"} /\ reader' = "running"
          /\ UNCHANGED <<preCode, preWrote, preEv, preLogged>>
       \/ Trap(1) /\ UNCHANGED preVars
    /\ UNCHANGED <<pipeVars, exit, dirs, handlerVars, raced>>

\* Mutants of WaitPre: the status of the precommands is ignored, or the reader
\* of the FIFO is waited for as well.
WaitPreAnyStatus ==
    /\ mpc = "waitPre" /\ pre = "exited"
    /\ Goto("user")
    /\ UNCHANGED <<pipeVars, exit, dirs, preVars, handlerVars, raced>>

WaitPreAndReader ==
    /\ mpc = "waitPre" /\ pre = "exited" /\ reader = "exited"
    /\ IF preCode = 0 THEN Goto("user") ELSE Trap(preCode)
    /\ UNCHANGED <<pipeVars, exit, dirs, preVars, handlerVars, raced>>

\* Line 132: only precommands.sh is waited for, not the reader of the FIFO.
WaitPre ==
    /\ mpc = "waitPre" /\ pre = "exited"
    /\ IF preCode = 0 THEN Goto("user") ELSE Trap(preCode)
    /\ UNCHANGED <<pipeVars, exit, dirs, preVars, handlerVars, raced>>

\* Lines 134-148: log lines, the second FIFO, the job and its logger.
StartUser ==
    /\ mpc = "user"
    /\ \/ Goto("waitUser") /\ StartJob
       \/ Trap(1) /\ UNCHANGED pipeVars
    /\ UNCHANGED <<exit, dirs, preVars, handlerVars, raced>>

\* Mutant of WaitUser: the logger is waited for after a failure, too.
WaitUserAndLogger ==
    /\ mpc = "waitUser" /\ job = "exited"
    /\ jobCode # 0 => logger = "exited"
    /\ IF jobCode = 0 THEN Goto("waitLogger") ELSE Trap(jobCode)
    /\ UNCHANGED <<pipeVars, exit, dirs, preVars, handlerVars, raced>>

\* Line 150: a failed job ends the script here; the logger is not waited for.
WaitUser ==
    /\ mpc = "waitUser" /\ job = "exited"
    /\ IF jobCode = 0 THEN Goto("waitLogger") ELSE Trap(jobCode)
    /\ UNCHANGED <<pipeVars, exit, dirs, preVars, handlerVars, raced>>

\* Mutant of WaitLogger: the logger is not waited for.
WaitNoLogger ==
    /\ mpc = "waitLogger"
    /\ Goto("post") \/ Trap(1)
    /\ UNCHANGED <<pipeVars, exit, dirs, preVars, handlerVars, raced>>

\* Lines 151-156.
WaitLogger ==
    /\ mpc = "waitLogger" /\ logger = "exited"
    /\ Goto("post") \/ Trap(1)
    /\ UNCHANGED <<pipeVars, exit, dirs, preVars, handlerVars, raced>>

\* Line 159: the postcommands and process_runtime_log, a pipeline under
\* pipefail.  It is the last line, so its status is that of the script.
Post ==
    /\ mpc = "post"
    /\ \E c \in Codes : Trap(c)
    /\ UNCHANGED <<pipeVars, exit, dirs, preVars, handlerVars, raced>>

-----------------------------------------------------------------------------
(* exit_handler *)

Exit(code) == mpc' = "exited" /\ exit' = code

\* Lines 55-58.
TrapExit ==
    /\ mpc = "trap"
    /\ IF rc = 0 THEN Exit(0) ELSE mpc' = "touch" /\ UNCHANGED exit
    /\ UNCHANGED <<pipeVars, rc, dirs, preVars, handlerVars, raced>>

\* A mutant of TouchLogs: the trap is run again when touch fails.
TouchLogsTwice ==
    /\ mpc = "touch"
    /\ IF dirs THEN mpc' = "size" /\ UNCHANGED exit ELSE mpc' = "trap" /\ exit' = 1
    /\ UNCHANGED <<pipeVars, rc, dirs, preVars, handlerVars, raced>>

\* Lines 60-70: runtime.log and user-all/current are made if they are not
\* there.  Without the directories the second touch fails, and errexit ends
\* the handler with its status.
TouchLogs ==
    /\ mpc = "touch"
    /\ IF dirs THEN mpc' = "size" /\ UNCHANGED exit ELSE Exit(1)
    /\ UNCHANGED <<pipeVars, rc, dirs, preVars, handlerVars, raced>>

\* Mutant of CheckSize: current is used however small it is.
CheckSizeNever ==
    /\ mpc = "size"
    /\ merge' = FALSE
    /\ mpc' = "exec"
    /\ seen' = total /\ rot' = curStart
    /\ UNCHANGED <<pipeVars, rc, exit, dirs, preVars, input, msg, raced>>

\* Lines 72-76: is current too small, and which is the rotated file?  (With none
\* the test -f gets no operand and is true.)
CheckSize ==
    /\ mpc = "size"
    /\ merge' = (total - curStart < MinLog)
    /\ mpc' = IF merge' THEN "tail" ELSE "exec"
    /\ seen' = total /\ rot' = curStart
    /\ UNCHANGED <<pipeVars, rc, exit, dirs, preVars, input, msg, raced>>

\* Lines 76-78: the last MIN_LOG_SIZE of the rotated file.  A rotation deletes it:
\* before the test, and current is used after all, or else tail fails.  Like any
\* other failure of lines 77-79, errexit makes that the end of the handler.
TailRotated ==
    /\ mpc = "tail"
    /\ \/ /\ rot \in {0, curStart}
          /\ input' = {i \in (oldStart + 1)..rot : i + MinLog > rot}
          /\ mpc' = "cat" /\ UNCHANGED <<merge, exit>>
       \/ /\ rot \notin {0, curStart}
          /\ merge' = FALSE /\ mpc' = "exec" /\ UNCHANGED <<input, exit>>
       \/ Exit(1) /\ UNCHANGED <<merge, input>>
    /\ UNCHANGED <<pipeVars, rc, dirs, preVars, seen, rot, msg, raced>>

\* Lines 79-80: and the whole of current.
CatCurrent ==
    /\ mpc = "cat"
    /\ \/ input' = input \cup ((curStart + 1)..total) /\ mpc' = "exec" /\ UNCHANGED exit
       \/ Exit(1) /\ UNCHANGED input
    /\ UNCHANGED <<pipeVars, rc, dirs, preVars, merge, seen, rot, msg, raced>>

\* What exithandler reads of a log: the end of it (getTailContentFromFile).
Searched(log) == {i \in log : Cardinality({j \in log : j > i}) < MaxSearch}

\* What it decides: the code of a spec that matches (which one is first is up to
\* the spec file), else the default.
PlatformMatch == preEv \in Searched(1..preLogged)
Verdicts(log) ==
    LET matches == (IF evAt \in Searched(log) THEN {UserCode} ELSE {}) \cup
                   (IF PlatformMatch THEN {PlatCode} ELSE {})
    IN  IF matches = {} THEN {DefaultCode} ELSE matches

\* The program exithandler (src/go/cmd/exithandler/main.go:43-104): the code in
\* the message it writes, and its status.  It may panic before there is a
\* message; main recovers from that and exits with 1.
ExitHandler(log) ==
    {<<NoCode, 1>>} \cup {<<code, code % 256>> : code \in Verdicts(log)}

\* Lines 83-91: exithandler piped into process_runtime_log.  The other end of
\* the pipe may fail too; pipefail takes the last status that is not zero.
RunExitHandler ==
    /\ mpc = "exec"
    /\ LET log == IF merge THEN input ELSE (curStart + 1)..total
       IN  /\ input' = log
           /\ \E answer \in ExitHandler(log), c \in Codes :
                /\ msg' = answer[1]
                /\ Exit(IF c # 0 THEN c ELSE answer[2])
    /\ UNCHANGED <<pipeVars, rc, dirs, preVars, merge, seen, rot, raced>>

-----------------------------------------------------------------------------
(* The precommands, and the processes of the pipeline *)

WritePre ==
    /\ preHeld # {} /\ reader = "running"
    /\ preWrote < MaxPreLines
    /\ preWrote' = preWrote + 1
    /\ UNCHANGED preEv \/ ("pre" \in Evident /\ preEv = 0 /\ preEv' = preWrote + 1)
    /\ UNCHANGED <<pre, preCode, preHeld, preLogged, reader>>

\* A precommand leaves a process in the background, with the FIFO open.
StartPreDaemon ==
    /\ pre = "running"
    /\ preHeld' = {"pre", "daemon"}
    /\ UNCHANGED <<pre, preCode, preWrote, preEv, preLogged, reader>>

StopPreDaemon ==
    /\ "daemon" \in preHeld
    /\ preHeld' = preHeld \ {"daemon"}
    /\ UNCHANGED <<pre, preCode, preWrote, preEv, preLogged, reader>>

ExitPre ==
    /\ pre = "running"
    /\ pre' = "exited" /\ preCode' \in Codes /\ preHeld' = preHeld \ {"pre"}
    /\ UNCHANGED <<preWrote, preEv, preLogged, reader>>

\* process_runtime_log.sh:26-28, a line at a time until EOF.
LogPre ==
    /\ reader = "running"
    /\ \/ /\ preLogged < preWrote
          /\ preLogged' = preLogged + 1 /\ UNCHANGED reader
       \/ /\ preLogged = preWrote /\ preHeld = {}
          /\ reader' = "exited" /\ UNCHANGED preLogged
    /\ UNCHANGED <<pre, preCode, preHeld, preWrote, preEv>>

PreJob == WritePre \/ StartPreDaemon \/ StopPreDaemon

PreStep(A) == Running /\ A /\ UNCHANGED <<pipeVars, mainVars, handlerVars, raced>>

\* raced records a rotation of user-all between CheckSize and exithandler.
PipeStep(A) ==
    /\ Running /\ A
    /\ raced' = (raced \/ (mpc \in {"tail", "cat", "exec"} /\ curStart' # curStart))
    /\ UNCHANGED <<mainVars, preVars, handlerVars>>

Main ==
    \/ SourceEnv \/ MakeDirs \/ StartPre \/ WaitPre \/ StartUser \/ WaitUser
    \/ WaitLogger \/ Post
    \/ TrapExit \/ TouchLogs \/ CheckSize \/ TailRotated \/ CatCurrent
    \/ RunExitHandler

Next ==
    \/ Main
    \/ PreStep(PreJob) \/ PreStep(ExitPre) \/ PreStep(LogPre)
    \/ PipeStep(JobNext) \/ PipeStep(LoggerNext)
    \/ \E s \in Streams : PipeStep(StreamNext(s)) \/ PipeStep(Keep(s))

\* The kernel schedules every process that can run.  The postcommands are
\* taken to end; precommands.sh and the job may run for ever.
Fairness ==
    /\ WF_vars(Main) /\ WF_vars(PreStep(LogPre)) /\ WF_vars(PipeStep(LoggerNext))
    /\ \A s \in Streams :
         WF_vars(PipeStep(StreamNext(s))) /\ WF_vars(PipeStep(Keep(s)))

Spec == Init /\ [][Next]_vars /\ Fairness
-----------------------------------------------------------------------------
\* A child's state as TaskLifecycle sees it.
Result(state, code) ==
    IF state # "exited" THEN state ELSE IF code = 0 THEN "ok" ELSE "failed"

\* The outcome is decided when the trap runs.  What the handler then makes of
\* the status must not change it.
Outcome ==
    LET status == IF mpc = "exited" THEN exit ELSE rc
    IN  CASE mpc \notin {"trap", "exited"} \cup HandlerPC -> "none"
          [] OTHER -> IF status = 0 THEN "succeeded" ELSE "failed"

Contract == INSTANCE TaskLifecycle WITH
    pre <- Result(pre, preCode), job <- Result(job, jobCode), outcome <- Outcome

\* The script keeps the contract of TaskLifecycle: phases in order, no success
\* with a failed phase, and no handler step, panic or pipe status that turns a
\* failure into a success (runtime_entry.sh:53-159).
ContractKept == Contract!Spec

\* When the postcommands run, user-all holds all the output there will ever
\* be, up to streams whose relay was late (runtime_entry.sh:150-159).
PostAfterOutput ==
    mpc = "post" =>
        \A s \in Streams :
            Late(s) \/ (held[s] = {} /\ logged[s] = wrote[s])

\* A known failure is recognised: if the evidence was in the last MIN_LOG_SIZE
\* of user-all when the handler looked at the files, exithandler finds it
\* however the lines are spread over the rotated and the current file
\* (runtime_entry.sh:67-91) and whatever is logged meanwhile, up to what it reads.
\* A rotation between the look and the reading may cost what was in current, and
\* nothing of the rotated file once that is being read.
Due == {i \in 1..seen : i + MinLog > seen}
KnownFailureRecognised ==
    (/\ mpc = "exited" /\ msg # NoCode
     /\ evAt \in Due /\ total + MinLog <= seen + MaxSearch
     /\ raced => (merge /\ evAt <= rot))
        => msg \in {UserCode, PlatCode}

\* The container ends after the job has: whatever daemons do if the job
\* failed, and when no daemon holds the job's streams if it succeeded
\* (runtime_entry.sh:150-159).
EndsAfterJob ==
    (job = "exited" /\ (jobCode # 0 \/ ~DaemonHolds)) ~> (mpc = "exited")

\* A process that the precommands left behind keeps their FIFO open for ever,
\* yet the script goes on: to the job, or to its end (runtime_entry.sh:131).
PreDaemonDoesNotBlock ==
    (pre = "exited") ~> (job # "idle" \/ mpc = "exited")

=============================================================================
