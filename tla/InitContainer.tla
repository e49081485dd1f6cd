---------------------------- MODULE InitContainer ----------------------------
(***************************************************************************)
(* The init container, src/src/init: a shell script under errexit that     *)
(* runs a fixed sequence of programs to prepare the work directory of the  *)
(* pod, and reports a failure by an exit code that says what failed.       *)
(*                                                                         *)
(* The kubelet may execute it again, after any of its steps or after it    *)
(* has finished (the pod's sandbox is replaced): the file system of the    *)
(* image is then as new, but the work directory and the log directory      *)
(* still hold what earlier executions left.  The script has to find its    *)
(* own way back to a clean state.                                          *)
(***************************************************************************)
EXTENDS PluginInit, FiniteSets

CONSTANTS
    MaxRuns,    \* bound: executions of the init container
    DirNames    \* the names prelog_$RANDOM may get

ASSUME InitAssumption == MaxRuns \in Nat

VARIABLES
    gang,     \* GANG_ALLOCATION = "true", a setting of the pod
    pc,       \* the stage the script is at
    failure,  \* the stage that failed and its status, if any
    exit,     \* exit code of the container, NoExit while it runs
    entries,  \* per directory of the image: the execution whose copy is in the
              \* work directory, 0 if there is none
    user,     \* executions that appended the user's command to user.sh
    logs,     \* per regular file of PAI_LOG_DIR: the executions it tells of
    preDirs,  \* the directories prelog_* there are
    preDir,   \* the one this execution moves logs to
    prelog    \* per directory and file: the executions it tells of

fileVars == <<entries, user>>
logVars  == <<logs, preDirs, preDir, prelog>>
vars == <<run, gang, policy, pluginVars, pc, failure, exit, fileVars, logVars>>

Image == {"init.d", "plugins", "runtime.d"}
LogNames == {"barrier.log", "runtime.log"}
NoExit == 256

\* The stages and their CHILD_PROCESS, with the statuses a stage may fail
\* with.  137 stands for the statuses of a child killed by a signal.
First == IF gang THEN "barrier" ELSE "retriever"
After(stage) ==
    CASE stage = "chmod"     -> "findLogs"
      [] stage \in {"barrier", "retriever"} -> "errorSpec"
      [] stage = "errorSpec" -> "env"
      [] stage = "env"       -> "config"
      [] stage = "config"    -> "plugins"
      [] stage = "plugins"   -> "port"
      [] stage = "port"      -> "image"
      [] stage = "image"     -> "render"
SimpleStages == {"chmod", "retriever", "errorSpec", "env", "config", "port", "image"}
Stages == SimpleStages \cup
    {"findLogs", "moveLogs", "clean", "install", "barrier", "plugins", "render",
     "done", "failed"}
Statuses(stage) ==
    CASE stage = "port"  -> {1, 10, 137}
      [] OTHER           -> {1, 137}

SignalStatuses == {130, 131, 132, 134, 135, 136, 137, 139, 141, 143}

\* Mutant of ExitCode: the shell's status of a killed child taken for the
\* number of the signal.
ExitCodeOfSignal(stage, status) ==
    CASE stage = "image" -> 254
      [] OTHER -> IF status \in SignalStatuses THEN 128 + status ELSE 1

\* exit_handler, lines 33-76.
ExitCode(stage, status) ==
    CASE stage = "barrier" /\ status = 200 -> 250
      [] stage = "barrier" /\ status = 201 -> 251
      [] stage = "barrier" /\ status = 210 -> 252
      [] stage = "port" /\ status = 10     -> 253
      [] stage = "image"                   -> 254
      [] OTHER -> IF status \in SignalStatuses THEN status ELSE 1

TypeOK ==
    /\ PluginTypeOK
    /\ gang \in BOOLEAN /\ pc \in Stages /\ exit \in 0..NoExit
    /\ failure \in [stage : Stages \cup {"none"}, status : Nat]
    /\ entries \in [Image -> Nat] /\ user \in Seq(Nat)
    /\ logs \in [LogNames -> SUBSET Nat]
    /\ preDirs \subseteq DirNames /\ preDir \in DirNames
    /\ prelog \in [DirNames -> [LogNames -> SUBSET Nat]]

Init ==
    /\ PluginInitState /\ gang \in BOOLEAN
    /\ pc = "chmod" /\ exit = NoExit
    /\ failure = [stage |-> "none", status |-> 0]
    /\ entries = [e \in Image |-> 0] /\ user = <<>>
    /\ logs = [f \in LogNames |-> {}]
    /\ preDirs = {} /\ preDir \in DirNames
    /\ prelog = [d \in DirNames |-> [f \in LogNames |-> {}]]

Advance(stage) == pc' = After(stage) /\ UNCHANGED <<failure, exit>>

Succeed == pc' = "done" /\ exit' = 0 /\ UNCHANGED failure

Fail(stage, status) ==
    /\ pc' = "failed"
    /\ failure' = [stage |-> stage, status |-> status]
    /\ exit' = ExitCode(stage, status)

-----------------------------------------------------------------------------
(* The stages *)

\* A stage that has no effect the model keeps.
RunStage(stage) ==
    /\ pc = stage /\ stage \in SimpleStages
    /\ Advance(stage) \/ \E status \in Statuses(stage) : Fail(stage, status)
    /\ UNCHANGED <<run, gang, policy, pluginVars, fileVars, logVars>>

\* Mutant of FindLogs: one $RANDOM is taken, with mkdir -p.
FindLogsAnyDir ==
    /\ pc = "findLogs"
    /\ IF \A f \in LogNames : logs[f] = {}
         THEN pc' = "clean" /\ UNCHANGED <<preDirs, preDir>>
         ELSE \E d \in DirNames :
                pc' = "moveLogs" /\ preDir' = d /\ preDirs' = preDirs \cup {d}
    /\ UNCHANGED <<run, gang, policy, pluginVars, failure, exit, fileVars, logs,
                   prelog>>

\* Lines 99-107: the regular files of the log directory, init.log excepted.
\* If there are any, a new directory is made for them.
FindLogs ==
    /\ pc = "findLogs"
    /\ IF \A f \in LogNames : logs[f] = {}
         THEN pc' = "clean" /\ UNCHANGED <<preDirs, preDir>>
         ELSE \E d \in DirNames \ preDirs :
                pc' = "moveLogs" /\ preDir' = d /\ preDirs' = preDirs \cup {d}
    /\ UNCHANGED <<run, gang, policy, pluginVars, failure, exit, fileVars, logs,
                   prelog>>

\* Line 108: mv, one file after the other.  It replaces a file of that name.
MoveLog ==
    /\ pc = "moveLogs"
    /\ \/ \E f \in LogNames :
            /\ logs[f] # {}
            /\ prelog' = [prelog EXCEPT ![preDir][f] = logs[f]]
            /\ logs' = [logs EXCEPT ![f] = {}]
            /\ UNCHANGED pc
       \/ /\ \A f \in LogNames : logs[f] = {}
          /\ pc' = "clean" /\ UNCHANGED <<prelog, logs>>
    /\ UNCHANGED <<run, gang, policy, pluginVars, failure, exit, fileVars,
                   preDirs, preDir>>

\* Line 112: find removes the entries one by one and ignores an rm that fails.
\* The generated files are all in runtime.d.
Clean ==
    /\ pc = "clean"
    /\ \/ \E e \in Image :
            /\ entries[e] # 0
            /\ entries' = [entries EXCEPT ![e] = 0]
            /\ IF e = "runtime.d"
                 THEN user' = <<>> /\ script' = NoScripts /\ calls' = Empty
                 ELSE UNCHANGED <<user, script, calls>>
            /\ UNCHANGED pc
       \/ pc' = "install" /\ UNCHANGED <<entries, user, script, calls>>
    /\ UNCHANGED <<run, gang, policy, step, idx, commands, failure, exit, logVars>>

\* Mutant of Install: cp -r, which writes over what is there.
InstallOver ==
    /\ pc = "install"
    /\ \/ \E e \in Image :
            /\ entries[e] # run
            /\ entries' = [entries EXCEPT ![e] = run]
            /\ UNCHANGED <<pc, failure, exit>>
       \/ /\ \A e \in Image : entries[e] = run
          /\ pc' = First /\ UNCHANGED <<failure, exit, entries>>
    /\ UNCHANGED <<run, gang, policy, pluginVars, user, logVars>>

\* Line 116: mv, one directory after the other.  It does not replace one that
\* is not empty: it goes on with the others and fails in the end.
Install ==
    /\ pc = "install"
    /\ \/ \E e \in Image :
            /\ entries[e] = 0
            /\ entries' = [entries EXCEPT ![e] = run]
            /\ UNCHANGED <<pc, failure, exit>>
       \/ /\ \A e \in Image : entries[e] # 0
          /\ IF \A e \in Image : entries[e] = run
               THEN pc' = First /\ UNCHANGED <<failure, exit>>
               ELSE Fail("install", 1)
          /\ UNCHANGED entries
    /\ UNCHANGED <<run, gang, policy, pluginVars, user, logVars>>

\* Lines 131-139: the barrier's output also goes to barrier.log, made anew.
\* The status of the pipeline is that of tee, if tee failed.
RunBarrier ==
    /\ pc = "barrier"
    /\ logs' = [logs EXCEPT !["barrier.log"] = {run}]
    /\ \/ Advance("barrier")
       \/ \E status \in {1, 137, 200, 201, 210} : Fail("barrier", status)
    /\ UNCHANGED <<run, gang, policy, pluginVars, fileVars, preDirs, preDir,
                   prelog>>

\* Line 170.  The initializer may be killed at any of its steps.
RunInitializer ==
    /\ pc = "plugins"
    /\ \/ PluginNext /\ UNCHANGED <<pc, failure, exit>>
       \/ step = "done" /\ Advance("plugins") /\ UNCHANGED pluginVars
       \/ step = "raised" /\ Fail("plugins", 1) /\ UNCHANGED pluginVars
       \/ Fail("plugins", 137) /\ UNCHANGED pluginVars
    /\ UNCHANGED <<run, gang, policy, fileVars, logVars>>

\* Line 184, user_command_renderer.py:33-57: the secrets are rendered into the
\* user's command, which is appended to user.sh.
RenderUserCommand ==
    /\ pc = "render"
    /\ \/ user' = Append(user, run) /\ Succeed
       \/ \E status \in Statuses("render") :
            Fail("render", status) /\ UNCHANGED user
    /\ UNCHANGED <<run, gang, policy, pluginVars, entries, logVars>>

-----------------------------------------------------------------------------
(* The kubelet *)

\* The task container runs and appends to runtime.log.  The directories of
\* multilog are left out: the init container never moves them.
RunTask ==
    /\ pc = "done"
    /\ logs' = [logs EXCEPT !["runtime.log"] = @ \cup {run}]
    /\ UNCHANGED <<run, gang, policy, pluginVars, pc, failure, exit, fileVars, preDirs,
                   preDir, prelog>>

\* The containers are killed and the init container is executed again.
Rerun ==
    /\ pc # "failed" /\ run < MaxRuns
    /\ run' = run + 1
    /\ pc' = "chmod" /\ step' = "idle" /\ exit' = NoExit
    /\ UNCHANGED <<gang, policy, idx, commands, script, calls, failure, fileVars, logVars>>

Next ==
    \/ \E stage \in SimpleStages : RunStage(stage)
    \/ FindLogs \/ MoveLog \/ Clean \/ Install \/ RunBarrier \/ RunInitializer
    \/ RenderUserCommand \/ RunTask \/ Rerun

Spec == Init /\ [][Next]_vars

-----------------------------------------------------------------------------
\* When the task container may start, the work directory is that of this
\* execution and of no other, however many were interrupted before it: the
\* user's command is in user.sh once, each plugin's commands are in its script
\* once, and a plugin is called once if it has a script and else not at all
\* (src/src/init:111-117, and the "a+" of initializer.py and
\* user_command_renderer.py).
WorkspaceIsFresh ==
    pc = "done" =>
        /\ \A e \in Image : entries[e] = run
        /\ user = <<run>>
        /\ \A k \in Kinds :
             /\ \A i \in Plugins : script[k][i] \in {<<>>, <<run>>}
             /\ \A j \in DOMAIN calls[k] :
                  calls[k][j][1] = run /\ Exists(k, calls[k][j][2])
             /\ \A i \in Plugins : Exists(k, i) =>
                  \E j \in DOMAIN calls[k] : calls[k][j] = <<run, i>>

\* Plugins are set up in order and torn down in the opposite order; no plugin
\* is called twice (initializer.py:180-184).
TeardownMirrorsSetup ==
    pc = "done" =>
        /\ \A a, b \in DOMAIN calls["pre"] :
             a < b => calls["pre"][a][2] < calls["pre"][b][2]
        /\ \A a, b \in DOMAIN calls["post"] :
             a < b => calls["post"][a][2] > calls["post"][b][2]

\* What an execution has logged is in the log directory or in one of the prelog
\* directories, and no step takes it from there without keeping it.
Kept(f, r) == r \in logs[f] \/ \E d \in DirNames : r \in prelog[d][f]
KeepsLogs == \A f \in LogNames, r \in 1..run : Kept(f, r) => Kept(f, r)'

\* No log is lost, whenever the init container is interrupted and executed
\* again (src/src/init:98-109, 139).
NoLogIsLost == [][KeepsLogs]_vars

=============================================================================
