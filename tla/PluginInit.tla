----------------------------- MODULE PluginInit -----------------------------
(***************************************************************************)
(* src/src/init.d/initializer.py, the stage of the init container that     *)
(* prepares the runtime plugins.  Each plugin has an init script of its    *)
(* own, which may append commands to two files, plugin_pre<i>.sh and       *)
(* plugin_post<i>.sh (src/src/plugins/plugin_utils.py).  A plugin whose    *)
(* file exists afterwards is called from precommands.sh, in the order of   *)
(* the plugins, or from postcommands.sh, in the opposite order.            *)
(*                                                                         *)
(* Every file is opened for appending.  They are in the work directory of  *)
(* the pod, which outlives the container, so each entry of a file is       *)
(* marked with the execution of the init container that wrote it.          *)
(***************************************************************************)
EXTENDS Naturals, Sequences

CONSTANT N    \* number of plugins of the task role (collect_plugin_configs)

ASSUME NAssumption == N \in Nat

Plugins == 1..N
Kinds == {"pre", "post"}

\* The values of failurePolicy that make a difference: run_script compares
\* with "ignore", PluginHelper with the value in lower case.
Policies == {"fail", "ignore", "Ignore"}

VARIABLES
    run,      \* number of the execution of the init container
    policy,   \* failurePolicy of every plugin
    step,     \* where initializer.py is
    idx,      \* plugin_index, counted from 1
    commands, \* per kind: the plugins to be called, in order
    script,   \* per kind and plugin: the executions that appended to its file
    calls     \* per kind: contents of precommands.sh or postcommands.sh

pluginVars == <<step, idx, commands, script, calls>>

Empty == [k \in Kinds |-> <<>>]
NoScripts == [k \in Kinds |-> [i \in Plugins |-> <<>>]]
Steps == {"idle", "run", "include", "writePre", "writePost", "done", "raised"}

PluginTypeOK ==
    /\ run \in Nat /\ policy \in [Plugins -> Policies]
    /\ step \in Steps /\ idx \in 1..(N + 1)
    /\ commands \in [Kinds -> Seq(Plugins)]
    /\ script \in [Kinds -> [Plugins -> Seq(Nat)]]
    /\ calls \in [Kinds -> Seq(Nat \X Plugins)]

PluginInitState ==
    /\ run = 1 /\ policy \in [Plugins -> Policies]
    /\ step = "idle" /\ idx = 1 /\ commands = Empty
    /\ script = NoScripts /\ calls = Empty

\* main(), lines 235-251: the inputs are read; a bad file raises.
StartPlugins ==
    /\ step = "idle"
    /\ step' \in {"run", "raised"}
    /\ idx' = 1 /\ commands' = Empty
    /\ UNCHANGED <<script, calls>>

\* Lines 150-178: the plugin's parameters are rendered and its init script
\* runs.  It may fail after it has written; run_script raises unless the
\* policy is exactly "ignore".  An error in the initializer itself, as a
\* reference to a parameter that is not there, raises whatever the policy.
RunPlugin ==
    /\ step = "run" /\ idx <= N
    /\ \/ \E written \in SUBSET Kinds, fails \in BOOLEAN :
            /\ script' = [k \in Kinds |->
                 IF k \in written THEN [script[k] EXCEPT ![idx] = Append(@, run)]
                                  ELSE script[k]]
            /\ step' = IF fails /\ policy[idx] # "ignore"
                         THEN "raised" ELSE "include"
       \/ step' = "raised" /\ UNCHANGED script
    /\ UNCHANGED <<idx, commands, calls>>

\* Lines 180-184: a file that exists is called.  Setup runs in the order of
\* the plugins, teardown in the opposite order.
Exists(k, i) == script[k][i] # <<>>

\* Mutant of IncludePlugin: teardown in the order of the plugins, too.
IncludeInOrder ==
    /\ step = "include"
    /\ commands' =
         [k \in Kinds |-> IF Exists(k, idx) THEN Append(commands[k], idx)
                                            ELSE commands[k]]
    /\ idx' = idx + 1
    /\ step' = "run"
    /\ UNCHANGED <<script, calls>>

IncludePlugin ==
    /\ step = "include"
    /\ commands' =
         [pre  |-> IF Exists("pre", idx) THEN Append(commands["pre"], idx)
                                         ELSE commands["pre"],
          post |-> IF Exists("post", idx) THEN <<idx>> \o commands["post"]
                                          ELSE commands["post"]]
    /\ idx' = idx + 1
    /\ step' = "run"
    /\ UNCHANGED <<script, calls>>

EndLoop ==
    /\ step = "run" /\ idx > N
    /\ step' = "writePre"
    /\ UNCHANGED <<idx, commands, script, calls>>

Lines(k) == [j \in 1..Len(commands[k]) |-> <<run, commands[k][j]>>]

\* Lines 259-263: both files are opened with "a+".
WriteCalls(k, from, to) ==
    /\ step = from
    /\ calls' = [calls EXCEPT ![k] = @ \o Lines(k)]
    /\ step' = to
    /\ UNCHANGED <<idx, commands, script>>

WritePre  == WriteCalls("pre", "writePre", "writePost")
WritePost == WriteCalls("post", "writePost", "done")

PluginNext ==
    StartPlugins \/ RunPlugin \/ IncludePlugin \/ EndLoop \/ WritePre \/ WritePost
=============================================================================
