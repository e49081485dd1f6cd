-------------------------------- MODULE Ports --------------------------------
(***************************************************************************)
(* The ports of the tasks of one task role that run on the same node, and  *)
(* so share its ports: how they are allotted                               *)
(* (src/src/init.d/framework_parser.py) from the status of the framework,  *)
(* which each init container has got in an earlier step (src/src/init),    *)
(* checked by it (src/src/init.d/port.py), and used later by the task      *)
(* container, when others may have been faster.  A number is hashed from   *)
(* the UID of the pod, which is new for every attempt: the hash is any     *)
(* number it can reach.  Processes of the node outside the role are left   *)
(* out.                                                                    *)
(***************************************************************************)
EXTENDS Integers

CONSTANTS
    Tasks,      \* indices of the tasks
    Labels,     \* names of ports
    Count,      \* per label: how many a task gets
    Start,      \* per label: "start", for a role without schedulePortStart
    PortStart,  \* schedulePortStart
    PortEnd,    \* schedulePortEnd
    Nobody      \* the numbers hashed from "None", when there is no UID

\* The numbers of a label from "start" on: the rest server, which writes
\* the port-scheduling-spec, gives every label a block of its own.
Block(l) == UNION {{Start[l] + Count[l] * t + i : i \in 0..(Count[l] - 1)} : t \in Tasks}

Slots == {s \in Labels \X UNION {0..(Count[l] - 1) : l \in Labels} : s[2] < Count[s[1]]}
Numbers == [Slots -> PortStart..(PortEnd - 1)]

ASSUME PortsAssumption ==
    /\ Tasks \subseteq Nat
    /\ Count \in [Labels -> Nat] /\ Start \in [Labels -> Nat]
    /\ PortStart \in Nat /\ PortEnd \in Nat /\ PortStart < PortEnd
    /\ \A l, m \in Labels : l # m => Block(l) \cap Block(m) = {}
    /\ Nobody \in Numbers

VARIABLES
    hashed,     \* use_port_hash
    gang,       \* GANG_ALLOCATION
    phase,      \* where each task is
    pod,        \* the numbers that the UID of its pod is hashed into
    known,      \* the tasks whose pod's UID is in the status of the framework
    snapshot,   \* per task: framework.json, the numbers of every task by the UID
                \* there
    fresh,      \* pairs of a task and one whose present pod is in its snapshot
    env,        \* per task: the ports it exports for every task, itself included
                \* (PAI_PORT_LIST_<role>_<index>_<label>)
    left,       \* those of its own that port.py has not looked at yet
    listening,  \* pairs of a task and a port it listens on
    held        \* per task: those of the pairs of others that have been
                \* there without a break since its check began

status == <<pod, known, snapshot, fresh>>
vars == <<hashed, gang, phase, status, env, left, listening, held>>

NoUIDs == [u \in Tasks |-> Nobody]
Own(t) == env[t][t]
PortsOf(t) == {Own(t)[s] : s \in Slots}

Init ==
    /\ hashed \in BOOLEAN /\ gang \in BOOLEAN
    /\ phase = [t \in Tasks |-> "none"]
    /\ pod = NoUIDs
    /\ known = {} /\ fresh = {}
    /\ snapshot = [t \in Tasks |-> NoUIDs]
    /\ env = [t \in Tasks |-> NoUIDs]
    /\ left = [t \in Tasks |-> {}]
    /\ listening = {}
    /\ held = [t \in Tasks |-> {}]

-----------------------------------------------------------------------------
(* framework_parser.py                                                      *)

\* Mutants: the base of a task forgets how many ports each task has; the hash is
\* not moved to the start of the range.
SequentialPortByIndex(t, s) == Start[s[1]] + t + s[2]
HashedPortUnmoved(h) == h % (PortEnd - PortStart)

SequentialPort(t, s) == Start[s[1]] + Count[s[1]] * t + s[2]
HashedPort(h) == (h % (PortEnd - PortStart)) + PortStart

\* What one hash may be before it is brought into the range.
Hashes == 0..(PortEnd - PortStart)

\* The framework controller creates a pod for the task, or a new one for a
\* retry: the status of the new attempt has no UID at first.
Create(t) ==
    /\ phase[t] \in {"none", "end"}
    /\ phase' = [phase EXCEPT ![t] = "init"]
    /\ IF hashed
       THEN \E h \in [Slots -> Hashes] :
               pod' = [pod EXCEPT ![t] = [s \in Slots |-> HashedPort(h[s])]]
       ELSE UNCHANGED pod
    /\ known' = known \ {t}
    /\ fresh' = {q \in fresh : q[2] # t}
    /\ UNCHANGED <<hashed, gang, snapshot, env, left, listening, held>>

\* It learns the UID of the pod after it has created it.
Record(t) ==
    /\ phase[t] # "none" /\ t \notin known
    /\ known' = known \cup {t}
    /\ UNCHANGED <<hashed, gang, phase, pod, snapshot, fresh, env, left, listening, held>>

\* init, lines 131-150: framework.json is written by the barrier, which waits
\* for all tasks of the framework, or else fetched as it is.
GetFramework(t) ==
    /\ phase[t] = "init"
    /\ gang => known = Tasks
    /\ phase' = [phase EXCEPT ![t] = "framework"]
    /\ snapshot' = [snapshot EXCEPT ![t] =
                       [u \in Tasks |-> IF u \in known THEN pod[u] ELSE Nobody]]
    /\ fresh' = fresh \cup ({t} \X known)
    /\ UNCHANGED <<hashed, gang, pod, known, env, left, listening, held>>

\* What task t exports for task u, from framework.json.  Mutant: all numbers are
\* hashed from the UID of its own pod.
ExportedFromOwn(t, u) ==
    IF hashed THEN snapshot[t][t] ELSE [s \in Slots |-> SequentialPort(u, s)]
Exported(t, u) ==
    IF hashed THEN snapshot[t][u] ELSE [s \in Slots |-> SequentialPort(u, s)]

\* A later step of init (line 160): other pods may be gone, and others created in
\* their place, since the snapshot.
GenerateEnv(t) ==
    /\ phase[t] = "framework"
    /\ phase' = [phase EXCEPT ![t] = "check"]
    /\ env' = [env EXCEPT ![t] = [u \in Tasks |-> Exported(t, u)]]
    /\ left' = [left EXCEPT ![t] = Slots]
    /\ held' = [held EXCEPT ![t] = listening]
    /\ UNCHANGED <<hashed, gang, status, listening>>

-----------------------------------------------------------------------------
(* port.py                                                                  *)

InUse(p) == \E u \in Tasks : <<u, p>> \in listening

\* Mutants: the numbers already seen are not remembered; only the first port of
\* a label is tried.
ConflictsIfInUse(t, s) == InUse(Own(t)[s])
ConflictsFirstOnly(t, s) ==
    \/ \E r \in Slots \ left[t] : Own(t)[r] = Own(t)[s]
    \/ s[2] = 0 /\ InUse(Own(t)[s])

\* One number of the list: a repeated one, or one that answers on localhost,
\* ends the init container with 10.
Conflicts(t, s) ==
    \/ \E r \in Slots \ left[t] : Own(t)[r] = Own(t)[s]
    \/ InUse(Own(t)[s])

CheckPort(t) ==
    /\ phase[t] = "check"
    /\ \E s \in left[t] :
          /\ left' = [left EXCEPT ![t] = @ \ {s}]
          /\ phase' = IF Conflicts(t, s) THEN [phase EXCEPT ![t] = "conflict"] ELSE phase
    /\ UNCHANGED <<hashed, gang, status, env, listening, held>>

\* Nothing left to look at: the init container goes on to its end, and the
\* task container starts.
StartTask(t) ==
    /\ phase[t] = "check" /\ left[t] = {}
    /\ phase' = [phase EXCEPT ![t] = "run"]
    /\ UNCHANGED <<hashed, gang, status, env, left, listening, held>>

-----------------------------------------------------------------------------
(* The task and its retries                                                 *)

\* The user's process, or the sshd of the ssh plugin, binds one of its ports
\* long after the check; a bind fails when another process has the port.
Bind(t) ==
    /\ phase[t] = "run"
    /\ \E p \in PortsOf(t) :
          /\ <<t, p>> \notin listening
          /\ IF InUse(p)
             THEN phase' = [phase EXCEPT ![t] = "clash"] /\ UNCHANGED listening
             ELSE listening' = listening \cup {<<t, p>>} /\ UNCHANGED phase
    /\ UNCHANGED <<hashed, gang, status, env, left, held>>

\* The containers of a pod end, for whatever reason, and release its ports; its
\* files go with it.
End(t) ==
    /\ phase[t] \notin {"none", "end"}
    /\ phase' = [phase EXCEPT ![t] = "end"]
    /\ snapshot' = [snapshot EXCEPT ![t] = NoUIDs]
    /\ fresh' = {q \in fresh : q[1] # t}
    /\ env' = [env EXCEPT ![t] = NoUIDs]
    /\ left' = [left EXCEPT ![t] = {}]
    /\ listening' = {q \in listening : q[1] # t}
    /\ held' = [u \in Tasks |-> IF u = t THEN {} ELSE {q \in held[u] : q[1] # t}]
    /\ UNCHANGED <<hashed, gang, pod, known>>

Next == \E t \in Tasks :
    \/ Create(t) \/ Record(t) \/ GetFramework(t) \/ GenerateEnv(t)
    \/ CheckPort(t) \/ StartTask(t) \/ Bind(t) \/ End(t)

Spec == Init /\ [][Next]_vars

-----------------------------------------------------------------------------
(* Properties                                                               *)

Exports(t) == phase[t] \in {"check", "run", "conflict", "clash"}

\* Every variable has its type, and a hashed number lies in the range the
\* scheduler reserved (framework_parser.py: generate_hashed_ports_num).
TypeOK ==
    /\ hashed \in BOOLEAN /\ gang \in BOOLEAN
    /\ phase \in [Tasks -> {"none", "init", "framework", "check", "run", "conflict", "clash", "end"}]
    /\ pod \in [Tasks -> Numbers] /\ known \subseteq Tasks
    /\ snapshot \in [Tasks -> [Tasks -> Numbers]] /\ fresh \subseteq Tasks \X Tasks
    /\ env \in [Tasks -> [Tasks -> [Slots -> Nat]]]
    /\ left \in [Tasks -> SUBSET Slots]
    /\ listening \subseteq {q \in Tasks \X Nat : Exports(q[1]) /\ q[2] \in PortsOf(q[1])}
    /\ held \in [Tasks -> SUBSET listening]

\* A task container that starts has a different number for every port it asked
\* for, although a hash may give one number twice (port.py: check_port_list_env).
DistinctPorts ==
    \A t \in Tasks : phase[t] = "run" =>
        \A r, s \in Slots : r # s => Own(t)[r] # Own(t)[s]

\* Tasks of a role whose ports are numbered by task index never meet: no check
\* of theirs fails and no bind of theirs fails, in whatever order they check,
\* bind, end and are retried (framework_parser.py: generate_seq_ports_num).
SequentialTasksNeverMeet ==
    ~hashed => \A t \in Tasks : phase[t] \notin {"conflict", "clash"}

\* The check is made before the task uses its ports, so that two tasks may still
\* be given the same number; but a port that another held through the whole of
\* the check is never one of a task that starts (port.py: check_port).
HoldersRefused ==
    \A t \in Tasks : phase[t] \in {"run", "clash"} =>
        \A q \in held[t] : q[2] \notin PortsOf(t)

\* The ports that a task exports for another are those the other has, however
\* long ago it got the framework, if the pod it saw there is still the other's
\* pod and the other saw itself; of a gang the other always did.  Sequential
\* ones agree whatever was seen (framework_parser.py 117-150, init 131-160).
PeersAgree ==
    \A t, u \in Tasks : Exports(t) /\ Exports(u) =>
        \/ hashed /\ <<t, u>> \notin fresh
        \/ hashed /\ ~ gang /\ <<u, u>> \notin fresh
        \/ env[t][u] = Own(u)

=============================================================================
