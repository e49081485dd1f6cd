------------------------- MODULE InitChecks_proofs --------------------------
(***************************************************************************)
(* Proofs about what the init container decides before the user's command  *)
(* may start.  Ports, for any tasks, labels, counts and range: what a task *)
(* exports for its peers, that its ports are distinct, that a port held    *)
(* through a check is refused, and that the blocks of sequential ports keep *)
(* tasks apart.  ImageChecker, for any set of jobs: its types, and what its *)
(* verdict says of the image, in whatever order the registry answers,      *)
(* refuses or breaks down.                                                 *)
(***************************************************************************)
EXTENDS Ports, ImageChecker, TLAPS

Sequential(t) == [s \in Slots |-> SequentialPort(t, s)]
Phases == {"none", "init", "framework", "check", "run", "conflict", "clash", "end"}

\* What a task has got and exported: the numbers in its snapshot are those of
\* the present pods that it saw, every task of a gang saw itself, and what it
\* exports are the numbers in the snapshot, or those by index.
EnvInv(t) ==
    /\ \A u \in Tasks : <<t, u>> \in fresh =>
          phase[t] \notin {"none", "init", "end"} /\ snapshot[t][u] = pod[u]
    /\ gang /\ phase[t] \notin {"none", "init", "end"} => <<t, t>> \in fresh
    /\ Exports(t) => \A u \in Tasks :
          env[t][u] = IF hashed THEN snapshot[t][u] ELSE Sequential(u)

\* What the check has found so far.
CheckInv(t) ==
    /\ phase[t] \in {"check", "run", "clash"} =>
         /\ \A r, s \in Slots \ left[t] : r # s => Own(t)[r] # Own(t)[s]
         /\ \A q \in held[t] : \A s \in Slots \ left[t] : q[2] # Own(t)[s]
    /\ phase[t] \in {"run", "clash"} => left[t] = {}

StatusTypes ==
    /\ hashed \in BOOLEAN /\ gang \in BOOLEAN
    /\ pod \in [Tasks -> Numbers] /\ known \subseteq Tasks
    /\ snapshot \in [Tasks -> [Tasks -> Numbers]] /\ fresh \subseteq Tasks \X Tasks
    /\ env \in [Tasks -> [Tasks -> [Slots -> Nat]]]

PortsInv ==
    /\ StatusTypes
    /\ phase \in [Tasks -> Phases]
    /\ left \in [Tasks -> SUBSET Slots]
    /\ listening \subseteq Tasks \X Nat
    /\ \A q \in listening : phase[q[1]] \in {"run", "clash"} /\ q[2] \in PortsOf(q[1])
    /\ held \in [Tasks -> SUBSET listening]
    /\ \A t \in Tasks : EnvInv(t) /\ CheckInv(t)

-----------------------------------------------------------------------------
(* Numbers                                                                  *)

LEMMA SlotTypes ==
    \A s \in Slots : s = <<s[1], s[2]>> /\ s[1] \in Labels /\ s[2] \in 0..(Count[s[1]] - 1)
<1> TAKE s \in Slots
<1>1. s \in Labels \X UNION {0..(Count[l] - 1) : l \in Labels} /\ s[2] < Count[s[1]]
  BY DEF Slots
<1>2. PICK l \in Labels : s[2] \in 0..(Count[l] - 1)
  BY <1>1
<1> QED BY <1>1, <1>2, PortsAssumption

\* A hash brought into the range is in the range.
LEMMA HashedInRange == \A h \in Nat : HashedPort(h) \in PortStart..(PortEnd - 1)
<1> TAKE h \in Nat
<1> DEFINE n == PortEnd - PortStart
<1>1. n \in Nat /\ n > 0
  BY PortsAssumption
<1>2. h % n \in 0..(n - 1)
  <2> HIDE DEF n
  <2> QED BY <1>1
<1> QED BY <1>2, PortsAssumption DEF HashedPort

LEMMA SequentialIsNat == \A t \in Tasks : Sequential(t) \in [Slots -> Nat]
<1> SUFFICES ASSUME NEW t \in Tasks, NEW s \in Slots PROVE SequentialPort(t, s) \in Nat
  BY DEF Sequential
<1>1. s[1] \in Labels /\ s[2] \in Nat
  BY SlotTypes, PortsAssumption
<1>2. Start[s[1]] \in Nat /\ Count[s[1]] \in Nat /\ t \in Nat
  BY <1>1, PortsAssumption
<1>3. \A a, b \in Nat : a * b \in Nat
  OBVIOUS
<1> QED BY <1>1, <1>2, <1>3 DEF SequentialPort

\* Within a block, the index of the task and that of the port are those of a
\* division by the count.
LEMMA DivisionIsUnique ==
    ASSUME NEW c \in Nat, NEW t \in Nat, NEW u \in Nat,
           NEW i \in 0..(c - 1), NEW j \in 0..(c - 1), c * t + i = c * u + j
    PROVE  t = u /\ i = j
<1>1. \A a, b \in Nat : a < b => c * b >= c * a + c
  <2> SUFFICES ASSUME NEW a \in Nat, NEW b \in Nat, a < b PROVE c * b >= c * a + c
    OBVIOUS
  <2> DEFINE d == b - a - 1
  <2>1. d \in Nat /\ b = a + 1 + d
    OBVIOUS
  <2>2. c * b = c * a + c + c * d
    BY <2>1
  <2>3. c * d \in Nat /\ c * a \in Nat
    BY <2>1
  <2> QED BY <2>2, <2>3
<1>2. c * t \in Nat /\ c * u \in Nat
  OBVIOUS
<1>3. ~(t < u)
  BY <1>1, <1>2
<1>4. ~(u < t)
  BY <1>1, <1>2
<1>5. t = u
  BY <1>3, <1>4
<1> QED BY <1>5, <1>2

LEMMA InBlock == \A t \in Tasks : \A s \in Slots : SequentialPort(t, s) \in Block(s[1])
<1> TAKE t \in Tasks
<1> TAKE s \in Slots
<1>1. s[2] \in 0..(Count[s[1]] - 1)
  BY SlotTypes
<1> QED BY <1>1 DEF SequentialPort, Block

\* No two tasks have a sequential port in common, and no task has one twice.
LEMMA SequentialPortsDiffer ==
    ASSUME NEW t \in Tasks, NEW u \in Tasks, NEW r \in Slots, NEW s \in Slots,
           Sequential(t)[r] = Sequential(u)[s]
    PROVE  t = u /\ r = s
<1>1. SequentialPort(t, r) = SequentialPort(u, s)
  BY DEF Sequential
<1>2. r[1] = s[1]
  BY <1>1, InBlock, SlotTypes, PortsAssumption
<1>3. /\ t \in Nat /\ u \in Nat /\ Count[s[1]] \in Nat /\ Start[s[1]] \in Nat
      /\ r[2] \in 0..(Count[s[1]] - 1) /\ s[2] \in 0..(Count[s[1]] - 1)
  BY <1>2, SlotTypes, PortsAssumption
<1>4. Count[s[1]] * t + r[2] = Count[s[1]] * u + s[2]
  <2>1. Count[s[1]] * t \in Nat /\ Count[s[1]] * u \in Nat
    BY <1>3
  <2> QED BY <1>1, <1>2, <1>3, <2>1 DEF SequentialPort
<1>5. t = u /\ r[2] = s[2]
  <2> DEFINE c == Count[s[1]]
             i == r[2]
             j == s[2]
  <2>1. c \in Nat /\ i \in 0..(c - 1) /\ j \in 0..(c - 1) /\ c * t + i = c * u + j
    BY <1>3, <1>4
  <2> HIDE DEF c, i, j
  <2>2. t = u /\ i = j
    BY <1>3, <2>1, DivisionIsUnique
  <2> QED BY <2>2 DEF i, j
<1> QED BY <1>2, <1>5, SlotTypes

-----------------------------------------------------------------------------
(* The invariant                                                            *)

LEMMA NumbersAreNat == \A n \in Numbers : n \in [Slots -> Nat]
<1>1. PortStart..(PortEnd - 1) \subseteq Nat
  BY PortsAssumption
<1> QED BY <1>1 DEF Numbers

LEMMA NoUIDsTypes == NoUIDs \in [Tasks -> Numbers] /\ NoUIDs \in [Tasks -> [Slots -> Nat]]
  BY PortsAssumption, NumbersAreNat DEF NoUIDs

\* What a task exports for itself when its ports are numbered by index.
LEMMA OwnPorts ==
    ASSUME PortsInv, NEW t \in Tasks, Exports(t), ~ hashed PROVE Own(t) = Sequential(t)
  BY DEF PortsInv, StatusTypes, EnvInv, Own

LEMMA PortsInit == Init => PortsInv
  BY PortsAssumption, NoUIDsTypes DEF Init, PortsInv, StatusTypes, EnvInv, CheckInv, Exports, Phases, NoUIDs

\* The snapshots that had the pod before this one are fresh no more.
LEMMA CreateInv == ASSUME PortsInv, NEW t \in Tasks, Create(t) PROVE PortsInv'
<1> USE DEF PortsInv, StatusTypes
<1>1. /\ pod' \in [Tasks -> Numbers]
      /\ \A u \in Tasks \ {t} : pod'[u] = pod[u]
  <2>1. CASE hashed
    <3>1. PICK h \in [Slots -> Hashes] :
             pod' = [pod EXCEPT ![t] = [s \in Slots |-> HashedPort(h[s])]]
      BY <2>1 DEF Create
    <3>2. \A s \in Slots : h[s] \in Nat
      BY PortsAssumption DEF Hashes
    <3>3. [s \in Slots |-> HashedPort(h[s])] \in Numbers
      BY <3>2, HashedInRange DEF Numbers
    <3> QED BY <3>1, <3>3
  <2>2. CASE ~hashed
    BY <2>2 DEF Create
  <2> QED BY <2>1, <2>2
<1>2. /\ phase' = [phase EXCEPT ![t] = "init"] /\ phase[t] \in {"none", "end"}
      /\ fresh' = {q \in fresh : q[2] # t} /\ known' = known \ {t}
      /\ UNCHANGED <<hashed, gang, snapshot, env, left, listening, held>>
  BY DEF Create
<1>3. \A v \in Tasks : EnvInv(v)'
  <2> SUFFICES ASSUME NEW v \in Tasks PROVE EnvInv(v)'
    OBVIOUS
  <2>1. \A u \in Tasks : <<v, u>> \in fresh' => <<v, u>> \in fresh /\ u # t /\ v # t
    BY <1>2 DEF EnvInv
  <2>2. \A u \in Tasks : u # t /\ <<v, u>> \in fresh => <<v, u>> \in fresh'
    BY <1>2
  <2>3. CASE v = t
    BY <1>2, <2>1, <2>3 DEF EnvInv, Exports
  <2>4. CASE v # t
    BY <1>1, <1>2, <2>1, <2>2, <2>4 DEF EnvInv, Exports
  <2> QED BY <2>3, <2>4
<1>4. \A q \in listening : q[1] # t /\ phase'[q[1]] = phase[q[1]]
  BY <1>2
<1>5. \A v \in Tasks : CheckInv(v)' /\ PortsOf(v)' = PortsOf(v)
  BY <1>2 DEF CheckInv, Own, PortsOf
<1> QED BY <1>1, <1>2, <1>3, <1>4, <1>5 DEF Phases

LEMMA RecordInv == ASSUME PortsInv, NEW t \in Tasks, Record(t) PROVE PortsInv'
  BY DEF PortsInv, StatusTypes, Record, EnvInv, CheckInv, Exports, Own, PortsOf

LEMMA GetFrameworkInv == ASSUME PortsInv, NEW t \in Tasks, GetFramework(t) PROVE PortsInv'
<1>1. /\ phase' = [phase EXCEPT ![t] = "framework"] /\ phase[t] = "init"
      /\ gang => known = Tasks
      /\ fresh' = fresh \cup ({t} \X known)
      /\ UNCHANGED <<hashed, gang, pod, known, env, left, listening, held>>
  BY DEF GetFramework
<1>2. PICK got \in [Tasks -> Numbers] :
        snapshot' = [snapshot EXCEPT ![t] = got] /\ \A u \in known : got[u] = pod[u]
  <2> DEFINE g == [u \in Tasks |-> IF u \in known THEN pod[u] ELSE Nobody]
  <2>1. g \in [Tasks -> Numbers] /\ \A u \in known : g[u] = pod[u]
    BY PortsAssumption DEF PortsInv, StatusTypes
  <2> QED BY <2>1 DEF GetFramework
<1>3. /\ DOMAIN snapshot = Tasks /\ DOMAIN phase = Tasks
      /\ fresh \subseteq Tasks \X Tasks /\ known \subseteq Tasks
  BY DEF PortsInv, StatusTypes
<1>4. /\ snapshot'[t] = got /\ phase'[t] = "framework"
      /\ \A v \in Tasks \ {t} : snapshot'[v] = snapshot[v] /\ phase'[v] = phase[v]
  BY <1>1, <1>2, <1>3
<1>5. \A v \in Tasks : EnvInv(v)'
  <2> SUFFICES ASSUME NEW v \in Tasks PROVE EnvInv(v)'
    OBVIOUS
  <2>1. EnvInv(v)
    BY DEF PortsInv
  <2>2. CASE v = t
    <3>1. \A u \in Tasks : <<t, u>> \in fresh' <=> u \in known
      BY <1>1, <2>1, <2>2 DEF EnvInv
    <3> QED BY <1>1, <1>2, <1>4, <2>2, <3>1 DEF EnvInv, Exports
  <2>3. CASE v # t
    <3>1. \A u \in Tasks : <<v, u>> \in fresh' <=> <<v, u>> \in fresh
      BY <1>1, <2>3
    <3> QED BY <1>1, <1>4, <2>1, <2>3, <3>1 DEF EnvInv, Exports
  <2> QED BY <2>2, <2>3
<1>6. \A q \in listening : q[1] # t /\ phase'[q[1]] = phase[q[1]]
  BY <1>1, <1>4 DEF PortsInv
<1>7. \A v \in Tasks : CheckInv(v)' /\ PortsOf(v)' = PortsOf(v)
  <2> SUFFICES ASSUME NEW v \in Tasks PROVE CheckInv(v)' /\ PortsOf(v)' = PortsOf(v)
    OBVIOUS
  <2>1. phase'[v] \in {"check", "run", "clash"} => phase'[v] = phase[v]
    BY <1>4
  <2> QED BY <1>1, <2>1 DEF PortsInv, CheckInv, Own, PortsOf
<1>8. StatusTypes'
  <2>1. fresh' \subseteq Tasks \X Tasks
    BY <1>1, <1>3
  <2>2. snapshot' \in [Tasks -> [Tasks -> Numbers]]
    BY <1>1, <1>2 DEF PortsInv, StatusTypes
  <2> QED BY <1>1, <2>1, <2>2 DEF PortsInv, StatusTypes
<1> QED BY <1>1, <1>5, <1>6, <1>7, <1>8 DEF PortsInv, Phases

LEMMA GenerateEnvInv == ASSUME PortsInv, NEW t \in Tasks, GenerateEnv(t) PROVE PortsInv'
<1> USE DEF PortsInv, StatusTypes
<1> DEFINE exported == [u \in Tasks |-> Exported(t, u)]
<1>1. /\ phase' = [phase EXCEPT ![t] = "check"] /\ phase[t] = "framework"
      /\ env' = [env EXCEPT ![t] = exported]
      /\ left' = [left EXCEPT ![t] = Slots] /\ held' = [held EXCEPT ![t] = listening]
      /\ UNCHANGED <<hashed, gang, pod, known, snapshot, fresh, listening>>
  BY DEF GenerateEnv, status
<1>2. \A u \in Tasks : exported[u] = IF hashed THEN snapshot[t][u] ELSE Sequential(u)
  BY DEF Exported, Sequential
<1>3. exported \in [Tasks -> [Slots -> Nat]]
  <2>1. ASSUME NEW u \in Tasks PROVE exported[u] \in [Slots -> Nat]
    <3>1. snapshot[t][u] \in Numbers
      OBVIOUS
    <3>2. snapshot[t][u] \in [Slots -> Nat] /\ Sequential(u) \in [Slots -> Nat]
      BY <3>1, NumbersAreNat, SequentialIsNat
    <3> HIDE DEF exported
    <3> QED BY <1>2, <3>2
  <2> QED BY <2>1
<1> HIDE DEF exported
<1>4. \A v \in Tasks : EnvInv(v)'
  <2> SUFFICES ASSUME NEW v \in Tasks PROVE EnvInv(v)'
    OBVIOUS
  <2>1. CASE v = t
    BY <1>1, <1>2, <2>1 DEF EnvInv, Exports
  <2>2. CASE v # t
    BY <1>1, <2>2 DEF EnvInv, Exports
  <2> QED BY <2>1, <2>2
<1>5. \A q \in listening : q[1] # t /\ phase'[q[1]] = phase[q[1]]
  BY <1>1
<1>6. \A v \in Tasks \ {t} : Own(v)' = Own(v) /\ PortsOf(v)' = PortsOf(v)
  BY <1>1 DEF Own, PortsOf
<1>7. \A v \in Tasks : CheckInv(v)'
  BY <1>1, <1>6 DEF CheckInv
<1>8. \A q \in listening : q[1] \in Tasks
  OBVIOUS
<1>9. env' \in [Tasks -> [Tasks -> [Slots -> Nat]]] /\ held' \in [Tasks -> SUBSET listening]
  BY <1>1, <1>3
<1> QED BY <1>1, <1>4, <1>5, <1>6, <1>7, <1>8, <1>9 DEF Phases

LEMMA CheckPortInv == ASSUME PortsInv, NEW t \in Tasks, CheckPort(t) PROVE PortsInv'
<1> USE DEF PortsInv
<1>1. PICK s \in left[t] :
         /\ left' = [left EXCEPT ![t] = @ \ {s}]
         /\ phase' = IF Conflicts(t, s) THEN [phase EXCEPT ![t] = "conflict"] ELSE phase
  BY DEF CheckPort
<1>2. phase[t] = "check" /\ UNCHANGED <<hashed, gang, pod, known, snapshot, fresh, env, listening, held>>
  BY DEF CheckPort, status
<1>7. StatusTypes'
  BY <1>2 DEF StatusTypes
<1>3. \A v \in Tasks : Own(v)' = Own(v) /\ PortsOf(v)' = PortsOf(v) /\ (Exports(v)' <=> Exports(v))
  BY <1>1, <1>2 DEF Own, PortsOf, Exports
<1>4. \A v \in Tasks : EnvInv(v)'
  <2> SUFFICES ASSUME NEW v \in Tasks PROVE EnvInv(v)'
    OBVIOUS
  <2>1. phase'[v] \notin {"none", "init", "end"} <=> phase[v] \notin {"none", "init", "end"}
    BY <1>1, <1>2
  <2> QED BY <1>2, <1>3, <2>1 DEF EnvInv
<1>5. \A v \in Tasks : CheckInv(v)'
  <2> SUFFICES ASSUME NEW v \in Tasks PROVE CheckInv(v)'
    OBVIOUS
  <2>1. CASE v # t
    BY <1>1, <1>2, <1>3, <2>1 DEF CheckInv
  <2>2. CASE v = t /\ Conflicts(t, s)
    BY <1>1, <2>2 DEF CheckInv
  <2>3. CASE v = t /\ ~Conflicts(t, s)
    <3>1. \A r \in Slots \ left[t] : Own(t)[r] # Own(t)[s]
      BY <2>3 DEF Conflicts
    <3>2. \A q \in held[t] : q[2] # Own(t)[s]
      <4>1. \A q \in held[t] : q[1] \in Tasks /\ <<q[1], q[2]>> \in listening
        OBVIOUS
      <4> QED BY <2>3, <4>1 DEF Conflicts, InUse
    <3>3. left'[t] = left[t] \ {s} /\ phase'[t] = "check" /\ s \in Slots
      BY <1>1, <1>2, <2>3
    <3>4. Slots \ left'[t] = (Slots \ left[t]) \cup {s}
      BY <3>3
    <3> QED BY <3>1, <3>2, <3>3, <3>4, <1>2, <1>3, <2>3 DEF CheckInv
  <2> QED BY <2>1, <2>2, <2>3
<1>6. \A q \in listening : phase'[q[1]] = phase[q[1]]
  BY <1>1, <1>2
<1> QED BY <1>1, <1>2, <1>3, <1>4, <1>5, <1>6, <1>7 DEF Phases

LEMMA StartTaskInv == ASSUME PortsInv, NEW t \in Tasks, StartTask(t) PROVE PortsInv'
<1> USE DEF PortsInv
<1>1. /\ phase[t] = "check" /\ left[t] = {} /\ phase' = [phase EXCEPT ![t] = "run"]
      /\ UNCHANGED <<hashed, gang, pod, known, snapshot, fresh, env, left, listening, held>>
  BY DEF StartTask, status
<1>4. StatusTypes'
  BY <1>1 DEF StatusTypes
<1>2. \A v \in Tasks : Own(v)' = Own(v) /\ PortsOf(v)' = PortsOf(v) /\ (Exports(v)' <=> Exports(v))
  BY <1>1 DEF Own, PortsOf, Exports
<1>3. \A v \in Tasks : EnvInv(v)'
  <2> SUFFICES ASSUME NEW v \in Tasks PROVE EnvInv(v)'
    OBVIOUS
  <2>1. phase'[v] \notin {"none", "init", "end"} <=> phase[v] \notin {"none", "init", "end"}
    BY <1>1
  <2> QED BY <1>1, <1>2, <2>1 DEF EnvInv
<1>5. \A v \in Tasks : CheckInv(v)'
  BY <1>1, <1>2 DEF CheckInv
<1> QED BY <1>1, <1>2, <1>3, <1>4, <1>5 DEF Phases

LEMMA BindInv == ASSUME PortsInv, NEW t \in Tasks, Bind(t) PROVE PortsInv'
<1> USE DEF PortsInv
<1>1. PICK p \in PortsOf(t) :
         IF InUse(p) THEN phase' = [phase EXCEPT ![t] = "clash"] /\ UNCHANGED listening
                     ELSE listening' = listening \cup {<<t, p>>} /\ UNCHANGED phase
  BY DEF Bind
<1>2. phase[t] = "run" /\ UNCHANGED <<hashed, gang, pod, known, snapshot, fresh, env, left, held>>
  BY DEF Bind, status
<1>7. StatusTypes'
  BY <1>2 DEF StatusTypes
<1>3. \A v \in Tasks : Own(v)' = Own(v) /\ PortsOf(v)' = PortsOf(v) /\ (Exports(v)' <=> Exports(v))
  BY <1>1, <1>2 DEF Own, PortsOf, Exports
<1>4. \A v \in Tasks : EnvInv(v)'
  <2> SUFFICES ASSUME NEW v \in Tasks PROVE EnvInv(v)'
    OBVIOUS
  <2>1. phase'[v] \notin {"none", "init", "end"} <=> phase[v] \notin {"none", "init", "end"}
    BY <1>1, <1>2
  <2> QED BY <1>1, <1>2, <1>3, <2>1 DEF EnvInv
<1>9. \A v \in Tasks : CheckInv(v)'
  BY <1>1, <1>2, <1>3 DEF CheckInv
<1>5. p \in Nat
  BY DEF StatusTypes, Own, PortsOf
<1>6. listening \subseteq listening' /\ listening' \subseteq Tasks \X Nat
  BY <1>1, <1>5
<1>8. \A q \in listening' : phase'[q[1]] \in {"run", "clash"} /\ q[2] \in PortsOf(q[1])'
  <2>1. \A q \in listening : phase'[q[1]] \in {"run", "clash"} /\ q[2] \in PortsOf(q[1])'
    BY <1>1, <1>2, <1>3
  <2> QED BY <1>1, <1>2, <1>3, <2>1
<1> QED BY <1>1, <1>2, <1>4, <1>6, <1>7, <1>8, <1>9 DEF Phases

LEMMA EndInv == ASSUME PortsInv, NEW t \in Tasks, End(t) PROVE PortsInv'
<1> USE DEF PortsInv, StatusTypes
<1>1. /\ phase[t] \notin {"none", "end"} /\ phase' = [phase EXCEPT ![t] = "end"]
      /\ snapshot' = [snapshot EXCEPT ![t] = NoUIDs] /\ env' = [env EXCEPT ![t] = NoUIDs]
      /\ fresh' = {q \in fresh : q[1] # t} /\ left' = [left EXCEPT ![t] = {}]
      /\ listening' = {q \in listening : q[1] # t}
      /\ held' = [u \in Tasks |-> IF u = t THEN {} ELSE {q \in held[u] : q[1] # t}]
      /\ UNCHANGED <<hashed, gang, pod, known>>
  BY DEF End
<1>2. \A v \in Tasks \ {t} : /\ Own(v)' = Own(v) /\ PortsOf(v)' = PortsOf(v)
                             /\ phase'[v] = phase[v] /\ snapshot'[v] = snapshot[v]
                             /\ env'[v] = env[v] /\ left'[v] = left[v]
  BY <1>1 DEF Own, PortsOf
<1>3. \A v \in Tasks : EnvInv(v)'
  <2> SUFFICES ASSUME NEW v \in Tasks PROVE EnvInv(v)'
    OBVIOUS
  <2>1. \A u \in Tasks : <<v, u>> \in fresh' <=> <<v, u>> \in fresh /\ v # t
    BY <1>1
  <2>2. CASE v = t
    BY <1>1, <2>1, <2>2 DEF EnvInv, Exports
  <2>3. CASE v # t
    BY <1>1, <1>2, <2>1, <2>3 DEF EnvInv, Exports
  <2> QED BY <2>2, <2>3
<1>4. \A v \in Tasks : CheckInv(v)'
  BY <1>1, <1>2 DEF CheckInv
<1>5. \A q \in listening' : q \in listening /\ q[1] \in Tasks \ {t}
  BY <1>1
<1>6. held' \in [Tasks -> SUBSET listening']
  BY <1>1
<1>7. snapshot' \in [Tasks -> [Tasks -> Numbers]] /\ env' \in [Tasks -> [Tasks -> [Slots -> Nat]]]
  BY <1>1, NoUIDsTypes
<1> QED BY <1>1, <1>2, <1>3, <1>4, <1>5, <1>6, <1>7 DEF Phases

LEMMA PortsStep == PortsInv /\ [Next]_vars => PortsInv'
<1> SUFFICES ASSUME PortsInv, [Next]_vars PROVE PortsInv'
  OBVIOUS
<1>1. ASSUME NEW t \in Tasks, Create(t) PROVE PortsInv'
  BY <1>1, CreateInv
<1>2. ASSUME NEW t \in Tasks, GenerateEnv(t) PROVE PortsInv'
  BY <1>2, GenerateEnvInv
<1>3. ASSUME NEW t \in Tasks, CheckPort(t) PROVE PortsInv'
  BY <1>3, CheckPortInv
<1>4. ASSUME NEW t \in Tasks, StartTask(t) PROVE PortsInv'
  BY <1>4, StartTaskInv
<1>5. ASSUME NEW t \in Tasks, Bind(t) PROVE PortsInv'
  BY <1>5, BindInv
<1>6. ASSUME NEW t \in Tasks, End(t) PROVE PortsInv'
  BY <1>6, EndInv
<1>7. ASSUME NEW t \in Tasks, Record(t) PROVE PortsInv'
  BY <1>7, RecordInv
<1>8. ASSUME NEW t \in Tasks, GetFramework(t) PROVE PortsInv'
  BY <1>8, GetFrameworkInv
<1>9. CASE UNCHANGED vars
  BY <1>9 DEF vars, status, PortsInv, StatusTypes, EnvInv, CheckInv, Exports, Own, PortsOf
<1> QED BY <1>1, <1>2, <1>3, <1>4, <1>5, <1>6, <1>7, <1>8, <1>9 DEF Next

LEMMA PortsInvariant == Spec => []PortsInv
  BY PortsInit, PortsStep, PTL DEF Spec

-----------------------------------------------------------------------------
(* Theorems                                                                 *)

\* The variables have their types, and a hashed number is in the range of the
\* scheduler (framework_parser.py: generate_hashed_ports_num).
THEOREM PortsTypes == Spec => []TypeOK
<1>1. PortsInv => TypeOK
  BY DEF PortsInv, StatusTypes, TypeOK, Exports, Phases
<1> QED BY <1>1, PortsInvariant, PTL

\* A task container that starts has distinct ports (port.py: check_port_list_env).
THEOREM PortsAreDistinct == Spec => []DistinctPorts
<1>1. PortsInv => DistinctPorts
  BY DEF PortsInv, CheckInv, DistinctPorts
<1> QED BY <1>1, PortsInvariant, PTL

\* A port that another held through the whole of a check is not one of a task
\* that passed it (port.py: check_port).
THEOREM HeldPortsAreRefused == Spec => []HoldersRefused
<1>1. PortsInv => HoldersRefused
  BY DEF PortsInv, CheckInv, HoldersRefused, PortsOf
<1> QED BY <1>1, PortsInvariant, PTL

\* What a task exports for a peer is what the peer has, if the peer's present pod
\* is the one that both saw in the framework, each at its own time; for a gang it
\* is enough that the task saw it (framework_parser.py 117-150, init 131-160).
THEOREM ExportsAgree == Spec => []PeersAgree
<1>1. PortsInv => PeersAgree
  <2> SUFFICES ASSUME PortsInv, NEW t \in Tasks, NEW u \in Tasks, Exports(t), Exports(u),
                      hashed => <<t, u>> \in fresh /\ (gang \/ <<u, u>> \in fresh)
               PROVE  env[t][u] = Own(u)
    BY DEF PeersAgree, PortsInv, StatusTypes
  <2>1. CASE ~ hashed
    BY <2>1, OwnPorts DEF PortsInv, EnvInv
  <2>2. CASE hashed
    <3>1. phase[u] \notin {"none", "init", "end"}
      BY DEF Exports
    <3>2. <<u, u>> \in fresh
      BY <2>2, <3>1 DEF PortsInv, EnvInv
    <3>3. snapshot[t][u] = pod[u] /\ snapshot[u][u] = pod[u]
      BY <2>2, <3>2 DEF PortsInv, EnvInv
    <3>4. env[t][u] = snapshot[t][u] /\ env[u][u] = snapshot[u][u]
      BY <2>2 DEF PortsInv, EnvInv
    <3> QED BY <3>3, <3>4 DEF Own
  <2> QED BY <2>1, <2>2
<1> QED BY <1>1, PortsInvariant, PTL

\* While ports are numbered by index, a task that checks or binds meets no other.
LEMMA NoMeeting ==
    ASSUME PortsInv, ~hashed, SequentialTasksNeverMeet, [Next]_vars
    PROVE  SequentialTasksNeverMeet'
<1> USE DEF PortsInv
<1>1. ASSUME NEW t \in Tasks, NEW u \in Tasks, Exports(t), Exports(u),
             NEW r \in Slots, NEW s \in Slots, Own(t)[r] = Own(u)[s]
      PROVE  t = u /\ r = s
  <2>1. Own(t) = Sequential(t) /\ Own(u) = Sequential(u)
    BY <1>1, OwnPorts
  <2> QED BY <1>1, <2>1, SequentialPortsDiffer
<1>2. ASSUME NEW t \in Tasks, CheckPort(t) PROVE SequentialTasksNeverMeet'
  <2>1. PICK s \in left[t] : phase' = IF Conflicts(t, s) THEN [phase EXCEPT ![t] = "conflict"] ELSE phase
    BY <1>2 DEF CheckPort
  <2>2. phase[t] = "check" /\ UNCHANGED hashed /\ s \in Slots
    BY <1>2, <2>1 DEF CheckPort
  <2>3. \A r \in Slots \ left[t] : Own(t)[r] # Own(t)[s]
    BY <2>1, <2>2, <1>1 DEF Exports
  <2>4. ~InUse(Own(t)[s])
    <3> SUFFICES ASSUME NEW u \in Tasks, <<u, Own(t)[s]>> \in listening PROVE FALSE
      BY DEF InUse
    <3>1. phase[u] \in {"run", "clash"} /\ Own(t)[s] \in PortsOf(u)
      OBVIOUS
    <3>2. PICK r \in Slots : Own(t)[s] = Own(u)[r]
      BY <3>1 DEF PortsOf
    <3>3. t = u
      BY <3>1, <3>2, <2>2, <1>1 DEF Exports
    <3> QED BY <3>1, <3>3, <2>2
  <2>5. ~Conflicts(t, s)
    BY <2>3, <2>4 DEF Conflicts
  <2> QED BY <2>1, <2>2, <2>5 DEF SequentialTasksNeverMeet
<1>3. ASSUME NEW t \in Tasks, Bind(t) PROVE SequentialTasksNeverMeet'
  <2>1. PICK p \in PortsOf(t) :
           /\ <<t, p>> \notin listening
           /\ ~InUse(p) => UNCHANGED phase
    BY <1>3 DEF Bind
  <2>2. phase[t] = "run" /\ UNCHANGED hashed
    BY <1>3 DEF Bind
  <2>3. ~InUse(p)
    <3> SUFFICES ASSUME NEW u \in Tasks, <<u, p>> \in listening PROVE FALSE
      BY DEF InUse
    <3>1. phase[u] \in {"run", "clash"} /\ p \in PortsOf(u)
      OBVIOUS
    <3>2. PICK r \in Slots, s \in Slots : p = Own(t)[r] /\ p = Own(u)[s]
      BY <3>1 DEF PortsOf
    <3>3. Exports(t) /\ Exports(u) /\ Own(t)[r] = Own(u)[s]
      BY <3>1, <3>2, <2>2 DEF Exports
    <3>4. t = u
      BY <3>3, <1>1
    <3> QED BY <3>4, <2>1
  <2> QED BY <2>1, <2>2, <2>3 DEF SequentialTasksNeverMeet
<1>4. ASSUME NEW t \in Tasks, Create(t) \/ Record(t) \/ GetFramework(t)
                                \/ GenerateEnv(t) \/ StartTask(t) \/ End(t)
      PROVE  SequentialTasksNeverMeet'
  <2>1. /\ \/ UNCHANGED phase
           \/ \E x \in {"init", "framework", "check", "run", "end"} : phase' = [phase EXCEPT ![t] = x]
        /\ UNCHANGED hashed
    BY <1>4 DEF Create, Record, GetFramework, GenerateEnv, StartTask, End
  <2> QED BY <2>1 DEF SequentialTasksNeverMeet
<1>5. CASE UNCHANGED vars
  BY <1>5 DEF vars, SequentialTasksNeverMeet
<1> QED BY <1>2, <1>3, <1>4, <1>5 DEF Next

\* Tasks whose ports are numbered by index never meet, for any number of tasks
\* and any blocks that do not overlap (framework_parser.py: generate_seq_ports_num).
THEOREM SequentialTasksApart == Spec => []SequentialTasksNeverMeet
<1>1. Init => SequentialTasksNeverMeet
  BY DEF Init, SequentialTasksNeverMeet
<1>2. PortsInv /\ SequentialTasksNeverMeet /\ [Next]_vars => SequentialTasksNeverMeet'
  <2> SUFFICES ASSUME PortsInv, SequentialTasksNeverMeet, [Next]_vars
               PROVE  SequentialTasksNeverMeet'
    OBVIOUS
  <2>1. CASE ~hashed
    BY <2>1, NoMeeting
  <2>2. CASE hashed
    <3>1. UNCHANGED hashed
      BY DEF Next, vars, Create, Record, GetFramework, GenerateEnv, CheckPort, StartTask, Bind, End
    <3> QED BY <2>2, <3>1 DEF SequentialTasksNeverMeet
  <2> QED BY <2>1, <2>2
<1> QED BY <1>1, <1>2, PortsInvariant, PTL DEF Spec

-----------------------------------------------------------------------------
\* The image checker.

\* What the checker knows when it gets to a request: the credentials are used
\* if and only if they are for the image's registry, the name is one that the
\* expressions take, a token is had only for good credentials or for none from a
\* server that names it access_token, and a registry with a bearer's challenge is
\* asked without a token only if it lets anybody in or redirects the request.
CheckerInv ==
    /\ CheckerTypeOK
    /\ pc = "auth" => ~ headers
    /\ pc # "auth" => (headers <=> Given)
    /\ pc \in {"ping", "login", "token", "manifest"} => job.name = "taken"
    /\ pc = "token" => job.scheme = "bearer"
    /\ token => pc \in {"manifest", "done"} /\ (headers => Right) /\ job.access
    /\ pc = "manifest" /\ job.scheme \in {"bearer", "commas"} /\ ~ token
         => "manifest" \in job.moved \/ LetIn("no")

\* What the verdict says.
Verdict == FailsOnlyIfSure /\ FoundIsThere /\ Decided

LEMMA CheckerStart == CheckerInit => CheckerInv /\ Verdict
  BY JobAssumption DEF CheckerInit, CheckerInv, CheckerTypeOK, Verdict, FailsOnlyIfSure, FoundIsThere, Decided

LEMMA InitAuthInfoStep ==
  ASSUME CheckerInv, InitAuthInfo PROVE CheckerInv' /\ Verdict'
  BY DEF CheckerInv, InitAuthInfo, CheckerTypeOK, Given, Right, Go, Finish, LetIn,
         Verdict, FailsOnlyIfSure, FoundIsThere, Decided, Misread, Sure, Unauthorized, Usual

LEMMA NormalizeNameStep ==
  ASSUME CheckerInv, NormalizeName PROVE CheckerInv' /\ Verdict'
  BY DEF CheckerInv, NormalizeName, CheckerTypeOK, Given, Right, Go, Finish, LetIn,
         Verdict, FailsOnlyIfSure, FoundIsThere, Decided, Misread, Sure, Unauthorized, Usual

LEMMA PingStep ==
  ASSUME CheckerInv, Ping PROVE CheckerInv' /\ Verdict'
<1>1. PICK code \in PingAnswers :
        /\ odd' = (odd \/ code = "odd")
        /\ IF code \in {"200", "301", "401"} THEN Go("login") ELSE Finish("ignored")
  BY DEF Ping, Heard, Ok
<1>2. /\ CheckerTypeOK /\ pc = "ping" /\ UNCHANGED <<job, headers, token>>
      /\ ~ token /\ job.name = "taken" /\ (headers <=> Given)
  BY DEF Ping, CheckerInv
<1>3. odd' \in BOOLEAN /\ (code = "odd" => odd')
  BY <1>1
<1>4. CASE code \in {"200", "301", "401"}
  BY <1>1, <1>2, <1>3, <1>4 DEF CheckerInv, CheckerTypeOK, Given, Right, Go, Verdict,
     FailsOnlyIfSure, FoundIsThere, Decided
<1>5. CASE code \notin {"200", "301", "401"}
  <2>1. pc' = "done" /\ result' = "ignored"
    BY <1>1, <1>5 DEF Finish
  <2>2. job.v2 => odd'
    BY <1>1, <1>3, <1>5 DEF PingAnswers
  <2> QED BY <1>2, <1>3, <2>1, <2>2 DEF CheckerInv, CheckerTypeOK, Given, Right, Verdict,
             FailsOnlyIfSure, FoundIsThere, Decided
<1> QED BY <1>4, <1>5

\* The answer 404 to a request without credentials is for an image that anybody
\* could get, or comes from a registry in the place of the image's own one.
LEMMA LoginStep ==
  ASSUME CheckerInv, Login PROVE CheckerInv' /\ Verdict'
<1>1. PICK code \in Answers("no") :
        /\ odd' = (odd \/ code = "odd")
        /\ \/ code \in {"200", "301"} /\ Go("manifest")
           \/ code = "401" /\ job.scheme = "none" /\ Finish("failed")
           \/ code = "401" /\ job.scheme = "commas" /\ Finish("ignored")
           \/ code = "401" /\ job.scheme = "bearer" /\ Go("token")
           \/ code = "401" /\ job.scheme \in {"basic", "norealm", "other"} /\ Go("manifest")
           \/ code \in {"404", "odd"} /\ Finish("ignored")
  BY DEF Login, Heard, Ok
<1>2. /\ CheckerInv /\ pc = "login" /\ UNCHANGED <<job, headers, token>>
      /\ CheckerTypeOK /\ ~ token /\ job.name = "taken" /\ (headers <=> Given)
  BY DEF Login, CheckerInv
<1>3. /\ code \in {"200", "301"} => "manifest" \in job.moved \/ LetIn("no")
      /\ code = "404" => (headers /\ job.uri = "other") \/ LetIn("no")
      /\ "manifest" \in job.moved => code \in {"301", "odd"}
  BY <1>1 DEF Answers
<1>4. odd' \in BOOLEAN /\ (code = "odd" => odd')
  BY <1>1
<1>5. CASE pc' = "done"
  <2>1. /\ result' \in {"failed", "ignored"}
        /\ result' = "failed" => job.scheme = "none"
        /\ \/ job.scheme = "none"
           \/ job.scheme = "commas" /\ result' = "ignored"
           \/ code \in {"404", "odd"} /\ result' = "ignored"
    BY <1>1, <1>2, <1>5 DEF Go, Finish
  <2>2. CheckerInv'
    BY <1>1, <1>2, <1>4, <1>5, <2>1 DEF CheckerInv, CheckerTypeOK, Given, Right, LetIn
  <2>3. FailsOnlyIfSure' /\ FoundIsThere'
    BY <1>2, <2>1 DEF FailsOnlyIfSure, FoundIsThere, Usual
  <2>4. Decided'
    <3> SUFFICES ASSUME ~ odd', Usual', (job.private \/ job.asks)', ~ ("manifest" \in job.moved)'
                 PROVE  Misread' /\ result' = "ignored"
      BY DEF Decided
    <3>1. code # "odd" /\ Usual /\ (job.private \/ job.asks)
      BY <1>2, <1>4 DEF Usual, Given
    <3>2. code # "404"
      BY <1>2, <1>3, <3>1 DEF Usual, LetIn
    <3>3. result' = "ignored" /\ job.scheme = "commas"
      BY <2>1, <3>1, <3>2 DEF Usual
    <3> QED BY <1>2, <3>3 DEF Misread
  <2> QED BY <2>2, <2>3, <2>4 DEF Verdict
<1>6. CASE pc' # "done"
  <2>1. /\ pc' \in {"manifest", "token"} /\ result' = result
        /\ pc' = "token" => job.scheme = "bearer"
        /\ pc' = "manifest" /\ job.scheme \in {"bearer", "commas"}
             => "manifest" \in job.moved \/ LetIn("no")
    BY <1>1, <1>3, <1>6 DEF Go, Finish
  <2>2. LetIn("no")' <=> LetIn("no")
    BY <1>2 DEF LetIn, Right
  <2>3. CheckerInv'
    BY <1>2, <1>4, <2>1, <2>2 DEF CheckerInv, CheckerTypeOK, Given, Right
  <2>4. result' = "none"
    BY <1>2, <2>1 DEF CheckerTypeOK
  <2> QED BY <1>6, <2>3, <2>4 DEF Verdict, FailsOnlyIfSure, FoundIsThere, Decided
<1> QED BY <1>5, <1>6

\* Nobody with wrong credentials gets a token; without any, or with good ones,
\* it is had.
LEMMA GetTokenStep ==
  ASSUME CheckerInv, GetToken PROVE CheckerInv' /\ Verdict'
<1>1. PICK code \in TokenAnswers :
        /\ odd' = (odd \/ code = "odd")
        /\ \/ code = "200" /\ job.access /\ Go("manifest") /\ token' = TRUE
           \/ code = "200" /\ ~ job.access /\ Finish("ignored") /\ UNCHANGED token
           \/ code = "401" /\ Finish("failed") /\ UNCHANGED token
           \/ code = "odd" /\ Finish("ignored") /\ UNCHANGED token
  BY DEF GetToken, Heard
<1>2. /\ CheckerTypeOK /\ pc = "token" /\ UNCHANGED <<job, headers>>
      /\ ~ token /\ job.name = "taken" /\ (headers <=> Given) /\ job.scheme = "bearer"
  BY DEF GetToken, CheckerInv
<1>3. odd' \in BOOLEAN /\ (code = "odd" => odd')
  BY <1>1
<1>4. CASE code = "200" /\ job.access
  <2>1. headers => Right
    BY <1>1, <1>4 DEF TokenAnswers
  <2>2. pc' = "manifest" /\ result' = result /\ token'
    BY <1>1, <1>4 DEF Go
  <2>3. CheckerInv'
    BY <1>2, <1>3, <1>4, <2>1, <2>2 DEF CheckerInv, CheckerTypeOK, Given, Right
  <2>4. result' = "none"
    BY <1>2, <2>2 DEF CheckerTypeOK
  <2> QED BY <2>2, <2>3, <2>4 DEF Verdict, FailsOnlyIfSure, FoundIsThere, Decided
<1>5. CASE code = "401"
  <2>1. headers /\ ~ Right
    BY <1>1, <1>5 DEF TokenAnswers
  <2>2. pc' = "done" /\ result' = "failed" /\ token' = token
    BY <1>1, <1>5 DEF Finish
  <2>3. CheckerInv'
    BY <1>2, <1>3, <2>2 DEF CheckerInv, CheckerTypeOK, Given, Right
  <2>4. Sure' /\ ~ Misread'
    BY <1>2, <2>1 DEF Sure, Misread, Unauthorized, Given, Right
  <2> QED BY <2>2, <2>3, <2>4 DEF Verdict, FailsOnlyIfSure, FoundIsThere, Decided
<1>6. CASE code = "odd"
  <2>2. pc' = "done" /\ result' = "ignored" /\ token' = token
    BY <1>1, <1>6 DEF Finish
  <2>3. CheckerInv'
    BY <1>2, <1>3, <2>2 DEF CheckerInv, CheckerTypeOK, Given, Right
  <2> QED BY <1>3, <1>6, <2>2, <2>3 DEF Verdict, FailsOnlyIfSure, FoundIsThere, Decided
<1>7. CASE code = "200" /\ ~ job.access
  <2>1. pc' = "done" /\ result' = "ignored" /\ token' = token
    BY <1>1, <1>7 DEF Finish
  <2>2. CheckerInv'
    BY <1>2, <1>3, <2>1 DEF CheckerInv, CheckerTypeOK, Given, Right
  <2>3. headers => Right
    BY <1>1, <1>7 DEF TokenAnswers
  <2>4. Misread'
    BY <1>2, <1>7, <2>3 DEF Misread, Given, Right
  <2> QED BY <2>1, <2>2, <2>4 DEF Verdict, FailsOnlyIfSure, FoundIsThere, Decided
<1> QED BY <1>1, <1>4, <1>5, <1>6, <1>7

\* How the manifest is asked for.
With == IF token THEN "bearer" ELSE IF headers THEN "basic" ELSE "no"

\* At the usual registries whoever is let in may have the image, and whoever is
\* not is not authorized.
LEMMA LetInIsAuthorized ==
  ASSUME CheckerInv, pc = "manifest", LetIn(With)
  PROVE  /\ job.private => Right
         /\ Usual /\ (job.private \/ job.asks) => ~ Unauthorized
<1>1. job \in Jobs /\ (headers <=> Given) /\ (token => job.scheme = "bearer")
      /\ (token /\ headers => Right)
  BY DEF CheckerInv, CheckerTypeOK
<1>2. CASE token
  BY <1>1, <1>2 DEF With, LetIn, Unauthorized
<1>3. CASE ~ token /\ headers
  BY <1>1, <1>3 DEF With, LetIn, Unauthorized
<1>4. CASE ~ token /\ ~ headers
  BY <1>1, <1>4 DEF With, LetIn, Unauthorized
<1> QED BY <1>2, <1>3, <1>4

LEMMA RefusedIsUnauthorized ==
  ASSUME CheckerInv, pc = "manifest", Usual, "manifest" \notin job.moved, ~ LetIn(With)
  PROVE  Unauthorized
<1>1. /\ job \in Jobs /\ (headers <=> Given) /\ (token => job.scheme = "bearer")
      /\ job.scheme \in {"bearer", "commas"} /\ ~ token => LetIn("no")
      /\ job.scheme \in {"basic", "bearer", "commas"}
  BY DEF CheckerInv, CheckerTypeOK, Usual
<1>2. ~ LetIn("no")
  BY DEF LetIn
<1>3. CASE token
  BY <1>1, <1>3 DEF With, LetIn, Unauthorized
<1>4. CASE ~ token
  <2>1. job.scheme = "basic" /\ (job.private \/ job.asks)
    BY <1>1, <1>2, <1>4 DEF LetIn
  <2>2. CASE headers
    BY <1>1, <1>4, <2>1, <2>2 DEF With, LetIn, Unauthorized
  <2>3. CASE ~ headers
    <3>1. ~ Right
      BY <1>1, <2>3, Zenon DEF Given, Right
    <3> QED BY <2>1, <3>1 DEF Unauthorized
  <2> QED BY <2>2, <2>3
<1> QED BY <1>3, <1>4

LEMMA ManifestStep ==
  ASSUME CheckerInv, Manifest PROVE CheckerInv' /\ Verdict'
<1>1. PICK code \in Answers(With) :
        /\ odd' = (odd \/ code = "odd")
        /\ \/ code \in {"200", "301"} /\ Finish("found")
           \/ code \in {"401", "404"} /\ Finish("failed")
           \/ code = "odd" /\ Finish("ignored")
  BY DEF Manifest, Heard, Ok, With
<1>2. /\ CheckerTypeOK /\ pc = "manifest" /\ UNCHANGED <<job, headers, token>>
      /\ job.name = "taken" /\ (headers <=> Given)
      /\ token => (headers => Right) /\ job.access
      /\ job.scheme \in {"bearer", "commas"} /\ ~ token => "manifest" \in job.moved \/ LetIn("no")
  BY DEF Manifest, CheckerInv
<1>3. odd' \in BOOLEAN /\ (code = "odd" => odd')
  BY <1>1
<1>4. pc' = "done" /\ result' \in {"found", "failed", "ignored"}
  BY <1>1 DEF Finish
<1>5. CheckerInv'
  BY <1>2, <1>3, <1>4 DEF CheckerInv, CheckerTypeOK, Given, Right
<1>6. (Usual' <=> Usual) /\ (Sure' <=> Sure) /\ (Right' <=> Right) /\ (Misread' <=> Misread)
  BY <1>2 DEF Usual, Sure, Misread, Unauthorized, Right, Given
<1>7. Usual /\ "manifest" \notin job.moved /\ (job.private \/ job.asks) => ~ Misread
  <2> SUFFICES ASSUME Usual, "manifest" \notin job.moved, job.private \/ job.asks, Misread
               PROVE  FALSE
    OBVIOUS
  <2>1. job.scheme \in {"bearer", "commas"} /\ ~ (token /\ job.scheme = "commas")
    BY <1>2 DEF Misread, CheckerTypeOK
  <2>2. ~ token
    BY <1>2, <2>1 DEF Misread
  <2> QED BY <1>2, <2>1, <2>2 DEF LetIn
<1>8. CASE code = "200"
  <2>1. LetIn(With) /\ job.exists /\ "manifest" \notin job.moved /\ result' = "found"
    BY <1>1, <1>8 DEF Answers, Finish
  <2>2. /\ job.private => Right
        /\ Usual /\ (job.private \/ job.asks) => ~ Unauthorized
    BY <1>2, <2>1, LetInIsAuthorized
  <2>3. Usual /\ (job.private \/ job.asks) => ~ Sure /\ ~ Misread
    BY <1>2, <1>7, <2>1, <2>2 DEF Sure
  <2>4. FailsOnlyIfSure' /\ FoundIsThere'
    BY <1>2, <1>6, <2>1, <2>2 DEF FailsOnlyIfSure, FoundIsThere
  <2>5. Decided'
    BY <1>2, <1>6, <2>1, <2>3 DEF Decided
  <2> QED BY <1>5, <2>4, <2>5 DEF Verdict
<1>9. CASE code \in {"401", "404"}
  <2>1. result' = "failed"
    BY <1>1, <1>9 DEF Finish
  <2>2. ASSUME Usual PROVE Sure
    <3>0. "manifest" \notin job.moved
      BY <1>1, <1>9 DEF Answers
    <3>1. ~ (headers /\ job.uri = "other")
      BY <1>2, <2>2 DEF Usual
    <3>2. ~ LetIn(With) \/ ~ job.exists
      BY <1>1, <1>9, <3>1 DEF Answers
    <3> QED BY <1>2, <2>2, <3>0, <3>2, RefusedIsUnauthorized DEF Sure
  <2>3. FailsOnlyIfSure' /\ FoundIsThere' /\ Decided'
    BY <1>2, <1>6, <1>7, <2>1, <2>2 DEF FailsOnlyIfSure, FoundIsThere, Decided
  <2> QED BY <1>5, <2>3 DEF Verdict
<1>10. CASE code = "odd"
  <2>1. result' = "ignored" /\ odd'
    BY <1>1, <1>3, <1>10 DEF Finish
  <2> QED BY <1>5, <2>1 DEF Verdict, FailsOnlyIfSure, FoundIsThere, Decided
<1>11. CASE code = "301"
  <2>1. "manifest" \in job.moved /\ result' = "found"
    BY <1>1, <1>11 DEF Answers, Finish
  <2>2. Verdict'
    BY <1>2, <2>1 DEF Verdict, FailsOnlyIfSure, FoundIsThere, Decided
  <2> QED BY <1>5, <2>2
<1> QED BY <1>1, <1>8, <1>9, <1>10, <1>11

LEMMA CheckerStep ==
  CheckerInv /\ Verdict /\ [CheckerNext]_checkerVars => CheckerInv' /\ Verdict'
<1> SUFFICES ASSUME CheckerInv, Verdict, [CheckerNext]_checkerVars PROVE CheckerInv' /\ Verdict'
  OBVIOUS
<1>1. CASE UNCHANGED checkerVars
  BY <1>1 DEF checkerVars, CheckerInv, CheckerTypeOK, Given, Right, LetIn, Verdict, FailsOnlyIfSure,
              FoundIsThere, Decided, Misread, Usual, Sure, Unauthorized
<1> QED BY <1>1, InitAuthInfoStep, NormalizeNameStep, PingStep, LoginStep, GetTokenStep,
           ManifestStep DEF CheckerNext

LEMMA CheckerInvariant == CheckerSpec => [](CheckerInv /\ Verdict)
  BY CheckerStart, CheckerStep, PTL DEF CheckerSpec

\* The variables of the checker have their types, whatever the registry answers.
THEOREM CheckerTypes == CheckerSpec => []CheckerTypeOK
<1>1. CheckerInv => CheckerTypeOK
  BY DEF CheckerInv
<1> QED BY <1>1, CheckerInvariant, PTL

\* Whatever goes wrong on the way, a job of the usual kind fails only for an
\* image that does not exist or that the user has no access to
\* (image_checker.py 188-258).
THEOREM FailuresAreSure == CheckerSpec => []FailsOnlyIfSure
<1>1. Verdict => FailsOnlyIfSure
  BY DEF Verdict
<1> QED BY <1>1, CheckerInvariant, PTL

\* The checker says that an image is there only if the task can have it, with
\* any challenge of the registry and any credentials, unless the registry
\* redirects the request for its manifest (lines 189, 244-258).
THEOREM FoundImagesAreThere == CheckerSpec => []FoundIsThere
<1>1. Verdict => FoundIsThere
  BY DEF Verdict
<1> QED BY <1>1, CheckerInvariant, PTL

\* A registry that asks for authorization, answers as it should and does not
\* redirect gets the image decided on, and the check is ignored exactly when the
\* challenge or the token is one that the checker misreads.
THEOREM CheckIsDecided == CheckerSpec => []Decided
<1>1. Verdict => Decided
  BY DEF Verdict
<1> QED BY <1>1, CheckerInvariant, PTL
=============================================================================
