------------------------ MODULE PluginScripts_proofs ------------------------
(***************************************************************************)
(* Proofs about PluginScripts, for any jobs, sites, storage configs,       *)
(* servers, numbers of plugins and tries: failure policies are kept, what  *)
(* a command needs is installed before it runs, files of the user stay,    *)
(* and directories are mounted where they were asked for.                  *)
(*                                                                         *)
(* Packages.  Every row of commands an init script writes is Prepared:     *)
(* what each command needs is given by one before it.  This holds of       *)
(* concatenations, and so of what FlattenSeq makes of any number of        *)
(* servers and mount points (FlattenPrepared).  In a script of a plugin    *)
(* whose failures count, all that the commands before the line at hand     *)
(* give is there (GivenIsThere): each of them succeeded, and none takes a  *)
(* package away (CommandsKeep).                                            *)
(*                                                                         *)
(* Mounts and files.  Every script is Tidy: a root is mounted to be        *)
(* unmounted before anything but mkdir, or for good if it is a blob        *)
(* container's; rm is of where a root was or a blob will be; a link        *)
(* follows the rm of its place and the mount of its container; and git's   *)
(* mv follows its check.  FilesInv says what such scripts have done up to  *)
(* the line at hand: every entry of the table of mounts is of a mount info *)
(* (Standing), roots of shares are there only where their umount is due    *)
(* (RootsAreShort), and what has been asked for is in its place, but       *)
(* between the rm and the link of a blob (InPlace).  It is kept as long as *)
(* the mount points of the scripts that are not over lie apart (Ahead).    *)
(***************************************************************************)
EXTENDS PluginScripts, SequenceTheorems, TLAPS

SF == INSTANCE SequenceFacts WITH Step <- AddServer, Base <- <<>>

Kinds == {"ssh", "git", "cmd", "tensorboard", "storage", "teamwise_storage"}
Ssh == Install("ssh")
Ops == {"plain", "exit unless", "user", "install", "apt", "mkdir", "mount", "umount", "rm", "link",
        "check empty", "mv", "sshd", "barrier"}

\* What a command brings if it succeeds.
Gives(c) ==
    CASE c.op = "install" -> Packages[c.group]
      [] c.op = "apt" -> c.packages
      [] c.op \notin {"install", "apt"} -> {}

\* What the n-th command needs, one before it gives; sshd is before the barrier.
PreparedAt(s, n) ==
    /\ s[n].op \in Ops
    /\ Needs(s[n]) = {} \/ \E m \in 1..(n - 1) : Needs(s[n]) \subseteq Gives(s[m])
    /\ s[n].op = "barrier" => \E m \in 1..(n - 1) : s[m].op = "sshd"

Row(s) == s \in Seq(ToSet(s))
Prepared(s) == Row(s) /\ \A n \in 1..Len(s) : PreparedAt(s, n)

\* Commands that need nothing but ps, and rows after which others have ps.
Covered(s, ps) ==
    Row(s) /\ \A n \in 1..Len(s) : s[n].op \in Ops \ {"barrier"} /\ Needs(s[n]) \subseteq ps
Serves(s, ps) == Prepared(s) /\ \E m \in 1..Len(s) : ps \subseteq Gives(s[m])

\* What init.py of a plugin writes: an option, commands, and for a lenient
\* plugin the option that was.
FirstOf(c) == Set(~Lenient(c))
SetErrexit == Set(TRUE)
LastIn(c, s, n) == Lenient(c) /\ n = Len(s)
Shaped(c, s) ==
    /\ Len(s) \in Nat
    /\ Len(s) > 0 => s[1] = FirstOf(c) /\ Len(s) > 1
    /\ \A n \in 2..Len(s) : IF LastIn(c, s, n) THEN s[n] = SetErrexit ELSE PreparedAt(s, n)

Fields == {"have", "sshd", "key", "code", "dirs", "data", "table"}

\* Where the shell is in a script, and what its commands have done so far.
Shapes == \A k \in {"pre", "post"} : \A i \in DOMAIN job : Shaped(job[i], script[k][i])
InScript == phase \in {"pre", "post"} /\ cur \in DOMAIN job
LinePlace == line \in 1..(Len(Current) + 1) /\ (line = 1 => status = "ok")
OptionIsSet == 1 < line /\ line <= Len(Current) => (errexit <=> Strict(cur))
EndsWell == ~Strict(cur) /\ line > Len(Current) => status = "ok"
GivenIsThere ==
    Strict(cur) /\ line <= Len(Current) => \A m \in 1..(line - 1) :
        Gives(Current[m]) \subseteq box.have /\ (Starts(Current[m]) => box.sshd)
LineInv == LinePlace /\ OptionIsSet /\ EndsWell /\ GivenIsThere

ScriptsInv ==
    /\ TypeOK
    /\ DOMAIN box = Fields
    /\ Shapes
    /\ InScript => LineInv
    /\ phase = "init" => cur > 0
    /\ PolicyKept

-----------------------------------------------------------------------------
(* Rows of commands                                                         *)

\* A sequence over any set is a row.
LEMMA RowOf ==
    ASSUME NEW C, NEW s \in Seq(C)
    PROVE  Row(s) /\ Len(s) \in Nat /\ DOMAIN s = 1..Len(s) /\ ToSet(s) \subseteq C
<1>1. Len(s) \in Nat /\ DOMAIN s = 1..Len(s) /\ \A i \in 1..Len(s) : s[i] \in C
  OBVIOUS
<1>2. \A i \in 1..Len(s) : s[i] \in ToSet(s)
  BY <1>1 DEF ToSet
<1>3. s = [i \in 1..Len(s) |-> s[i]]
  OBVIOUS
<1>4. ToSet(s) \subseteq C
  BY <1>1 DEF ToSet
<1>5. s \in Seq(ToSet(s))
  BY <1>1, <1>2, <1>3, SeqDef
<1> QED BY <1>1, <1>4, <1>5 DEF Row

\* Sequences are of one type together.
LEMMA RowsConcat ==
    ASSUME NEW s, NEW t, Row(s), Row(t)
    PROVE  /\ Row(s \o t) /\ Len(s) \in Nat /\ Len(t) \in Nat /\ Len(s \o t) = Len(s) + Len(t)
           /\ \A n \in 1..Len(s) : (s \o t)[n] = s[n]
           /\ \A n \in 1..Len(t) : (s \o t)[n + Len(s)] = t[n]
           /\ \A n \in 1..Len(s \o t) :
                 n \in 1..Len(s) \/ \E m \in 1..Len(t) : n = m + Len(s)
<1> DEFINE C == ToSet(s) \cup ToSet(t)
<1>1. s \in Seq(C) /\ t \in Seq(C)
  <2>1. s \in Seq(ToSet(s)) /\ t \in Seq(ToSet(t))
    BY DEF Row
  <2>2. \A A, B : A \subseteq B => Seq(A) \subseteq Seq(B)
    BY SeqDef
  <2> QED BY <2>1, <2>2
<1> HIDE DEF C
<1>2. s \o t \in Seq(C) /\ Len(s) \in Nat /\ Len(t) \in Nat /\ Len(s \o t) = Len(s) + Len(t)
  BY <1>1
<1>3. /\ \A n \in 1..Len(s) : (s \o t)[n] = s[n]
      /\ \A n \in 1..Len(t) : (s \o t)[n + Len(s)] = t[n]
  BY <1>1
<1>4. ASSUME NEW n \in 1..Len(s \o t), n \notin 1..Len(s)
      PROVE  \E m \in 1..Len(t) : n = m + Len(s)
  <2>1. n - Len(s) \in 1..Len(t) /\ n = (n - Len(s)) + Len(s)
    BY <1>2, <1>4
  <2> QED BY <2>1
<1> QED BY <1>2, <1>3, <1>4, RowOf

\* Rows that are prepared make a row that is.
LEMMA PreparedConcat ==
    ASSUME NEW s, NEW t, Prepared(s), Prepared(t)
    PROVE  Prepared(s \o t)
<1> DEFINE u == s \o t
<1>1. /\ Row(u) /\ Len(s) \in Nat /\ Len(t) \in Nat /\ Len(u) = Len(s) + Len(t)
      /\ \A n \in 1..Len(s) : u[n] = s[n]
      /\ \A n \in 1..Len(t) : u[n + Len(s)] = t[n]
      /\ \A n \in 1..Len(u) : n \in 1..Len(s) \/ \E m \in 1..Len(t) : n = m + Len(s)
  BY RowsConcat DEF Prepared
<1> HIDE DEF u
<1>2. ASSUME NEW n \in 1..Len(s) PROVE PreparedAt(u, n)
  <2>1. PreparedAt(s, n) /\ u[n] = s[n] /\ \A m \in 1..(n - 1) : u[m] = s[m]
    BY <1>1 DEF Prepared
  <2> QED BY <2>1 DEF PreparedAt
<1>3. ASSUME NEW n \in 1..Len(t) PROVE PreparedAt(u, n + Len(s))
  <2>1. PreparedAt(t, n) /\ u[n + Len(s)] = t[n]
    BY <1>1 DEF Prepared
  <2>2. ASSUME NEW m \in 1..(n - 1)
        PROVE  m + Len(s) \in 1..((n + Len(s)) - 1) /\ u[m + Len(s)] = t[m]
    <3>1. m \in 1..Len(t)
      BY <1>1
    <3>2. u[m + Len(s)] = t[m]
      BY <1>1, <3>1
    <3>3. \A j \in Nat : m + j \in 1..((n + j) - 1)
      OBVIOUS
    <3> QED BY <1>1, <3>2, <3>3
  <2>3. ASSUME NEW m \in 1..(n - 1), Needs(t[n]) \subseteq Gives(t[m])
        PROVE  \E k \in 1..((n + Len(s)) - 1) : Needs(u[n + Len(s)]) \subseteq Gives(u[k])
    BY <2>1, <2>2, <2>3
  <2>4. ASSUME NEW m \in 1..(n - 1), t[m].op = "sshd"
        PROVE  \E k \in 1..((n + Len(s)) - 1) : u[k].op = "sshd"
    BY <2>2, <2>4
  <2> QED BY <2>1, <2>3, <2>4 DEF PreparedAt
<1>4. \A n \in 1..Len(u) : PreparedAt(u, n)
  BY <1>1, <1>2, <1>3
<1>5. Prepared(u)
  BY <1>1, <1>4 DEF Prepared
<1> QED BY <1>5 DEF u

\* A row with all that the next one needs.
LEMMA ServesCovered ==
    ASSUME NEW s, NEW t, NEW ps, Serves(s, ps), Covered(t, ps)
    PROVE  Serves(s \o t, ps)
<1> DEFINE u == s \o t
<1>1. /\ Row(u) /\ Len(s) \in Nat /\ Len(t) \in Nat /\ Len(u) = Len(s) + Len(t)
      /\ \A n \in 1..Len(s) : u[n] = s[n]
      /\ \A n \in 1..Len(t) : u[n + Len(s)] = t[n]
      /\ \A n \in 1..Len(u) : n \in 1..Len(s) \/ \E m \in 1..Len(t) : n = m + Len(s)
  BY RowsConcat DEF Prepared, Serves, Covered
<1> HIDE DEF u
<1>2. PICK k \in 1..Len(s) : ps \subseteq Gives(s[k])
  BY DEF Serves
<1>3. k \in 1..Len(u) /\ ps \subseteq Gives(u[k])
  BY <1>1, <1>2
<1>4. ASSUME NEW n \in 1..Len(s) PROVE PreparedAt(u, n)
  <2>1. PreparedAt(s, n) /\ u[n] = s[n] /\ \A m \in 1..(n - 1) : u[m] = s[m]
    BY <1>1 DEF Prepared, Serves
  <2> QED BY <2>1 DEF PreparedAt
<1>5. ASSUME NEW n \in 1..Len(t) PROVE PreparedAt(u, n + Len(s))
  <2>1. t[n].op \in Ops \ {"barrier"} /\ Needs(t[n]) \subseteq ps /\ u[n + Len(s)] = t[n]
    BY <1>1 DEF Covered
  <2>2. k \in 1..((n + Len(s)) - 1)
    BY <1>1
  <2> QED BY <1>3, <2>1, <2>2 DEF PreparedAt
<1>6. Prepared(u)
  BY <1>1, <1>4, <1>5 DEF Prepared
<1>7. Serves(u, ps)
  BY <1>3, <1>6 DEF Serves
<1> QED BY <1>7 DEF u

\* Rows with the same needs.
LEMMA CoveredConcat ==
    ASSUME NEW s, NEW t, NEW ps, Covered(s, ps), Covered(t, ps)
    PROVE  Covered(s \o t, ps)
<1> DEFINE u == s \o t
<1>1. /\ Row(u) /\ Len(s) \in Nat /\ Len(t) \in Nat /\ Len(u) = Len(s) + Len(t)
      /\ \A n \in 1..Len(s) : u[n] = s[n]
      /\ \A n \in 1..Len(t) : u[n + Len(s)] = t[n]
      /\ \A n \in 1..Len(u) : n \in 1..Len(s) \/ \E m \in 1..Len(t) : n = m + Len(s)
  BY RowsConcat DEF Covered
<1> HIDE DEF u
<1>2. \A n \in 1..Len(u) : u[n].op \in Ops \ {"barrier"} /\ Needs(u[n]) \subseteq ps
  <2>1. /\ \A n \in 1..Len(s) : s[n].op \in Ops \ {"barrier"} /\ Needs(s[n]) \subseteq ps
        /\ \A n \in 1..Len(t) : t[n].op \in Ops \ {"barrier"} /\ Needs(t[n]) \subseteq ps
    BY DEF Covered
  <2> SUFFICES ASSUME NEW n \in 1..Len(u)
               PROVE  u[n].op \in Ops \ {"barrier"} /\ Needs(u[n]) \subseteq ps
    OBVIOUS
  <2>2. CASE n \in 1..Len(s)
    <3>1. u[n] = s[n]
      BY <1>1, <2>2
    <3> QED BY <2>1, <2>2, <3>1, Zenon
  <2>3. CASE \E m \in 1..Len(t) : n = m + Len(s)
    <3>1. PICK m \in 1..Len(t) : n = m + Len(s)
      BY <2>3
    <3>2. u[n] = t[m]
      BY <1>1, <3>1
    <3> QED BY <2>1, <3>2, Zenon
  <2> QED BY <1>1, <2>2, <2>3, Zenon
<1>3. Covered(u, ps)
  BY <1>1, <1>2 DEF Covered
<1> QED BY <1>3 DEF u

\* A row that needs nothing.
LEMMA CoveredPrepared ==
    ASSUME NEW s, Covered(s, {}) PROVE Prepared(s)
BY DEF Covered, Prepared, PreparedAt

\* Rows written one command after the other.
LEMMA CoveredRows ==
    ASSUME NEW ps
    PROVE  /\ Covered(<<>>, ps) /\ Prepared(<<>>)
           /\ \A x : x.op \in Ops \ {"barrier"} /\ Needs(x) \subseteq ps => Covered(<<x>>, ps)
           /\ \A x, y : /\ x.op \in Ops \ {"barrier"} /\ Needs(x) \subseteq ps
                        /\ y.op \in Ops \ {"barrier"} /\ Needs(y) \subseteq ps
                        => Covered(<<x, y>>, ps)
<1>1. Row(<<>>) /\ Len(<<>>) = 0
  <2>1. <<>> \in Seq({})
    OBVIOUS
  <2> QED BY <2>1, RowOf
<1>2. Covered(<<>>, ps) /\ Prepared(<<>>)
  BY <1>1 DEF Covered, Prepared
<1>3. ASSUME NEW x, x.op \in Ops \ {"barrier"}, Needs(x) \subseteq ps PROVE Covered(<<x>>, ps)
  <2>1. PICK s : s = <<x>>
    OBVIOUS
  <2>2. s \in Seq({x}) /\ Len(s) = 1 /\ s[1] = x
    BY <2>1
  <2>3. Row(s)
    BY <2>2, RowOf
  <2>4. \A n \in 1..Len(s) : n = 1
    BY <2>2
  <2>5. Covered(s, ps)
    BY <1>3, <2>2, <2>3, <2>4 DEF Covered
  <2> QED BY <2>1, <2>5
<1>4. ASSUME NEW x, NEW y, x.op \in Ops \ {"barrier"}, Needs(x) \subseteq ps,
             y.op \in Ops \ {"barrier"}, Needs(y) \subseteq ps
      PROVE  Covered(<<x, y>>, ps)
  <2>1. PICK s : s = <<x, y>>
    OBVIOUS
  <2>2. s \in Seq({x, y}) /\ Len(s) = 2 /\ s[1] = x /\ s[2] = y
    BY <2>1
  <2>3. Row(s)
    BY <2>2, RowOf
  <2>4. \A n \in 1..Len(s) : n = 1 \/ n = 2
    BY <2>2
  <2>5. Covered(s, ps)
    BY <1>4, <2>2, <2>3, <2>4 DEF Covered
  <2> QED BY <2>1, <2>5
<1> QED BY <1>2, <1>3, <1>4

\* FlattenSeq here is FlattenSeq of SequenceFacts.
LEMMA FlattenSteps ==
    ASSUME NEW T, <<>> \in T, \A s \in T, t \in T : s \o t \in T, NEW q \in Seq(T)
    PROVE  FlattenSeq(q) \in T
<1>1. FlattenSeq(q) = SF!FlattenSeq(q)
  BY DEF FlattenSeq, SF!FlattenSeq
<1> QED BY <1>1, SF!FlattenInduction

\* What FlattenSeq makes of rows, or of sequences of one type.
LEMMA FlattenTyped ==
    ASSUME NEW C, NEW n \in Nat, NEW q, q = [i \in 1..n |-> q[i]], \A i \in 1..n : q[i] \in Seq(C)
    PROVE  FlattenSeq(q) \in Seq(C)
<1>1. q \in Seq(Seq(C))
  <2>1. q \in [1..n -> Seq(C)]
    OBVIOUS
  <2> QED BY <2>1, SeqDef
<1>2. <<>> \in Seq(C) /\ \A s \in Seq(C), t \in Seq(C) : s \o t \in Seq(C)
  OBVIOUS
<1> QED BY <1>1, <1>2, FlattenSteps

\* A sequence over a set is one over a larger set.
LEMMA SeqGrows ==
    ASSUME NEW A, NEW B, A \subseteq B, NEW s \in Seq(A) PROVE s \in Seq(B)
BY SeqMonotonic

\* FlattenSeq of rows with the same needs.
LEMMA FlattenCovered ==
    ASSUME NEW ps, NEW n \in Nat, NEW q, q = [i \in 1..n |-> q[i]],
           \A i \in 1..n : Covered(q[i], ps)
    PROVE  Covered(FlattenSeq(q), ps)
<1> DEFINE C == UNION {ToSet(q[i]) : i \in 1..n}
           T == {s \in Seq(C) : Covered(s, ps)}
<1>1. \A i \in 1..n : q[i] \in T
  <2> SUFFICES ASSUME NEW i \in 1..n PROVE q[i] \in T
    OBVIOUS
  <2>1. q[i] \in Seq(ToSet(q[i]))
    BY DEF Covered, Row
  <2>2. ToSet(q[i]) \subseteq C
    OBVIOUS
  <2> HIDE DEF C
  <2>3. q[i] \in Seq(C)
    BY <2>1, <2>2, SeqGrows
  <2> QED BY <2>3
<1>2. <<>> \in T
  BY CoveredRows
<1>3. \A s \in T, t \in T : s \o t \in T
  <2> HIDE DEF C
  <2>1. \A s \in Seq(C), t \in Seq(C) : s \o t \in Seq(C)
    OBVIOUS
  <2> QED BY <2>1, CoveredConcat
<1>4. q \in Seq(T)
  <2> HIDE DEF T
  <2>1. q \in [1..n -> T]
    BY <1>1
  <2> QED BY <2>1, SeqDef
<1>5. FlattenSeq(q) \in T
  <2> HIDE DEF T
  <2> QED BY <1>2, <1>3, <1>4, FlattenSteps
<1> QED BY <1>5

\* FlattenSeq of rows that are prepared.
LEMMA FlattenPrepared ==
    ASSUME NEW n \in Nat, NEW q, q = [i \in 1..n |-> q[i]], \A i \in 1..n : Prepared(q[i])
    PROVE  Prepared(FlattenSeq(q))
<1> DEFINE C == UNION {ToSet(q[i]) : i \in 1..n}
           T == {s \in Seq(C) : Prepared(s)}
<1>1. \A i \in 1..n : q[i] \in T
  <2> SUFFICES ASSUME NEW i \in 1..n PROVE q[i] \in T
    OBVIOUS
  <2>1. q[i] \in Seq(ToSet(q[i]))
    BY DEF Prepared, Row
  <2>2. ToSet(q[i]) \subseteq C
    OBVIOUS
  <2> HIDE DEF C
  <2>3. q[i] \in Seq(C)
    BY <2>1, <2>2, SeqGrows
  <2> QED BY <2>3
<1>2. <<>> \in T
  BY CoveredRows
<1>3. \A s \in T, t \in T : s \o t \in T
  <2> HIDE DEF C
  <2>1. \A s \in Seq(C), t \in Seq(C) : s \o t \in Seq(C)
    OBVIOUS
  <2> QED BY <2>1, PreparedConcat
<1>4. q \in Seq(T)
  <2> HIDE DEF T
  <2>1. q \in [1..n -> T]
    BY <1>1
  <2> QED BY <2>1, SeqDef
<1>5. FlattenSeq(q) \in T
  <2> HIDE DEF T
  <2> QED BY <1>2, <1>3, <1>4, FlattenSteps
<1> QED BY <1>5

-----------------------------------------------------------------------------
(* What the init scripts write                                              *)

MountInfo == [server : STRING, mountPoint : STRING, path : Seq(STRING)]

\* What Filter leaves of a sequence.
LEMMA FilterTyped ==
    ASSUME NEW C, NEW s \in Seq(C), NEW S PROVE Filter(s, S) \in Seq(C \cap S)
<1> DEFINE q == [i \in DOMAIN s |-> IF s[i] \in S THEN <<s[i]>> ELSE <<>>]
<1>1. Len(s) \in Nat /\ DOMAIN s = 1..Len(s) /\ \A i \in 1..Len(s) : s[i] \in C
  OBVIOUS
<1>2. \A i \in 1..Len(s) : q[i] \in Seq(C \cap S)
  <2> SUFFICES ASSUME NEW i \in 1..Len(s) PROVE q[i] \in Seq(C \cap S)
    OBVIOUS
  <2>1. CASE s[i] \in S
    <3>1. s[i] \in C \cap S
      BY <1>1, <2>1
    <3>2. <<s[i]>> \in Seq(C \cap S)
      BY <3>1
    <3> QED BY <1>1, <2>1, <3>2
  <2>2. CASE s[i] \notin S
    <3>1. <<>> \in Seq(C \cap S)
      OBVIOUS
    <3> QED BY <1>1, <2>2, <3>1
  <2> QED BY <2>1, <2>2
<1>3. q = [i \in 1..Len(s) |-> q[i]]
  BY <1>1
<1> HIDE DEF q
<1>4. FlattenSeq(q) \in Seq(C \cap S)
  BY <1>1, <1>2, <1>3, FlattenTyped
<1> QED BY <1>4 DEF Filter, q

\* The names that the secret storage-config has.
LEMMA KnownTyped ==
    ASSUME NEW names \in Seq(STRING) PROVE Known(names) \in Seq(STRING \cap DOMAIN StorageConfigs)
BY FilterTyped DEF Known

\* The mount infos of storage configs.
LEMMA InfosTyped ==
    ASSUME NEW names \in Seq(STRING) PROVE Infos(names) \in Seq(MountInfo)
<1> DEFINE k == Known(names)
           q == [i \in DOMAIN k |-> StorageConfigs[k[i]].mountInfos]
<1>1. k \in Seq(STRING \cap DOMAIN StorageConfigs)
  BY KnownTyped
<1>2. \A n \in DOMAIN StorageConfigs : StorageConfigs[n].mountInfos \in Seq(MountInfo)
  BY StorageAssumption DEF MountInfo
<1> HIDE DEF k
<1>3. Len(k) \in Nat /\ DOMAIN k = 1..Len(k) /\ \A i \in 1..Len(k) : k[i] \in DOMAIN StorageConfigs
  BY <1>1
<1>4. \A i \in 1..Len(k) : q[i] \in Seq(MountInfo)
  BY <1>2, <1>3
<1>5. q = [i \in 1..Len(k) |-> q[i]]
  BY <1>3
<1> HIDE DEF q
<1>6. FlattenSeq(q) \in Seq(MountInfo)
  BY <1>3, <1>4, <1>5, FlattenTyped
<1> QED BY <1>6 DEF Infos, q, k

\* The names asked for, or those of the defaults.
LEMMA NamesTyped ==
    ASSUME NEW asked \in Seq(STRING) PROVE Names(asked) \in Seq(STRING)
<1>1. Known(STORAGE_CONFIGS) \in Seq(STRING \cap DOMAIN StorageConfigs)
  BY KnownTyped, StorageAssumption
<1> DEFINE C == STRING \cap DOMAIN StorageConfigs
           D == {n \in DOMAIN StorageConfigs : StorageConfigs[n].default}
<1>2. Defaults \in Seq(C \cap D)
  <2> HIDE DEF C, D
  <2>1. Known(STORAGE_CONFIGS) \in Seq(C)
    BY <1>1 DEF C
  <2>2. Filter(Known(STORAGE_CONFIGS), D) \in Seq(C \cap D)
    BY <2>1, FilterTyped
  <2> QED BY <2>2 DEF Defaults, D
<1>3. C \cap D \subseteq STRING
  OBVIOUS
<1> HIDE DEF C, D
<1>4. Defaults \in Seq(STRING)
  BY <1>2, <1>3, SeqGrows
<1> QED BY <1>4 DEF Names

\* perpare_server_mount_dict, one mount info after the other.
LEMMA OrderSteps ==
    /\ ServerOrder(<<>>) = <<>>
    /\ \A C : \A s \in Seq(C), m \in C : ServerOrder(Append(s, m)) = AddServer(ServerOrder(s), m)
<1>1. \A s : ServerOrder(s) = SF!Fold(s)
  BY DEF ServerOrder, SF!Fold, FoldLeft, SF!FoldLeft, MapThenFoldSet, SF!MapThenFoldSet,
         AddServer, Contains, SF!Contains, Max, SF!Max
<1> QED BY <1>1, SF!FoldEmpty, SF!FoldAppend

\* The servers, in their order, are those of the mount infos: D has no others,
\* and none is left out.
LEMMA OrderTyped ==
    ASSUME NEW infos \in Seq(MountInfo), NEW D, \A m \in ToSet(infos) : m.server \in D
    PROVE  /\ ServerOrder(infos) \in Seq(D)
           /\ \A m \in ToSet(infos) : \E i \in 1..Len(ServerOrder(infos)) : ServerOrder(infos)[i] = m.server
<1> DEFINE M == ToSet(infos)
           Has(o, m) == \E i \in 1..Len(o) : o[i] = m.server
           T == {s \in Seq(M) : /\ ServerOrder(s) \in Seq(D)
                                /\ \A k \in 1..Len(s) : Has(ServerOrder(s), s[k])}
<1>1. infos \in Seq(M)
  BY RowOf DEF Row
<1>2. <<>> \in T
  <2>1. <<>> \in Seq(M) /\ <<>> \in Seq(D) /\ Len(<<>>) = 0
    OBVIOUS
  <2>2. \A k \in 1..Len(<<>>) : Has(ServerOrder(<<>>), <<>>[k])
    BY <2>1
  <2> HIDE DEF M, Has
  <2> QED BY <2>1, <2>2, OrderSteps
<1>3. ASSUME NEW s \in Seq(M), NEW m \in M, s \in T PROVE Append(s, m) \in T
  <2> DEFINE o == ServerOrder(s)
             p == AddServer(o, m)
  <2>1. ServerOrder(Append(s, m)) = p
    <3> HIDE DEF M
    <3> QED BY OrderSteps
  <2>2. m.server \in D /\ o \in Seq(D) /\ \A k \in 1..Len(s) : Has(o, s[k])
    BY <1>3
  <2> HIDE DEF o
  <2>3. p \in Seq(D) /\ Has(p, m) /\ \A i \in 1..Len(o) : i \in 1..Len(p) /\ p[i] = o[i]
    <3>1. CASE Contains(o, m.server)
      <4>1. p = o /\ Has(o, m)
        BY <3>1 DEF AddServer, Contains
      <4> QED BY <2>2, <4>1
    <3>2. CASE ~Contains(o, m.server)
      <4>1. p = Append(o, m.server)
        BY <3>2 DEF AddServer
      <4> HIDE DEF p
      <4>2. /\ p \in Seq(D) /\ Len(p) = Len(o) + 1 /\ Len(o) \in Nat /\ p[Len(o) + 1] = m.server
            /\ \A i \in 1..Len(o) : p[i] = o[i]
        BY <2>2, <4>1
      <4> QED BY <4>2
    <3> QED BY <3>1, <3>2
  <2> HIDE DEF p
  <2>4. /\ Append(s, m) \in Seq(M) /\ Len(Append(s, m)) = Len(s) + 1 /\ Len(s) \in Nat
        /\ Append(s, m)[Len(s) + 1] = m /\ \A k \in 1..Len(s) : Append(s, m)[k] = s[k]
    <3> HIDE DEF M
    <3> QED OBVIOUS
  <2>5. ASSUME NEW k \in 1..(Len(s) + 1) PROVE Has(p, Append(s, m)[k])
    <3>1. CASE k = Len(s) + 1
      BY <2>3, <2>4, <3>1
    <3>2. CASE k # Len(s) + 1
      <4>1. k \in 1..Len(s) /\ Append(s, m)[k] = s[k]
        BY <2>4, <3>2
      <4>2. PICK i \in 1..Len(o) : o[i] = s[k].server
        BY <2>2, <4>1
      <4> QED BY <2>3, <4>1, <4>2
    <3> QED BY <3>1, <3>2
  <2> HIDE DEF Has
  <2> QED BY <2>1, <2>3, <2>4, <2>5
<1>4. Seq(M) \subseteq T
  <2> HIDE DEF M, T
  <2> QED BY <1>2, <1>3, SF!SeqSetInduction
<1>5. \A m \in M : \E k \in 1..Len(infos) : infos[k] = m
  <2>1. DOMAIN infos = 1..Len(infos)
    OBVIOUS
  <2> QED BY <2>1 DEF ToSet
<1>6. infos \in T
  <2> HIDE DEF M, T
  <2> QED BY <1>1, <1>4
<1>7. ServerOrder(infos) \in Seq(D) /\ \A k \in 1..Len(infos) : Has(ServerOrder(infos), infos[k])
  <2> HIDE DEF M, Has
  <2> QED BY <1>6
<1>8. \A m \in M : Has(ServerOrder(infos), m)
  <2> HIDE DEF M, Has
  <2> QED BY <1>5, <1>7
<1> QED BY <1>7, <1>8

\* The kinds of the commands.
LEMMA OpsOfCommands ==
    /\ Plain.op = "plain" /\ ExitUnless.op = "exit unless" /\ User.op = "user"
    /\ \A g : Install(g).op = "install" /\ Install(g).group = g
    /\ \A ps : AptInstall(ps).op = "apt" /\ AptInstall(ps).packages = ps
    /\ \A p : Mkdir(p).op = "mkdir" /\ Umount(p).op = "umount" /\ Rm(p).op = "rm"
    /\ \A p, q : Link(q, p).op = "link"
    /\ \A s, p, q : Mount(s, q, p).op = "mount" /\ Mount(s, q, p).server = s
BY DEF Plain, ExitUnless, User, Install, AptInstall, Mkdir, Umount, Rm, Link, Mount

\* Only mount, sshd and the barrier need packages.
LEMMA NeedsOfCommands ==
    /\ \A x, ps : x.op \in Ops \ {"mount", "sshd", "barrier"}
                  => x.op \in Ops \ {"barrier"} /\ Needs(x) = {} /\ Needs(x) \subseteq ps
    /\ \A s, p, q : Needs(Mount(s, q, p)) = Tools[Type[s]]
<1>1. ASSUME NEW x, NEW ps, x.op \in Ops \ {"mount", "sshd", "barrier"}
      PROVE  x.op \in Ops \ {"barrier"} /\ Needs(x) = {} /\ Needs(x) \subseteq ps
  <2>1. Needs(x) = {}
    BY <1>1 DEF Needs
  <2> QED BY <1>1, <2>1
<1>2. ASSUME NEW s, NEW p, NEW q PROVE Needs(Mount(s, q, p)) = Tools[Type[s]]
  <2>1. Mount(s, q, p).op = "mount" /\ Mount(s, q, p).server = s
    BY DEF Mount
  <2> HIDE DEF Mount
  <2> QED BY <2>1 DEF Needs
<1> QED BY <1>1, <1>2

\* The phrases of nfs, samba and azurefile: the group is installed first.
LEMMA ShareRows ==
    ASSUME NEW s \in DOMAIN Type, ~IsBlob(s), NEW p, NEW path
    PROVE  LET setup == SetupCommands(s, p, path) IN
           /\ Serves(setup.pre_mount, Tools[Type[s]])
           /\ Covered(setup.tmp_mount, Tools[Type[s]]) /\ Covered(setup.post_mount, Tools[Type[s]])
           /\ Covered(setup.real_mount, Tools[Type[s]])
<1> DEFINE ps == Tools[Type[s]]
<1>1. Type[s] \in {"nfs", "samba", "azurefile"} /\ ps \subseteq Packages[Type[s]]
  BY StorageAssumption, ScriptsAssumption DEF IsBlob
<1>2. SetupCommands(s, p, path) = ShareSetup(s, p, path)
  BY DEF SetupCommands
<1> DEFINE head == <<Mkdir(p), Install(Type[s])>>
           rest == IF s \in Proxied THEN <<Plain>> ELSE <<>>
           mount == Mount(s, Render(path), p)
<1>3. /\ ShareSetup(s, p, path).pre_mount = head \o rest
      /\ ShareSetup(s, p, path).tmp_mount = <<mount>>
      /\ ShareSetup(s, p, path).post_mount = <<Umount(p), Rm(p)>>
      /\ ShareSetup(s, p, path).real_mount = <<mount>>
  BY DEF ShareSetup
<1> HIDE DEF head, rest, mount, ps
<1>4. \A x \in {Mkdir(p), Install(Type[s]), Umount(p), Rm(p), Plain} :
        x.op \in Ops \ {"mount", "sshd", "barrier"}
  <2>1. /\ Mkdir(p).op = "mkdir" /\ Install(Type[s]).op = "install" /\ Umount(p).op = "umount"
        /\ Rm(p).op = "rm" /\ Plain.op = "plain"
    BY DEF Mkdir, Install, Umount, Rm, Plain
  <2> QED BY <2>1 DEF Ops
<1>5. \A x \in {Mkdir(p), Install(Type[s]), Umount(p), Rm(p), Plain} :
        x.op \in Ops \ {"barrier"} /\ Needs(x) \subseteq {} /\ Needs(x) \subseteq ps
  BY <1>4, NeedsOfCommands
<1>6. mount.op \in Ops \ {"barrier"} /\ Needs(mount) \subseteq ps
  <2>1. mount.op = "mount" /\ Needs(mount) = Tools[Type[s]]
    BY NeedsOfCommands DEF mount, Mount
  <2> QED BY <2>1 DEF Ops, ps
<1>7. Covered(<<mount>>, ps)
  BY <1>6, CoveredRows
<1>8. Covered(<<Umount(p), Rm(p)>>, ps)
  BY <1>5, CoveredRows
<1>9. Covered(rest, ps)
  BY <1>5, CoveredRows DEF rest
<1>10. Serves(head, ps)
  <2>1. Covered(head, {})
    BY <1>5, CoveredRows DEF head
  <2>2. Len(head) = 2 /\ head[2] = Install(Type[s])
    BY DEF head
  <2>3. Gives(Install(Type[s])) = Packages[Type[s]]
    BY DEF Gives, Install
  <2> QED BY <1>1, <2>1, <2>2, <2>3, CoveredPrepared DEF Serves
<1>11. Serves(head \o rest, ps)
  BY <1>9, <1>10, ServesCovered
<1> QED BY <1>2, <1>3, <1>7, <1>8, <1>11 DEF ps

\* The phrases of azureblob: blobfuse is installed first.
LEMMA BlobRows ==
    ASSUME NEW s \in DOMAIN Type, IsBlob(s), NEW p, NEW path
    PROVE  LET setup == SetupCommands(s, p, path) IN
           /\ Serves(setup.pre_mount, Tools[Type[s]])
           /\ Covered(setup.tmp_mount, Tools[Type[s]]) /\ Covered(setup.post_mount, Tools[Type[s]])
           /\ Covered(setup.real_mount, Tools[Type[s]])
<1> DEFINE ps == Tools[Type[s]]
           apt == AptInstall(Tools.azureblob)
           link == Link(Tmp(s) \o Render(path), p)
           mount == Mount(s, <<>>, p)
           pre == <<Plain, ExitUnless, Plain, apt, Plain, Mkdir(p)>>
<1>1. Type[s] = "azureblob" /\ ps = Tools.azureblob
  BY DEF IsBlob
<1>2. SetupCommands(s, p, path) = BlobSetup(s, p, path)
  BY DEF SetupCommands
<1>3. /\ BlobSetup(s, p, path).pre_mount = pre
      /\ BlobSetup(s, p, path).tmp_mount = <<mount>>
      /\ BlobSetup(s, p, path).post_mount = <<>>
      /\ BlobSetup(s, p, path).real_mount = <<Rm(p), link>>
  BY DEF BlobSetup
<1>4. apt.op = "apt" /\ apt.packages = ps /\ link.op = "link"
  BY <1>1 DEF AptInstall, Link
<1>5. mount.op = "mount" /\ Needs(mount) = ps
  <2>1. mount.op = "mount"
    BY DEF Mount
  <2> QED BY <2>1, NeedsOfCommands
<1> HIDE DEF ps, apt, link, mount
<1>6. \A x \in {Plain, ExitUnless, apt, Mkdir(p), Rm(p), link} :
        x.op \in Ops \ {"mount", "sshd", "barrier"}
  <2>1. /\ Plain.op = "plain" /\ ExitUnless.op = "exit unless" /\ Mkdir(p).op = "mkdir"
        /\ Rm(p).op = "rm"
    BY DEF Plain, ExitUnless, Mkdir, Rm
  <2> QED BY <1>4, <2>1 DEF Ops
<1>7. \A x \in {Plain, ExitUnless, apt, Mkdir(p), Rm(p), link} :
        x.op \in Ops \ {"barrier"} /\ Needs(x) \subseteq {} /\ Needs(x) \subseteq ps
  BY <1>6, NeedsOfCommands
<1>8. Covered(<<mount>>, ps)
  BY <1>5, CoveredRows DEF Ops
<1>9. Covered(<<>>, ps) /\ Covered(<<Rm(p), link>>, ps)
  BY <1>7, CoveredRows
<1>10. Serves(pre, ps)
  <2> DEFINE C == {Plain, ExitUnless, apt, Mkdir(p)}
  <2>1. pre \in Seq(C) /\ Len(pre) = 6 /\ pre[4] = apt
    OBVIOUS
  <2>2. \A n \in 1..Len(pre) : pre[n] \in C
    <3> HIDE DEF pre, C
    <3> QED BY <2>1, ElementOfSeq
  <2> HIDE DEF pre
  <2>3. Row(pre)
    BY <2>1, RowOf
  <2>4. Covered(pre, {})
    BY <1>7, <2>2, <2>3 DEF Covered
  <2>5. Gives(apt) = ps
    BY <1>4 DEF Gives
  <2> QED BY <2>1, <2>4, <2>5, CoveredPrepared DEF Serves
<1> QED BY <1>2, <1>3, <1>8, <1>9, <1>10 DEF ps

\* Whatever its type, a server's tools are installed before it is mounted.
LEMMA SetupRows ==
    ASSUME NEW s \in DOMAIN Type, NEW p, NEW path
    PROVE  LET setup == SetupCommands(s, p, path) IN
           /\ Serves(setup.pre_mount, Tools[Type[s]])
           /\ Covered(setup.tmp_mount, Tools[Type[s]]) /\ Covered(setup.post_mount, Tools[Type[s]])
           /\ Covered(setup.real_mount, Tools[Type[s]])
BY ShareRows, BlobRows

\* All commands for a server, with any number of mount points.
LEMMA ServerPrepared ==
    ASSUME NEW s \in DOMAIN Type, NEW infos \in Seq(MountInfo)
    PROVE  Prepared(ServerCommands(s, infos))
<1> DEFINE ps == Tools[Type[s]]
           tmp == SetupCommands(s, Tmp(s), <<>>)
           real(m) == SetupCommands(s, Norm[m.mountPoint], m.path).real_mount
           folders == [i \in DOMAIN infos |->
                        <<Mkdir(Norm[infos[i].mountPoint]), Mkdir(Tmp(s) \o Render(infos[i].path))>>]
           reals == [i \in DOMAIN infos |-> real(infos[i])]
<1>1. Serves(tmp.pre_mount, ps) /\ Covered(tmp.tmp_mount, ps) /\ Covered(tmp.post_mount, ps)
  BY SetupRows
<1>2. \A m : Covered(real(m), ps)
  BY SetupRows
<1>3. Len(infos) \in Nat /\ DOMAIN infos = 1..Len(infos)
  OBVIOUS
<1>4. \A p, q : Covered(<<Mkdir(p), Mkdir(q)>>, ps)
  <2>1. \A p : Mkdir(p).op \in Ops \ {"mount", "sshd", "barrier"}
    BY OpsOfCommands DEF Ops
  <2>2. \A p : Mkdir(p).op \in Ops \ {"barrier"} /\ Needs(Mkdir(p)) \subseteq ps
    BY <2>1, NeedsOfCommands
  <2> HIDE DEF ps
  <2> QED BY <2>2, CoveredRows
<1>5. Covered(MakeTmpFolders(s, infos), ps)
  <2>1. folders = [i \in 1..Len(infos) |-> folders[i]]
    BY <1>3
  <2>2. \A i \in 1..Len(infos) : Covered(folders[i], ps)
    <3> HIDE DEF ps
    <3> QED BY <1>3, <1>4
  <2> HIDE DEF folders, ps
  <2>3. Covered(FlattenSeq(folders), ps)
    BY <1>3, <2>1, <2>2, FlattenCovered
  <2> QED BY <2>3 DEF MakeTmpFolders, folders
<1>6. Covered(FlattenSeq(reals), ps)
  <2>1. reals = [i \in 1..Len(infos) |-> reals[i]]
    BY <1>3
  <2>2. \A i \in 1..Len(infos) : Covered(reals[i], ps)
    <3> HIDE DEF ps, real
    <3> QED BY <1>2, <1>3
  <2> HIDE DEF reals, ps
  <2> QED BY <1>3, <2>1, <2>2, FlattenCovered
<1>7. ServerCommands(s, infos) = tmp.pre_mount \o tmp.tmp_mount \o MakeTmpFolders(s, infos)
                                 \o tmp.post_mount \o FlattenSeq(reals)
  BY DEF ServerCommands
<1> HIDE DEF ps, tmp, reals
<1>8. Serves(tmp.pre_mount \o tmp.tmp_mount \o MakeTmpFolders(s, infos), ps)
  BY <1>1, <1>5, ServesCovered
<1>9. Serves(tmp.pre_mount \o tmp.tmp_mount \o MakeTmpFolders(s, infos)
             \o tmp.post_mount \o FlattenSeq(reals), ps)
  BY <1>1, <1>6, <1>8, ServesCovered
<1> QED BY <1>7, <1>9 DEF Serves

\* All commands of a storage plugin, with any number of servers.
LEMMA StoragePrepared ==
    ASSUME NEW asked \in Seq(STRING), ~StorageRaises(asked)
    PROVE  Prepared(StorageCommands(asked))
<1> DEFINE infos == Infos(Names(asked))
           order == ServerOrder(infos)
           rows == [i \in DOMAIN order |-> ServerCommands(order[i], OfServer(infos, order[i]))]
<1>1. infos \in Seq(MountInfo)
  BY NamesTyped, InfosTyped
<1>2. \A m \in ToSet(infos) : m.server \in DOMAIN Type
  BY DEF StorageRaises
<1>3. StorageCommands(asked) = <<Plain>> \o FlattenSeq(rows)
  BY DEF StorageCommands
<1> HIDE DEF infos
<1>4. order \in Seq(DOMAIN Type)
  BY <1>1, <1>2, OrderTyped
<1> HIDE DEF order
<1>5. Len(order) \in Nat /\ DOMAIN order = 1..Len(order)
      /\ \A i \in 1..Len(order) : order[i] \in DOMAIN Type
  BY <1>4
<1>6. \A s : OfServer(infos, s) \in Seq(MountInfo)
  <2> SUFFICES ASSUME NEW s PROVE OfServer(infos, s) \in Seq(MountInfo)
    OBVIOUS
  <2> DEFINE S == {m \in ToSet(infos) : m.server = s}
  <2>1. Filter(infos, S) \in Seq(MountInfo \cap S)
    <3> HIDE DEF S
    <3> QED BY <1>1, FilterTyped
  <2>2. MountInfo \cap S \subseteq MountInfo
    OBVIOUS
  <2>3. Filter(infos, S) \in Seq(MountInfo)
    <3> HIDE DEF S
    <3> QED BY <2>1, <2>2, SeqGrows
  <2> QED BY <2>3 DEF OfServer
<1>7. \A i \in 1..Len(order) : Prepared(rows[i])
  BY <1>5, <1>6, ServerPrepared
<1>8. rows = [i \in 1..Len(order) |-> rows[i]]
  BY <1>5
<1> HIDE DEF rows
<1>9. Prepared(FlattenSeq(rows))
  BY <1>5, <1>7, <1>8, FlattenPrepared
<1>10. Prepared(<<Plain>>)
  <2>1. Plain.op \in Ops \ {"mount", "sshd", "barrier"}
    BY OpsOfCommands DEF Ops
  <2>2. Plain.op \in Ops \ {"barrier"} /\ Needs(Plain) \subseteq {}
    BY <2>1, NeedsOfCommands
  <2> QED BY <2>2, CoveredRows, CoveredPrepared
<1> QED BY <1>3, <1>9, <1>10, PreparedConcat

\* The commands of the other plugins but ssh need nothing.
LEMMA OthersPrepared ==
    ASSUME NEW c
    PROVE  /\ Prepared(GitCommands(c)) /\ Prepared(TensorboardCommands(c))
           /\ \A k, e : Prepared(CmdCommands(c, k, e))
<1>1. Prepared(<<>>)
  BY CoveredRows
<1>2. ASSUME NEW C, \A x \in C : x.op \in Ops \ {"mount", "sshd", "barrier"}, NEW s \in Seq(C)
      PROVE  Prepared(s)
  <2>1. Row(s) /\ \A n \in 1..Len(s) : s[n] \in C
    BY RowOf, ElementOfSeq
  <2>2. \A x \in C : x.op \in Ops \ {"barrier"} /\ Needs(x) \subseteq {}
    BY <1>2, NeedsOfCommands
  <2> QED BY <2>1, <2>2, CoveredPrepared DEF Covered
<1>3. Prepared(<<Plain, Plain>>) /\ Prepared(<<User, User>>)
  <2>1. Plain.op = "plain" /\ User.op = "user"
    BY DEF Plain, User
  <2>2. \A x \in {Plain, User} : x.op \in Ops \ {"mount", "sshd", "barrier"}
    BY <2>1 DEF Ops
  <2>3. <<Plain, Plain>> \in Seq({Plain, User}) /\ <<User, User>> \in Seq({Plain, User})
    OBVIOUS
  <2> QED BY <1>2, <2>2, <2>3
<1>4. Prepared(GitCommands(c))
  <2> DEFINE x == [op |-> "check empty", at |-> c.dir]
             y == Mkdir(c.dir)
             z == [op |-> "mv", at |-> c.dir]
             C == {x, y, z}
  <2>1. x.op = "check empty" /\ y.op = "mkdir" /\ z.op = "mv"
    BY DEF Mkdir
  <2>2. GitCommands(c) = <<>> \/ GitCommands(c) = <<x, y, z>>
    BY DEF GitCommands
  <2> HIDE DEF x, y, z
  <2>3. \A w \in C : w.op \in Ops \ {"mount", "sshd", "barrier"}
    BY <2>1 DEF Ops
  <2>4. <<x, y, z>> \in Seq(C)
    OBVIOUS
  <2> HIDE DEF C
  <2>5. Prepared(<<x, y, z>>)
    BY <1>2, <2>3, <2>4
  <2> QED BY <1>1, <2>2, <2>5
<1>5. \A k, e : Prepared(CmdCommands(c, k, e))
  BY <1>1, <1>3 DEF CmdCommands
<1>6. Prepared(TensorboardCommands(c))
  BY <1>1, <1>3 DEF TensorboardCommands
<1> QED BY <1>4, <1>5, <1>6

\* The commands of the ssh plugin are in order.
LEMMA SshPrepared ==
    ASSUME NEW c PROVE Prepared(SshCommands(c))
<1> DEFINE d == [op |-> "sshd", jobssh |-> JobSsh(c),
            called |-> ~ (UserSsh(c) /\ "empty type" \in c.asks)]
           b == [op |-> "barrier"]
           C == {Ssh, d, b}
<1>1. Ssh.op = "install" /\ Ssh.group = "ssh" /\ d.op = "sshd" /\ b.op = "barrier"
  BY DEF Ssh, Install
<1>2. SshCommands(c) \in {<<>> \o <<>>, <<Ssh, d>> \o <<>>, <<Ssh, d>> \o <<b>>}
  BY DEF SshCommands, Ssh
<1> HIDE DEF d, b
<1>3. /\ Ssh.op \in Ops /\ d.op \in Ops /\ b.op \in Ops /\ Needs(Ssh) = {}
      /\ Needs(d) = {"openssh-server"} /\ Needs(b) = {"openssh-client"}
  BY <1>1 DEF Needs, Ops
<1>4. Needs(d) \subseteq Gives(Ssh) /\ Needs(b) \subseteq Gives(Ssh)
  <2>1. Gives(Ssh) = Packages["ssh"]
    BY <1>1 DEF Gives
  <2> QED BY <1>3, <2>1, ScriptsAssumption
<1>5. ASSUME NEW s, s \in Seq(C), Len(s) \in {2, 3}, s[1] = Ssh, s[2] = d, Len(s) = 3 => s[3] = b
      PROVE  Prepared(s)
  <2>1. Row(s)
    BY <1>5, RowOf
  <2>2. PreparedAt(s, 1) /\ PreparedAt(s, 2)
    BY <1>1, <1>3, <1>4, <1>5 DEF PreparedAt
  <2>3. ASSUME Len(s) = 3 PROVE PreparedAt(s, 3)
    <3>1. s[3] = b
      BY <1>5, <2>3
    <3>2. Needs(s[3]) \subseteq Gives(s[1]) /\ s[2].op = "sshd" /\ s[3].op \in Ops
      BY <1>1, <1>3, <1>4, <1>5, <3>1
    <3>3. 1 \in 1..(3 - 1) /\ 2 \in 1..(3 - 1)
      OBVIOUS
    <3> QED BY <3>2, <3>3 DEF PreparedAt
  <2>4. \A n \in 1..Len(s) : n = 1 \/ n = 2 \/ (Len(s) = 3 /\ n = 3)
    <3>1. \A k \in {2, 3} : \A n \in 1..k : n = 1 \/ n = 2 \/ (k = 3 /\ n = 3)
      OBVIOUS
    <3> QED BY <1>5, <3>1
  <2> QED BY <2>1, <2>2, <2>3, <2>4 DEF Prepared
<1>6. <<>> \o <<>> = <<>>
  OBVIOUS
<1>7. ASSUME NEW s, s = <<Ssh, d>> \o <<>> PROVE Prepared(s)
  <2>1. <<Ssh, d>> \in Seq(C)
    OBVIOUS
  <2>2. s \in Seq(C) /\ Len(s) = 2 /\ s[1] = Ssh /\ s[2] = d
    BY <1>7, <2>1
  <2> QED BY <1>5, <2>2
<1>8. ASSUME NEW s, s = <<Ssh, d>> \o <<b>> PROVE Prepared(s)
  <2>1. <<Ssh, d>> \in Seq(C) /\ <<b>> \in Seq(C)
    OBVIOUS
  <2>2. s \in Seq(C) /\ Len(s) = 3 /\ s[1] = Ssh /\ s[2] = d /\ s[3] = b
    BY <1>8, <2>1
  <2> QED BY <1>5, <2>2
<1> QED BY <1>2, <1>6, <1>7, <1>8, CoveredRows

\* What init.py of a plugin writes, unless it raises, is prepared.
LEMMA CommandsPrepared ==
    ASSUME NEW c, c.kind \in Kinds, c.names \in Seq(STRING),
           c.kind = "storage" => ~StorageRaises(c.names)
    PROVE  Prepared(PreCommands(c)) /\ Prepared(PostCommands(c))
<1>1. CASE c.kind = "storage"
  <2>1. PreCommands(c) = StorageCommands(c.names)
    BY <1>1 DEF PreCommands
  <2>2. PostCommands(c) = <<>>
    BY <1>1 DEF PostCommands
  <2> QED BY <1>1, <2>1, <2>2, StoragePrepared, CoveredRows
<1>2. CASE c.kind # "storage"
  <2>1. PreCommands(c) \in {SshCommands(c), GitCommands(c), TensorboardCommands(c),
                            CmdCommands(c, "preCommands", "taskStarts"), <<>>}
    BY <1>2 DEF PreCommands, Kinds
  <2>2. PostCommands(c) \in {CmdCommands(c, "postCommands", "taskSucceeds"), <<>>}
    BY DEF PostCommands
  <2> QED BY <2>1, <2>2, SshPrepared, OthersPrepared, CoveredRows
<1> QED BY <1>1, <1>2

\* The plugins of a job.
LEMMA JobTypes ==
    ASSUME NEW j \in Jobs
    PROVE  /\ Len(j) \in Nat /\ DOMAIN j = 1..Len(j)
           /\ \A i \in DOMAIN j : /\ j[i].kind \in Kinds
                                  /\ j[i].names \in Seq(STRING) /\ j[i].dir \in Seq(STRING)
<1> DEFINE R == [kind : {"ssh", "git", "cmd", "tensorboard", "storage", "teamwise_storage"},
                 policy : {"fail", "ignore", "Ignore"}, asks : SUBSET STRING,
                 names : Seq(STRING), dir : Seq(STRING)]
<1>1. j \in Seq(R)
  BY ScriptsAssumption
<1>2. \A r \in R : r.kind \in Kinds /\ r.names \in Seq(STRING) /\ r.dir \in Seq(STRING)
  BY DEF Kinds
<1> HIDE DEF R
<1>3. Len(j) \in Nat /\ DOMAIN j = 1..Len(j) /\ \A i \in DOMAIN j : j[i] \in R
  BY <1>1
<1> QED BY <1>2, <1>3

\* A sequence with an element in front, and one with an element behind as well.
LEMMA Enclosed ==
    ASSUME NEW X, NEW s \in Seq(X), NEW a \in X, NEW b \in X
    PROVE  /\ Len(<<a>> \o s) = Len(s) + 1 /\ (<<a>> \o s)[1] = a
           /\ \A m \in 1..Len(s) : (<<a>> \o s)[m + 1] = s[m]
           /\ Len(<<a>> \o s \o <<b>>) = Len(s) + 2 /\ (<<a>> \o s \o <<b>>)[1] = a
           /\ \A m \in 1..Len(s) : (<<a>> \o s \o <<b>>)[m + 1] = s[m]
           /\ (<<a>> \o s \o <<b>>)[Len(s) + 2] = b
<1>1. <<a>> \in Seq(X) /\ <<b>> \in Seq(X) /\ Len(s) \in Nat
  OBVIOUS
<1>2. PICK u : u = <<a>> \o s
  OBVIOUS
<1>3. u \in Seq(X) /\ Len(u) = Len(s) + 1 /\ u[1] = a /\ \A m \in 1..Len(s) : u[m + 1] = s[m]
  BY <1>1, <1>2
<1>4. /\ Len(u \o <<b>>) = Len(s) + 2 /\ (u \o <<b>>)[1] = a
      /\ \A m \in 1..Len(s) : (u \o <<b>>)[m + 1] = s[m]
      /\ (u \o <<b>>)[Len(s) + 2] = b
  BY <1>1, <1>3
<1> QED BY <1>2, <1>3, <1>4

\* inject_commands puts options around a row that is prepared.
LEMMA InjectedIsShaped ==
    ASSUME NEW c, NEW s, Prepared(s) PROVE Shaped(c, InjectCommands(c, s))
<1> DEFINE X == ToSet(s) \cup {Set(TRUE), Set(FALSE)}
<1>1. /\ s \in Seq(X) /\ Len(s) \in Nat /\ Set(TRUE) \in X /\ Set(FALSE) \in X
      /\ s # <<>> => Len(s) > 0
  <2>1. s \in Seq(ToSet(s))
    BY DEF Prepared, Row
  <2>2. Len(s) \in Nat /\ (s # <<>> => Len(s) > 0)
    BY <2>1
  <2>3. s \in Seq(X)
    <3>1. ToSet(s) \subseteq X
      OBVIOUS
    <3> HIDE DEF X
    <3> QED BY <2>1, <3>1, SeqGrows
  <2> QED BY <2>2, <2>3
<1>2. \A m \in 1..Len(s) : PreparedAt(s, m)
  BY DEF Prepared
<1> HIDE DEF X
<1>3. ASSUME NEW t, s # <<>>, Len(t) \in Nat,
             \A m \in 1..Len(s) : t[m + 1] = s[m],
             NEW n \in 2..(Len(s) + 1)
      PROVE  PreparedAt(t, n)
  <2>1. PICK m \in 1..Len(s) : n = m + 1
    <3>1. n - 1 \in 1..Len(s) /\ n = (n - 1) + 1
      BY <1>1
    <3> QED BY <3>1
  <2>2. t[n] = s[m] /\ PreparedAt(s, m)
    BY <1>2, <1>3, <2>1
  <2>3. ASSUME NEW k \in 1..(m - 1) PROVE k + 1 \in 1..(n - 1) /\ t[k + 1] = s[k]
    <3>1. k \in 1..Len(s) /\ k + 1 \in 1..(n - 1)
      BY <1>1, <2>1
    <3> QED BY <1>3, <3>1
  <2>4. Needs(t[n]) = {} \/ \E k \in 1..(n - 1) : Needs(t[n]) \subseteq Gives(t[k])
    BY <2>2, <2>3 DEF PreparedAt
  <2>5. t[n].op = "barrier" => \E k \in 1..(n - 1) : t[k].op = "sshd"
    BY <2>2, <2>3 DEF PreparedAt
  <2> QED BY <2>2, <2>4, <2>5 DEF PreparedAt
<1>4. CASE s = <<>>
  <2>1. InjectCommands(c, s) = <<>> /\ Len(<<>>) = 0
    BY <1>4 DEF InjectCommands
  <2>2. Shaped(c, <<>>)
    BY <2>1 DEF Shaped
  <2> QED BY <2>1, <2>2
<1>5. CASE s # <<>> /\ Lenient(c)
  <2> DEFINE t == <<Set(FALSE)>> \o s \o <<Set(TRUE)>>
  <2>2. /\ Len(t) = Len(s) + 2 /\ t[1] = Set(FALSE) /\ t[Len(s) + 2] = Set(TRUE)
        /\ \A m \in 1..Len(s) : t[m + 1] = s[m]
    <3>1. ASSUME NEW a \in X, NEW b \in X
          PROVE  /\ Len(<<a>> \o s \o <<b>>) = Len(s) + 2 /\ (<<a>> \o s \o <<b>>)[1] = a
                 /\ (<<a>> \o s \o <<b>>)[Len(s) + 2] = b
                 /\ \A m \in 1..Len(s) : (<<a>> \o s \o <<b>>)[m + 1] = s[m]
      <4>1. s \in Seq(X)
        BY <1>1
      <4>2. /\ Len(<<a>> \o s) = Len(s) + 1 /\ (<<a>> \o s)[1] = a
            /\ \A m \in 1..Len(s) : (<<a>> \o s)[m + 1] = s[m]
            /\ Len(<<a>> \o s \o <<b>>) = Len(s) + 2 /\ (<<a>> \o s \o <<b>>)[1] = a
            /\ \A m \in 1..Len(s) : (<<a>> \o s \o <<b>>)[m + 1] = s[m]
            /\ (<<a>> \o s \o <<b>>)[Len(s) + 2] = b
        BY <4>1, Enclosed, SMTT(30)
      <4> QED BY <4>2, Zenon
    <3> QED BY <1>1, <3>1, Zenon
  <2>3. InjectCommands(c, s) = t
    BY <1>5 DEF InjectCommands
  <2> HIDE DEF t
  <2>4. \A n \in 2..(Len(s) + 1) : PreparedAt(t, n)
    BY <1>1, <1>3, <1>5, <2>2
  <2>5. \A n \in 2..Len(t) : IF LastIn(c, t, n) THEN t[n] = SetErrexit ELSE PreparedAt(t, n)
    <3>1. Len(s) \in Nat /\ Lenient(c)
      BY <1>1, <1>5
    <3>2. ASSUME NEW n \in 2..Len(t), n # Len(t) PROVE n \in 2..(Len(s) + 1)
      BY <2>2, <3>1, <3>2
    <3>3. t[Len(t)] = SetErrexit
      BY <2>2 DEF SetErrexit
    <3> QED BY <3>1, <3>2, <3>3, <2>4 DEF LastIn
  <2>6. Len(t) \in Nat /\ Len(t) > 1 /\ t[1] = FirstOf(c)
    <3>1. FirstOf(c) = Set(FALSE)
      BY <1>5 DEF Set, FirstOf
    <3>2. Len(s) \in Nat /\ Len(s) > 0
      BY <1>1, <1>5
    <3>3. Len(t) \in Nat /\ Len(t) > 1
      BY <2>2, <3>2
    <3>4. t[1] = FirstOf(c)
      BY <2>2, <3>1, Zenon
    <3> QED BY <3>3, <3>4
  <2>7. Shaped(c, t)
    BY <2>5, <2>6 DEF Shaped
  <2> QED BY <2>3, <2>7
<1>6. CASE s # <<>> /\ ~Lenient(c)
  <2> DEFINE t == <<Set(TRUE)>> \o s
  <2>2. /\ Len(t) = Len(s) + 1 /\ t[1] = Set(TRUE)
        /\ \A m \in 1..Len(s) : t[m + 1] = s[m]
    BY <1>1, Enclosed
  <2>3. InjectCommands(c, s) = t
    BY <1>6 DEF InjectCommands
  <2> HIDE DEF t
  <2>4. \A n \in 2..(Len(s) + 1) : PreparedAt(t, n)
    BY <1>1, <1>3, <1>6, <2>2
  <2>5. \A n \in 2..Len(t) : IF LastIn(c, t, n) THEN t[n] = SetErrexit ELSE PreparedAt(t, n)
    BY <1>1, <1>6, <2>2, <2>4 DEF LastIn
  <2>6. Len(t) \in Nat /\ Len(t) > 1 /\ t[1] = FirstOf(c)
    <3>1. FirstOf(c) = Set(TRUE)
      BY <1>6 DEF Set, FirstOf
    <3>2. Len(s) \in Nat /\ Len(s) > 0
      BY <1>1, <1>6
    <3>3. Len(t) \in Nat /\ Len(t) > 1
      BY <2>2, <3>2
    <3>4. t[1] = FirstOf(c)
      BY <2>2, <3>1, Zenon
    <3> QED BY <3>3, <3>4
  <2>7. Shaped(c, t)
    BY <2>5, <2>6 DEF Shaped
  <2> QED BY <2>3, <2>7
<1> QED BY <1>4, <1>5, <1>6

\* Both scripts of a plugin that does not raise.
LEMMA ScriptsAreShaped ==
    ASSUME NEW c, c.kind \in Kinds, c.names \in Seq(STRING),
           c.kind = "storage" => ~StorageRaises(c.names)
    PROVE  /\ Shaped(c, InjectCommands(c, PreCommands(c)))
           /\ Shaped(c, InjectCommands(c, PostCommands(c)))
BY CommandsPrepared, InjectedIsShaped

-----------------------------------------------------------------------------
(* What the commands do                                                     *)

\* apt-get takes no package away, and brings what it was asked for if it succeeds.
LEMMA AptAdds ==
    ASSUME NEW ps, NEW have, NEW x \in AptGet(ps, have)
    PROVE  have \subseteq x[2] /\ (x[1] = TRUE => ps \subseteq x[2])
<1>1. x = <<TRUE, have \cup ps>> \/ \E s : x = <<FALSE, have \cup s>>
  BY DEF AptGet
<1>2. CASE x = <<TRUE, have \cup ps>>
  <2>1. x[2] = have \cup ps
    BY <1>2
  <2> QED BY <2>1
<1>3. ASSUME NEW s, x = <<FALSE, have \cup s>>
      PROVE  have \subseteq x[2] /\ (x[1] = TRUE => ps \subseteq x[2])
  <2>1. x[2] = have \cup s /\ x[1] = FALSE
    BY <1>3
  <2>2. x[1] # TRUE
    BY <2>1
  <2> QED BY <2>1, <2>2
<1> QED BY <1>1, <1>2, <1>3

\* Installing takes no package away, and brings all of the group if it succeeds.
LEMMA InstallingAdds ==
    ASSUME NEW g, NEW have, NEW r \in TryToInstallByCache(g, have)
    PROVE  have \subseteq r[2] /\ (r[1] = TRUE => Packages[g] \subseteq r[2])
<1> DEFINE Good(h, x) == h \subseteq x[2] /\ (x[1] = TRUE => Packages[g] \subseteq x[2])
<1>1. \A h : \A x \in AptGet(Packages[g], h) : Good(h, x)
  BY AptAdds
<1>2. ASSUME NEW h, NEW v \in Verify(g, h) \cap {TRUE} PROVE Good(h, <<TRUE, h>>)
  BY DEF Verify
<1>3. \A h \in DpkgAll(g, have) : have \subseteq h
  BY DEF DpkgAll
<1>4. ASSUME NEW x \in InstallGroup(g, have) PROVE Good(have, x)
  <2>1. CASE site.cache = "absent"
    <3>1. x = <<FALSE, have>>
      BY <2>1 DEF InstallGroup
    <3> QED BY <3>1
  <2>2. CASE site.cache # "absent"
    <3>1. \/ \E v \in Verify(g, have) \cap {TRUE} : x = <<TRUE, have>>
          \/ x \in AptGet(Packages[g], have)
          \/ \E h \in DpkgAll(g, have) :
                \/ \E v \in Verify(g, h) \cap {TRUE} : x = <<TRUE, h>>
                \/ x \in AptGet(Packages[g], h)
      BY <2>2 DEF InstallGroup
    <3> QED BY <3>1, <1>1, <1>2, <1>3
  <2> QED BY <2>1, <2>2
<1>5. \/ r \in AptGet(Packages[g], have)
      \/ r \in InstallGroup(g, have)
      \/ \E q \in InstallGroup(g, have) : r \in AptGet(Packages[g], q[2])
  BY DEF TryToInstallByCache
<1> QED BY <1>1, <1>4, <1>5

\* A command leaves what is installed, and sshd.
Keeps(w) == DOMAIN w = Fields /\ box.have \subseteq w.have /\ (box.sshd => w.sshd)

\* Whether it succeeds or fails, no command takes a package away.
LEMMA CommandsKeep ==
    ASSUME DOMAIN box = Fields, NEW c, c.op \in Ops, NEW w,
           w \in Succeeds(c) \/ w \in Fails(c)
    PROVE  Keeps(w)
<1>1. Keeps(box)
  BY DEF Keeps
<1>2. ASSUME NEW ok, NEW x \in Installed(TryToInstallByCache(c.group, box.have), ok) PROVE Keeps(x)
  <2>1. PICK r \in TryToInstallByCache(c.group, box.have) : x = [box EXCEPT !.have = r[2]]
    BY <1>2 DEF Installed
  <2>2. box.have \subseteq r[2]
    BY InstallingAdds
  <2> QED BY <2>1, <2>2 DEF Keeps, Fields
<1>3. ASSUME NEW ok, NEW x \in Installed(AptGet(c.packages, box.have), ok) PROVE Keeps(x)
  <2>1. PICK p \in AptGet(c.packages, box.have) : x = [box EXCEPT !.have = p[2]]
    BY <1>3 DEF Installed
  <2>2. box.have \subseteq p[2]
    BY AptAdds
  <2> QED BY <2>1, <2>2 DEF Keeps, Fields
<1>4. Keeps(RmIn(box, c.at))
  <2>1. \/ \E t : RmIn(box, c.at) = [box EXCEPT !.table = t]
        \/ \E t, ds, d : RmIn(box, c.at) = [box EXCEPT !.dirs = ds, !.data = d, !.table = t]
    BY DEF RmIn
  <2> QED BY <2>1 DEF Keeps, Fields
<1>5. CASE w \in Fails(c)
  <2>1. CASE c.op = "install"
    BY <1>2, <1>5, <2>1 DEF Fails
  <2>2. CASE c.op = "apt"
    BY <1>5, <1>3, <2>2 DEF Fails
  <2>3. CASE c.op = "rm"
    BY <1>5, <1>1, <1>4, <2>3 DEF Fails
  <2>4. CASE c.op \notin {"install", "apt", "rm"}
    <3>1. w = box
      BY <1>5, <2>4 DEF Fails
    <3> QED BY <3>1, <1>1
  <2> QED BY <2>1, <2>2, <2>3, <2>4
<1>6. CASE w \in Succeeds(c)
  <2>1. CASE c.op \in {"plain", "exit unless", "user"}
    BY <2>1, <1>1, <1>6 DEF Succeeds
  <2>2. CASE c.op = "install"
    BY <2>2, <1>2, <1>6 DEF Succeeds
  <2>3. CASE c.op = "sshd"
    <3>1. w = box \/ w = [box EXCEPT !.sshd = TRUE]
      BY <2>3, <1>6 DEF Succeeds, StartSshd
    <3> QED BY <3>1, <1>1 DEF Keeps, Fields
  <2>4. CASE c.op = "barrier"
    BY <2>4, <1>1, <1>6 DEF Succeeds, PassBarrier
  <2>5. CASE c.op = "check empty"
    BY <2>5, <1>1, <1>6 DEF Succeeds, CheckCloneDir
  <2>6. CASE c.op = "mkdir"
    <3>1. \E ds : w = [box EXCEPT !.dirs = ds]
      BY <2>6, <1>6 DEF Succeeds, MkdirIn
    <3> QED BY <3>1 DEF Keeps, Fields
  <2>7. CASE c.op = "mv"
    <3>1. \E ds : w = [box EXCEPT !.code = FALSE, !.data = ds]
      BY <2>7, <1>6 DEF Succeeds, MoveCode
    <3> QED BY <3>1 DEF Keeps, Fields
  <2>8. CASE c.op = "apt"
    BY <2>8, <1>3, <1>6 DEF Succeeds
  <2>9. CASE c.op = "rm"
    BY <2>9, <1>4, <1>6 DEF Succeeds
  <2>10. CASE c.op \in {"mount", "umount", "link"}
    <3>1. \E t : w = [box EXCEPT !.table = t]
      <4>1. CASE c.op = "mount"
        BY <4>1, <1>6 DEF Succeeds, MountIn
      <4>2. CASE c.op = "umount"
        BY <4>2, <1>6 DEF Succeeds, UmountIn
      <4>3. CASE c.op = "link"
        BY <4>3, <1>6 DEF Succeeds, LinkIn
      <4> QED BY <2>10, <4>1, <4>2, <4>3
    <3> QED BY <3>1 DEF Keeps, Fields
  <2> QED BY <2>1, <2>2, <2>3, <2>4, <2>5, <2>6, <2>7, <2>8, <2>9, <2>10 DEF Ops
<1> QED BY <1>5, <1>6

\* If it succeeds, a command brings what it gives, and sshd with its package runs
\* if sshd.sh starts it.
LEMMA CommandsGive ==
    ASSUME DOMAIN box = Fields, NEW c, NEW w \in Succeeds(c)
    PROVE  /\ Gives(c) \subseteq w.have
           /\ Starts(c) /\ "openssh-server" \in box.have => w.sshd
<1>1. CASE c.op = "install"
  <2>1. PICK r \in TryToInstallByCache(c.group, box.have) :
          r[1] = TRUE /\ w = [box EXCEPT !.have = r[2]]
    BY <1>1 DEF Succeeds, Installed
  <2>2. Packages[c.group] \subseteq r[2]
    BY <2>1, InstallingAdds
  <2>3. w.have = r[2] /\ Gives(c) = Packages[c.group]
    BY <1>1, <2>1 DEF Fields, Gives
  <2> QED BY <1>1, <2>2, <2>3 DEF Starts
<1>2. CASE c.op = "apt"
  <2>1. PICK r \in AptGet(c.packages, box.have) : r[1] = TRUE /\ w = [box EXCEPT !.have = r[2]]
    BY <1>2 DEF Succeeds, Installed
  <2>2. c.packages \subseteq r[2]
    BY <2>1, AptAdds
  <2>3. w.have = r[2] /\ Gives(c) = c.packages
    BY <1>2, <2>1 DEF Fields, Gives
  <2> QED BY <1>2, <2>2, <2>3 DEF Starts
<1>3. CASE c.op = "sshd"
  <2>1. Gives(c) = {}
    BY <1>3 DEF Gives
  <2>2. ASSUME "openssh-server" \in box.have, Starts(c) PROVE w.sshd
    <3>1. w = [box EXCEPT !.sshd = TRUE]
      BY <1>3, <2>2 DEF Succeeds, StartSshd
    <3> QED BY <3>1 DEF Fields
  <2> QED BY <2>1, <2>2
<1>4. CASE c.op \notin {"install", "apt", "sshd"}
  <2>1. Gives(c) = {} /\ ~ Starts(c)
    BY <1>4 DEF Gives, Starts
  <2> QED BY <1>4, <2>1
<1> QED BY <1>1, <1>2, <1>3, <1>4

-----------------------------------------------------------------------------
(* Every step keeps the invariant                                           *)

\* A new shell starts with the first line of a script.
LEMMA ShellStarts ==
    ASSUME Shapes', NewShell, phase' \in {"pre", "post"}, cur' \in DOMAIN job'
    PROVE  LineInv'
<1>1. Shaped(job'[cur'], script'[phase'][cur'])
  BY DEF Shapes
<1>2. Len(Current') \in Nat
  BY <1>1 DEF Shaped, Current
<1>3. Len(Current') # 0 => Len(Current') > 1
  BY <1>1, <1>2 DEF Shaped, Current
<1>4. line' = 1 /\ status' = "ok"
  BY DEF NewShell
<1> QED BY <1>2, <1>3, <1>4 DEF LineInv, LinePlace, OptionIsSet, EndsWell, GivenIsThere

\* No plugin has written anything.
LEMMA InitScripts ==
    ASSUME Init PROVE ScriptsInv
<1>1. /\ Len(job) \in Nat /\ DOMAIN job = 1..Len(job)
  BY JobTypes DEF Init
<1>2. TypeOK
  <2>1. \A k \in {"pre", "post"} : DOMAIN script[k] = DOMAIN job
    BY DEF Init
  <2>2. cur \in 0..(Len(job) + 1) /\ tries \in 0..(MaxTries - 1)
    BY <1>1, ScriptsAssumption DEF Init
  <2>3. job \in Jobs /\ site \in Sites /\ phase = "init"
    BY DEF Init
  <2>4. line \in Nat \ {0} /\ errexit \in BOOLEAN /\ status = "ok"
    <3>1. line = 1 /\ status = "ok"
      BY Zenon DEF Init
    <3>2. errexit \in BOOLEAN
      BY Zenon DEF Init
    <3> QED BY <3>1, <3>2
  <2>5. bad \subseteq DOMAIN job /\ quit \in BOOLEAN
    BY DEF Init
  <2> QED BY <2>1, <2>2, <2>3, <2>4, <2>5 DEF TypeOK
<1>3. DOMAIN box = Fields
  BY DEF Init, Fields
<1>4. \A c : Shaped(c, <<>>)
  BY DEF Shaped
<1>5. Shapes
  BY <1>4 DEF Init, Shapes
<1>6. PolicyKept
  BY DEF Init, PolicyKept
<1> QED BY <1>2, <1>3, <1>5, <1>6 DEF Init, ScriptsInv, InScript

\* What stays when a plugin writes its script, or is refused.
LEMMA PreparingKeeps ==
    ASSUME ScriptsInv, Preparing, DOMAIN box' = Fields,
           \/ /\ Write(job[cur])
              /\ job[cur].kind = "storage" => ~StorageRaises(job[cur].names)
           \/ Refuse(job[cur])
    PROVE  ScriptsInv'
<1> DEFINE c == job[cur]
<1>1. /\ TypeOK /\ Shapes /\ PolicyKept /\ phase = "init" /\ cur \in DOMAIN job
      /\ Len(job) \in Nat /\ DOMAIN job = 1..Len(job) /\ job \in Jobs
      /\ c.kind \in Kinds /\ c.names \in Seq(STRING)
  BY JobTypes DEF ScriptsInv, TypeOK, Preparing
<1>2. job' = job /\ ~InScript'
  BY <1>1 DEF Write, Refuse, InScript
<1>3. CASE Write(c) /\ (c.kind = "storage" => ~StorageRaises(c.names))
  <2> DEFINE pre == InjectCommands(c, PreCommands(c))
             post == InjectCommands(c, PostCommands(c))
  <2>1. Shaped(c, pre) /\ Shaped(c, post)
    BY <1>1, <1>3, ScriptsAreShaped
  <2>2. script' = [pre |-> [script["pre"] EXCEPT ![cur] = pre],
                   post |-> [script["post"] EXCEPT ![cur] = post]]
    BY <1>3 DEF Write
  <2> HIDE DEF pre, post
  <2>3. \A k \in {"pre", "post"} : DOMAIN script[k] = DOMAIN job
    BY <1>1 DEF TypeOK
  <2>4. /\ script'["pre"] = [script["pre"] EXCEPT ![cur] = pre]
        /\ script'["post"] = [script["post"] EXCEPT ![cur] = post]
    BY <2>2
  <2>5. \A k \in {"pre", "post"} : DOMAIN script'[k] = DOMAIN job
    BY <2>3, <2>4
  <2>6. \A i \in DOMAIN job : Shaped(job[i], script'["pre"][i]) /\ Shaped(job[i], script'["post"][i])
    BY <1>1, <2>1, <2>3, <2>4 DEF Shapes
  <2>7. Shapes'
    BY <1>2, <2>6 DEF Shapes
  <2>8. cur' = cur + 1 /\ tries' = 0 /\ UNCHANGED <<job, site, phase, line, errexit, status, bad, quit>>
    BY <1>3 DEF Write, runVars
  <2>9. TypeOK'
    BY <1>1, <2>5, <2>8, ScriptsAssumption DEF TypeOK
  <2>10. PolicyKept'
    BY <1>1, <2>8 DEF PolicyKept, Strict, Lenient
  <2>11. cur' > 0
    BY <1>1, <2>8
  <2> QED BY <1>2, <2>7, <2>9, <2>10, <2>11 DEF ScriptsInv
<1>4. CASE Refuse(c)
  <2>1. /\ IF c.policy = "ignore" THEN cur' = cur + 1 /\ UNCHANGED phase
                                  ELSE phase' = "refused" /\ UNCHANGED cur
        /\ tries' = 0 /\ UNCHANGED <<job, site, script, line, errexit, status, bad, quit>>
    BY <1>4 DEF Refuse, runVars
  <2>2. Shapes'
    BY <1>1, <2>1 DEF Shapes
  <2>3. TypeOK'
    BY <1>1, <2>1, ScriptsAssumption DEF TypeOK
  <2>4. PolicyKept'
    BY <1>1, <2>1 DEF PolicyKept, Strict, Lenient
  <2>5. cur' > 0
    BY <1>1, <2>1
  <2> QED BY <1>2, <2>2, <2>3, <2>4, <2>5 DEF ScriptsInv
<1> QED BY <1>3, <1>4

\* The type of the variables, and the domain of the box.
LEMMA StepKeepsTypes ==
    ASSUME ScriptsInv, NEW c \in 0..(Len(job) + 1), NEW p, NEW l \in Nat \ {0},
           NEW e \in BOOLEAN, NEW s \in {"ok", "fail"}, NEW b \in SUBSET (DOMAIN job), NEW q \in BOOLEAN,
           p \in {"init", "pre", "job", "post", "end", "refused", "failed"},
           UNCHANGED <<job, site, tries, script>>, cur' = c, phase' = p,
           line' = l, errexit' = e, status' = s, bad' = b, quit' = q
    PROVE  TypeOK' /\ Shapes'
<1>1. TypeOK /\ Shapes
  BY DEF ScriptsInv
<1>2. TypeOK'
  BY <1>1 DEF TypeOK
<1>3. Shapes'
  BY <1>1 DEF Shapes
<1> QED BY <1>2, <1>3

\* What a script's next line needs, when the line at hand has been a command.
LEMMA LineIsCommand ==
    ASSUME ScriptsInv, Running, Current[line].op # "set"
    PROVE  /\ PreparedAt(Current, line) /\ line > 1 /\ Len(Current) \in Nat
           /\ ~(Lenient(job[cur]) /\ line = Len(Current))
           /\ errexit <=> Strict(cur)
<1>1. Shaped(job[cur], Current) /\ LineInv /\ line <= Len(Current) /\ line \in Nat \ {0}
  BY DEF ScriptsInv, InScript, Shapes, Running, Current, TypeOK
<1>2. Len(Current) \in Nat
  BY <1>1 DEF Shaped
<1>3. FirstOf(job[cur]).op = "set" /\ SetErrexit.op = "set"
  BY DEF Set, FirstOf, SetErrexit
<1>4. line # 1
  BY <1>1, <1>2, <1>3 DEF Shaped
<1>5. line \in 2..Len(Current)
  BY <1>1, <1>2, <1>4
<1>6. ~LastIn(job[cur], Current, line) /\ PreparedAt(Current, line)
  BY <1>1, <1>3, <1>5 DEF Shaped
<1>7. errexit <=> Strict(cur)
  BY <1>1, <1>5 DEF LineInv, OptionIsSet
<1> QED BY <1>2, <1>5, <1>6, <1>7 DEF LastIn

\* What the line at hand needs is there, if failures count.
LEMMA LineIsReady ==
    ASSUME ScriptsInv, Running, Current[line].op # "set", Strict(cur)
    PROVE  /\ Needs(Current[line]) \subseteq box.have
           /\ Current[line].op = "barrier" =>
                \E k \in 1..(line - 1) :
                    Current[k].op = "sshd" /\ (Starts(Current[k]) => box.sshd)
<1>1. PreparedAt(Current, line)
  BY LineIsCommand
<1>2. LineInv /\ line <= Len(Current)
  BY DEF ScriptsInv, InScript, Running
<1>3. \A m \in 1..(line - 1) :
        Gives(Current[m]) \subseteq box.have /\ (Starts(Current[m]) => box.sshd)
  BY <1>2 DEF LineInv, GivenIsThere
<1> QED BY <1>1, <1>3 DEF PreparedAt

\* set -o errexit and set +o errexit, before the commands and after them.
LEMMA OptionStep ==
    ASSUME ScriptsInv, SetOption PROVE ScriptsInv'
<1>1. /\ Running /\ InScript /\ Current[line].op = "set" /\ errexit' = Current[line].on
      /\ status' = "ok" /\ line' = line + 1
      /\ UNCHANGED <<job, site, phase, cur, tries, script, box, bad, quit>>
  BY DEF SetOption, Running, InScript
<1>2. Shaped(job[cur], Current) /\ LineInv /\ TypeOK /\ PolicyKept
  BY <1>1 DEF ScriptsInv, Shapes, InScript, Current
<1>3. Len(Current) \in Nat /\ line \in 1..Len(Current) /\ Current' = Current
  BY <1>1, <1>2 DEF Shaped, TypeOK, Running, Current
<1>4. \/ line = 1 /\ Current[line] = FirstOf(job[cur])
      \/ line = Len(Current) /\ Current[line] = SetErrexit /\ Lenient(job[cur])
  <2>1. CASE line = 1
    BY <2>1, <1>2, <1>3 DEF Shaped
  <2>2. CASE line # 1
    <3>1. line \in 2..Len(Current)
      BY <1>3, <2>2
    <3>2. Current[line].op \notin Ops
      BY <1>1 DEF Ops
    <3>3. LastIn(job[cur], Current, line) /\ Current[line] = SetErrexit
      BY <1>2, <3>1, <3>2 DEF Shaped, PreparedAt
    <3> QED BY <3>3 DEF LastIn
  <2> QED BY <2>1, <2>2
<1>5. errexit' \in BOOLEAN /\ (line = 1 => (errexit' <=> ~Lenient(job[cur])))
  <2>1. FirstOf(job[cur]).on \in BOOLEAN /\ (FirstOf(job[cur]).on <=> ~Lenient(job[cur]))
    BY DEF FirstOf, Set, Lenient
  <2>2. SetErrexit.on = TRUE
    BY DEF SetErrexit, Set
  <2>3. CASE line = 1 /\ Current[line] = FirstOf(job[cur])
    BY <1>1, <2>1, <2>3
  <2>4. CASE line = Len(Current) /\ Current[line] = SetErrexit /\ Lenient(job[cur])
    <3>1. line # 1
      BY <1>2, <1>3, <2>4 DEF Shaped
    <3> QED BY <1>1, <2>2, <2>4, <3>1
  <2> QED BY <1>4, <2>3, <2>4
<1>6. TypeOK' /\ Shapes'
  <2>1. line' \in Nat \ {0} /\ cur \in 0..(Len(job) + 1) /\ bad \in SUBSET (DOMAIN job)
    BY <1>1, <1>2, <1>3 DEF TypeOK
  <2> QED BY <1>1, <1>2, <1>5 , <2>1, StepKeepsTypes DEF TypeOK
<1>7. LineInv'
  <2>1. (Strict(cur) <=> ~Lenient(job[cur])) /\ (Strict(cur)' <=> Strict(cur))
    BY <1>1 DEF Strict, Lenient
  <2>2. line > 1 => line = Len(Current)
    BY <1>4, <1>3
  <2>3. LinePlace' /\ EndsWell'
    BY <1>1, <1>3 DEF LinePlace, EndsWell
  <2>4. OptionIsSet'
    BY <1>1, <1>3, <1>5, <2>1, <2>2 DEF OptionIsSet
  <2>5. line' <= Len(Current') => line' = 2 /\ Current'[1] = FirstOf(job[cur])
    BY <1>1, <1>3, <1>4, <2>2
  <2>6. FirstOf(job[cur]).op = "set"
    BY DEF FirstOf, Set
  <2>7. Gives(FirstOf(job[cur])) = {} /\ ~ Starts(FirstOf(job[cur]))'
    BY <2>6, <1>1 DEF Gives, Starts
  <2>8. \A m \in 1..(2 - 1) : m = 1
    OBVIOUS
  <2>9. GivenIsThere'
    BY <2>5, <2>6, <2>7, <2>8, <1>1 DEF GivenIsThere, Starts
  <2> QED BY <2>3, <2>4, <2>9 DEF LineInv
<1>8. PolicyKept'
  BY <1>1, <1>2 DEF PolicyKept, Strict, Lenient
<1>9. DOMAIN box' = Fields /\ phase' # "init"
  BY <1>1 DEF ScriptsInv, InScript
<1> QED BY <1>6, <1>7, <1>8, <1>9 DEF ScriptsInv

\* A command that ends well, or that fails with errexit not set.
LEMMA CommandStep ==
    ASSUME ScriptsInv, Running, Current[line].op # "set",
           NEW ok \in BOOLEAN,
           box' \in IF ok THEN Succeeds(Current[line]) ELSE Fails(Current[line]),
           ok = FALSE => ~Strict(cur),
           line' = line + 1, status' \in {"ok", "fail"}, ok = TRUE => status' = "ok",
           UNCHANGED <<job, site, phase, cur, tries, script, errexit, quit>>
    PROVE  DOMAIN box' = Fields /\ LineInv'
<1> DEFINE c == Current[line]
<1>1. /\ InScript /\ LineInv /\ DOMAIN box = Fields /\ line \in Nat /\ line <= Len(Current)
      /\ Current' = Current
  BY DEF ScriptsInv, InScript, Running, Current, TypeOK
<1>2. /\ PreparedAt(Current, line) /\ line > 1 /\ Len(Current) \in Nat
      /\ ~(Lenient(job[cur]) /\ line = Len(Current))
      /\ errexit <=> Strict(cur)
  BY LineIsCommand
<1>3. (Strict(cur) <=> ~Lenient(job[cur])) /\ (Strict(cur)' <=> Strict(cur))
  BY DEF Strict, Lenient
<1>4. c.op \in Ops
  BY <1>2 DEF PreparedAt
<1>5. box' \in Succeeds(c) \/ box' \in Fails(c)
  OBVIOUS
<1>6. Keeps(box')
  BY <1>1, <1>4, <1>5, CommandsKeep
<1>7. LinePlace' /\ OptionIsSet'
  BY <1>1, <1>2, <1>3 DEF LinePlace, OptionIsSet
<1>8. EndsWell'
  BY <1>1, <1>2, <1>3 DEF EndsWell
<1>9. Strict(cur) => box' \in Succeeds(c)
  OBVIOUS
<1>10. GivenIsThere'
  <2> SUFFICES ASSUME Strict(cur), NEW m \in 1..line
               PROVE  Gives(Current[m]) \subseteq box'.have /\ (Starts(Current[m]) => box'.sshd)
    <3>1. (line + 1) - 1 = line
      BY <1>1
    <3> QED BY <1>1, <1>3, <3>1 DEF GivenIsThere, Starts
  <2>1. CASE m = line
    <3>1. Starts(c) => "openssh-server" \in box.have
      <4>1. ASSUME c.op = "sshd" PROVE "openssh-server" \in Needs(c)
        BY <4>1 DEF Needs
      <4>2. c.op = "sshd" => Needs(c) \subseteq box.have
        BY <4>1, LineIsReady
      <4> QED BY <4>1, <4>2 DEF Starts
    <3> QED BY <2>1, <3>1, <1>1, <1>9, CommandsGive
  <2>2. CASE m # line
    <3>1. m \in 1..(line - 1)
      BY <1>1, <2>2
    <3>2. Gives(Current[m]) \subseteq box.have /\ (Starts(Current[m]) => box.sshd)
      BY <1>1, <3>1 DEF LineInv, GivenIsThere
    <3> QED BY <3>2, <1>6 DEF Keeps
  <2> QED BY <2>1, <2>2
<1> QED BY <1>6, <1>7, <1>8, <1>10 DEF Keeps, LineInv

\* A command ends well.
LEMMA SucceedStep ==
    ASSUME ScriptsInv, Succeed PROVE ScriptsInv'
<1>1. /\ Running /\ Current[line].op # "set" /\ box' \in Succeeds(Current[line])
      /\ status' = "ok" /\ line' = line + 1
      /\ UNCHANGED <<job, site, phase, cur, tries, script, errexit, bad, quit>>
  BY DEF Succeed
<1>2. TypeOK /\ PolicyKept /\ phase # "init"
  BY <1>1 DEF ScriptsInv, Running
<1>3. DOMAIN box' = Fields /\ LineInv'
  BY <1>1, CommandStep
<1>4. TypeOK'
  BY <1>1, <1>2 DEF TypeOK
<1>5. Shapes'
  BY <1>1 DEF ScriptsInv, Shapes
<1>6. PolicyKept'
  BY <1>1, <1>2 DEF PolicyKept, Strict, Lenient
<1> QED BY <1>1, <1>2, <1>3, <1>4, <1>5, <1>6 DEF ScriptsInv

\* A command fails: a strict plugin ends the task.
LEMMA FailStep ==
    ASSUME ScriptsInv, Fail PROVE ScriptsInv'
<1>1. /\ Running /\ Current[line].op # "set" /\ box' \in Fails(Current[line])
      /\ bad' = bad \cup {cur} /\ UNCHANGED <<job, site, cur, tries, script, errexit, quit>>
  BY DEF Fail
<1>2. /\ TypeOK /\ PolicyKept /\ phase \in {"pre", "post"} /\ cur \in DOMAIN job
      /\ bad' \subseteq DOMAIN job
  BY <1>1 DEF ScriptsInv, Running, TypeOK
<1>3. errexit <=> Strict(cur)
  BY <1>1, LineIsCommand
<1>4. Shapes'
  BY <1>1 DEF ScriptsInv, Shapes
<1>5. \A i \in bad : ~Strict(i)
  BY <1>2 DEF PolicyKept
<1>6. \A i : Strict(i)' <=> Strict(i)
  BY <1>1 DEF Strict, Lenient
<1>7. CASE errexit
  <2>1. phase' = "failed" /\ UNCHANGED <<line, status>>
    BY <1>7 DEF Fail
  <2>2. TypeOK'
    BY <1>1, <1>2, <2>1 DEF TypeOK
  <2>3. PolicyKept'
    BY <1>1, <1>3, <1>5, <1>6, <1>7, <2>1 DEF PolicyKept
  <2>4. DOMAIN box' = Fields
    <3>1. Current[line].op \in Ops /\ DOMAIN box = Fields
      BY <1>1, LineIsCommand DEF PreparedAt, ScriptsInv
    <3> QED BY <1>1, <3>1, CommandsKeep DEF Keeps
  <2> QED BY <1>4, <2>1, <2>2, <2>3, <2>4 DEF ScriptsInv, InScript
<1>8. CASE ~errexit
  <2>1. line' = line + 1 /\ status' = "fail" /\ UNCHANGED phase
    BY <1>8 DEF Fail
  <2>2. DOMAIN box' = Fields /\ LineInv'
    BY <1>1, <1>3, <1>8, <2>1, CommandStep
  <2>3. TypeOK'
    BY <1>1, <1>2, <2>1 DEF TypeOK
  <2>4. PolicyKept'
    BY <1>1, <1>2, <1>3, <1>5, <1>6, <1>8, <2>1 DEF PolicyKept
  <2> QED BY <1>2, <1>4, <2>1, <2>2, <2>3, <2>4 DEF ScriptsInv
<1> QED BY <1>7, <1>8

\* The other steps: to the next script, out of a script, and between the phases.
LEMMA ScriptEnds ==
    ASSUME ScriptsInv, EndScript PROVE ScriptsInv'
<1>1. /\ TypeOK /\ PolicyKept /\ Shapes /\ InScript /\ LineInv /\ DOMAIN box = Fields
      /\ line > Len(Current)
      /\ UNCHANGED <<job, site, tries, script, box, bad, quit>>
  BY DEF EndScript, ScriptsInv, InScript
<1>2. Len(job) \in Nat /\ DOMAIN job = 1..Len(job)
  BY <1>1, JobTypes DEF TypeOK
<1>3. Shapes' /\ DOMAIN box' = Fields
  BY <1>1 DEF Shapes
<1>4. CASE status = "fail"
  <2>1. phase' = "failed" /\ UNCHANGED <<cur, line, errexit, status>>
    BY <1>4 DEF EndScript, runVars
  <2>2. Strict(cur)
    BY <1>1, <1>4 DEF LineInv, EndsWell
  <2>3. PolicyKept'
    BY <1>1, <2>1, <2>2 DEF PolicyKept, InScript, Strict, Lenient
  <2>4. TypeOK'
    BY <1>1, <2>1 DEF TypeOK
  <2> QED BY <1>3, <2>1, <2>3, <2>4 DEF ScriptsInv, InScript
<1>5. CASE status # "fail"
  <2>1. cur' = (IF phase = "pre" THEN cur + 1 ELSE cur - 1) /\ NewShell /\ UNCHANGED phase
    BY <1>5 DEF EndScript
  <2>2. PolicyKept'
    BY <1>1, <2>1 DEF PolicyKept, InScript, Strict, Lenient
  <2>3. cur' \in 0..(Len(job) + 1)
    BY <1>1, <1>2, <2>1 DEF InScript
  <2>4. line' = 1 /\ errexit' \in BOOLEAN /\ status' = "ok"
    BY <2>1, Zenon DEF NewShell
  <2>5. TypeOK'
    BY <1>1, <2>1, <2>3, <2>4 DEF TypeOK
  <2>6. InScript' => LineInv'
    BY <1>3, <2>1, ShellStarts DEF InScript
  <2>7. phase' # "init"
    BY <1>1, <2>1 DEF InScript
  <2> QED BY <1>3, <2>2, <2>5, <2>6, <2>7 DEF ScriptsInv
<1> QED BY <1>4, <1>5

\* From one phase to the next.
LEMMA PhaseSteps ==
    ASSUME ScriptsInv, StartScripts \/ RunJob \/ EndJob \/ End PROVE ScriptsInv'
<1>1. /\ TypeOK /\ PolicyKept /\ Shapes /\ DOMAIN box = Fields
      /\ UNCHANGED <<job, site, tries, script, box, bad, quit>>
      /\ phase \in {"init", "pre", "job", "post"}
  BY DEF StartScripts, RunJob, EndJob, End, ScriptsInv
<1>2. Len(job) \in Nat /\ DOMAIN job = 1..Len(job)
  BY <1>1, JobTypes DEF TypeOK
<1>3. Shapes' /\ DOMAIN box' = Fields
  BY <1>1 DEF Shapes
<1>4. phase' \in {"pre", "job", "post", "end"}
  BY DEF StartScripts, RunJob, EndJob, End
<1>5. PolicyKept'
  BY <1>1, <1>4 DEF PolicyKept, Strict, Lenient
<1>6. CASE StartScripts \/ EndJob
  <2>1. NewShell /\ cur' \in {1, Len(job)}
    BY <1>6 DEF StartScripts, EndJob
  <2>2. line' = 1 /\ errexit' \in BOOLEAN /\ status' = "ok"
    BY <2>1, Zenon DEF NewShell
  <2>3. cur' \in 0..(Len(job) + 1)
    BY <1>2, <2>1
  <2>4. TypeOK'
    BY <1>1, <1>4, <2>2, <2>3 DEF TypeOK
  <2>5. InScript' => LineInv'
    BY <1>3, <2>1, ShellStarts DEF InScript
  <2> QED BY <1>3, <1>4, <1>5, <2>4, <2>5 DEF ScriptsInv
<1>7. CASE RunJob \/ End
  <2>1. phase' \in {"job", "end"} /\ UNCHANGED <<cur, line, errexit, status>>
    BY <1>7 DEF RunJob, End, runVars
  <2>2. TypeOK'
    BY <1>1, <2>1 DEF TypeOK
  <2> QED BY <1>3, <1>5, <2>1, <2>2 DEF ScriptsInv, InScript
<1> QED BY <1>6, <1>7

\* exit in a command of the user, or in the check of the release.
LEMMA ExitSteps ==
    ASSUME ScriptsInv, Exit \/ ExitWell PROVE ScriptsInv'
<1>1. /\ TypeOK /\ PolicyKept /\ Shapes /\ DOMAIN box = Fields /\ Running
      /\ UNCHANGED <<job, site, tries, script, box, bad, cur, errexit>>
  BY DEF Exit, ExitWell, ScriptsInv, runVars
<1>2. InScript /\ LineInv
  BY <1>1 DEF ScriptsInv, Running, InScript
<1>3. Shapes' /\ DOMAIN box' = Fields
  BY <1>1 DEF Shapes
<1>4. CASE Exit
  <2>1. phase' = "failed" /\ quit' = TRUE /\ UNCHANGED <<line, status>>
    BY <1>4 DEF Exit, runVars
  <2>2. TypeOK'
    BY <1>1, <2>1 DEF TypeOK
  <2>3. PolicyKept'
    BY <1>1, <1>2, <2>1 DEF PolicyKept, InScript, Strict, Lenient
  <2> QED BY <1>3, <2>1, <2>2, <2>3 DEF ScriptsInv, InScript
<1>5. CASE ExitWell
  <2>1. line' = Len(Current) + 1 /\ status' = "ok" /\ UNCHANGED <<phase, quit>> /\ Current' = Current
    BY <1>1, <1>5 DEF ExitWell, Current
  <2>2. Len(Current) \in Nat
    BY <1>1, <1>2 DEF Shapes, InScript, Shaped, Current
  <2>3. TypeOK'
    BY <1>1, <2>1, <2>2 DEF TypeOK
  <2>4. PolicyKept'
    BY <1>1, <2>1 DEF PolicyKept, Strict, Lenient
  <2>5. LineInv'
    BY <2>1, <2>2 DEF LineInv, LinePlace, OptionIsSet, EndsWell, GivenIsThere
  <2>6. phase' # "init"
    BY <1>2, <2>1 DEF InScript
  <2> QED BY <1>3, <2>3, <2>4, <2>5, <2>6 DEF ScriptsInv
<1> QED BY <1>4, <1>5

\* The init container.
LEMMA PreparationSteps ==
    ASSUME ScriptsInv, Prepare \/ Clone \/ CloneFails PROVE ScriptsInv'
<1>1. Preparing /\ DOMAIN box' = Fields
  BY DEF Prepare, Clone, CloneFails, Cloning, ScriptsInv, Fields
<1>2. CASE \/ /\ Write(job[cur])
              /\ job[cur].kind = "storage" => ~StorageRaises(job[cur].names)
           \/ Refuse(job[cur])
  BY <1>1, <1>2, PreparingKeeps
<1>3. CASE CloneFails /\ ~Refuse(job[cur])
  <2>1. /\ tries + 1 < MaxTries /\ tries' = tries + 1
        /\ UNCHANGED <<job, site, phase, cur, script, line, errexit, status, bad, quit>>
    BY <1>3 DEF CloneFails, runVars
  <2>2. TypeOK /\ PolicyKept /\ Shapes /\ phase = "init" /\ cur > 0
    BY <1>1 DEF ScriptsInv, Preparing
  <2>3. TypeOK'
    BY <2>1, <2>2, ScriptsAssumption DEF TypeOK
  <2>4. PolicyKept' /\ Shapes'
    BY <2>1, <2>2 DEF PolicyKept, Strict, Lenient, Shapes
  <2> QED BY <1>1, <2>1, <2>2, <2>3, <2>4 DEF ScriptsInv, InScript
<1>4. CASE Prepare
  <2>1. \E raises \in Raises(job[cur]) :
            (raises /\ Refuse(job[cur])) \/ (~raises /\ Write(job[cur]))
    BY <1>4, Zenon DEF Prepare
  <2> PICK raises \in Raises(job[cur]) :
             (raises /\ Refuse(job[cur])) \/ (~raises /\ Write(job[cur]))
    BY <2>1, Zenon
  <2>2. CASE Refuse(job[cur])
    BY <1>2, <2>2
  <2>3. CASE ~raises /\ Write(job[cur])
    <3>1. job[cur].kind = "storage" => ~StorageRaises(job[cur].names)
      <4> SUFFICES ASSUME job[cur].kind = "storage" PROVE ~StorageRaises(job[cur].names)
        OBVIOUS
      <4>1. Raises(job[cur]) = {StorageRaises(job[cur].names), TRUE}
        BY DEF Raises
      <4>2. raises = StorageRaises(job[cur].names) \/ raises = TRUE
        BY <4>1, Zenon
      <4> QED BY <2>3, <4>2, Zenon
    <3> QED BY <1>2, <2>3, <3>1
  <2> QED BY <2>2, <2>3, Zenon
<1>5. CASE Clone
  BY <1>2, <1>5 DEF Clone, Cloning
<1> QED BY <1>2, <1>3, <1>4, <1>5

\* Nothing happens.
LEMMA StutterStep ==
    ASSUME ScriptsInv, UNCHANGED vars PROVE ScriptsInv'
<1>1. /\ UNCHANGED <<job, site, phase, cur, tries, script, line, errexit, status, box, bad, quit>>
      /\ TypeOK /\ Shapes /\ PolicyKept /\ DOMAIN box = Fields
  BY DEF vars, runVars, ScriptsInv
<1>2. TypeOK' /\ Shapes' /\ PolicyKept'
  BY <1>1 DEF TypeOK, Shapes, PolicyKept, Strict, Lenient
<1>3. InScript' => LineInv'
  BY <1>1 DEF ScriptsInv, InScript, LineInv, LinePlace, OptionIsSet, EndsWell, GivenIsThere,
              Starts, Current, Strict, Lenient
<1> QED BY <1>1, <1>2, <1>3 DEF ScriptsInv

\* The inductive invariant.
LEMMA ScriptsInvariant == Spec => []ScriptsInv
<1>1. Init => ScriptsInv
  BY InitScripts
<1>2. ScriptsInv /\ [Next]_vars => ScriptsInv'
  BY PreparationSteps, PhaseSteps, OptionStep, SucceedStep, FailStep, ExitSteps, ScriptEnds,
     StutterStep DEF Next
<1> QED BY <1>1, <1>2, PTL DEF Spec

-----------------------------------------------------------------------------
(* The theorems about policies and packages                                 *)

\* Every variable keeps its type, and git clone is never tried more than
\* MaxTries times (git/init.py 35-38), for any plugins and sites.
THEOREM ScriptTypes == Spec => []TypeOK
<1>1. ScriptsInv => TypeOK
  BY DEF ScriptsInv
<1> QED BY <1>1, ScriptsInvariant, PTL

\* For any plugins in any order, the failure policy of each is kept: what is
\* strict stops the task at its first failure, and what is ignored never does,
\* short of exit (initializer.py 54-61, plugin_utils.py 36-46).
THEOREM PolicyIsKept == Spec => []PolicyKept
<1>1. ScriptsInv => PolicyKept
  BY DEF ScriptsInv
<1> QED BY <1>1, ScriptsInvariant, PTL

\* Whatever the package cache holds and whichever install fails, in a plugin
\* whose failures count sshd.sh is called with its packages there, the barrier
\* comes after it, with sshd running unless its port was empty or an argument was
\* missing, and a server is mounted with the tools of its type, however many there
\* are (plugin_utils.py 66-83, install_group.sh, ssh/init.py, sshd.sh 106-136,
\* storage_helper.py 108-254).
THEOREM InstalledBeforeUse == Spec => []UsesInstalled
<1>1. ScriptsInv => UsesInstalled
  <2> SUFFICES ASSUME ScriptsInv, Running, Strict(cur)
               PROVE  /\ Needs(Current[line]) \subseteq box.have
                      /\ Current[line].op = "barrier" =>
                           \E k \in 1..(line - 1) :
                               Current[k].op = "sshd" /\ (Starts(Current[k]) => box.sshd)
    BY DEF UsesInstalled
  <2>1. CASE Current[line].op = "set"
    BY <2>1 DEF Needs
  <2>2. CASE Current[line].op # "set"
    BY <2>2, LineIsReady
  <2> QED BY <2>1, <2>2
<1> QED BY <1>1, ScriptsInvariant, PTL

-----------------------------------------------------------------------------
(* Mount points, and where a path leads to                                  *)

\* A path is a sequence of names, and leads to a local directory if nothing is mounted.
Paths == Seq(STRING)
Local(p) == <<"local", p>>

\* Mount points: paths that are apart from each other, and a table of mounts at them.
Sited(Q) == Q \subseteq Paths /\ \A p \in Q : Len(p) > 0 /\ \A q \in Q : p = q \/ Apart(p, q)
Stands(table, Q) == Row(table) /\ \A i \in 1..Len(table) : \E q \in Q : table[i].at = Local(q)

\* What IsPrefix says, name by name.
LEMMA PrefixIs ==
    ASSUME NEW p \in Paths, NEW q \in Paths
    PROVE  IsPrefix(p, q) <=> Len(p) <= Len(q) /\ \A k \in 1..Len(p) : p[k] = q[k]
<1>1. Len(p) \in Nat /\ Len(q) \in Nat
  BY DEF Paths
<1>2. SubSeq(p, 1, Len(p)) = [k \in 1..Len(p) |-> p[k]]
  BY DEF Paths
<1>3. Len(p) <= Len(q) => SubSeq(q, 1, Len(p)) = [k \in 1..Len(p) |-> q[k]]
  BY <1>1 DEF Paths
<1> QED BY <1>1, <1>2, <1>3 DEF IsPrefix

\* The path to a directory above.
LEMMA PathAbove ==
    ASSUME NEW q \in Paths, NEW k \in 0..Len(q)
    PROVE  LET p == SubSeq(q, 1, k) IN
           /\ p \in Paths /\ Len(p) = k /\ IsPrefix(p, q)
           /\ k > 0 => p = Append(SubSeq(q, 1, k - 1), q[k])
           /\ k = Len(q) => p = q
<1>1. Len(q) \in Nat /\ k \in Nat
  BY DEF Paths
<1> DEFINE p == SubSeq(q, 1, k)
<1>2. p \in Paths /\ Len(p) = k /\ \A i \in 1..k : p[i] = q[i]
  BY <1>1 DEF Paths
<1>3. IsPrefix(p, q)
  <2> HIDE DEF p
  <2> QED BY <1>1, <1>2, PrefixIs
<1>4. k > 0 => p = Append(SubSeq(q, 1, k - 1), q[k])
  BY <1>1 DEF Paths
<1>5. k = Len(q) => p = q
  BY <1>1 DEF Paths
<1> QED BY <1>2, <1>3, <1>4, <1>5

\* A set of positions that is not empty has a last one.
LEMMA LastPosition ==
    ASSUME NEW n \in Nat, NEW S, S \subseteq 1..n, S # {}
    PROVE  Max(S) \in S /\ \A i \in S : i <= Max(S)
<1> DEFINE T == {n - i : i \in S}
<1>1. T \subseteq Nat /\ T # {}
  <2>1. \A i \in S : n - i \in Nat
    OBVIOUS
  <2>2. PICK i \in S : TRUE
    OBVIOUS
  <2> QED BY <2>1, <2>2
<1>2. PICK k \in T : \A j \in T : k <= j
  <2> HIDE DEF T
  <2> QED BY <1>1, SF!LeastNumber
<1>3. PICK m \in S : k = n - m
  OBVIOUS
<1>4. \A i \in S : i <= m
  <2> SUFFICES ASSUME NEW i \in S PROVE i <= m
    OBVIOUS
  <2>1. n - m <= n - i
    BY <1>2, <1>3
  <2> QED BY <2>1
<1>5. S \subseteq Int
  OBVIOUS
<1>6. \A i \in S : (\A j \in S : i >= j) => i = m
  BY <1>4, <1>5
<1>7. m \in S /\ \A j \in S : m >= j
  BY <1>4, <1>5
<1>8. Max(S) = m
  BY <1>6, <1>7, Zenon DEF Max
<1> QED BY <1>4, <1>8

-----------------------------------------------------------------------------
(* Paths                                                                    *)

\* Where nothing is mounted, one stays.
LEMMA FollowNone ==
    ASSUME NEW table, NEW l, Row(table), \A i \in 1..Len(table) : table[i].at # l
    PROVE  Follow(table, l) = l
<1>1. DOMAIN table = 1..Len(table)
  BY RowOf DEF Row
<1>2. {i \in DOMAIN table : table[i].at = l} = {}
  BY <1>1
<1> QED BY <1>2 DEF Follow

\* Otherwise one gets to what is mounted there.
LEMMA FollowSome ==
    ASSUME NEW table, NEW l, Row(table), \E i \in 1..Len(table) : table[i].at = l
    PROVE  \E i \in 1..Len(table) : table[i].at = l /\ Follow(table, l) = table[i].to
<1>1. DOMAIN table = 1..Len(table) /\ Len(table) \in Nat
  BY RowOf DEF Row
<1> DEFINE S == {i \in DOMAIN table : table[i].at = l}
<1>2. S \subseteq 1..Len(table) /\ S # {}
  BY <1>1
<1>3. Follow(table, l) = table[Max(S)].to
  BY <1>2 DEF Follow
<1>4. Max(S) \in S
  <2> HIDE DEF S
  <2> QED BY <1>1, <1>2, LastPosition
<1> QED BY <1>1, <1>3, <1>4

\* The directories on the way along the first n names of a path.
Walk(table, p, n, f) ==
    f = [i \in 0..n |-> IF i = 0 THEN Root ELSE Follow(table, In(f[i - 1], p[i]))]

\* There is such a walk.
LEMMA WalkExists ==
    ASSUME NEW table, NEW p, NEW n \in Nat PROVE \E f : Walk(table, p, n, f)
<1> DEFINE T == {k \in Nat : \E f : Walk(table, p, k, f)}
<1>1. 0 \in T
  <2> DEFINE f == [i \in 0..0 |-> Root]
  <2>1. Walk(table, p, 0, f)
    BY DEF Walk
  <2> QED BY <2>1
<1>2. ASSUME NEW k \in Nat, k \in T PROVE k + 1 \in T
  <2>1. PICK f : Walk(table, p, k, f)
    BY <1>2
  <2> DEFINE g == [i \in 0..(k + 1) |->
                     IF i = k + 1 THEN Follow(table, In(f[k], p[i])) ELSE f[i]]
  <2>2. ASSUME NEW i \in 0..(k + 1)
        PROVE  g[i] = IF i = 0 THEN Root ELSE Follow(table, In(g[i - 1], p[i]))
    <3>1. CASE i = k + 1
      <4>1. k \in 0..(k + 1) /\ k # k + 1 /\ i - 1 = k /\ i # 0
        BY <3>1
      <4>2. g[k] = f[k]
        BY <4>1
      <4> QED BY <3>1, <4>1, <4>2
    <3>2. CASE i # k + 1
      <4>1. i \in 0..k /\ g[i] = f[i]
        BY <3>2
      <4>2. CASE i = 0
        BY <2>1, <4>1, <4>2 DEF Walk
      <4>3. CASE i # 0
        <5>1. i - 1 \in 0..(k + 1) /\ i - 1 # k + 1
          BY <4>1, <4>3
        <5>2. g[i - 1] = f[i - 1]
          BY <5>1
        <5> HIDE DEF g
        <5> QED BY <2>1, <4>1, <4>3, <5>2 DEF Walk
      <4> QED BY <4>2, <4>3
    <3> QED BY <3>1, <3>2
  <2>3. Walk(table, p, k + 1, g)
    BY <2>2 DEF Walk
  <2> QED BY <2>3
<1>3. Nat \subseteq T
  <2> HIDE DEF T
  <2> QED BY <1>1, <1>2, SF!NatSetInduction
<1> QED BY <1>3

\* Resolve walks along the whole path.
LEMMA ResolveWalks ==
    ASSUME NEW table, NEW p \in Paths
    PROVE  \E f : /\ Resolve(table, p) = f[Len(p)] /\ f[0] = Root
                  /\ \A i \in 1..Len(p) : f[i] = Follow(table, In(f[i - 1], p[i]))
<1> DEFINE f == CHOOSE g : Walk(table, p, Len(p), g)
<1>1. Len(p) \in Nat
  BY DEF Paths
<1>2. Walk(table, p, Len(p), f)
  BY <1>1, WalkExists
<1>3. Resolve(table, p) = f[Len(p)]
  BY DEF Resolve, Walk
<1> HIDE DEF f
<1>4. f[0] = Root
  BY <1>1, <1>2 DEF Walk
<1>5. \A i \in 1..Len(p) : f[i] = Follow(table, In(f[i - 1], p[i]))
  BY <1>1, <1>2 DEF Walk
<1> QED BY <1>3, <1>4, <1>5

\* Up to where something is mounted the way is through local directories.
LEMMA LocalWay ==
    ASSUME NEW table, Row(table), NEW p \in Paths, NEW n \in 0..Len(p), NEW f, f[0] = Root,
           \A i \in 1..Len(p) : f[i] = Follow(table, In(f[i - 1], p[i])),
           \A k \in 1..n : \A i \in 1..Len(table) : table[i].at # Local(SubSeq(p, 1, k))
    PROVE  \A k \in 0..n : f[k] = Local(SubSeq(p, 1, k))
<1> DEFINE T == {k \in Nat : k <= n => f[k] = Local(SubSeq(p, 1, k))}
<1>0. Len(p) \in Nat
  BY DEF Paths
<1>1. 0 \in T
  <2>1. SubSeq(p, 1, 0) = <<>>
    BY DEF Paths
  <2> QED BY <2>1 DEF Local, Root
<1>2. ASSUME NEW k \in Nat, k \in T PROVE k + 1 \in T
  <2> SUFFICES ASSUME k + 1 <= n PROVE f[k + 1] = Local(SubSeq(p, 1, k + 1))
    OBVIOUS
  <2>1. k + 1 \in 1..n /\ k + 1 \in 1..Len(p) /\ (k + 1) - 1 = k /\ k + 1 > 0 /\ k + 1 \in 0..Len(p)
    BY <1>0
  <2>2. f[k] = Local(SubSeq(p, 1, k))
    BY <1>2, <2>1
  <2>3. SubSeq(p, 1, k + 1) = Append(SubSeq(p, 1, k), p[k + 1])
    BY <2>1, PathAbove
  <2>4. In(f[k], p[k + 1]) = Local(SubSeq(p, 1, k + 1))
    BY <2>2, <2>3 DEF In, Local
  <2>5. \A i \in 1..Len(table) : table[i].at # Local(SubSeq(p, 1, k + 1))
    BY <2>1
  <2>6. Follow(table, Local(SubSeq(p, 1, k + 1))) = Local(SubSeq(p, 1, k + 1))
    BY <2>5, FollowNone
  <2> QED BY <2>1, <2>4, <2>6
<1>3. Nat \subseteq T
  <2> HIDE DEF T
  <2> QED BY <1>1, <1>2, SF!NatSetInduction
<1> QED BY <1>3

\* A path with nothing mounted on the way leads to a local directory.
LEMMA LocalPath ==
    ASSUME NEW table, Row(table), NEW p \in Paths,
           \A k \in 1..Len(p) : \A i \in 1..Len(table) : table[i].at # Local(SubSeq(p, 1, k))
    PROVE  Resolve(table, p) = Local(p)
<1>1. PICK f : /\ Resolve(table, p) = f[Len(p)] /\ f[0] = Root
               /\ \A i \in 1..Len(p) : f[i] = Follow(table, In(f[i - 1], p[i]))
  BY ResolveWalks
<1>2. Len(p) \in 0..Len(p)
  BY DEF Paths
<1>3. \A k \in 0..Len(p) : f[k] = Local(SubSeq(p, 1, k))
  <2>1. PICK n : n = Len(p)
    OBVIOUS
  <2>2. n \in 0..Len(p)
    BY <1>2, <2>1
  <2>3. \A k \in 1..n : \A i \in 1..Len(table) : table[i].at # Local(SubSeq(p, 1, k))
    BY <2>1
  <2>4. \A k \in 0..n : f[k] = Local(SubSeq(p, 1, k))
    BY <1>1, <2>2, <2>3, LocalWay
  <2> QED BY <2>1, <2>4
<1>4. SubSeq(p, 1, Len(p)) = p
  BY <1>2, PathAbove
<1> QED BY <1>1, <1>2, <1>3, <1>4

\* Nothing is mounted above a mount point.
LEMMA NothingAbove ==
    ASSUME NEW Q, Sited(Q), NEW table, Stands(table, Q), NEW q \in Q, NEW k \in 1..(Len(q) - 1)
    PROVE  \A i \in 1..Len(table) : table[i].at # Local(SubSeq(q, 1, k))
<1> SUFFICES ASSUME NEW i \in 1..Len(table), table[i].at = Local(SubSeq(q, 1, k)) PROVE FALSE
  OBVIOUS
<1>1. PICK p \in Q : table[i].at = Local(p)
  BY DEF Stands
<1>2. p = SubSeq(q, 1, k)
  BY <1>1 DEF Local
<1>3. q \in Paths /\ Len(q) \in Nat /\ k \in 0..Len(q)
  BY DEF Sited, Paths
<1>4. Len(p) = k /\ IsPrefix(p, q)
  BY <1>2, <1>3, PathAbove
<1>5. p # q
  BY <1>3, <1>4
<1> QED BY <1>4, <1>5 DEF Sited, Apart

\* The entry of a mount point is the local one, and one gets to what is there.
LEMMA AtMountPoint ==
    ASSUME NEW Q, Sited(Q), NEW table, Stands(table, Q), NEW q \in Q
    PROVE  Entry(table, q) = Local(q) /\ Resolve(table, q) = Follow(table, Local(q))
<1>1. q \in Paths /\ Len(q) \in Nat \ {0} /\ Row(table)
  BY DEF Sited, Paths, Stands
<1> DEFINE n == Len(q) - 1
           r == SubSeq(q, 1, n)
<1>2. n \in 0..Len(q) /\ n \in Nat /\ n + 1 = Len(q) /\ Len(q) \in 1..Len(q)
  BY <1>1
<1>3. r \in Paths /\ Len(r) = n
  BY <1>1, <1>2, PathAbove
<1>4. q = Append(r, q[Len(q)])
  <2>1. Len(q) \in 0..Len(q) /\ Len(q) > 0
    BY <1>1
  <2> QED BY <1>1, <2>1, PathAbove
<1>5. \A k \in 1..n : \A i \in 1..Len(table) : table[i].at # Local(SubSeq(q, 1, k))
  BY NothingAbove
<1>6. Front(q) = r /\ Last(q) = q[Len(q)]
  BY DEF Front, Last
<1> HIDE DEF n, r
<1>7. \A k \in 1..n : SubSeq(r, 1, k) = SubSeq(q, 1, k)
  BY <1>1, <1>2 DEF r, n, Paths
<1>8. Resolve(table, r) = Local(r)
  <2>1. \A k \in 1..Len(r) : \A i \in 1..Len(table) : table[i].at # Local(SubSeq(r, 1, k))
    BY <1>3, <1>5, <1>7
  <2> QED BY <1>1, <1>3, <2>1, LocalPath
<1>9. In(Local(r), q[Len(q)]) = Local(q)
  BY <1>4 DEF In, Local
<1>10. Resolve(table, q) = Follow(table, Local(q))
  <2>1. PICK f : /\ Resolve(table, q) = f[Len(q)] /\ f[0] = Root
                 /\ \A i \in 1..Len(q) : f[i] = Follow(table, In(f[i - 1], q[i]))
    BY <1>1, ResolveWalks
  <2>2. \A k \in 0..n : f[k] = Local(SubSeq(q, 1, k))
    <3>1. PICK m : m = n
      OBVIOUS
    <3>2. m \in 0..Len(q) /\ \A k \in 1..m : \A i \in 1..Len(table) : table[i].at # Local(SubSeq(q, 1, k))
      BY <1>2, <1>5, <3>1
    <3>3. \A k \in 0..m : f[k] = Local(SubSeq(q, 1, k))
      BY <1>1, <2>1, <3>2, LocalWay
    <3> QED BY <3>1, <3>3
  <2>3. f[n] = Local(r)
    BY <1>2, <2>2 DEF r
  <2>4. Len(q) - 1 = n
    BY DEF n
  <2> QED BY <1>2, <1>9, <2>1, <2>3, <2>4
<1> QED BY <1>6, <1>8, <1>9, <1>10 DEF Entry

\* No path leads to a directory that is hidden by a mount.
LEMMA NeverHidden ==
    ASSUME NEW table, Row(table), NEW p \in Paths,
           \A i \in 1..Len(table) : table[i].at # Root,
           \A i \in 1..Len(table), j \in 1..Len(table) : table[i].at # table[j].to
    PROVE  \A i \in 1..Len(table) : table[i].at # Resolve(table, p)
<1>1. PICK f : /\ Resolve(table, p) = f[Len(p)] /\ f[0] = Root
               /\ \A i \in 1..Len(p) : f[i] = Follow(table, In(f[i - 1], p[i]))
  BY ResolveWalks
<1>2. Len(p) \in Nat
  BY DEF Paths
<1>3. CASE Len(p) = 0
  BY <1>1, <1>3
<1>4. CASE Len(p) # 0
  <2> DEFINE l == In(f[Len(p) - 1], p[Len(p)])
  <2>1. Resolve(table, p) = Follow(table, l)
    BY <1>1, <1>2, <1>4
  <2> HIDE DEF l
  <2>2. CASE \A i \in 1..Len(table) : table[i].at # l
    BY <2>1, <2>2, FollowNone
  <2>3. CASE \E i \in 1..Len(table) : table[i].at = l
    BY <2>1, <2>3, FollowSome
  <2> QED BY <2>2, <2>3
<1> QED BY <1>3, <1>4

\* FlattenSeq leaves no element out.
LEMMA FlattenCovers ==
    ASSUME NEW C, NEW n \in Nat, NEW q, q = [i \in 1..n |-> q[i]], \A i \in 1..n : q[i] \in Seq(C)
    PROVE  \A i \in 1..n : ToSet(q[i]) \subseteq ToSet(FlattenSeq(q))
<1>1. q \in Seq(Seq(C)) /\ Len(q) = n
  <2>1. q \in [1..n -> Seq(C)]
    OBVIOUS
  <2>2. q \in Seq(Seq(C))
    BY <2>1, SeqDef
  <2> QED BY <2>1, <2>2
<1>2. FlattenSeq(q) = SF!FlattenSeq(q) /\ FlattenSeq(q) \in Seq(C)
  BY FlattenTyped DEF FlattenSeq, SF!FlattenSeq
<1>3. DOMAIN FlattenSeq(q) = 1..Len(FlattenSeq(q))
  BY <1>2
<1> SUFFICES ASSUME NEW i \in 1..n, NEW x \in ToSet(q[i]) PROVE x \in ToSet(FlattenSeq(q))
  OBVIOUS
<1>4. PICK j \in 1..Len(q[i]) : x = q[i][j]
  <2>1. DOMAIN q[i] = 1..Len(q[i])
    OBVIOUS
  <2> QED BY <2>1 DEF ToSet
<1>5. \E k \in 1..Len(SF!FlattenSeq(q)) : SF!FlattenSeq(q)[k] = q[i][j]
  BY <1>1, SF!FlattenHas
<1> QED BY <1>2, <1>3, <1>4, <1>5 DEF ToSet

\* Filter keeps the elements that are in the set, and these only.
LEMMA FilterIs ==
    ASSUME NEW s, Row(s), NEW S PROVE Row(Filter(s, S)) /\ ToSet(Filter(s, S)) = ToSet(s) \cap S
<1> DEFINE q == [i \in DOMAIN s |-> IF s[i] \in S THEN <<s[i]>> ELSE <<>>]
           C == ToSet(s)
<1>1. s \in Seq(C) /\ Len(s) \in Nat /\ DOMAIN s = 1..Len(s) /\ \A i \in 1..Len(s) : s[i] \in C
  BY RowOf DEF Row, ToSet
<1>2. Filter(s, S) \in Seq(C \cap S)
  <2> HIDE DEF C
  <2> QED BY <1>1, FilterTyped
<1>3. Row(Filter(s, S)) /\ ToSet(Filter(s, S)) \subseteq C \cap S
  <2> HIDE DEF C
  <2>1. PICK D : D = C \cap S
    OBVIOUS
  <2>2. Filter(s, S) \in Seq(D)
    BY <1>2, <2>1
  <2> QED BY <2>1, <2>2, RowOf
<1>4. \A i \in 1..Len(s) : q[i] \in Seq(C)
  <2> HIDE DEF C
  <2>1. <<>> \in Seq(C) /\ \A x \in C : <<x>> \in Seq(C)
    OBVIOUS
  <2> QED BY <1>1, <2>1
<1>5. q = [i \in 1..Len(s) |-> q[i]]
  BY <1>1
<1>6. \A i \in 1..Len(s) : ToSet(q[i]) \subseteq ToSet(Filter(s, S))
  <2>1. Filter(s, S) = FlattenSeq(q)
    BY DEF Filter
  <2> HIDE DEF q, C
  <2> QED BY <1>1, <1>4, <1>5, <2>1, FlattenCovers
<1>7. ASSUME NEW x \in C \cap S PROVE x \in ToSet(Filter(s, S))
  <2>1. PICK i \in 1..Len(s) : s[i] = x
    BY <1>1, <1>7 DEF ToSet
  <2>2. q[i] = <<x>>
    BY <1>1, <1>7, <2>1
  <2>3. x \in ToSet(<<x>>)
    BY DEF ToSet
  <2> QED BY <1>6, <2>2, <2>3
<1> QED BY <1>3, <1>7

\* A table with one more entry, and one without the last.
LEMMA RowChanges ==
    ASSUME NEW s, Row(s)
    PROVE  /\ \A x : LET t == Append(s, x) IN
                 /\ Row(t) /\ Len(t) = Len(s) + 1 /\ t[Len(t)] = x
                 /\ \A i \in 1..Len(s) : t[i] = s[i]
                 /\ \A i \in 1..Len(t) : i = Len(t) \/ i \in 1..Len(s)
           /\ Len(s) > 0 => LET t == SubSeq(s, 1, Len(s) - 1) IN
                 /\ Row(t) /\ Len(t) = Len(s) - 1
                 /\ \A i \in 1..Len(t) : i \in 1..Len(s) /\ i # Len(s) /\ t[i] = s[i]
                 /\ \A i \in 1..Len(s) : i = Len(s) \/ i \in 1..Len(t)
                 /\ RemoveAt(s, Len(s)) = t
<1> DEFINE C == ToSet(s)
<1>1. s \in Seq(C) /\ Len(s) \in Nat
  BY RowOf DEF Row
<1> HIDE DEF C
<1>2. ASSUME NEW x
      PROVE  LET t == Append(s, x) IN
             /\ Row(t) /\ Len(t) = Len(s) + 1 /\ t[Len(t)] = x
             /\ \A i \in 1..Len(s) : t[i] = s[i]
             /\ \A i \in 1..Len(t) : i = Len(t) \/ i \in 1..Len(s)
  <2> DEFINE D == C \cup {x}
             t == Append(s, x)
  <2>1. s \in Seq(D)
    <3>1. C \subseteq D
      OBVIOUS
    <3> HIDE DEF D
    <3> QED BY <1>1, <3>1, SeqGrows
  <2>2. x \in D
    OBVIOUS
  <2> HIDE DEF D
  <2>3. t \in Seq(D) /\ Len(t) = Len(s) + 1 /\ t[Len(s) + 1] = x /\ \A i \in 1..Len(s) : t[i] = s[i]
    BY <2>1, <2>2
  <2> HIDE DEF t
  <2>4. Row(t)
    BY <2>3, RowOf
  <2>5. \A i \in 1..Len(t) : i = Len(t) \/ i \in 1..Len(s)
    BY <1>1, <2>3
  <2> QED BY <2>3, <2>4, <2>5 DEF t
<1>3. ASSUME Len(s) > 0
      PROVE  LET t == SubSeq(s, 1, Len(s) - 1) IN
             /\ Row(t) /\ Len(t) = Len(s) - 1
             /\ \A i \in 1..Len(t) : i \in 1..Len(s) /\ i # Len(s) /\ t[i] = s[i]
             /\ \A i \in 1..Len(s) : i = Len(s) \/ i \in 1..Len(t)
             /\ RemoveAt(s, Len(s)) = t
  <2> DEFINE t == SubSeq(s, 1, Len(s) - 1)
  <2>1. t \in Seq(C) /\ Len(t) = Len(s) - 1 /\ \A i \in 1..(Len(s) - 1) : t[i] = s[i]
    <3>1. PICK n : n = Len(s) - 1
      OBVIOUS
    <3>2. n \in Nat /\ n <= Len(s)
      BY <1>1, <1>3, <3>1
    <3>3. SubSeq(s, 1, n) \in Seq(C) /\ Len(SubSeq(s, 1, n)) = n
      BY <1>1, <3>2
    <3>4. \A i \in 1..n : SubSeq(s, 1, n)[i] = s[i]
      BY <1>1, <3>2
    <3> QED BY <3>1, <3>3, <3>4
  <2>2. RemoveAt(s, Len(s)) = t
    <3>1. SubSeq(s, Len(s) + 1, Len(s)) = <<>>
      BY <1>1
    <3>2. t \o <<>> = t
      BY <2>1
    <3> QED BY <3>1, <3>2 DEF RemoveAt
  <2> HIDE DEF t
  <2>3. Row(t)
    BY <2>1, RowOf
  <2>4. /\ \A i \in 1..Len(t) : i \in 1..Len(s) /\ i # Len(s) /\ t[i] = s[i]
        /\ \A i \in 1..Len(s) : i = Len(s) \/ i \in 1..Len(t)
    BY <1>1, <1>3, <2>1
  <2> QED BY <2>1, <2>2, <2>3, <2>4 DEF t
<1> QED BY <1>2, <1>3

-----------------------------------------------------------------------------
(* What mount, umount, rm and ln do at a mount point                        *)

\* Directories that rm -r has gone into by the n-th entry of the table.
Descent(table, b, n, f) ==
    f = [i \in 0..n |-> IF i = 0 THEN b
                        ELSE IF ~table[i].link /\ \E r \in f[i - 1] : Under(table[i].at, r)
                             THEN f[i - 1] \cup {table[i].to} ELSE f[i - 1]]

\* There is such a descent.
LEMMA DescentExists ==
    ASSUME NEW table, NEW b, NEW n \in Nat PROVE \E f : Descent(table, b, n, f)
<1> DEFINE More(x, i) == IF ~table[i].link /\ \E r \in x : Under(table[i].at, r)
                         THEN x \cup {table[i].to} ELSE x
           T == {k \in Nat : \E f : f = [i \in 0..k |-> IF i = 0 THEN b ELSE More(f[i - 1], i)]}
<1> HIDE DEF More
<1>1. 0 \in T
  <2> DEFINE f == [i \in 0..0 |-> b]
  <2>1. f = [i \in 0..0 |-> IF i = 0 THEN b ELSE More(f[i - 1], i)]
    OBVIOUS
  <2> QED BY <2>1
<1>2. ASSUME NEW k \in Nat, k \in T PROVE k + 1 \in T
  <2>1. PICK f : f = [i \in 0..k |-> IF i = 0 THEN b ELSE More(f[i - 1], i)]
    BY <1>2
  <2> DEFINE g == [i \in 0..(k + 1) |-> IF i = k + 1 THEN More(f[k], i) ELSE f[i]]
  <2>2. ASSUME NEW i \in 0..(k + 1) PROVE g[i] = IF i = 0 THEN b ELSE More(g[i - 1], i)
    <3>1. CASE i = k + 1
      <4>1. k \in 0..(k + 1) /\ k # k + 1 /\ i - 1 = k /\ i # 0
        BY <3>1
      <4>2. g[k] = f[k]
        BY <4>1
      <4> QED BY <3>1, <4>1, <4>2
    <3>2. CASE i # k + 1
      <4>1. i \in 0..k /\ g[i] = f[i]
        BY <3>2
      <4>2. CASE i = 0
        BY <2>1, <4>1, <4>2
      <4>3. CASE i # 0
        <5>1. i - 1 \in 0..(k + 1) /\ i - 1 # k + 1
          BY <4>1, <4>3
        <5>2. g[i - 1] = f[i - 1]
          BY <5>1
        <5>3. f[i] = More(f[i - 1], i)
          BY <2>1, <4>1, <4>3
        <5> HIDE DEF g
        <5> QED BY <4>1, <4>3, <5>2, <5>3
      <4> QED BY <4>2, <4>3
    <3> QED BY <3>1, <3>2
  <2>3. g = [i \in 0..(k + 1) |-> IF i = 0 THEN b ELSE More(g[i - 1], i)]
    BY <2>2
  <2> HIDE DEF g
  <2> QED BY <2>3
<1>3. Nat \subseteq T
  <2> HIDE DEF T
  <2> QED BY <1>1, <1>2, SF!NatSetInduction
<1>4. n \in T
  BY <1>3
<1> QED BY <1>4 DEF Descent, More

\* With no mount below, rm -r stays where it is.
LEMMA RootsAlone ==
    ASSUME NEW table, Row(table), NEW p,
           \A i \in 1..Len(table) : table[i].link \/ ~Under(table[i].at, Resolve(table, p))
    PROVE  Roots(table, p) = {Resolve(table, p)}
<1> DEFINE b == {Resolve(table, p)}
           f == CHOOSE g : Descent(table, b, Len(table), g)
<1>1. Len(table) \in Nat
  BY RowOf DEF Row
<1>2. Descent(table, b, Len(table), f)
  BY <1>1, DescentExists
<1>3. Roots(table, p) = f[Len(table)]
  BY DEF Roots, Descent
<1>4. \A i \in 1..Len(table) : table[i].link \/ ~ \E r \in b : Under(table[i].at, r)
  OBVIOUS
<1> HIDE DEF f, b
<1> DEFINE T == {k \in Nat : k <= Len(table) => f[k] = b}
<1>5. 0 \in T
  BY <1>1, <1>2 DEF Descent
<1>6. ASSUME NEW k \in Nat, k \in T PROVE k + 1 \in T
  <2> SUFFICES ASSUME k + 1 <= Len(table) PROVE f[k + 1] = b
    OBVIOUS
  <2>1. k + 1 \in 0..Len(table) /\ k + 1 \in 1..Len(table) /\ k + 1 # 0 /\ (k + 1) - 1 = k /\ f[k] = b
    BY <1>1, <1>6
  <2>2. f[k + 1] = IF ~table[k + 1].link /\ \E r \in b : Under(table[k + 1].at, r)
                   THEN b \cup {table[k + 1].to} ELSE b
    BY <1>2, <2>1 DEF Descent
  <2> QED BY <1>4, <2>1, <2>2
<1>7. Nat \subseteq T
  <2> HIDE DEF T
  <2> QED BY <1>5, <1>6, SF!NatSetInduction
<1> QED BY <1>1, <1>3, <1>7 DEF b

\* Of two mount points one is under the other only if they are the same.
LEMMA UnderMountPoint ==
    ASSUME NEW Q, Sited(Q), NEW p \in Q, NEW q \in Q PROVE Under(Local(p), Local(q)) <=> p = q
<1>1. Under(Local(p), Local(q)) <=> IsPrefix(q, p)
  BY DEF Under, Local
<1>2. p = q => IsPrefix(q, p)
  BY PrefixIs DEF Sited, Paths
<1>3. IsPrefix(q, p) => p = q
  BY DEF Sited, Apart
<1> QED BY <1>1, <1>2, <1>3

\* Elements of a row by their positions.
LEMMA RowElements ==
    ASSUME NEW s, Row(s)
    PROVE  /\ \A i \in 1..Len(s) : s[i] \in ToSet(s)
           /\ \A x \in ToSet(s) : \E i \in 1..Len(s) : s[i] = x
           /\ Len(s) \in Nat /\ DOMAIN s = 1..Len(s)
BY RowOf DEF Row, ToSet

\* mount adds an entry for the mount point.
LEMMA MountAtPoint ==
    ASSUME NEW Q, Sited(Q), NEW w, DOMAIN w = Fields, Stands(w.table, Q), NEW q \in Q,
           NEW s, NEW path, NEW v \in MountIn(w, s, path, q)
    PROVE  /\ v.table = Append(w.table, [at |-> Local(q), to |-> <<s, path>>, link |-> FALSE])
           /\ v.data = w.data /\ v.dirs = w.dirs
<1>1. Entry(w.table, q) = Local(q)
  BY AtMountPoint
<1> DEFINE t == Append(w.table, [at |-> Entry(w.table, q), to |-> <<s, path>>, link |-> FALSE])
<1>2. v = [w EXCEPT !.table = t]
  BY DEF MountIn
<1> HIDE DEF t
<1>3. v.table = t /\ v.data = w.data /\ v.dirs = w.dirs
  BY <1>2 DEF Fields
<1> QED BY <1>1, <1>3 DEF t

\* umount takes away the only entry for the mount point, if it is the last.
LEMMA UmountAtPoint ==
    ASSUME NEW Q, Sited(Q), NEW w, DOMAIN w = Fields, Stands(w.table, Q), NEW q \in Q,
           \A i \in 1..Len(w.table) : w.table[i].at = Local(q) => i = Len(w.table),
           NEW v \in UmountIn(w, q)
    PROVE  /\ Len(w.table) > 0 /\ w.table[Len(w.table)].at = Local(q)
           /\ v.table = SubSeq(w.table, 1, Len(w.table) - 1)
           /\ v.data = w.data /\ v.dirs = w.dirs
<1>1. Entry(w.table, q) = Local(q) /\ Row(w.table)
  BY AtMountPoint DEF Stands
<1>2. Len(w.table) \in Nat /\ DOMAIN w.table = 1..Len(w.table)
  BY <1>1, RowElements
<1> DEFINE S == {i \in DOMAIN w.table : w.table[i].at = Entry(w.table, q) /\ ~w.table[i].link}
           t == RemoveAt(w.table, Max(S))
<1>3. S # {} /\ v = [w EXCEPT !.table = t]
  BY DEF UmountIn
<1>4. \A i \in S : i = Len(w.table) /\ i \in 1..Len(w.table) /\ w.table[i].at = Local(q)
  BY <1>1, <1>2
<1>5. S \subseteq 1..Len(w.table)
  BY <1>4
<1> HIDE DEF S
<1>6. Max(S) \in S
  BY <1>2, <1>3, <1>5, LastPosition
<1>7. Max(S) = Len(w.table) /\ Len(w.table) \in 1..Len(w.table) /\ w.table[Len(w.table)].at = Local(q)
  BY <1>4, <1>6
<1>8. t = SubSeq(w.table, 1, Len(w.table) - 1) /\ Len(w.table) > 0
  BY <1>1, <1>2, <1>7, RowChanges
<1> HIDE DEF t
<1>9. v.table = t /\ v.data = w.data /\ v.dirs = w.dirs
  BY <1>3 DEF Fields
<1> QED BY <1>7, <1>8, <1>9

\* ln -s makes a link where nothing is.
LEMMA LinkAtPoint ==
    ASSUME NEW Q, Sited(Q), NEW w, DOMAIN w = Fields, Stands(w.table, Q), NEW q \in Q,
           \A i \in 1..Len(w.table) : w.table[i].at # Local(q), Local(q) \notin w.dirs,
           NEW to, NEW v \in LinkIn(w, to, q)
    PROVE  /\ v.table = Append(w.table, [at |-> Local(q), to |-> Resolve(w.table, to), link |-> TRUE])
           /\ v.data = w.data /\ v.dirs = w.dirs
<1>1. Entry(w.table, q) = Local(q) /\ Resolve(w.table, q) = Follow(w.table, Local(q)) /\ Row(w.table)
  BY AtMountPoint DEF Stands
<1>2. Resolve(w.table, q) = Local(q)
  BY <1>1, FollowNone
<1> DEFINE t == Append(w.table, [at |-> Entry(w.table, q), to |-> Resolve(w.table, to), link |-> TRUE])
<1>3. v = [w EXCEPT !.table = t]
  BY <1>2 DEF LinkIn
<1> HIDE DEF t
<1>4. v.table = t /\ v.data = w.data /\ v.dirs = w.dirs
  BY <1>3 DEF Fields
<1> QED BY <1>1, <1>4 DEF t

\* mkdir makes no directory that a link has replaced.
LEMMA MkdirBeside ==
    ASSUME NEW w, DOMAIN w = Fields, Row(w.table), NEW p \in Paths,
           \A i \in 1..Len(w.table) : w.table[i].at # Root,
           \A i \in 1..Len(w.table), j \in 1..Len(w.table) : w.table[i].at # w.table[j].to,
           NEW v \in MkdirIn(w, p)
    PROVE  /\ v.table = w.table /\ v.data = w.data /\ w.dirs \subseteq v.dirs
           /\ \A i \in 1..Len(w.table) : w.table[i].at \in v.dirs => w.table[i].at \in w.dirs
<1> DEFINE N == {Resolve(w.table, SubSeq(p, 1, i)) : i \in DOMAIN p}
<1>1. v = [w EXCEPT !.dirs = w.dirs \cup N]
  BY DEF MkdirIn
<1>2. \A i \in DOMAIN p : i \in 0..Len(p)
  BY DEF Paths
<1>3. \A d \in N : \A i \in 1..Len(w.table) : w.table[i].at # d
  <2> SUFFICES ASSUME NEW j \in DOMAIN p, NEW i \in 1..Len(w.table)
               PROVE  w.table[i].at # Resolve(w.table, SubSeq(p, 1, j))
    OBVIOUS
  <2>1. SubSeq(p, 1, j) \in Paths
    BY <1>2, PathAbove
  <2> QED BY <2>1, NeverHidden
<1> HIDE DEF N
<1>4. v.table = w.table /\ v.data = w.data /\ v.dirs = w.dirs \cup N
  BY <1>1 DEF Fields
<1> QED BY <1>3, <1>4

\* rm -r of a mount point where nothing is mounted, but there may be a link:
\* what is gone is the link, or else the directory, and nothing that is elsewhere.
LEMMA RmAtPoint ==
    ASSUME NEW Q, Sited(Q), NEW w, DOMAIN w = Fields, Stands(w.table, Q), NEW q \in Q,
           \A i \in 1..Len(w.table) : w.table[i].at = Local(q) => w.table[i].link,
           \A i \in 1..Len(w.table) : w.table[i].link => w.table[i].at \notin w.dirs,
           \A i \in 1..Len(w.table) : w.table[i].to # Local(q),
           w.data \subseteq w.dirs, \A l \in w.data : ~Under(l, Local(q))
    PROVE  LET v == RmIn(w, q) IN
           /\ v.data = w.data /\ w.data \subseteq v.dirs /\ v.dirs \subseteq w.dirs
           /\ Local(q) \notin v.dirs /\ Row(v.table)
           /\ ToSet(v.table) = {m \in ToSet(w.table) : m.at # Local(q)}
<1>1. Entry(w.table, q) = Local(q) /\ Resolve(w.table, q) = Follow(w.table, Local(q)) /\ Row(w.table)
  BY AtMountPoint DEF Stands
<1>2. /\ \A i \in 1..Len(w.table) : w.table[i] \in ToSet(w.table)
      /\ \A m \in ToSet(w.table) : \E i \in 1..Len(w.table) : w.table[i] = m
  BY <1>1, RowElements
<1> DEFINE v == RmIn(w, q)
<1>3. CASE LinkAt(w.table, Local(q))
  <2> DEFINE K == {m \in ToSet(w.table) : m.at # Local(q)}
             t == Filter(w.table, K)
  <2>1. v = [w EXCEPT !.table = t]
    BY <1>1, <1>3 DEF RmIn
  <2>2. Row(t) /\ ToSet(t) = ToSet(w.table) \cap K
    BY <1>1, FilterIs
  <2>3. ToSet(w.table) \cap K = K
    OBVIOUS
  <2>4. Local(q) \notin w.dirs
    BY <1>2, <1>3 DEF LinkAt
  <2> HIDE DEF t
  <2>5. v.table = t /\ v.data = w.data /\ v.dirs = w.dirs
    BY <2>1 DEF Fields
  <2> HIDE DEF v
  <2>6. /\ v.data = w.data /\ w.data \subseteq v.dirs /\ v.dirs \subseteq w.dirs
        /\ Local(q) \notin v.dirs /\ Row(v.table) /\ ToSet(v.table) = K
    BY <2>2, <2>3, <2>4, <2>5
  <2> QED BY <2>6 DEF v
<1>4. CASE ~LinkAt(w.table, Local(q))
  <2>1. \A i \in 1..Len(w.table) : w.table[i].at # Local(q)
    BY <1>2, <1>4 DEF LinkAt
  <2>2. Resolve(w.table, q) = Local(q)
    BY <1>1, <2>1, FollowNone
  <2>3. \A i \in 1..Len(w.table) : ~Under(w.table[i].at, Local(q))
    <3> SUFFICES ASSUME NEW i \in 1..Len(w.table), Under(w.table[i].at, Local(q)) PROVE FALSE
      OBVIOUS
    <3>1. PICK p \in Q : w.table[i].at = Local(p)
      BY DEF Stands
    <3>2. p = q
      BY <3>1, UnderMountPoint
    <3> QED BY <2>1, <3>1, <3>2
  <2>4. Roots(w.table, q) = {Local(q)}
    BY <1>1, <2>2, <2>3, RootsAlone
  <2> DEFINE gone(l) == \E r \in Roots(w.table, q) : Under(l, r)
             stays(l) == \E m \in ToSet(w.table) : ~m.link /\ (Under(m.at, l) \/ m.to = l)
             K == {m \in ToSet(w.table) : ~(m.link /\ gone(m.at))}
             t == Filter(w.table, K)
             ds == {l \in w.dirs : ~gone(l) \/ stays(l)}
             kept == {l \in w.data : ~gone(l)}
  <2>5. v = [w EXCEPT !.dirs = ds, !.data = kept, !.table = t]
    BY <1>1, <1>4 DEF RmIn
  <2>6. \A l : gone(l) <=> Under(l, Local(q))
    BY <2>4
  <2>7. ~stays(Local(q))
    BY <1>2, <2>3
  <2>8. Under(Local(q), Local(q))
    BY UnderMountPoint
  <2> HIDE DEF gone, stays
  <2>9. kept = w.data /\ w.data \subseteq ds /\ ds \subseteq w.dirs /\ Local(q) \notin ds
    BY <2>6, <2>7, <2>8
  <2>10. \A m \in ToSet(w.table) : ~gone(m.at) /\ m.at # Local(q)
    BY <1>2, <2>1, <2>3, <2>6
  <2>11. K = ToSet(w.table) /\ K = {m \in ToSet(w.table) : m.at # Local(q)}
    BY <2>10
  <2> HIDE DEF K
  <2>12. Row(t) /\ ToSet(t) = ToSet(w.table) \cap K
    BY <1>1, FilterIs
  <2> HIDE DEF t, ds, kept
  <2>13. v.table = t /\ v.data = kept /\ v.dirs = ds
    BY <2>5 DEF Fields
  <2> HIDE DEF v
  <2>14. /\ v.data = w.data /\ w.data \subseteq v.dirs /\ v.dirs \subseteq w.dirs
         /\ Local(q) \notin v.dirs /\ Row(v.table)
         /\ ToSet(v.table) = {m \in ToSet(w.table) : m.at # Local(q)}
    BY <2>9, <2>11, <2>12, <2>13
  <2> QED BY <2>14 DEF v
<1> QED BY <1>3, <1>4

\* Below the root of a mounted server one is on the server.
LEMMA OnServer ==
    ASSUME NEW table, Row(table), NEW s \in STRING, NEW r \in Paths,
           \E i \in 1..Len(table) : table[i].at = Local(Tmp(s)),
           \A i \in 1..Len(table) : table[i].at = Local(Tmp(s)) => table[i].to = <<s, <<>>>>,
           \A i \in 1..Len(table) : table[i].at[1] # s
    PROVE  Resolve(table, Tmp(s) \o r) = <<s, r>>
<1> DEFINE p == Tmp(s) \o r
<1>1. /\ p \in Paths /\ Len(p) = Len(r) + 1 /\ Len(r) \in Nat /\ p[1] = s
      /\ \A k \in 1..Len(r) : p[k + 1] = r[k]
  BY DEF Tmp, Paths
<1> HIDE DEF p
<1>2. PICK f : /\ Resolve(table, p) = f[Len(p)] /\ f[0] = Root
               /\ \A i \in 1..Len(p) : f[i] = Follow(table, In(f[i - 1], p[i]))
  BY <1>1, ResolveWalks, SMTT(30)
<1>3. f[1] = <<s, <<>>>>
  <2>1. In(Root, s) = Local(Tmp(s))
    BY DEF In, Root, Local, Tmp
  <2>2. 1 \in 1..Len(p) /\ 1 - 1 = 0
    BY <1>1
  <2>3. f[1] = Follow(table, Local(Tmp(s)))
    BY <1>1, <1>2, <2>1, <2>2
  <2>4. PICK i \in 1..Len(table) :
          table[i].at = Local(Tmp(s)) /\ Follow(table, Local(Tmp(s))) = table[i].to
    BY FollowSome, Zenon
  <2> QED BY <2>3, <2>4
<1> DEFINE T == {k \in Nat : k <= Len(r) => f[k + 1] = <<s, SubSeq(r, 1, k)>>}
<1>4. 0 \in T
  <2>1. SubSeq(r, 1, 0) = <<>>
    BY DEF Paths
  <2>2. 0 + 1 = 1
    OBVIOUS
  <2>3. f[0 + 1] = <<s, SubSeq(r, 1, 0)>>
    BY <1>3, <2>1, <2>2, Zenon
  <2> QED BY <2>3
<1>5. ASSUME NEW k \in Nat, k \in T PROVE k + 1 \in T
  <2> SUFFICES ASSUME k + 1 <= Len(r) PROVE f[(k + 1) + 1] = <<s, SubSeq(r, 1, k + 1)>>
    OBVIOUS
  <2>1. /\ f[k + 1] = <<s, SubSeq(r, 1, k)>> /\ (k + 1) + 1 \in 1..Len(p) /\ ((k + 1) + 1) - 1 = k + 1
        /\ k + 1 \in 1..Len(r) /\ k + 1 \in 0..Len(r) /\ k + 1 > 0 /\ (k + 1) - 1 = k
    BY <1>1, <1>5
  <2>2. SubSeq(r, 1, k + 1) = Append(SubSeq(r, 1, k), r[k + 1])
    BY <2>1, PathAbove
  <2>3. In(f[k + 1], p[(k + 1) + 1]) = <<s, SubSeq(r, 1, k + 1)>>
    BY <1>1, <2>1, <2>2 DEF In
  <2>4. \A i \in 1..Len(table) : table[i].at # <<s, SubSeq(r, 1, k + 1)>>
    OBVIOUS
  <2> QED BY <1>2, <2>1, <2>3, <2>4, FollowNone
<1>6. Nat \subseteq T
  <2> HIDE DEF T
  <2> QED BY <1>4, <1>5, SF!NatSetInduction
<1>7. SubSeq(r, 1, Len(r)) = r
  BY <1>1 DEF Paths
<1>8. f[Len(r) + 1] = <<s, SubSeq(r, 1, Len(r))>>
  BY <1>1, <1>6
<1> QED BY <1>1, <1>2, <1>7, <1>8 DEF p

-----------------------------------------------------------------------------
(* Rows of commands that mount storage                                      *)

\* Where the directory of a mount info is to be, and which directory it is.
Point(m) == Norm[m.mountPoint]
Target(m) == <<m.server, Render(m.path)>>

\* The commands by which the directory of a mount info gets to its place.
RootMount(c, m) == c.op = "mount" /\ c.at = Tmp(m.server) /\ c.server = m.server /\ c.path = <<>>
PointMount(c, m) ==
    /\ c.op = "mount" /\ ~IsBlob(m.server)
    /\ c.at = Point(m) /\ c.server = m.server /\ c.path = Render(m.path)
PointLink(c, m) ==
    c.op = "link" /\ IsBlob(m.server) /\ c.at = Point(m) /\ c.to = Tmp(m.server) \o Render(m.path)
Makes(c, m) == PointMount(c, m) \/ PointLink(c, m)

\* Between a root's mount and its umount there is nothing but mkdir.
Due(t, n, p) ==
    \E m \in n..Len(t) : /\ t[m].op = "umount" /\ t[m].at = p
                         /\ \A k \in n..(m - 1) : t[k].op = "mkdir"

\* What the n-th line of a script does to the mounts and to files, S being the
\* mount infos of the plugin.
MountIsTidy(t, n, S) ==
    \E m \in S : \/ PointMount(t[n], m)
                 \/ RootMount(t[n], m) /\ (IsBlob(m.server) \/ Due(t, n + 1, Tmp(m.server)))
RmIsTidy(t, n, S) ==
    \E m \in S : /\ t[n].at = Removed(m)
                 /\ IsBlob(m.server) => n < Len(t) /\ t[n + 1].op = "link" /\ t[n + 1].at = t[n].at
LinkIsTidy(t, n, S) ==
    /\ n > 1 /\ t[n - 1].op = "rm" /\ t[n - 1].at = t[n].at
    /\ \E m \in S : PointLink(t[n], m) /\ \E k \in 1..(n - 1) : RootMount(t[k], m)
MoveIsTidy(t, n) ==
    n > 2 /\ t[n - 2].op = "check empty" /\ t[n - 2].at = t[n].at /\ t[n - 1].op = "mkdir"
TidyAt(t, n, S) ==
    /\ t[n].op = "mkdir" => t[n].at \in Paths
    /\ t[n].op = "mount" => MountIsTidy(t, n, S)
    /\ t[n].op = "umount" => \E m \in S : ~IsBlob(m.server) /\ t[n].at = Tmp(m.server)
    /\ t[n].op = "rm" => RmIsTidy(t, n, S)
    /\ t[n].op = "link" => LinkIsTidy(t, n, S)
    /\ t[n].op = "mv" => MoveIsTidy(t, n)
    /\ t[n].op = "user" => S = {}
Tidy(t, S) == Row(t) /\ \A n \in 1..Len(t) : TidyAt(t, n, S)

\* Commands that mount and remove nothing.
CalmOps == {"plain", "exit unless", "install", "apt", "sshd", "barrier", "check empty", "set"}
IsCalm(c) == c.op \in CalmOps \/ (c.op = "mkdir" /\ c.at \in Paths)

\* They are tidy in any script.
LEMMA CalmIsTidy ==
    ASSUME NEW t, NEW n, NEW S, IsCalm(t[n]) PROVE TidyAt(t, n, S)
BY DEF IsCalm, CalmOps, TidyAt

\* A line stays tidy when its script is part of a longer one.
LEMMA TidyShift ==
    ASSUME NEW t, NEW u, Len(t) \in Nat, Len(u) \in Nat, NEW d \in Nat, d + Len(t) <= Len(u),
           \A m \in 1..Len(t) : u[m + d] = t[m], NEW n \in 1..Len(t), NEW S, TidyAt(t, n, S)
    PROVE  TidyAt(u, n + d, S)
<1>1. u[n + d] = t[n]
  OBVIOUS
<1>2. \A m \in 1..(n - 1) : u[m + d] = t[m] /\ m + d \in 1..((n + d) - 1)
  OBVIOUS
<1>3. n > 1 => u[(n + d) - 1] = t[n - 1] /\ n + d > 1
  <2>1. n > 1 => n - 1 \in 1..Len(t) /\ (n - 1) + d = (n + d) - 1 /\ n + d > 1
    OBVIOUS
  <2> QED BY <2>1
<1>4. n > 2 => u[(n + d) - 2] = t[n - 2] /\ n + d > 2
  <2>1. n > 2 => n - 2 \in 1..Len(t) /\ (n - 2) + d = (n + d) - 2 /\ n + d > 2
    OBVIOUS
  <2> QED BY <2>1
<1>5. n < Len(t) => u[(n + d) + 1] = t[n + 1] /\ n + d < Len(u)
  <2>1. n < Len(t) => n + 1 \in 1..Len(t) /\ (n + 1) + d = (n + d) + 1 /\ n + d < Len(u)
    OBVIOUS
  <2> QED BY <2>1
<1>6. ASSUME NEW p, Due(t, n + 1, p) PROVE Due(u, (n + d) + 1, p)
  <2>1. PICK m \in (n + 1)..Len(t) : /\ t[m].op = "umount" /\ t[m].at = p
                                     /\ \A k \in (n + 1)..(m - 1) : t[k].op = "mkdir"
    BY <1>6 DEF Due
  <2>2. m + d \in ((n + d) + 1)..Len(u) /\ u[m + d] = t[m]
    OBVIOUS
  <2>3. ASSUME NEW k \in ((n + d) + 1)..((m + d) - 1) PROVE u[k].op = "mkdir"
    <3>1. k - d \in (n + 1)..(m - 1) /\ k - d \in 1..Len(t) /\ (k - d) + d = k
      OBVIOUS
    <3> QED BY <2>1, <3>1
  <2> QED BY <2>1, <2>2, <2>3 DEF Due
<1>7. t[n].op = "mount" => MountIsTidy(u, n + d, S)
  <2>1. t[n].op = "mount" => MountIsTidy(t, n, S)
    BY DEF TidyAt
  <2> QED BY <1>1, <1>6, <2>1 DEF MountIsTidy
<1>8. t[n].op = "rm" => RmIsTidy(u, n + d, S)
  BY <1>1, <1>5 DEF TidyAt, RmIsTidy
<1>9. t[n].op = "link" => LinkIsTidy(u, n + d, S)
  <2> SUFFICES ASSUME t[n].op = "link" PROVE LinkIsTidy(u, n + d, S)
    OBVIOUS
  <2>1. LinkIsTidy(t, n, S)
    BY DEF TidyAt
  <2>2. PICK m \in S : PointLink(t[n], m) /\ \E k \in 1..(n - 1) : RootMount(t[k], m)
    BY <2>1 DEF LinkIsTidy
  <2>3. \E k \in 1..((n + d) - 1) : RootMount(u[k], m)
    BY <1>2, <2>2
  <2>4. n + d > 1 /\ u[(n + d) - 1].op = "rm" /\ u[(n + d) - 1].at = u[n + d].at
    BY <1>1, <1>3, <2>1 DEF LinkIsTidy
  <2> QED BY <1>1, <2>2, <2>3, <2>4 DEF LinkIsTidy
<1>10. t[n].op = "mv" => MoveIsTidy(u, n + d)
  <2>1. t[n].op = "mv" => MoveIsTidy(t, n)
    BY DEF TidyAt
  <2>2. n > 2 => n > 1
    OBVIOUS
  <2>3. MoveIsTidy(t, n) => /\ u[(n + d) - 1] = t[n - 1] /\ u[(n + d) - 2] = t[n - 2] /\ n + d > 2
                            /\ t[n - 2].op = "check empty" /\ t[n - 2].at = t[n].at
                            /\ t[n - 1].op = "mkdir"
    BY <1>3, <1>4, <2>2 DEF MoveIsTidy
  <2> QED BY <1>1, <2>1, <2>3 DEF MoveIsTidy
<1>11. /\ t[n].op = "mkdir" => t[n].at \in Paths
       /\ t[n].op = "umount" => \E m \in S : ~IsBlob(m.server) /\ t[n].at = Tmp(m.server)
       /\ t[n].op = "user" => S = {}
  BY DEF TidyAt
<1> QED BY <1>1, <1>7, <1>8, <1>9, <1>10, <1>11 DEF TidyAt

\* Tidy scripts make a tidy script.
LEMMA TidyConcat ==
    ASSUME NEW s, NEW t, NEW S, Tidy(s, S), Tidy(t, S) PROVE Tidy(s \o t, S)
<1> DEFINE u == s \o t
<1>1. /\ Row(u) /\ Len(s) \in Nat /\ Len(t) \in Nat /\ Len(u) = Len(s) + Len(t)
      /\ \A n \in 1..Len(s) : u[n] = s[n]
      /\ \A n \in 1..Len(t) : u[n + Len(s)] = t[n]
      /\ \A n \in 1..Len(u) : n \in 1..Len(s) \/ \E m \in 1..Len(t) : n = m + Len(s)
  BY RowsConcat DEF Tidy
<1> HIDE DEF u
<1>2. ASSUME NEW n \in 1..Len(s) PROVE TidyAt(u, n, S)
  <2>1. TidyAt(s, n, S) /\ 0 \in Nat /\ 0 + Len(s) <= Len(u) /\ Len(u) \in Nat /\ n + 0 = n
    BY <1>1 DEF Tidy
  <2>2. \A m \in 1..Len(s) : u[m + 0] = s[m]
    BY <1>1
  <2>3. TidyAt(u, n + 0, S)
    BY <1>1, <2>1, <2>2, TidyShift
  <2> QED BY <2>1, <2>3
<1>3. ASSUME NEW n \in 1..Len(t) PROVE TidyAt(u, n + Len(s), S)
  <2>1. TidyAt(t, n, S) /\ Len(s) + Len(t) <= Len(u) /\ Len(u) \in Nat
    BY <1>1 DEF Tidy
  <2> QED BY <1>1, <2>1, TidyShift
<1>4. Tidy(u, S)
  BY <1>1, <1>2, <1>3 DEF Tidy
<1> QED BY <1>4 DEF u

\* FlattenSeq of tidy scripts.
LEMMA FlattenTidy ==
    ASSUME NEW S, NEW n \in Nat, NEW q, q = [i \in 1..n |-> q[i]], \A i \in 1..n : Tidy(q[i], S)
    PROVE  Tidy(FlattenSeq(q), S)
<1> DEFINE C == UNION {ToSet(q[i]) : i \in 1..n}
           T == {s \in Seq(C) : Tidy(s, S)}
<1>1. \A i \in 1..n : q[i] \in T
  <2> SUFFICES ASSUME NEW i \in 1..n PROVE q[i] \in T
    OBVIOUS
  <2>1. q[i] \in Seq(ToSet(q[i]))
    BY DEF Tidy, Row
  <2>2. ToSet(q[i]) \subseteq C
    OBVIOUS
  <2> HIDE DEF C
  <2>3. q[i] \in Seq(C)
    BY <2>1, <2>2, SeqGrows
  <2> QED BY <2>3
<1>2. <<>> \in T
  <2>1. Row(<<>>) /\ Len(<<>>) = 0
    BY CoveredRows DEF Covered
  <2> QED BY <2>1 DEF Tidy
<1>3. \A s \in T, t \in T : s \o t \in T
  <2> HIDE DEF C
  <2>1. \A s \in Seq(C), t \in Seq(C) : s \o t \in Seq(C)
    OBVIOUS
  <2> QED BY <2>1, TidyConcat
<1>4. q \in Seq(T)
  <2> HIDE DEF T
  <2>1. q \in [1..n -> T]
    BY <1>1
  <2> QED BY <2>1, SeqDef
<1>5. FlattenSeq(q) \in T
  <2> HIDE DEF T
  <2> QED BY <1>2, <1>3, <1>4, FlattenSteps
<1> QED BY <1>5

\* The commands that put directories at their mount points, of one server.
PlacesAt(t, n, S) ==
    \/ \E m \in S : PointMount(t[n], m)
    \/ /\ t[n].op = "rm" /\ \E m \in S : IsBlob(m.server) /\ t[n].at = Point(m)
       /\ n < Len(t) /\ t[n + 1].op = "link" /\ t[n + 1].at = t[n].at
    \/ /\ \E m \in S : PointLink(t[n], m)
       /\ n > 1 /\ t[n - 1].op = "rm" /\ t[n - 1].at = t[n].at
Places(t, S) == Row(t) /\ \A n \in 1..Len(t) : PlacesAt(t, n, S)

\* A line keeps its neighbours when its row is part of a longer one.
LEMMA PlacesShift ==
    ASSUME NEW t, NEW u, Len(t) \in Nat, Len(u) \in Nat, NEW d \in Nat, d + Len(t) <= Len(u),
           \A m \in 1..Len(t) : u[m + d] = t[m], NEW n \in 1..Len(t), NEW S, PlacesAt(t, n, S)
    PROVE  PlacesAt(u, n + d, S)
<1>1. u[n + d] = t[n]
  OBVIOUS
<1>2. n > 1 => u[(n + d) - 1] = t[n - 1] /\ n + d > 1
  <2>1. n > 1 => n - 1 \in 1..Len(t) /\ (n - 1) + d = (n + d) - 1 /\ n + d > 1
    OBVIOUS
  <2> QED BY <2>1
<1>3. n < Len(t) => u[(n + d) + 1] = t[n + 1] /\ n + d < Len(u)
  <2>1. n < Len(t) => n + 1 \in 1..Len(t) /\ (n + 1) + d = (n + d) + 1 /\ n + d < Len(u)
    OBVIOUS
  <2> QED BY <2>1
<1> QED BY <1>1, <1>2, <1>3 DEF PlacesAt

\* Rows that put directories in place, one after the other.
LEMMA PlacesConcat ==
    ASSUME NEW s, NEW t, NEW S, Places(s, S), Places(t, S) PROVE Places(s \o t, S)
<1> DEFINE u == s \o t
<1>1. /\ Row(u) /\ Len(s) \in Nat /\ Len(t) \in Nat /\ Len(u) = Len(s) + Len(t)
      /\ \A n \in 1..Len(s) : u[n] = s[n]
      /\ \A n \in 1..Len(t) : u[n + Len(s)] = t[n]
      /\ \A n \in 1..Len(u) : n \in 1..Len(s) \/ \E m \in 1..Len(t) : n = m + Len(s)
  BY RowsConcat DEF Places
<1> HIDE DEF u
<1>2. ASSUME NEW n \in 1..Len(s) PROVE PlacesAt(u, n, S)
  <2>1. PlacesAt(s, n, S) /\ 0 \in Nat /\ 0 + Len(s) <= Len(u) /\ Len(u) \in Nat /\ n + 0 = n
    BY <1>1 DEF Places
  <2>2. \A m \in 1..Len(s) : u[m + 0] = s[m]
    BY <1>1
  <2>3. PlacesAt(u, n + 0, S)
    BY <1>1, <2>1, <2>2, PlacesShift
  <2> QED BY <2>1, <2>3
<1>3. ASSUME NEW n \in 1..Len(t) PROVE PlacesAt(u, n + Len(s), S)
  <2>1. PlacesAt(t, n, S) /\ Len(s) + Len(t) <= Len(u) /\ Len(u) \in Nat
    BY <1>1 DEF Places
  <2> QED BY <1>1, <2>1, PlacesShift
<1>4. Places(u, S)
  BY <1>1, <1>2, <1>3 DEF Places
<1> QED BY <1>4 DEF u

\* FlattenSeq of such rows.
LEMMA FlattenPlaces ==
    ASSUME NEW S, NEW n \in Nat, NEW q, q = [i \in 1..n |-> q[i]], \A i \in 1..n : Places(q[i], S)
    PROVE  Places(FlattenSeq(q), S)
<1> DEFINE C == UNION {ToSet(q[i]) : i \in 1..n}
           T == {s \in Seq(C) : Places(s, S)}
<1>1. \A i \in 1..n : q[i] \in T
  <2> SUFFICES ASSUME NEW i \in 1..n PROVE q[i] \in T
    OBVIOUS
  <2>1. q[i] \in Seq(ToSet(q[i]))
    BY DEF Places, Row
  <2>2. ToSet(q[i]) \subseteq C
    OBVIOUS
  <2> HIDE DEF C
  <2>3. q[i] \in Seq(C)
    BY <2>1, <2>2, SeqGrows
  <2> QED BY <2>3
<1>2. <<>> \in T
  <2>1. Row(<<>>) /\ Len(<<>>) = 0
    BY CoveredRows DEF Covered
  <2> QED BY <2>1 DEF Places
<1>3. \A s \in T, t \in T : s \o t \in T
  <2> HIDE DEF C
  <2>1. \A s \in Seq(C), t \in Seq(C) : s \o t \in Seq(C)
    OBVIOUS
  <2> QED BY <2>1, PlacesConcat
<1>4. q \in Seq(T)
  <2> HIDE DEF T
  <2>1. q \in [1..n -> T]
    BY <1>1
  <2> QED BY <2>1, SeqDef
<1>5. FlattenSeq(q) \in T
  <2> HIDE DEF T
  <2> QED BY <1>2, <1>3, <1>4, FlattenSteps
<1> QED BY <1>5

\* Positions in five rows one after the other.
LEMMA FiveRows ==
    ASSUME NEW A, NEW x, NEW B, NEW P, NEW R, Row(A), Row(<<x>>), Row(B), Row(P), Row(R)
    PROVE  LET u == A \o <<x>> \o B \o P \o R
               a == Len(A)  b == Len(B)  p == Len(P)  r == Len(R)
           IN /\ Row(u) /\ a \in Nat /\ b \in Nat /\ p \in Nat /\ r \in Nat
              /\ Len(u) = a + 1 + b + p + r
              /\ \A k \in 1..a : u[k] = A[k]
              /\ u[a + 1] = x
              /\ \A k \in 1..b : u[k + (a + 1)] = B[k]
              /\ \A k \in 1..p : u[k + (a + 1 + b)] = P[k]
              /\ \A k \in 1..r : u[k + (a + 1 + b + p)] = R[k]
<1> DEFINE u1 == A \o <<x>>
           u2 == u1 \o B
           u3 == u2 \o P
           u4 == u3 \o R
<1>0. Len(<<x>>) = 1 /\ <<x>>[1] = x
  OBVIOUS
<1>1. /\ Row(u1) /\ Len(A) \in Nat /\ Len(u1) = Len(A) + 1 /\ u1[Len(A) + 1] = x
      /\ \A k \in 1..Len(A) : u1[k] = A[k]
  <2> DEFINE y == <<x>>
  <2>1. Row(y) /\ Len(y) = 1 /\ y[1] = x
    BY <1>0
  <2> HIDE DEF y
  <2>2. /\ Row(A \o y) /\ Len(A) \in Nat /\ Len(A \o y) = Len(A) + Len(y)
        /\ \A n \in 1..Len(A) : (A \o y)[n] = A[n]
        /\ \A n \in 1..Len(y) : (A \o y)[n + Len(A)] = y[n]
    BY <2>1, RowsConcat, SMTT(30)
  <2>3. 1 \in 1..Len(y) /\ 1 + Len(A) = Len(A) + 1
    BY <2>1, <2>2
  <2>4. (A \o y)[Len(A) + 1] = x
    BY <2>1, <2>2, <2>3
  <2> QED BY <2>1, <2>2, <2>4 DEF y
<1> HIDE DEF u1
<1>2. /\ Row(u2) /\ Len(B) \in Nat /\ Len(u2) = Len(u1) + Len(B)
      /\ \A k \in 1..Len(u1) : u2[k] = u1[k]
      /\ \A k \in 1..Len(B) : u2[k + Len(u1)] = B[k]
  BY <1>1, RowsConcat
<1> HIDE DEF u2
<1>3. /\ Row(u3) /\ Len(P) \in Nat /\ Len(u3) = Len(u2) + Len(P)
      /\ \A k \in 1..Len(u2) : u3[k] = u2[k]
      /\ \A k \in 1..Len(P) : u3[k + Len(u2)] = P[k]
  BY <1>2, RowsConcat
<1> HIDE DEF u3
<1>4. /\ Row(u4) /\ Len(R) \in Nat /\ Len(u4) = Len(u3) + Len(R)
      /\ \A k \in 1..Len(u3) : u4[k] = u3[k]
      /\ \A k \in 1..Len(R) : u4[k + Len(u3)] = R[k]
  BY <1>3, RowsConcat
<1> HIDE DEF u4
<1> DEFINE a == Len(A)  b == Len(B)  p == Len(P)  r == Len(R)
<1>5. /\ a \in Nat /\ b \in Nat /\ p \in Nat /\ r \in Nat /\ Len(u1) = a + 1
      /\ Len(u2) = a + 1 + b /\ Len(u3) = a + 1 + b + p /\ Len(u4) = a + 1 + b + p + r
  BY <1>1, <1>2, <1>3, <1>4
<1>6. ASSUME NEW k \in 1..Len(u1) PROVE u4[k] = u1[k]
  <2>1. k \in 1..Len(u2) /\ k \in 1..Len(u3)
    BY <1>5
  <2> QED BY <1>2, <1>3, <1>4, <2>1
<1>7. \A k \in 1..a : u4[k] = A[k]
  <2>1. \A k \in 1..a : k \in 1..Len(u1)
    BY <1>5
  <2> QED BY <1>1, <1>6, <2>1
<1>8. u4[a + 1] = x
  <2>1. a + 1 \in 1..Len(u1)
    BY <1>5
  <2> QED BY <1>1, <1>6, <2>1
<1>9. ASSUME NEW k \in 1..b PROVE u4[k + (a + 1)] = B[k]
  <2>1. k + (a + 1) \in 1..Len(u2) /\ k + (a + 1) \in 1..Len(u3)
    BY <1>5
  <2> QED BY <1>2, <1>3, <1>4, <1>5, <2>1
<1>10. ASSUME NEW k \in 1..p PROVE u4[k + (a + 1 + b)] = P[k]
  <2>1. k + (a + 1 + b) \in 1..Len(u3)
    BY <1>5
  <2> QED BY <1>3, <1>4, <1>5, <2>1
<1>11. \A k \in 1..r : u4[k + (a + 1 + b + p)] = R[k]
  BY <1>4, <1>5
<1>12. u4 = A \o <<x>> \o B \o P \o R
  BY DEF u1, u2, u3, u4
<1> QED BY <1>4, <1>5, <1>7, <1>8, <1>9, <1>10, <1>11, <1>12

\* The root of a share is unmounted, and that of a blob container is not.
Sharing(s, P) == P = IF IsBlob(s) THEN <<>> ELSE <<Umount(Tmp(s)), Rm(Tmp(s))>>

\* A row that puts directories in place is tidy where the root has been mounted.
LEMMA PlacesTidy ==
    ASSUME NEW S, NEW u, NEW n, n \in 1..Len(u), Len(u) \in Nat, PlacesAt(u, n, S),
           NEW d \in 1..(n - 1), \A m \in S : RootMount(u[d], m)
    PROVE  TidyAt(u, n, S)
<1>1. CASE \E m \in S : PointMount(u[n], m)
  BY <1>1 DEF PointMount, TidyAt, MountIsTidy
<1>2. CASE /\ u[n].op = "rm" /\ \E m \in S : IsBlob(m.server) /\ u[n].at = Point(m)
           /\ n < Len(u) /\ u[n + 1].op = "link" /\ u[n + 1].at = u[n].at
  <2>1. PICK m \in S : IsBlob(m.server) /\ u[n].at = Point(m)
    BY <1>2
  <2>2. u[n].at = Removed(m)
    BY <2>1 DEF Removed, Point
  <2> QED BY <1>2, <2>2 DEF TidyAt, RmIsTidy
<1>3. CASE /\ \E m \in S : PointLink(u[n], m)
           /\ n > 1 /\ u[n - 1].op = "rm" /\ u[n - 1].at = u[n].at
  <2>1. PICK m \in S : PointLink(u[n], m)
    BY <1>3
  <2>2. u[n].op = "link"
    BY <2>1 DEF PointLink
  <2>3. LinkIsTidy(u, n, S)
    BY <1>3, <2>1 DEF LinkIsTidy
  <2> QED BY <2>2, <2>3 DEF TidyAt
<1> QED BY <1>1, <1>2, <1>3 DEF PlacesAt

\* The rows for one server make a tidy script: the root is mounted (x), the
\* directories are made (B), the root of a share is unmounted and removed (P),
\* and then the directories are put in place (R).
LEMMA ServerRow ==
    ASSUME NEW s, NEW S, \A m \in S : m.server = s, S # {},
           NEW A, Row(A), \A n \in 1..Len(A) : IsCalm(A[n]),
           NEW x, Row(<<x>>), \A m \in S : RootMount(x, m),
           NEW B, Row(B), \A n \in 1..Len(B) : B[n].op = "mkdir" /\ B[n].at \in Paths,
           NEW P, Row(P), Sharing(s, P), NEW R, Places(R, S)
    PROVE  Tidy(A \o <<x>> \o B \o P \o R, S)
<1> DEFINE u == A \o <<x>> \o B \o P \o R
           a == Len(A)  b == Len(B)  p == Len(P)  r == Len(R)
<1>0. Row(R) /\ \A n \in 1..r : PlacesAt(R, n, S)
  BY DEF Places
<1>1. /\ Row(u) /\ a \in Nat /\ b \in Nat /\ p \in Nat /\ r \in Nat
      /\ Len(u) = a + 1 + b + p + r
      /\ \A k \in 1..a : u[k] = A[k]
      /\ u[a + 1] = x
      /\ \A k \in 1..b : u[k + (a + 1)] = B[k]
      /\ \A k \in 1..p : u[k + (a + 1 + b)] = P[k]
      /\ \A k \in 1..r : u[k + (a + 1 + b + p)] = R[k]
  BY <1>0, FiveRows
<1>2. ~IsBlob(s) => /\ p = 2 /\ P[1].op = "umount" /\ P[1].at = Tmp(s)
                    /\ P[2].op = "rm" /\ P[2].at = Tmp(s)
  <2> SUFFICES ASSUME ~IsBlob(s) PROVE /\ p = 2 /\ P[1].op = "umount" /\ P[1].at = Tmp(s)
                                       /\ P[2].op = "rm" /\ P[2].at = Tmp(s)
    OBVIOUS
  <2>1. P = <<Umount(Tmp(s)), Rm(Tmp(s))>>
    BY DEF Sharing
  <2>2. p = 2 /\ P[1] = Umount(Tmp(s)) /\ P[2] = Rm(Tmp(s))
    BY <2>1
  <2>3. /\ Umount(Tmp(s)).op = "umount" /\ Umount(Tmp(s)).at = Tmp(s)
        /\ Rm(Tmp(s)).op = "rm" /\ Rm(Tmp(s)).at = Tmp(s)
    BY DEF Umount, Rm
  <2> QED BY <2>2, <2>3
<1>3. IsBlob(s) => p = 0
  <2>1. IsBlob(s) => P = <<>>
    BY DEF Sharing
  <2>2. Len(<<>>) = 0
    OBVIOUS
  <2> QED BY <2>1, <2>2
<1> HIDE DEF u, a, b, p, r
<1>4. PICK m0 \in S : m0.server = s
  OBVIOUS
<1>5. \A n \in 1..a : TidyAt(u, n, S)
  BY <1>1, CalmIsTidy DEF a
<1>6. \A k \in 1..b : TidyAt(u, k + (a + 1), S)
  BY <1>1, CalmIsTidy DEF IsCalm, b
<1>7. TidyAt(u, a + 1, S)
  <2>1. x.op = "mount" /\ RootMount(x, m0)
    BY DEF RootMount
  <2>2. CASE IsBlob(s)
    BY <1>1, <1>4, <2>1, <2>2 DEF TidyAt, MountIsTidy
  <2>3. CASE ~IsBlob(s)
    <3> DEFINE l == 1 + (a + 1 + b)
    <3>1. /\ l \in ((a + 1) + 1)..Len(u) /\ u[l].op = "umount" /\ u[l].at = Tmp(m0.server)
          /\ \A k \in ((a + 1) + 1)..(l - 1) : k - (a + 1) \in 1..b /\ (k - (a + 1)) + (a + 1) = k
      <4>1. 1 \in 1..p
        BY <1>2, <2>3
      <4>2. u[l] = P[1]
        BY <1>1, <4>1
      <4>3. l \in ((a + 1) + 1)..Len(u)
        BY <1>1, <1>2, <2>3
      <4>4. \A k \in ((a + 1) + 1)..(l - 1) : k - (a + 1) \in 1..b /\ (k - (a + 1)) + (a + 1) = k
        BY <1>1
      <4> HIDE DEF l
      <4> QED BY <1>2, <1>4, <2>3, <4>2, <4>3, <4>4
    <3> HIDE DEF l
    <3>2. ASSUME NEW k \in ((a + 1) + 1)..(l - 1) PROVE u[k].op = "mkdir"
      <4>1. PICK j \in 1..b : j + (a + 1) = k
        BY <3>1
      <4>2. u[k] = B[j] /\ B[j].op = "mkdir"
        BY <1>1, <4>1 DEF b
      <4> QED BY <4>2
    <3>3. Due(u, (a + 1) + 1, Tmp(m0.server))
      BY <3>1, <3>2 DEF Due
    <3> QED BY <1>1, <2>1, <3>3 DEF TidyAt, MountIsTidy
  <2> QED BY <2>2, <2>3
<1>8. \A k \in 1..p : TidyAt(u, k + (a + 1 + b), S)
  <2> SUFFICES ASSUME NEW k \in 1..p PROVE TidyAt(u, k + (a + 1 + b), S)
    OBVIOUS
  <2>1. ~IsBlob(s) /\ k \in {1, 2}
    BY <1>2, <1>3
  <2>2. u[k + (a + 1 + b)] = P[k]
    BY <1>1
  <2>3. Removed(m0) = Tmp(s) /\ ~IsBlob(m0.server)
    BY <1>4, <2>1 DEF Removed
  <2>4. PICK n : n = k + (a + 1 + b)
    OBVIOUS
  <2>5. CASE k = 1
    <3>1. u[n].op = "umount" /\ u[n].at = Tmp(m0.server)
      BY <1>2, <1>4, <2>1, <2>2, <2>4, <2>5
    <3>2. TidyAt(u, n, S)
      BY <2>3, <3>1 DEF TidyAt
    <3> QED BY <2>4, <3>2
  <2>6. CASE k = 2
    <3>1. u[n].op = "rm" /\ u[n].at = Removed(m0)
      BY <1>2, <2>1, <2>2, <2>3, <2>4, <2>6
    <3>2. TidyAt(u, n, S)
      BY <2>3, <3>1 DEF TidyAt, RmIsTidy
    <3> QED BY <2>4, <3>2
  <2> QED BY <2>1, <2>5, <2>6
<1>9. \A k \in 1..r : TidyAt(u, k + (a + 1 + b + p), S)
  <2> SUFFICES ASSUME NEW k \in 1..r PROVE TidyAt(u, k + (a + 1 + b + p), S)
    OBVIOUS
  <2> DEFINE d == a + 1 + b + p
  <2>1. /\ d \in Nat /\ d + r <= Len(u) /\ Len(u) \in Nat
        /\ k + d \in 1..Len(u) /\ a + 1 \in 1..((k + d) - 1)
    BY <1>1
  <2>2. \A j \in 1..r : u[j + d] = R[j]
    BY <1>1
  <2> HIDE DEF d
  <2>3. PlacesAt(R, k, S) /\ Len(R) = r /\ r \in Nat
    BY <1>0, <1>1 DEF r
  <2>4. PlacesAt(u, k + d, S)
    BY <2>1, <2>2, <2>3, PlacesShift
  <2>5. \A m \in S : RootMount(u[a + 1], m)
    BY <1>1
  <2>6. TidyAt(u, k + d, S)
    BY <2>1, <2>4, <2>5, PlacesTidy
  <2> QED BY <2>6 DEF d
<1>10. ASSUME NEW n \in 1..Len(u) PROVE TidyAt(u, n, S)
  <2>1. \/ n \in 1..a \/ n = a + 1 \/ \E k \in 1..b : n = k + (a + 1)
        \/ \E k \in 1..p : n = k + (a + 1 + b)
        \/ \E k \in 1..r : n = k + (a + 1 + b + p)
    <3>1. CASE n > a + 1 + b + p
      <4>1. n - (a + 1 + b + p) \in 1..r /\ n = (n - (a + 1 + b + p)) + (a + 1 + b + p)
        BY <1>1, <3>1
      <4> QED BY <4>1
    <3>2. CASE n <= a + 1 + b + p /\ n > a + 1 + b
      <4>1. n - (a + 1 + b) \in 1..p /\ n = (n - (a + 1 + b)) + (a + 1 + b)
        BY <1>1, <3>2
      <4> QED BY <4>1
    <3>3. CASE n <= a + 1 + b /\ n > a + 1
      <4>1. n - (a + 1) \in 1..b /\ n = (n - (a + 1)) + (a + 1)
        BY <1>1, <3>3
      <4> QED BY <4>1
    <3>4. CASE n <= a + 1
      BY <1>1, <3>4
    <3> QED BY <1>1, <3>1, <3>2, <3>3, <3>4
  <2> QED BY <1>5, <1>6, <1>7, <1>8, <1>9, <2>1
<1>11. Tidy(u, S)
  BY <1>1, <1>10 DEF Tidy
<1> QED BY <1>11 DEF u

\* A mount info whose server and paths there are.
KnownInfo(m) == m.server \in DOMAIN Type /\ Point(m) \in Paths /\ Render(m.path) \in Paths
Brings(t, m) == \E c \in ToSet(t) : Makes(c, m)

\* The path of a user's directory.
LEMMA RenderTyped ==
    /\ Render(<<>>) = <<>>
    /\ \A path \in Paths : Render(path) \in Paths
<1>1. Render(<<>>) = <<>>
  BY DEF Render, Substitute
<1>2. ASSUME NEW path \in Paths, NEW old, NEW new \in STRING
      PROVE  Substitute(path, old, new) \in Paths
  <2>1. Len(path) \in Nat /\ DOMAIN path = 1..Len(path) /\ \A i \in 1..Len(path) : path[i] \in STRING
    BY <1>2 DEF Paths
  <2>2. Substitute(path, old, new) \in [1..Len(path) -> STRING]
    BY <1>2, <2>1 DEF Substitute
  <2> QED BY <2>1, <2>2, SeqDef DEF Paths
<1> QED BY <1>1, <1>2, StorageAssumption DEF Render

\* The elements of rows one after the other.
LEMMA ElementsConcat ==
    ASSUME NEW s, NEW t, Row(s), Row(t)
    PROVE  ToSet(s) \subseteq ToSet(s \o t) /\ ToSet(t) \subseteq ToSet(s \o t) /\ Row(s \o t)
<1> DEFINE u == s \o t
<1>1. /\ Row(u) /\ Len(s) \in Nat /\ Len(t) \in Nat /\ Len(u) = Len(s) + Len(t)
      /\ \A n \in 1..Len(s) : u[n] = s[n]
      /\ \A n \in 1..Len(t) : u[n + Len(s)] = t[n]
  BY RowsConcat
<1> HIDE DEF u
<1>2. \A n \in 1..Len(u) : u[n] \in ToSet(u)
  BY <1>1, RowElements
<1>3. ASSUME NEW x \in ToSet(s) PROVE x \in ToSet(u)
  <2>1. PICK n \in 1..Len(s) : s[n] = x
    BY <1>3, RowElements
  <2>2. n \in 1..Len(u)
    BY <1>1
  <2> QED BY <1>1, <1>2, <2>1, <2>2
<1>4. ASSUME NEW x \in ToSet(t) PROVE x \in ToSet(u)
  <2>1. PICK n \in 1..Len(t) : t[n] = x
    BY <1>4, RowElements
  <2>2. n + Len(s) \in 1..Len(u)
    BY <1>1
  <2> QED BY <1>1, <1>2, <2>1, <2>2
<1> QED BY <1>1, <1>3, <1>4 DEF u

\* FlattenSeq of rows leaves no element out.
LEMMA FlattenHasAll ==
    ASSUME NEW n \in Nat, NEW q, q = [i \in 1..n |-> q[i]], \A i \in 1..n : Row(q[i])
    PROVE  \A i \in 1..n : ToSet(q[i]) \subseteq ToSet(FlattenSeq(q))
<1> DEFINE C == UNION {ToSet(q[i]) : i \in 1..n}
<1>1. \A i \in 1..n : q[i] \in Seq(C)
  <2> SUFFICES ASSUME NEW i \in 1..n PROVE q[i] \in Seq(C)
    OBVIOUS
  <2>1. q[i] \in Seq(ToSet(q[i]))
    BY DEF Row
  <2>2. ToSet(q[i]) \subseteq C
    OBVIOUS
  <2> HIDE DEF C
  <2> QED BY <2>1, <2>2, SeqGrows
<1> HIDE DEF C
<1> QED BY <1>1, FlattenCovers

\* Short rows.
LEMMA ShortRows ==
    ASSUME NEW x, NEW y
    PROVE  /\ Row(<<>>) /\ Len(<<>>) = 0 /\ Row(<<x>>) /\ Row(<<x, y>>)
           /\ x \in ToSet(<<x>>) /\ y \in ToSet(<<x, y>>)
           /\ Len(<<x>>) = 1 /\ <<x>>[1] = x
           /\ Len(<<x, y>>) = 2 /\ <<x, y>>[1] = x /\ <<x, y>>[2] = y
<1>1. <<>> \in Seq({}) /\ <<x>> \in Seq({x}) /\ <<x, y>> \in Seq({x, y})
  OBVIOUS
<1>2. Row(<<>>) /\ Row(<<x>>) /\ Row(<<x, y>>)
  BY <1>1, RowOf
<1>3. x \in ToSet(<<x>>) /\ y \in ToSet(<<x, y>>)
  BY DEF ToSet
<1> QED BY <1>2, <1>3

\* The commands that put a directory in place: a mount, or for a blob a link where
\* what was there is removed.
LEMMA RealPlaces ==
    ASSUME NEW s, NEW S, NEW m \in S, m.server = s
    PROVE  LET t == SetupCommands(s, Point(m), m.path).real_mount
           IN  Places(t, S) /\ Row(t) /\ Brings(t, m)
<1> DEFINE t == SetupCommands(s, Point(m), m.path).real_mount
<1>1. CASE IsBlob(s)
  <2> DEFINE x == Rm(Point(m))
             y == Link(Tmp(s) \o Render(m.path), Point(m))
  <2>1. t = <<x, y>>
    BY <1>1 DEF SetupCommands, BlobSetup
  <2>2. x.op = "rm" /\ x.at = Point(m)
    BY DEF Rm
  <2>3. y.op = "link" /\ y.at = Point(m) /\ PointLink(y, m)
    <3>1. y.op = "link" /\ y.at = Point(m) /\ y.to = Tmp(s) \o Render(m.path)
      BY DEF Link
    <3> QED BY <1>1, <3>1 DEF PointLink
  <2> HIDE DEF t, x, y
  <2>4. Row(t) /\ Len(t) = 2 /\ t[1] = x /\ t[2] = y /\ y \in ToSet(t)
    BY <2>1, ShortRows
  <2>5. PlacesAt(t, 1, S)
    <3>1. t[1].op = "rm" /\ t[1].at = Point(m) /\ 1 < Len(t) /\ t[1 + 1].op = "link" /\ t[1 + 1].at = t[1].at
      BY <2>2, <2>3, <2>4
    <3> QED BY <1>1, <3>1 DEF PlacesAt
  <2>6. PlacesAt(t, 2, S)
    <3>1. PointLink(t[2], m) /\ 2 > 1 /\ t[2 - 1].op = "rm" /\ t[2 - 1].at = t[2].at
      BY <2>2, <2>3, <2>4
    <3> QED BY <3>1 DEF PlacesAt
  <2>7. \A n \in 1..Len(t) : n = 1 \/ n = 2
    BY <2>4
  <2>8. Places(t, S)
    BY <2>4, <2>5, <2>6, <2>7 DEF Places
  <2>9. Brings(t, m)
    BY <2>3, <2>4 DEF Brings, Makes
  <2> QED BY <2>4, <2>8, <2>9 DEF t
<1>2. CASE ~IsBlob(s)
  <2> DEFINE x == Mount(s, Render(m.path), Point(m))
  <2>1. t = <<x>>
    BY <1>2 DEF SetupCommands, ShareSetup
  <2>2. PointMount(x, m)
    <3>1. x.op = "mount" /\ x.at = Point(m) /\ x.server = s /\ x.path = Render(m.path)
      BY DEF Mount
    <3> QED BY <1>2, <3>1 DEF PointMount
  <2> HIDE DEF t, x
  <2>3. Row(t) /\ Len(t) = 1 /\ t[1] = x /\ x \in ToSet(t)
    BY <2>1, ShortRows
  <2>4. PlacesAt(t, 1, S)
    BY <2>2, <2>3 DEF PlacesAt
  <2>5. \A n \in 1..Len(t) : n = 1
    BY <2>3
  <2>6. Places(t, S) /\ Brings(t, m)
    BY <2>2, <2>3, <2>4, <2>5 DEF Places, Brings, Makes
  <2> QED BY <2>3, <2>6 DEF t
<1> QED BY <1>1, <1>2

\* The row that makes the directories.
LEMMA FoldersAreDirectories ==
    ASSUME NEW s \in STRING, NEW infos, Row(infos), \A m \in ToSet(infos) : KnownInfo(m)
    PROVE  LET B == MakeTmpFolders(s, infos)
           IN  Row(B) /\ \A n \in 1..Len(B) : B[n].op = "mkdir" /\ B[n].at \in Paths
<1> DEFINE B == MakeTmpFolders(s, infos)
           C == {Mkdir(p) : p \in Paths}
           q == [i \in DOMAIN infos |->
                   <<Mkdir(Norm[infos[i].mountPoint]), Mkdir(Tmp(s) \o Render(infos[i].path))>>]
<1>1. Len(infos) \in Nat /\ DOMAIN infos = 1..Len(infos) /\ \A i \in 1..Len(infos) : infos[i] \in ToSet(infos)
  BY RowElements
<1>2. \A i \in 1..Len(infos) : q[i] \in Seq(C)
  <2> SUFFICES ASSUME NEW i \in 1..Len(infos) PROVE q[i] \in Seq(C)
    OBVIOUS
  <2>1. Norm[infos[i].mountPoint] \in Paths /\ Render(infos[i].path) \in Paths
    BY <1>1 DEF KnownInfo, Point
  <2>2. Tmp(s) \o Render(infos[i].path) \in Paths
    BY <2>1 DEF Tmp, Paths
  <2>3. Mkdir(Norm[infos[i].mountPoint]) \in C /\ Mkdir(Tmp(s) \o Render(infos[i].path)) \in C
    BY <2>1, <2>2
  <2>4. \A x \in C, y \in C : <<x, y>> \in Seq(C)
    <3> HIDE DEF C
    <3> QED OBVIOUS
  <2>5. q[i] = <<Mkdir(Norm[infos[i].mountPoint]), Mkdir(Tmp(s) \o Render(infos[i].path))>>
    BY <1>1
  <2> QED BY <2>3, <2>4, <2>5
<1>3. q = [i \in 1..Len(infos) |-> q[i]]
  BY <1>1
<1>4. B = FlattenSeq(q)
  BY DEF MakeTmpFolders
<1> HIDE DEF q, B, C
<1>5. B \in Seq(C)
  BY <1>1, <1>2, <1>3, <1>4, FlattenTyped
<1>6. Row(B) /\ \A n \in 1..Len(B) : B[n] \in C
  BY <1>5, RowOf, ElementOfSeq
<1>7. \A c \in C : c.op = "mkdir" /\ c.at \in Paths
  BY DEF C, Mkdir
<1> QED BY <1>6, <1>7 DEF B

\* Short sequences over a set.
LEMMA ShortSeqs ==
    ASSUME NEW C
    PROVE  <<>> \in Seq(C) /\ \A x \in C : <<x>> \in Seq(C) /\ \A y \in C : <<x, y>> \in Seq(C)
OBVIOUS

\* Where the root of a server is mounted.
LEMMA TmpTyped ==
    ASSUME NEW s \in STRING PROVE Tmp(s) \in Paths
<1>1. <<s>> \in Seq(STRING)
  BY ShortSeqs
<1> QED BY <1>1 DEF Tmp, Paths

\* The first row for a server mounts and removes nothing.
LEMMA PreMountIsCalm ==
    ASSUME NEW s \in STRING
    PROVE  LET A == SetupCommands(s, Tmp(s), <<>>).pre_mount
           IN  Row(A) /\ \A n \in 1..Len(A) : IsCalm(A[n])
<1> DEFINE A == SetupCommands(s, Tmp(s), <<>>).pre_mount
           C == {Plain, ExitUnless, AptInstall(Tools.azureblob), Install(Type[s]), Mkdir(Tmp(s))}
<1>1. Tmp(s) \in Paths
  BY TmpTyped
<1>2. \A c \in C : IsCalm(c)
  <2>1. /\ Plain.op = "plain" /\ ExitUnless.op = "exit unless" /\ Mkdir(Tmp(s)).at = Tmp(s)
        /\ AptInstall(Tools.azureblob).op = "apt" /\ Install(Type[s]).op = "install"
        /\ Mkdir(Tmp(s)).op = "mkdir"
    BY DEF Plain, ExitUnless, AptInstall, Install, Mkdir
  <2> QED BY <1>1, <2>1 DEF IsCalm, CalmOps
<1>3. A \in Seq(C)
  <2>1. CASE IsBlob(s)
    <3>1. A = <<Plain, ExitUnless, Plain, AptInstall(Tools.azureblob), Plain, Mkdir(Tmp(s))>>
      BY <2>1 DEF SetupCommands, BlobSetup
    <3> HIDE DEF A
    <3> QED BY <3>1
  <2>2. CASE ~IsBlob(s)
    <3>1. A = <<Mkdir(Tmp(s)), Install(Type[s])>> \o (IF s \in Proxied THEN <<Plain>> ELSE <<>>)
      BY <2>2 DEF SetupCommands, ShareSetup
    <3>2. Mkdir(Tmp(s)) \in C /\ Install(Type[s]) \in C /\ Plain \in C
      OBVIOUS
    <3> HIDE DEF A, C
    <3>3. <<Mkdir(Tmp(s)), Install(Type[s])>> \in Seq(C) /\ <<Plain>> \in Seq(C) /\ <<>> \in Seq(C)
      BY <3>2, ShortSeqs
    <3>4. \A x \in Seq(C), y \in Seq(C) : x \o y \in Seq(C)
      OBVIOUS
    <3> QED BY <3>1, <3>3, <3>4
  <2> QED BY <2>1, <2>2
<1> HIDE DEF A, C
<1>4. Row(A) /\ \A n \in 1..Len(A) : A[n] \in C
  BY <1>3, RowOf, ElementOfSeq
<1> QED BY <1>2, <1>4 DEF A

\* What brings a directory to its place in one row does so in a longer one.
LEMMA BringsMore ==
    ASSUME NEW s, NEW t, ToSet(s) \subseteq ToSet(t), NEW m, Brings(s, m) PROVE Brings(t, m)
BY DEF Brings

\* A script is tidy for more mount infos than those of one server.
LEMMA TidyGrows ==
    ASSUME NEW t, NEW S, NEW T, S \subseteq T, S # {}, Tidy(t, S) PROVE Tidy(t, T)
<1>1. ASSUME NEW n \in 1..Len(t) PROVE TidyAt(t, n, T)
  <2>1. TidyAt(t, n, S)
    BY DEF Tidy
  <2>2. MountIsTidy(t, n, S) => MountIsTidy(t, n, T)
    BY DEF MountIsTidy
  <2>3. RmIsTidy(t, n, S) => RmIsTidy(t, n, T)
    BY DEF RmIsTidy
  <2>4. LinkIsTidy(t, n, S) => LinkIsTidy(t, n, T)
    BY DEF LinkIsTidy
  <2> QED BY <2>1, <2>2, <2>3, <2>4 DEF TidyAt
<1> QED BY <1>1 DEF Tidy

\* The commands for one server, with any number of mount points.
LEMMA ServerTidy ==
    ASSUME NEW s \in STRING, NEW infos, Row(infos), NEW S, S = ToSet(infos), S # {},
           \A m \in S : KnownInfo(m) /\ m.server = s
    PROVE  Tidy(ServerCommands(s, infos), S) /\ \A m \in S : Brings(ServerCommands(s, infos), m)
<1> DEFINE A == SetupCommands(s, Tmp(s), <<>>).pre_mount
           x == Mount(s, <<>>, Tmp(s))
           B == MakeTmpFolders(s, infos)
           P == SetupCommands(s, Tmp(s), <<>>).post_mount
           real(m) == SetupCommands(s, Norm[m.mountPoint], m.path).real_mount
           q == [i \in DOMAIN infos |-> real(infos[i])]
           R == FlattenSeq(q)
           t == ServerCommands(s, infos)
<1>1. Row(A) /\ \A n \in 1..Len(A) : IsCalm(A[n])
  BY PreMountIsCalm
<1>2. Row(<<x>>) /\ \A m \in S : RootMount(x, m)
  <2>1. x.op = "mount" /\ x.at = Tmp(s) /\ x.server = s /\ x.path = <<>>
    BY DEF Mount
  <2> HIDE DEF x
  <2> QED BY <2>1, ShortRows DEF RootMount
<1>3. SetupCommands(s, Tmp(s), <<>>).tmp_mount = <<x>>
  BY RenderTyped DEF SetupCommands, BlobSetup, ShareSetup
<1>4. Row(B) /\ \A n \in 1..Len(B) : B[n].op = "mkdir" /\ B[n].at \in Paths
  BY FoldersAreDirectories
<1>5. Row(P) /\ Sharing(s, P)
  <2>1. Sharing(s, P)
    BY DEF Sharing, SetupCommands, BlobSetup, ShareSetup
  <2>2. P = <<>> \/ \E y, z : P = <<y, z>>
    BY <2>1 DEF Sharing
  <2> HIDE DEF P
  <2>3. \A y, z : Row(<<>>) /\ Row(<<y, z>>)
    BY ShortRows
  <2>4. Row(P)
    BY <2>2, <2>3, Zenon
  <2> QED BY <2>1, <2>4
<1>6. Len(infos) \in Nat /\ DOMAIN infos = 1..Len(infos) /\ \A i \in 1..Len(infos) : infos[i] \in S
  BY RowElements
<1>7. \A i \in 1..Len(infos) : Places(q[i], S) /\ Row(q[i]) /\ Brings(q[i], infos[i])
  <2> SUFFICES ASSUME NEW i \in 1..Len(infos) PROVE Places(q[i], S) /\ Row(q[i]) /\ Brings(q[i], infos[i])
    OBVIOUS
  <2>1. q[i] = SetupCommands(s, Point(infos[i]), infos[i].path).real_mount
    BY <1>6 DEF Point
  <2>2. infos[i] \in S /\ infos[i].server = s
    BY <1>6
  <2> QED BY <2>1, <2>2, RealPlaces
<1>8. q = [i \in 1..Len(infos) |-> q[i]]
  BY <1>6
<1> HIDE DEF q
<1>9. Places(R, S) /\ \A i \in 1..Len(infos) : ToSet(q[i]) \subseteq ToSet(R)
  BY <1>6, <1>7, <1>8, FlattenPlaces, FlattenHasAll
<1>10. t = A \o <<x>> \o B \o P \o R
  BY <1>3 DEF ServerCommands, q
<1> HIDE DEF A, x, B, P, R, t
<1>11. Tidy(t, S)
  BY <1>1, <1>2, <1>4, <1>5, <1>9, <1>10, ServerRow
<1>12. ToSet(R) \subseteq ToSet(t)
  <2>1. Row(A \o <<x>> \o B \o P) /\ Row(R)
    BY <1>1, <1>2, <1>4, <1>5, <1>9, ElementsConcat DEF Places
  <2> QED BY <1>10, <2>1, ElementsConcat
<1>13. ASSUME NEW m \in S PROVE Brings(t, m)
  <2>1. PICK i \in 1..Len(infos) : infos[i] = m
    BY RowElements
  <2>2. Brings(R, m)
    BY <1>7, <1>9, <2>1, BringsMore
  <2> QED BY <1>12, <2>2, BringsMore
<1> QED BY <1>11, <1>13 DEF t

\* The mount infos of storage configs have their paths.
LEMMA InfosKnown ==
    ASSUME NEW names \in Seq(STRING), NEW m \in ToSet(Infos(names)), m.server \in DOMAIN Type
    PROVE  KnownInfo(m)
<1> DEFINE k == Known(names)
           q == [i \in DOMAIN k |-> StorageConfigs[k[i]].mountInfos]
           G == {o \in MountInfo : Norm[o.mountPoint] \in Paths}
<1>1. k \in Seq(STRING \cap DOMAIN StorageConfigs)
  BY KnownTyped
<1>2. \A n \in DOMAIN StorageConfigs : StorageConfigs[n].mountInfos \in Seq(G)
  <2> SUFFICES ASSUME NEW n \in DOMAIN StorageConfigs PROVE StorageConfigs[n].mountInfos \in Seq(G)
    OBVIOUS
  <2> DEFINE s == StorageConfigs[n].mountInfos
  <2>1. s \in Seq(MountInfo) /\ \A i \in DOMAIN s : Norm[s[i].mountPoint] \in Paths
    BY StorageAssumption DEF MountInfo, Paths
  <2> HIDE DEF s
  <2>2. Len(s) \in Nat /\ s \in [1..Len(s) -> MountInfo] /\ DOMAIN s = 1..Len(s)
    BY <2>1
  <2>3. s \in [1..Len(s) -> G]
    BY <2>1, <2>2
  <2>4. s \in Seq(G)
    BY <2>2, <2>3, SeqDef
  <2> QED BY <2>4 DEF s
<1> HIDE DEF k
<1>3. Len(k) \in Nat /\ DOMAIN k = 1..Len(k) /\ \A i \in 1..Len(k) : k[i] \in DOMAIN StorageConfigs
  BY <1>1
<1>4. \A i \in 1..Len(k) : q[i] \in Seq(G)
  <2> HIDE DEF G
  <2> QED BY <1>2, <1>3
<1>5. q = [i \in 1..Len(k) |-> q[i]]
  BY <1>3
<1> HIDE DEF q
<1>6. FlattenSeq(q) \in Seq(G)
  <2> HIDE DEF G
  <2> QED BY <1>3, <1>4, <1>5, FlattenTyped
<1>7. Infos(names) \in Seq(G)
  BY <1>6 DEF Infos, q, k
<1>8. m \in G
  <2>1. PICK s : s = Infos(names)
    OBVIOUS
  <2> HIDE DEF G
  <2>2. s \in Seq(G) /\ m \in ToSet(s)
    BY <1>7, <2>1
  <2>3. \A i \in DOMAIN s : s[i] \in G
    BY <2>2
  <2> QED BY <2>2, <2>3 DEF ToSet
<1>9. m.path \in Paths /\ Point(m) \in Paths
  BY <1>8 DEF MountInfo, Paths, Point
<1> QED BY <1>9, RenderTyped DEF KnownInfo

\* All commands of a storage plugin, with any number of servers.
LEMMA StorageTidy ==
    ASSUME NEW asked \in Seq(STRING), ~StorageRaises(asked), NEW S, S = ToSet(Infos(Names(asked)))
    PROVE  /\ Tidy(StorageCommands(asked), S)
           /\ \A m \in S : KnownInfo(m) /\ Brings(StorageCommands(asked), m)
<1> DEFINE infos == Infos(Names(asked))
           D == {m.server : m \in S}
           order == ServerOrder(infos)
           rows == [i \in DOMAIN order |-> ServerCommands(order[i], OfServer(infos, order[i]))]
           t == StorageCommands(asked)
<1>1. infos \in Seq(MountInfo) /\ Row(infos)
  BY NamesTyped, InfosTyped, RowOf
<1>2. \A m \in S : KnownInfo(m) /\ m.server \in STRING
  <2>1. \A m \in S : m.server \in DOMAIN Type
    BY DEF StorageRaises
  <2> QED BY <2>1, NamesTyped, InfosKnown, StorageAssumption
<1>3. t = <<Plain>> \o FlattenSeq(rows)
  BY DEF StorageCommands
<1>4. ToSet(infos) = S
  OBVIOUS
<1> HIDE DEF infos
<1>5. order \in Seq(D) /\ \A m \in S : \E i \in 1..Len(order) : order[i] = m.server
  <2>1. \A m \in ToSet(infos) : m.server \in D
    BY <1>4
  <2> HIDE DEF D
  <2> QED BY <1>1, <1>4, <2>1, OrderTyped
<1> HIDE DEF order
<1>6. /\ Len(order) \in Nat /\ DOMAIN order = 1..Len(order)
      /\ \A i \in 1..Len(order) : order[i] \in D
  <2> HIDE DEF D
  <2> QED BY <1>5
<1>7. ASSUME NEW i \in 1..Len(order)
      PROVE  /\ Tidy(rows[i], S) /\ Row(rows[i])
             /\ \A m \in S : m.server = order[i] => Brings(rows[i], m)
  <2> DEFINE sub == OfServer(infos, order[i])
             T == {m \in S : m.server = order[i]}
  <2>1. order[i] \in STRING /\ T # {}
    BY <1>2, <1>6
  <2>2. Row(sub) /\ ToSet(sub) = T
    <3>1. sub = Filter(infos, T)
      BY <1>4 DEF OfServer
    <3> HIDE DEF sub, T
    <3>2. Row(sub) /\ ToSet(sub) = S \cap T
      BY <1>1, <1>4, <3>1, FilterIs
    <3>3. S \cap T = T
      BY DEF T
    <3> QED BY <3>2, <3>3
  <2>3. \A m \in T : KnownInfo(m) /\ m.server = order[i]
    BY <1>2
  <2>4. rows[i] = ServerCommands(order[i], sub)
    BY <1>6
  <2>5. T \subseteq S
    OBVIOUS
  <2> HIDE DEF sub, T, rows
  <2>6. Tidy(rows[i], T) /\ \A m \in T : Brings(rows[i], m)
    BY <2>1, <2>2, <2>3, <2>4, ServerTidy
  <2>7. Tidy(rows[i], S)
    BY <2>1, <2>5, <2>6, TidyGrows
  <2>8. Row(rows[i])
    BY <2>6 DEF Tidy
  <2> QED BY <2>6, <2>7, <2>8 DEF T
<1>8. rows = [i \in 1..Len(order) |-> rows[i]]
  BY <1>6
<1> HIDE DEF rows
<1> DEFINE f == FlattenSeq(rows)
<1>9. Tidy(f, S) /\ \A i \in 1..Len(order) : ToSet(rows[i]) \subseteq ToSet(f)
  BY <1>6, <1>7, <1>8, FlattenTidy, FlattenHasAll
<1> HIDE DEF f
<1>10. Row(<<Plain>>) /\ Tidy(<<Plain>>, S)
  <2>1. Row(<<Plain>>) /\ Len(<<Plain>>) = 1 /\ <<Plain>>[1] = Plain
    BY ShortRows
  <2>2. \A n \in 1..Len(<<Plain>>) : n = 1
    BY <2>1
  <2>3. IsCalm(Plain)
    BY OpsOfCommands DEF IsCalm, CalmOps
  <2>4. TidyAt(<<Plain>>, 1, S)
    BY <2>1, <2>3, CalmIsTidy
  <2> QED BY <2>1, <2>2, <2>4 DEF Tidy
<1>11. t = <<Plain>> \o f
  BY <1>3 DEF f
<1> HIDE DEF t
<1>12. Tidy(t, S) /\ ToSet(f) \subseteq ToSet(t)
  BY <1>9, <1>10, <1>11, TidyConcat, ElementsConcat DEF Tidy
<1>13. ASSUME NEW m \in S PROVE Brings(t, m)
  <2>1. PICK i \in 1..Len(order) : order[i] = m.server
    BY <1>5
  <2>2. Brings(f, m)
    BY <1>7, <1>9, <2>1, BringsMore
  <2> QED BY <1>12, <2>2, BringsMore
<1> QED BY <1>2, <1>12, <1>13 DEF t

\* Rows of one and two commands that mount and remove nothing, or are the user's
\* own where no storage is asked for.
LEMMA CalmRows ==
    /\ \A S : Tidy(<<>>, S)
    /\ \A S, x : IsCalm(x) => Tidy(<<x>>, S)
    /\ \A S, x, y : IsCalm(x) /\ IsCalm(y) => Tidy(<<x, y>>, S)
    /\ Tidy(<<User, User>>, {})
<1>1. ASSUME NEW S PROVE Tidy(<<>>, S)
  <2>1. Row(<<>>) /\ Len(<<>>) = 0
    BY ShortRows
  <2> QED BY <2>1 DEF Tidy
<1>2. ASSUME NEW S, NEW x, IsCalm(x) PROVE Tidy(<<x>>, S)
  <2>1. PICK t : t = <<x>>
    OBVIOUS
  <2>2. Row(t) /\ Len(t) = 1 /\ t[1] = x
    BY <2>1, ShortRows
  <2>3. \A n \in 1..Len(t) : t[n] = x
    BY <2>2
  <2>4. Tidy(t, S)
    BY <1>2, <2>2, <2>3, CalmIsTidy DEF Tidy
  <2> QED BY <2>1, <2>4
<1>3. ASSUME NEW S, NEW x, NEW y, IsCalm(x), IsCalm(y) PROVE Tidy(<<x, y>>, S)
  <2>1. PICK t : t = <<x, y>>
    OBVIOUS
  <2>2. Row(t) /\ Len(t) = 2 /\ t[1] = x /\ t[2] = y
    BY <2>1, ShortRows
  <2>3. \A n \in 1..Len(t) : t[n] = x \/ t[n] = y
    BY <2>2
  <2>4. \A n \in 1..Len(t) : IsCalm(t[n])
    BY <1>3, <2>3
  <2>5. Tidy(t, S)
    BY <2>2, <2>4, CalmIsTidy DEF Tidy
  <2> QED BY <2>1, <2>5
<1>4. Tidy(<<User, User>>, {})
  <2>1. PICK t : t = <<User, User>>
    OBVIOUS
  <2>2. Row(t) /\ Len(t) = 2 /\ t[1] = User /\ t[2] = User
    BY <2>1, ShortRows
  <2>3. \A n \in 1..Len(t) : t[n] = User
    BY <2>2
  <2>4. User.op = "user"
    BY OpsOfCommands
  <2>5. Tidy(t, {})
    BY <2>2, <2>3, <2>4 DEF Tidy, TidyAt
  <2> QED BY <2>1, <2>5
<1> QED BY <1>1, <1>2, <1>3, <1>4

\* git looks for files in the directory before it moves the code there.
LEMMA GitTidy ==
    ASSUME NEW c, c.dir \in Paths PROVE Tidy(GitCommands(c), {})
<1> DEFINE x == [op |-> "check empty", at |-> c.dir]
           y == Mkdir(c.dir)
           z == [op |-> "mv", at |-> c.dir]
<1>1. /\ x.op = "check empty" /\ x.at = c.dir /\ y.op = "mkdir" /\ y.at = c.dir
      /\ z.op = "mv" /\ z.at = c.dir
  BY DEF Mkdir
<1>2. GitCommands(c) = <<>> \/ GitCommands(c) = <<x, y, z>>
  BY DEF GitCommands
<1> HIDE DEF x, y, z
<1>3. PICK t : t = <<x, y, z>>
  OBVIOUS
<1>4. t \in Seq({x, y, z}) /\ Len(t) = 3 /\ t[1] = x /\ t[2] = y /\ t[3] = z
  BY <1>3
<1>5. Row(t)
  BY <1>4, RowOf
<1>6. TidyAt(t, 1, {}) /\ TidyAt(t, 2, {})
  BY <1>1, <1>4 DEF TidyAt
<1>7. TidyAt(t, 3, {})
  <2>0. 3 > 2 /\ 3 - 2 = 1 /\ 3 - 1 = 2
    OBVIOUS
  <2>1. /\ 3 > 2 /\ t[3 - 2].op = "check empty" /\ t[3 - 2].at = t[3].at /\ t[3 - 1].op = "mkdir"
    BY <1>1, <1>4, <2>0
  <2>2. t[3].op = "mv" /\ MoveIsTidy(t, 3)
    BY <1>1, <1>4, <2>1 DEF MoveIsTidy
  <2> QED BY <2>2 DEF TidyAt
<1>8. \A n \in 1..Len(t) : n = 1 \/ n = 2 \/ n = 3
  BY <1>4
<1>9. Tidy(t, {})
  BY <1>5, <1>6, <1>7, <1>8 DEF Tidy
<1> QED BY <1>2, <1>3, <1>9, CalmRows

\* ssh and tensorboard touch no directory of anyone.
LEMMA OthersTidy ==
    ASSUME NEW c
    PROVE  /\ Tidy(SshCommands(c), {}) /\ Tidy(TensorboardCommands(c), {})
           /\ \A k, e : Tidy(CmdCommands(c, k, e), {})
<1>1. Tidy(SshCommands(c), {})
  <2> DEFINE d == [op |-> "sshd", jobssh |-> JobSsh(c),
            called |-> ~ (UserSsh(c) /\ "empty type" \in c.asks)]
             b == [op |-> "barrier"]
  <2>1. IsCalm(Ssh) /\ IsCalm(d) /\ IsCalm(b)
    <3>1. Ssh.op = "install" /\ d.op = "sshd" /\ b.op = "barrier"
      BY DEF Ssh, Install
    <3> HIDE DEF d, b
    <3> QED BY <3>1 DEF IsCalm, CalmOps
  <2>2. SshCommands(c) \in {<<>> \o <<>>, <<Ssh, d>> \o <<>>, <<Ssh, d>> \o <<b>>}
    BY DEF SshCommands, Ssh
  <2> HIDE DEF d, b
  <2>3. Tidy(<<>>, {}) /\ Tidy(<<Ssh, d>>, {}) /\ Tidy(<<b>>, {})
    BY <2>1, CalmRows
  <2> QED BY <2>2, <2>3, TidyConcat
<1>2. IsCalm(Plain)
  BY OpsOfCommands DEF IsCalm, CalmOps
<1>3. Tidy(TensorboardCommands(c), {})
  BY <1>2, CalmRows DEF TensorboardCommands
<1>4. \A k, e : Tidy(CmdCommands(c, k, e), {})
  BY CalmRows DEF CmdCommands
<1> QED BY <1>1, <1>3, <1>4

\* inject_commands keeps a script tidy and leaves nothing out.
LEMMA InjectedIsTidy ==
    ASSUME NEW c, NEW s, NEW S, Tidy(s, S)
    PROVE  Tidy(InjectCommands(c, s), S) /\ ToSet(s) \subseteq ToSet(InjectCommands(c, s))
<1>1. \A b \in BOOLEAN : Tidy(<<Set(b)>>, S)
  <2>1. \A b \in BOOLEAN : Set(b).op = "set"
    BY DEF Set
  <2>2. \A b \in BOOLEAN : IsCalm(Set(b))
    BY <2>1 DEF IsCalm, CalmOps
  <2> QED BY <2>2, CalmRows, Zenon
<1>2. PICK off : off = <<Set(FALSE)>>
  OBVIOUS
<1>3. PICK on : on = <<Set(TRUE)>>
  OBVIOUS
<1>4. Tidy(off, S) /\ Tidy(on, S) /\ Row(off) /\ Row(on) /\ Row(s)
  <2>1. Tidy(off, S) /\ Tidy(on, S)
    BY <1>1, <1>2, <1>3, Zenon
  <2> QED BY <2>1 DEF Tidy
<1>5. InjectCommands(c, s) \in {s, off \o s \o on, on \o s}
  BY <1>2, <1>3, Zenon DEF InjectCommands
<1>6. Tidy(off \o s, S) /\ Tidy(on \o s, S) /\ Row(off \o s)
  BY <1>4, TidyConcat, ElementsConcat
<1>7. Tidy(off \o s \o on, S)
  BY <1>4, <1>6, TidyConcat
<1>8. /\ ToSet(s) \subseteq ToSet(off \o s) /\ ToSet(s) \subseteq ToSet(on \o s)
      /\ ToSet(off \o s) \subseteq ToSet(off \o s \o on)
  BY <1>4, <1>6, ElementsConcat
<1> QED BY <1>5, <1>6, <1>7, <1>8

AsksFor(c) == IF c.kind = "storage" THEN ToSet(Infos(Names(c.names))) ELSE {}

\* Both scripts of a plugin that does not raise.
LEMMA WrittenIsTidy ==
    ASSUME NEW c, c.kind \in Kinds, c.names \in Seq(STRING), c.dir \in Paths,
           c.kind = "storage" => ~StorageRaises(c.names)
    PROVE  /\ Tidy(InjectCommands(c, PreCommands(c)), AsksFor(c))
           /\ Tidy(InjectCommands(c, PostCommands(c)), {})
           /\ \A m \in AsksFor(c) : KnownInfo(m) /\ Brings(InjectCommands(c, PreCommands(c)), m)
<1>1. Tidy(PostCommands(c), {})
  <2>1. PostCommands(c) \in {CmdCommands(c, "postCommands", "taskSucceeds"), <<>>}
    BY DEF PostCommands
  <2> QED BY <2>1, OthersTidy, CalmRows
<1>2. CASE c.kind = "storage"
  <2>1. PreCommands(c) = StorageCommands(c.names) /\ AsksFor(c) = ToSet(Infos(Names(c.names)))
    BY <1>2 DEF PreCommands, AsksFor
  <2>2. /\ Tidy(PreCommands(c), AsksFor(c))
        /\ \A m \in AsksFor(c) : KnownInfo(m) /\ Brings(PreCommands(c), m)
    BY <1>2, <2>1, StorageTidy
  <2>3. /\ Tidy(InjectCommands(c, PreCommands(c)), AsksFor(c))
        /\ ToSet(PreCommands(c)) \subseteq ToSet(InjectCommands(c, PreCommands(c)))
    BY <2>2, InjectedIsTidy
  <2> QED BY <1>1, <2>2, <2>3, InjectedIsTidy, BringsMore
<1>3. CASE c.kind # "storage"
  <2>1. PreCommands(c) \in {SshCommands(c), GitCommands(c), TensorboardCommands(c),
                            CmdCommands(c, "preCommands", "taskStarts"), <<>>}
    BY <1>3 DEF PreCommands, Kinds
  <2>2. AsksFor(c) = {}
    BY <1>3 DEF AsksFor
  <2>3. Tidy(PreCommands(c), {})
    BY <2>1, OthersTidy, GitTidy, CalmRows
  <2> QED BY <1>1, <2>2, <2>3, InjectedIsTidy
<1> QED BY <1>2, <1>3

-----------------------------------------------------------------------------
(* Where mounts are, and the files                                          *)

\* WellPlaced, of a set of mount infos that are known.
Placed(S) ==
    \A m \in S :
        /\ \A o \in S : o = m \/ Apart(Point(m), Point(o))
        /\ \A s \in DOMAIN Type : Apart(Point(m), Tmp(s))
        /\ \A l \in Given : ~Under(l, Local(Removed(m)))
Sound(S) == Placed(S) /\ \A m \in S : KnownInfo(m)
Spots(S) == {Tmp(m.server) : m \in S} \cup {Point(m) : m \in S}

\* The mounts and links of a container w, when the directories of S have been
\* asked for, and its files.
EntryOf(e, m) ==
    \/ e.at = Local(Tmp(m.server)) /\ e.to = <<m.server, <<>>>> /\ ~e.link
    \/ e.at = Local(Point(m)) /\ e.to = Target(m) /\ (e.link <=> IsBlob(m.server))
HasAt(w, l) == \E i \in 1..Len(w.table) : w.table[i].at = l
Standing(w, S) ==
    /\ Row(w.table)
    /\ \A i \in 1..Len(w.table) : \E m \in S : EntryOf(w.table[i], m)
    /\ \A i \in 1..Len(w.table) : w.table[i].link => w.table[i].at \notin w.dirs
    /\ w.data = Given /\ Given \subseteq w.dirs

\* The root of a share is mounted last, and only until its umount.
Rooted(w, i, m) == ~IsBlob(m.server) /\ w.table[i].at = Local(Tmp(m.server))
RootsAreShort(w, S, t, n) ==
    \A i \in 1..Len(w.table) : \A m \in S :
        Rooted(w, i, m) => i = Len(w.table) /\ Due(t, n, Tmp(m.server))
Rootless(w, S) == \A i \in 1..Len(w.table) : \A m \in S : ~Rooted(w, i, m)

\* The names of spots are different.
LEMMA SpotsDiffer ==
    ASSUME NEW S, Sound(S)
    PROVE  /\ \A a, b : Tmp(a) = Tmp(b) => a = b
           /\ \A p, q : Local(p) = Local(q) => p = q
           /\ \A m \in S, o \in S : Point(m) = Point(o) => m = o
           /\ \A m \in S, o \in S : Point(m) # Tmp(o.server)
           /\ \A m \in S : m.server \in STRING /\ m.server # "local"
                           /\ Tmp(m.server) \in Spots(S) /\ Point(m) \in Spots(S)
<1>1. (\A a, b : Tmp(a) = Tmp(b) => a = b) /\ (\A p, q : Local(p) = Local(q) => p = q)
  BY DEF Tmp, Local
<1>2. \A p \in Paths : ~Apart(p, p)
  BY PrefixIs DEF Apart, Paths
<1>3. \A m \in S : KnownInfo(m) /\ m.server \in STRING /\ m.server # "local"
  BY StorageAssumption DEF Sound, KnownInfo
<1>4. \A m \in S : Tmp(m.server) \in Paths /\ Point(m) \in Paths
  BY <1>3, TmpTyped DEF KnownInfo
<1>5. \A m \in S, o \in S : Point(m) = Point(o) => m = o
  BY <1>2, <1>4 DEF Sound, Placed
<1>6. \A m \in S, o \in S : Point(m) # Tmp(o.server)
  BY <1>2, <1>3, <1>4 DEF Sound, Placed, KnownInfo
<1> QED BY <1>1, <1>3, <1>5, <1>6 DEF Spots

\* Where servers are mounted is apart from each other.
LEMMA SpotsSited ==
    ASSUME NEW S, Sound(S) PROVE Sited(Spots(S))
<1>1. \A m \in S : m.server \in DOMAIN Type /\ Point(m) \in Paths /\ Tmp(m.server) \in Paths
  BY SpotsDiffer, TmpTyped DEF Sound, KnownInfo
<1>2. \A s : Len(Tmp(s)) = 1 /\ Tmp(s)[1] = s
  BY DEF Tmp
<1>3. \A m \in S, o \in S : Tmp(m.server) = Tmp(o.server) \/ Apart(Tmp(m.server), Tmp(o.server))
  <2> SUFFICES ASSUME NEW m \in S, NEW o \in S, m.server # o.server
               PROVE  Apart(Tmp(m.server), Tmp(o.server))
    OBVIOUS
  <2> DEFINE p == Tmp(m.server)
             q == Tmp(o.server)
  <2>1. p \in Paths /\ q \in Paths /\ 1 \in 1..Len(p) /\ 1 \in 1..Len(q) /\ p[1] # q[1]
    BY <1>1, <1>2
  <2> HIDE DEF p, q
  <2>2. Apart(p, q)
    BY <2>1, PrefixIs DEF Apart
  <2> QED BY <2>2 DEF p, q
<1>4. \A m \in S, o \in S : Apart(Point(m), Tmp(o.server)) /\ Apart(Tmp(o.server), Point(m))
  BY <1>1 DEF Sound, Placed, Apart
<1>5. \A m \in S : Len(Point(m)) > 0
  <2> SUFFICES ASSUME NEW m \in S PROVE Len(Point(m)) > 0
    OBVIOUS
  <2> DEFINE p == Point(m)
             q == Tmp(m.server)
  <2>1. p \in Paths /\ q \in Paths /\ ~IsPrefix(p, q)
    BY <1>1, <1>4 DEF Apart
  <2>2. Len(p) \in Nat /\ Len(q) \in Nat
    BY <2>1 DEF Paths
  <2> HIDE DEF p, q
  <2>3. Len(p) # 0
    BY <2>1, <2>2, PrefixIs
  <2> QED BY <2>2, <2>3 DEF p
<1>6. \A m \in S, o \in S : Point(m) = Point(o) \/ Apart(Point(m), Point(o))
  BY DEF Sound, Placed
<1>7. Spots(S) \subseteq Paths /\ \A p \in Spots(S) : Len(p) > 0
  BY <1>1, <1>2, <1>5 DEF Spots
<1>8. \A p \in Spots(S), q \in Spots(S) : p = q \/ Apart(p, q)
  BY <1>3, <1>4, <1>6 DEF Spots
<1> QED BY <1>7, <1>8 DEF Sited

\* What the entries of the table say.
LEMMA EntriesSay ==
    ASSUME NEW S, Sound(S), NEW w, Standing(w, S)
    PROVE  /\ Stands(w.table, Spots(S)) /\ Len(w.table) \in Nat
           /\ \A i \in 1..Len(w.table) : w.table[i].at # Root /\ w.table[i].at[1] = "local"
           /\ \A i \in 1..Len(w.table), j \in 1..Len(w.table) : w.table[i].at # w.table[j].to
           /\ \A i \in 1..Len(w.table) : \A p : w.table[i].to # Local(p)
           /\ \A i \in 1..Len(w.table) : \A m \in S : w.table[i].at = Local(Point(m)) =>
                 w.table[i].to = Target(m) /\ (w.table[i].link <=> IsBlob(m.server))
           /\ \A i \in 1..Len(w.table) : \A m \in S : w.table[i].at = Local(Tmp(m.server)) =>
                 w.table[i].to = <<m.server, <<>>>> /\ ~w.table[i].link
<1>1. /\ \A a, b : Tmp(a) = Tmp(b) => a = b
      /\ \A p, q : Local(p) = Local(q) => p = q
      /\ \A m \in S, o \in S : Point(m) = Point(o) => m = o
      /\ \A m \in S, o \in S : Point(m) # Tmp(o.server)
      /\ \A m \in S : m.server # "local" /\ Tmp(m.server) \in Spots(S) /\ Point(m) \in Spots(S)
  BY SpotsDiffer
<1>2. Row(w.table) /\ Len(w.table) \in Nat
  BY RowElements DEF Standing
<1>3. \A p : Local(p)[1] = "local"
  BY DEF Local
<1>4. \A p \in Spots(S) : Local(p) # Root
  <2>1. \A p \in Spots(S) : Len(p) > 0
    BY SpotsSited DEF Sited
  <2>2. Root = Local(<<>>) /\ Len(<<>>) = 0
    BY DEF Root, Local
  <2> QED BY <1>1, <2>1, <2>2
<1>5. \A m : Target(m)[1] = m.server /\ <<m.server, <<>>>>[1] = m.server
  BY DEF Target
<1>6. ASSUME NEW i \in 1..Len(w.table)
      PROVE  /\ \E q \in Spots(S) : w.table[i].at = Local(q)
             /\ \E m \in S : w.table[i].to[1] = m.server
             /\ \A m \in S : w.table[i].at = Local(Point(m)) =>
                   w.table[i].to = Target(m) /\ (w.table[i].link <=> IsBlob(m.server))
             /\ \A m \in S : w.table[i].at = Local(Tmp(m.server)) =>
                   w.table[i].to = <<m.server, <<>>>> /\ ~w.table[i].link
  <2>1. PICK o \in S : EntryOf(w.table[i], o)
    BY DEF Standing
  <2>2. CASE /\ w.table[i].at = Local(Tmp(o.server))
             /\ w.table[i].to = <<o.server, <<>>>> /\ ~w.table[i].link
    BY <1>1, <1>5, <2>2
  <2>3. CASE /\ w.table[i].at = Local(Point(o))
             /\ w.table[i].to = Target(o) /\ (w.table[i].link <=> IsBlob(o.server))
    BY <1>1, <1>5, <2>3
  <2> QED BY <2>1, <2>2, <2>3 DEF EntryOf
<1>7. Stands(w.table, Spots(S))
  BY <1>2, <1>6 DEF Stands
<1>8. \A i \in 1..Len(w.table) : w.table[i].to[1] # "local"
  BY <1>1, <1>6
<1>9. \A i \in 1..Len(w.table) : w.table[i].at[1] = "local" /\ w.table[i].at # Root
  BY <1>3, <1>4, <1>6
<1>10. \A i \in 1..Len(w.table), j \in 1..Len(w.table) : w.table[i].at # w.table[j].to
  BY <1>8, <1>9
<1>11. \A i \in 1..Len(w.table) : \A p : w.table[i].to # Local(p)
  BY <1>3, <1>8
<1> QED BY <1>2, <1>6, <1>7, <1>9, <1>10, <1>11

\* Only where mkdir and umount are next is the root of a share mounted.
LEMMA NoRootNow ==
    ASSUME NEW w, NEW S, NEW t, NEW n \in Nat, Len(t) \in Nat, RootsAreShort(w, S, t, n),
           n <= Len(t) => t[n].op \notin {"mkdir", "umount"}
    PROVE  Rootless(w, S)
<1>1. \A p : ~Due(t, n, p)
  <2> SUFFICES ASSUME NEW p, Due(t, n, p) PROVE FALSE
    OBVIOUS
  <2>1. PICK m \in n..Len(t) : t[m].op = "umount" /\ \A k \in n..(m - 1) : t[k].op = "mkdir"
    BY DEF Due
  <2>2. CASE m = n
    BY <2>1, <2>2
  <2>3. CASE m # n
    <3>1. n \in n..(m - 1) /\ n <= Len(t)
      BY <2>3
    <3> QED BY <2>1, <3>1
  <2> QED BY <2>2, <2>3
<1> QED BY <1>1 DEF RootsAreShort, Rootless

-----------------------------------------------------------------------------
(* What a command does to mounts and files                                  *)

\* What the commands before have done for the n-th line of a script t, and the next.
MoveIsSafe(w, t, n) ==
    \A k \in {n, n + 1} : k <= Len(t) /\ t[k].op = "mv" => Resolve(w.table, t[k].at) \notin Given
LinkIsSafe(w, t, n) ==
    n <= Len(t) /\ t[n].op = "link" => Local(t[n].at) \notin w.dirs /\ ~HasAt(w, Local(t[n].at))
BlobsAreThere(w, S, t, n) ==
    \A k \in 1..(n - 1) : \A m \in S :
        k <= Len(t) /\ RootMount(t[k], m) /\ IsBlob(m.server) => HasAt(w, Local(Tmp(m.server)))
LineIsSafe(w, S, t, n) ==
    RootsAreShort(w, S, t, n) /\ MoveIsSafe(w, t, n) /\ LinkIsSafe(w, t, n) /\ BlobsAreThere(w, S, t, n)

\* What a command changes, from w to v, of where something is.
Changes(w, v, c) ==
    /\ \A l : HasAt(w, l) /\ (c.op \in {"umount", "rm"} => l # Local(c.at)) => HasAt(v, l)
    /\ c.op \in {"mount", "link"} => HasAt(v, Local(c.at))
    /\ c.op = "rm" => Local(c.at) \notin v.dirs /\ ~HasAt(v, Local(c.at))
    /\ c.op \in {"mkdir", "check empty"} => v.table = w.table
    /\ c.op = "check empty" => Resolve(w.table, c.at) \notin Given
After(w, v, S, t, n) ==
    Standing(v, S) /\ RootsAreShort(v, S, t, n + 1) /\ Changes(w, v, t[n])

\* A command that changes none of it.
LEMMA SameAfter ==
    ASSUME NEW w, NEW S, NEW t, NEW n \in Nat, Len(t) \in Nat, Standing(w, S), RootsAreShort(w, S, t, n),
           n <= Len(t), t[n].op \notin {"mkdir", "umount", "mount", "link", "rm"},
           NEW v, v.table = w.table, v.dirs = w.dirs, v.data = w.data,
           t[n].op = "check empty" => Resolve(w.table, t[n].at) \notin Given
    PROVE  After(w, v, S, t, n)
<1>1. Standing(v, S)
  BY DEF Standing
<1>2. Rootless(w, S)
  BY NoRootNow
<1>3. RootsAreShort(v, S, t, n + 1)
  BY <1>2 DEF Rootless, RootsAreShort, Rooted
<1>4. Changes(w, v, t[n])
  BY DEF Changes, HasAt
<1> QED BY <1>1, <1>3, <1>4 DEF After

\* mkdir
LEMMA MkdirAfter ==
    ASSUME NEW S, Sound(S), NEW w, DOMAIN w = Fields, Standing(w, S), NEW t, NEW n \in Nat, Len(t) \in Nat,
           n <= Len(t), RootsAreShort(w, S, t, n), t[n].op = "mkdir", t[n].at \in Paths,
           NEW v \in MkdirIn(w, t[n].at)
    PROVE  After(w, v, S, t, n)
<1>1. /\ v.table = w.table /\ v.data = w.data /\ w.dirs \subseteq v.dirs
      /\ \A i \in 1..Len(w.table) : w.table[i].at \in v.dirs => w.table[i].at \in w.dirs
  <2>1. /\ Row(w.table) /\ \A i \in 1..Len(w.table) : w.table[i].at # Root
        /\ \A i \in 1..Len(w.table), j \in 1..Len(w.table) : w.table[i].at # w.table[j].to
    BY EntriesSay DEF Stands
  <2> QED BY <2>1, MkdirBeside
<1>2. Standing(v, S)
  BY <1>1 DEF Standing
<1>3. ASSUME NEW p, Due(t, n, p) PROVE Due(t, n + 1, p)
  <2>1. PICK m \in n..Len(t) : t[m].op = "umount" /\ t[m].at = p /\ \A k \in n..(m - 1) : t[k].op = "mkdir"
    BY <1>3 DEF Due
  <2>2. m # n
    BY <2>1
  <2>3. m \in (n + 1)..Len(t) /\ \A k \in (n + 1)..(m - 1) : k \in n..(m - 1)
    BY <2>2
  <2> QED BY <2>1, <2>3 DEF Due
<1>4. RootsAreShort(v, S, t, n + 1)
  BY <1>1, <1>3 DEF RootsAreShort, Rooted
<1>5. Changes(w, v, t[n])
  BY <1>1 DEF Changes, HasAt
<1> QED BY <1>2, <1>4, <1>5 DEF After

\* A table with one more entry.
LEMMA MoreAfter ==
    ASSUME NEW S, Sound(S), NEW w, Standing(w, S), NEW v, NEW e,
           v.table = Append(w.table, e), v.data = w.data, v.dirs = w.dirs,
           \E m \in S : EntryOf(e, m), e.link => e.at \notin w.dirs
    PROVE  /\ Standing(v, S) /\ (\A l : HasAt(w, l) => HasAt(v, l)) /\ HasAt(v, e.at)
           /\ Len(v.table) \in Nat /\ v.table[Len(v.table)] = e
           /\ \A i \in 1..Len(v.table) : i = Len(v.table) \/ (i \in 1..Len(w.table) /\ v.table[i] = w.table[i])
<1>1. Row(w.table) /\ Len(w.table) \in Nat
  BY EntriesSay DEF Standing
<1>2. /\ Row(v.table) /\ Len(v.table) = Len(w.table) + 1 /\ v.table[Len(v.table)] = e
      /\ \A i \in 1..Len(w.table) : v.table[i] = w.table[i]
      /\ \A i \in 1..Len(v.table) : i = Len(v.table) \/ i \in 1..Len(w.table)
  BY <1>1, RowChanges
<1>3. Len(v.table) \in 1..Len(v.table) /\ \A i \in 1..Len(w.table) : i \in 1..Len(v.table)
  BY <1>1, <1>2
<1>4. Standing(v, S)
  <2>1. ASSUME NEW i \in 1..Len(v.table) PROVE \E m \in S : EntryOf(v.table[i], m)
    BY <1>2 DEF Standing
  <2>2. ASSUME NEW i \in 1..Len(v.table), v.table[i].link PROVE v.table[i].at \notin v.dirs
    BY <1>2, <2>2 DEF Standing
  <2> QED BY <1>2, <2>1, <2>2 DEF Standing
<1>5. (\A l : HasAt(w, l) => HasAt(v, l)) /\ HasAt(v, e.at)
  BY <1>2, <1>3 DEF HasAt
<1> QED BY <1>1, <1>2, <1>4, <1>5

\* mount, of a root or at a mount point
LEMMA MountAfter ==
    ASSUME NEW S, Sound(S), NEW w, DOMAIN w = Fields, Standing(w, S), NEW t, NEW n \in Nat, Len(t) \in Nat,
           n <= Len(t), RootsAreShort(w, S, t, n), t[n].op = "mount", MountIsTidy(t, n, S),
           NEW v \in MountIn(w, t[n].server, t[n].path, t[n].at)
    PROVE  After(w, v, S, t, n)
<1> DEFINE c == t[n]
           e == [at |-> Local(c.at), to |-> <<c.server, c.path>>, link |-> FALSE]
<1>1. PICK m \in S : \/ PointMount(c, m)
                     \/ RootMount(c, m) /\ (IsBlob(m.server) \/ Due(t, n + 1, Tmp(m.server)))
  BY DEF MountIsTidy
<1>2. c.at \in Spots(S)
  BY <1>1, SpotsDiffer DEF PointMount, RootMount
<1>3. v.table = Append(w.table, e) /\ v.data = w.data /\ v.dirs = w.dirs
  BY <1>2, SpotsSited, EntriesSay, MountAtPoint
<1>4. e.at = Local(c.at) /\ e.to = <<c.server, c.path>> /\ ~e.link
  OBVIOUS
<1> HIDE DEF e
<1>5. EntryOf(e, m)
  <2>1. CASE PointMount(c, m)
    BY <1>4, <2>1 DEF PointMount, EntryOf, Target
  <2>2. CASE RootMount(c, m)
    BY <1>4, <2>2 DEF RootMount, EntryOf
  <2> QED BY <1>1, <2>1, <2>2
<1>6. /\ Standing(v, S) /\ (\A l : HasAt(w, l) => HasAt(v, l)) /\ HasAt(v, e.at)
      /\ Len(v.table) \in Nat /\ v.table[Len(v.table)] = e
      /\ \A i \in 1..Len(v.table) : i = Len(v.table) \/ (i \in 1..Len(w.table) /\ v.table[i] = w.table[i])
  <2>1. (\E o \in S : EntryOf(e, o)) /\ (e.link => e.at \notin w.dirs)
    BY <1>4, <1>5
  <2> QED BY <1>3, <2>1, MoreAfter, Zenon
<1>7. Changes(w, v, c)
  BY <1>4, <1>6 DEF Changes
<1>8. Rootless(w, S)
  BY NoRootNow
<1>9. RootsAreShort(v, S, t, n + 1)
  <2> SUFFICES ASSUME NEW i \in 1..Len(v.table), NEW o \in S, Rooted(v, i, o)
               PROVE  i = Len(v.table) /\ Due(t, n + 1, Tmp(o.server))
    BY DEF RootsAreShort
  <2>1. i = Len(v.table)
    BY <1>6, <1>8 DEF Rootless, Rooted
  <2>2. c.at = Tmp(o.server) /\ ~IsBlob(o.server)
    BY <1>4, <1>6, <2>1, SpotsDiffer DEF Rooted
  <2>3. ~PointMount(c, m)
    BY <2>2, SpotsDiffer DEF PointMount
  <2>4. o.server = m.server
    BY <1>1, <2>2, <2>3, SpotsDiffer DEF RootMount
  <2> QED BY <1>1, <2>1, <2>2, <2>3, <2>4
<1> QED BY <1>6, <1>7, <1>9 DEF After

\* ln -s, to a directory of a blob container
LEMMA LinkAfter ==
    ASSUME NEW S, Sound(S), NEW w, DOMAIN w = Fields, Standing(w, S), NEW t, NEW n \in Nat, Len(t) \in Nat,
           n <= Len(t), LineIsSafe(w, S, t, n), t[n].op = "link", LinkIsTidy(t, n, S),
           NEW v \in LinkIn(w, t[n].to, t[n].at)
    PROVE  After(w, v, S, t, n)
<1> DEFINE c == t[n]
           e == [at |-> Local(c.at), to |-> Resolve(w.table, c.to), link |-> TRUE]
<1>1. PICK m \in S : PointLink(c, m) /\ \E k \in 1..(n - 1) : RootMount(t[k], m)
  BY DEF LinkIsTidy
<1>2. /\ c.at = Point(m) /\ c.at \in Spots(S) /\ IsBlob(m.server)
      /\ c.to = Tmp(m.server) \o Render(m.path)
  BY <1>1, SpotsDiffer DEF PointLink
<1>3. Local(c.at) \notin w.dirs /\ \A i \in 1..Len(w.table) : w.table[i].at # Local(c.at)
  BY DEF LineIsSafe, LinkIsSafe, HasAt
<1>4. v.table = Append(w.table, e) /\ v.data = w.data /\ v.dirs = w.dirs
  <2>1. Sited(Spots(S)) /\ Stands(w.table, Spots(S))
    BY SpotsSited, EntriesSay
  <2>2. PICK q, to : q = c.at /\ to = c.to
    OBVIOUS
  <2>3. v \in LinkIn(w, to, q) /\ q \in Spots(S)
    BY <1>2, <2>2
  <2>4. Local(q) \notin w.dirs /\ \A i \in 1..Len(w.table) : w.table[i].at # Local(q)
    BY <1>3, <2>2
  <2>5. /\ v.table = Append(w.table, [at |-> Local(q), to |-> Resolve(w.table, to), link |-> TRUE])
        /\ v.data = w.data /\ v.dirs = w.dirs
    BY <2>1, <2>3, <2>4, LinkAtPoint
  <2> QED BY <2>2, <2>5
<1>5. e.at = Local(c.at) /\ e.to = Resolve(w.table, c.to) /\ e.link
  OBVIOUS
<1> HIDE DEF e
<1>6. Resolve(w.table, c.to) = Target(m)
  <2>1. \E i \in 1..Len(w.table) : w.table[i].at = Local(Tmp(m.server))
    <3>1. PICK k \in 1..(n - 1) : RootMount(t[k], m)
      BY <1>1
    <3>2. k <= Len(t)
      OBVIOUS
    <3> QED BY <1>2, <3>1, <3>2 DEF LineIsSafe, BlobsAreThere, HasAt
  <2>2. /\ Row(w.table) /\ m.server \in STRING /\ Render(m.path) \in Paths
        /\ \A i \in 1..Len(w.table) : w.table[i].at = Local(Tmp(m.server)) =>
              w.table[i].to = <<m.server, <<>>>>
        /\ \A i \in 1..Len(w.table) : w.table[i].at[1] # m.server
    BY EntriesSay, SpotsDiffer DEF Stands, Sound, KnownInfo
  <2>3. Resolve(w.table, Tmp(m.server) \o Render(m.path)) = <<m.server, Render(m.path)>>
    BY <2>1, <2>2, OnServer
  <2> QED BY <1>2, <2>3 DEF Target
<1>7. EntryOf(e, m)
  BY <1>2, <1>5, <1>6 DEF EntryOf
<1>8. /\ Standing(v, S) /\ (\A l : HasAt(w, l) => HasAt(v, l)) /\ HasAt(v, e.at)
      /\ Len(v.table) \in Nat /\ v.table[Len(v.table)] = e
      /\ \A i \in 1..Len(v.table) : i = Len(v.table) \/ (i \in 1..Len(w.table) /\ v.table[i] = w.table[i])
  <2>1. (\E o \in S : EntryOf(e, o)) /\ (e.link => e.at \notin w.dirs)
    BY <1>3, <1>5, <1>7
  <2> QED BY <1>4, <2>1, MoreAfter, Zenon
<1>9. Changes(w, v, c)
  BY <1>5, <1>8 DEF Changes
<1>10. Rootless(w, S)
  BY NoRootNow DEF LineIsSafe
<1>11. RootsAreShort(v, S, t, n + 1)
  <2> SUFFICES ASSUME NEW i \in 1..Len(v.table), NEW o \in S, Rooted(v, i, o) PROVE FALSE
    BY DEF RootsAreShort
  <2>1. v.table[i].at = Local(Point(m))
    BY <1>2, <1>5, <1>8, <1>10 DEF Rootless, Rooted
  <2> QED BY <2>1, SpotsDiffer DEF Rooted
<1> QED BY <1>8, <1>9, <1>11 DEF After

\* umount, of the root of a share
LEMMA UmountAfter ==
    ASSUME NEW S, Sound(S), NEW w, DOMAIN w = Fields, Standing(w, S), NEW t, NEW n \in Nat, Len(t) \in Nat,
           n <= Len(t), RootsAreShort(w, S, t, n), t[n].op = "umount",
           NEW m \in S, ~IsBlob(m.server), t[n].at = Tmp(m.server),
           NEW v \in UmountIn(w, t[n].at)
    PROVE  After(w, v, S, t, n)
<1> DEFINE q == Tmp(m.server)
<1>1. q \in Spots(S) /\ Sited(Spots(S)) /\ Stands(w.table, Spots(S)) /\ Row(w.table) /\ Len(w.table) \in Nat
  BY SpotsDiffer, SpotsSited, EntriesSay DEF Stands
<1>2. \A i \in 1..Len(w.table) : w.table[i].at = Local(q) => i = Len(w.table)
  BY DEF RootsAreShort, Rooted
<1>3. /\ Len(w.table) > 0 /\ w.table[Len(w.table)].at = Local(q)
      /\ v.table = SubSeq(w.table, 1, Len(w.table) - 1)
      /\ v.data = w.data /\ v.dirs = w.dirs
  BY <1>1, <1>2, UmountAtPoint
<1>4. /\ Row(v.table) /\ Len(v.table) = Len(w.table) - 1
      /\ \A i \in 1..Len(v.table) : i \in 1..Len(w.table) /\ i # Len(w.table) /\ v.table[i] = w.table[i]
      /\ \A i \in 1..Len(w.table) : i = Len(w.table) \/ i \in 1..Len(v.table)
  <2>1. PICK s : s = w.table
    OBVIOUS
  <2>2. LET u == SubSeq(s, 1, Len(s) - 1) IN
        /\ Row(u) /\ Len(u) = Len(s) - 1
        /\ \A i \in 1..Len(u) : i \in 1..Len(s) /\ i # Len(s) /\ u[i] = s[i]
        /\ \A i \in 1..Len(s) : i = Len(s) \/ i \in 1..Len(u)
    <3>1. Row(s) /\ Len(s) > 0
      BY <1>1, <1>3, <2>1
    <3> QED BY <3>1, RowChanges
  <2>3. v.table = SubSeq(s, 1, Len(s) - 1)
    BY <1>3, <2>1
  <2> QED BY <2>1, <2>2, <2>3, Zenon
<1>5. Standing(v, S)
  <2>1. ASSUME NEW i \in 1..Len(v.table) PROVE \E o \in S : EntryOf(v.table[i], o)
    BY <1>4 DEF Standing
  <2>2. ASSUME NEW i \in 1..Len(v.table), v.table[i].link PROVE v.table[i].at \notin v.dirs
    BY <1>3, <1>4, <2>2 DEF Standing
  <2> QED BY <1>3, <1>4, <2>1, <2>2 DEF Standing
<1>6. RootsAreShort(v, S, t, n + 1)
  BY <1>4 DEF RootsAreShort, Rooted
<1>7. Changes(w, v, t[n])
  BY <1>3, <1>4 DEF Changes, HasAt
<1> QED BY <1>5, <1>6, <1>7 DEF After

\* rm -r, of where a share was mounted or where a blob will be: nothing is
\* mounted there, and no file of the user is there.
LEMMA RmAfter ==
    ASSUME NEW S, Sound(S), NEW w, DOMAIN w = Fields, Standing(w, S), NEW t, NEW n \in Nat, Len(t) \in Nat,
           n <= Len(t), RootsAreShort(w, S, t, n), t[n].op = "rm",
           NEW m \in S, t[n].at = Removed(m)
    PROVE  After(w, RmIn(w, t[n].at), S, t, n)
<1> DEFINE q == Removed(m)
           v == RmIn(w, q)
<1>1. Rootless(w, S)
  BY NoRootNow
<1>2. q \in Spots(S) /\ Sited(Spots(S)) /\ Stands(w.table, Spots(S))
  BY SpotsDiffer, SpotsSited, EntriesSay DEF Removed, Point
<1>3. \A i \in 1..Len(w.table) : w.table[i].at = Local(q) => w.table[i].link
  <2>1. CASE IsBlob(m.server)
    <3>1. q = Point(m)
      BY <2>1 DEF Removed, Point
    <3> QED BY <2>1, <3>1, EntriesSay
  <2>2. CASE ~IsBlob(m.server)
    <3>1. q = Tmp(m.server)
      BY <2>2 DEF Removed
    <3> QED BY <1>1, <2>2, <3>1 DEF Rootless, Rooted
  <2> QED BY <2>1, <2>2
<1>4. /\ \A i \in 1..Len(w.table) : w.table[i].link => w.table[i].at \notin w.dirs
      /\ \A i \in 1..Len(w.table) : w.table[i].to # Local(q)
      /\ w.data \subseteq w.dirs /\ \A l \in w.data : ~Under(l, Local(q))
  <2> HIDE DEF q
  <2>1. \A i \in 1..Len(w.table) : w.table[i].to # Local(q)
    BY EntriesSay
  <2>2. \A l \in Given : ~Under(l, Local(q))
    BY DEF Sound, Placed, q
  <2> QED BY <2>1, <2>2 DEF Standing
<1>5. /\ v.data = w.data /\ w.data \subseteq v.dirs /\ v.dirs \subseteq w.dirs
      /\ Local(q) \notin v.dirs /\ Row(v.table)
      /\ ToSet(v.table) = {e \in ToSet(w.table) : e.at # Local(q)}
  <2> HIDE DEF q
  <2> QED BY <1>2, <1>3, <1>4, RmAtPoint
<1> HIDE DEF v
<1>6. /\ \A i \in 1..Len(v.table) : v.table[i].at # Local(q)
                                    /\ \E j \in 1..Len(w.table) : v.table[i] = w.table[j]
      /\ \A j \in 1..Len(w.table) : w.table[j].at # Local(q) => \E i \in 1..Len(v.table) : v.table[i] = w.table[j]
  <2>1. \A i \in 1..Len(v.table) : v.table[i] \in ToSet(v.table)
    BY <1>5, RowElements
  <2>2. \A e \in ToSet(v.table) : \E i \in 1..Len(v.table) : v.table[i] = e
    BY <1>5, RowElements
  <2>3. \A i \in 1..Len(w.table) : w.table[i] \in ToSet(w.table)
    BY RowElements DEF Standing
  <2>4. \A e \in ToSet(w.table) : \E i \in 1..Len(w.table) : w.table[i] = e
    BY RowElements DEF Standing
  <2> HIDE DEF q
  <2>5. \A i \in 1..Len(v.table) : v.table[i] \in ToSet(w.table) /\ v.table[i].at # Local(q)
    BY <1>5, <2>1
  <2>6. \A j \in 1..Len(w.table) : w.table[j].at # Local(q) => w.table[j] \in ToSet(v.table)
    BY <1>5, <2>3
  <2> QED BY <2>2, <2>4, <2>5, <2>6
<1> HIDE DEF q
<1>7. Standing(v, S)
  <2>1. ASSUME NEW i \in 1..Len(v.table) PROVE \E o \in S : EntryOf(v.table[i], o)
    BY <1>6 DEF Standing
  <2>2. ASSUME NEW i \in 1..Len(v.table), v.table[i].link PROVE v.table[i].at \notin v.dirs
    BY <1>5, <1>6, <2>2 DEF Standing
  <2> QED BY <1>5, <2>1, <2>2 DEF Standing
<1>8. RootsAreShort(v, S, t, n + 1)
  <2> SUFFICES ASSUME NEW i \in 1..Len(v.table), NEW o \in S PROVE ~Rooted(v, i, o)
    BY DEF RootsAreShort
  <2>1. PICK j \in 1..Len(w.table) : v.table[i] = w.table[j]
    BY <1>6
  <2> QED BY <1>1, <2>1 DEF Rootless, Rooted
<1>9. Changes(w, v, t[n])
  <2>1. ASSUME NEW l, HasAt(w, l), l # Local(q) PROVE HasAt(v, l)
    BY <1>6, <2>1 DEF HasAt
  <2>2. ~HasAt(v, Local(q))
    BY <1>6 DEF HasAt
  <2>3. t[n].at = q
    BY DEF q
  <2> QED BY <1>5, <2>1, <2>2, <2>3 DEF Changes
<1>10. After(w, v, S, t, n)
  BY <1>7, <1>8, <1>9 DEF After
<1> QED BY <1>10 DEF v, q

\* What is in its place, or was a command ago and is about to be again.
InPlace(w, t, n, m) ==
    HasAt(w, Local(Point(m))) \/ (n <= Len(t) /\ t[n].op = "link" /\ t[n].at = Point(m))

\* A command that ends well, in a script that asks for the directories of T.
LEMMA LineAfter ==
    ASSUME NEW S, Sound(S), NEW T, T \subseteq S, NEW t, Tidy(t, T), NEW n \in 1..Len(t),
           DOMAIN box = Fields, Standing(box, S), LineIsSafe(box, S, t, n),
           t[n].op \in Ops, NEW v \in Succeeds(t[n])
    PROVE  After(box, v, S, t, n)
<1> DEFINE c == t[n]
<1>1. /\ n \in Nat /\ Len(t) \in Nat /\ n <= Len(t) /\ TidyAt(t, n, T)
      /\ RootsAreShort(box, S, t, n)
  <2>1. Len(t) \in Nat
    BY RowElements DEF Tidy
  <2> QED BY <2>1 DEF Tidy, LineIsSafe
<1>2. CASE c.op = "mkdir"
  <2>1. c.at \in Paths /\ v \in MkdirIn(box, c.at)
    BY <1>1, <1>2 DEF TidyAt, Succeeds
  <2> QED BY <1>1, <1>2, <2>1, MkdirAfter
<1>3. CASE c.op = "mount"
  <2>1. MountIsTidy(t, n, T) /\ v \in MountIn(box, c.server, c.path, c.at)
    BY <1>1, <1>3 DEF TidyAt, Succeeds
  <2>2. MountIsTidy(t, n, S)
    BY <2>1 DEF MountIsTidy
  <2> QED BY <1>1, <1>3, <2>1, <2>2, MountAfter
<1>4. CASE c.op = "umount"
  <2>1. PICK m \in T : ~IsBlob(m.server) /\ c.at = Tmp(m.server)
    BY <1>1, <1>4 DEF TidyAt
  <2>2. m \in S /\ v \in UmountIn(box, c.at)
    BY <1>4 DEF Succeeds
  <2> QED BY <1>1, <1>4, <2>1, <2>2, UmountAfter
<1>5. CASE c.op = "rm"
  <2>1. PICK m \in T : c.at = Removed(m)
    BY <1>1, <1>5 DEF TidyAt, RmIsTidy
  <2>2. m \in S /\ v = RmIn(box, c.at)
    BY <1>5 DEF Succeeds
  <2> QED BY <1>1, <1>5, <2>1, <2>2, RmAfter
<1>6. CASE c.op = "link"
  <2>1. LinkIsTidy(t, n, T) /\ v \in LinkIn(box, c.to, c.at)
    BY <1>1, <1>6 DEF TidyAt, Succeeds
  <2>2. LinkIsTidy(t, n, S)
    BY <2>1 DEF LinkIsTidy
  <2> QED BY <1>1, <1>6, <2>1, <2>2, LinkAfter
<1>7. ASSUME v.table = box.table, v.dirs = box.dirs, v.data = box.data,
             c.op \notin {"mkdir", "umount", "mount", "link", "rm", "check empty"}
      PROVE  After(box, v, S, t, n)
  BY <1>1, <1>7, SameAfter
<1>8. CASE c.op \in {"plain", "exit unless", "user", "sshd", "barrier", "install", "apt"}
  <2>1. CASE c.op \in {"plain", "exit unless", "user"}
    BY <1>7, <2>1 DEF Succeeds
  <2>2. CASE c.op = "sshd"
    <3>1. v = box \/ v = [box EXCEPT !.sshd = TRUE]
      BY <2>2 DEF Succeeds, StartSshd
    <3> QED BY <1>7, <2>2, <3>1 DEF Fields
  <2>3. CASE c.op = "barrier"
    BY <1>7, <2>3 DEF Succeeds, PassBarrier
  <2>4. CASE c.op = "install"
    <3>1. \E h : v = [box EXCEPT !.have = h]
      BY <2>4 DEF Succeeds, Installed
    <3> QED BY <1>7, <2>4, <3>1 DEF Fields
  <2>5. CASE c.op = "apt"
    <3>1. \E h : v = [box EXCEPT !.have = h]
      BY <2>5 DEF Succeeds, Installed
    <3> QED BY <1>7, <2>5, <3>1 DEF Fields
  <2> QED BY <1>8, <2>1, <2>2, <2>3, <2>4, <2>5
<1>9. CASE c.op = "check empty"
  <2>1. v = box /\ ~(Resolve(box.table, c.at) \in box.dirs /\ NotEmpty(box, Resolve(box.table, c.at)))
    BY <1>9 DEF Succeeds, CheckCloneDir
  <2>2. Resolve(box.table, c.at) \notin Given
    BY <2>1 DEF Standing, NotEmpty
  <2> QED BY <1>1, <1>9, <2>1, <2>2, SameAfter
<1>10. CASE c.op = "mv"
  <2> DEFINE d == box.data \ {Resolve(box.table, c.at)}
  <2>1. v = [box EXCEPT !.code = FALSE, !.data = d]
    BY <1>10 DEF Succeeds, MoveCode
  <2>2. Resolve(box.table, c.at) \notin Given
    BY <1>1, <1>10 DEF LineIsSafe, MoveIsSafe
  <2>3. d = box.data
    BY <2>2 DEF Standing
  <2> HIDE DEF d
  <2>4. v.table = box.table /\ v.dirs = box.dirs /\ v.data = box.data
    BY <2>1, <2>3 DEF Fields
  <2> QED BY <1>7, <1>10, <2>4
<1> QED BY <1>2, <1>3, <1>4, <1>5, <1>6, <1>8, <1>9, <1>10 DEF Ops

\* The line after a command that ended well.
LEMMA NextLine ==
    ASSUME NEW S, Sound(S), NEW T, T \subseteq S, NEW t, Tidy(t, T), NEW n \in 1..Len(t),
           NEW w, NEW v, LineIsSafe(w, S, t, n), After(w, v, S, t, n)
    PROVE  /\ LineIsSafe(v, S, t, n + 1)
           /\ \A m \in S : InPlace(w, t, n, m) \/ Makes(t[n], m) => InPlace(v, t, n + 1, m)
<1> DEFINE c == t[n]
<1>1. /\ n \in Nat /\ Len(t) \in Nat /\ TidyAt(t, n, T)
      /\ n + 1 <= Len(t) => TidyAt(t, n + 1, T)
      /\ n + 2 <= Len(t) => TidyAt(t, n + 2, T)
      /\ (n + 1) - 1 = n /\ (n + 2) - 2 = n /\ (n + 2) - 1 = n + 1
  <2>1. Len(t) \in Nat
    BY RowElements DEF Tidy
  <2>2. n + 1 <= Len(t) => n + 1 \in 1..Len(t)
    BY <2>1
  <2>3. n + 2 <= Len(t) => n + 2 \in 1..Len(t)
    BY <2>1
  <2> QED BY <2>1, <2>2, <2>3 DEF Tidy
<1>2. /\ \A a, b : Tmp(a) = Tmp(b) => a = b
      /\ \A p, q : Local(p) = Local(q) => p = q
      /\ \A m \in S, o \in S : Point(m) = Point(o) => m = o
      /\ \A m \in S, o \in S : Point(m) # Tmp(o.server)
  BY SpotsDiffer
<1>3. Changes(w, v, c)
  BY DEF After
<1>4. c.op = "umount" => \E o \in S : ~IsBlob(o.server) /\ c.at = Tmp(o.server)
  BY <1>1 DEF TidyAt
<1>5. c.op = "rm" => \E o \in S : /\ c.at = Removed(o)
                                  /\ IsBlob(o.server) => /\ n + 1 <= Len(t) /\ t[n + 1].op = "link"
                                                         /\ t[n + 1].at = c.at
  BY <1>1 DEF TidyAt, RmIsTidy
<1>6. MoveIsSafe(v, t, n + 1)
  <2>1. ASSUME n + 1 <= Len(t), t[n + 1].op = "mv" PROVE Resolve(v.table, t[n + 1].at) \notin Given
    <3>1. c.op = "mkdir"
      BY <1>1, <2>1 DEF TidyAt, MoveIsTidy
    <3>2. Resolve(w.table, t[n + 1].at) \notin Given
      BY <2>1 DEF LineIsSafe, MoveIsSafe
    <3> QED BY <1>3, <3>1, <3>2 DEF Changes
  <2>2. ASSUME n + 2 <= Len(t), t[n + 2].op = "mv" PROVE Resolve(v.table, t[n + 2].at) \notin Given
    <3>1. c.op = "check empty" /\ c.at = t[n + 2].at
      BY <1>1, <2>2 DEF TidyAt, MoveIsTidy
    <3> QED BY <1>3, <3>1 DEF Changes
  <2>3. (n + 1) + 1 = n + 2
    BY <1>1
  <2> QED BY <2>1, <2>2, <2>3 DEF MoveIsSafe
<1>7. LinkIsSafe(v, t, n + 1)
  <2> SUFFICES ASSUME n + 1 <= Len(t), t[n + 1].op = "link"
               PROVE  Local(t[n + 1].at) \notin v.dirs /\ ~HasAt(v, Local(t[n + 1].at))
    BY DEF LinkIsSafe
  <2>1. c.op = "rm" /\ c.at = t[n + 1].at
    BY <1>1 DEF TidyAt, LinkIsTidy
  <2> QED BY <1>3, <2>1 DEF Changes
<1>8. BlobsAreThere(v, S, t, n + 1)
  <2> SUFFICES ASSUME NEW k \in 1..n, NEW m \in S, k <= Len(t), RootMount(t[k], m), IsBlob(m.server)
               PROVE  HasAt(v, Local(Tmp(m.server)))
    BY <1>1 DEF BlobsAreThere
  <2>1. CASE k = n
    BY <1>3, <2>1 DEF RootMount, Changes
  <2>2. CASE k # n
    <3>1. k \in 1..(n - 1)
      BY <1>1, <2>2
    <3>2. HasAt(w, Local(Tmp(m.server)))
      BY <3>1 DEF LineIsSafe, BlobsAreThere
    <3>3. c.op = "umount" => Local(c.at) # Local(Tmp(m.server))
      BY <1>2, <1>4
    <3>4. c.op = "rm" => Local(c.at) # Local(Tmp(m.server))
      BY <1>2, <1>5 DEF Removed, Point
    <3> QED BY <1>3, <3>2, <3>3, <3>4 DEF Changes
  <2> QED BY <2>1, <2>2
<1>9. ASSUME NEW m \in S, InPlace(w, t, n, m) \/ Makes(c, m) PROVE InPlace(v, t, n + 1, m)
  <2>1. CASE c.op \in {"mount", "link"} /\ c.at = Point(m)
    BY <1>3, <2>1 DEF Changes, InPlace
  <2>2. CASE HasAt(w, Local(Point(m))) /\ (c.op \in {"umount", "rm"} => Local(Point(m)) # Local(c.at))
    <3>1. HasAt(v, Local(Point(m)))
      BY <1>3, <2>2 DEF Changes
    <3> QED BY <3>1 DEF InPlace
  <2>3. CASE c.op = "rm" /\ c.at = Point(m)
    <3>1. PICK o \in S : /\ c.at = Removed(o)
                         /\ IsBlob(o.server) => /\ n + 1 <= Len(t) /\ t[n + 1].op = "link"
                                                /\ t[n + 1].at = c.at
      BY <1>5, <2>3
    <3>2. IsBlob(o.server)
      BY <1>2, <2>3, <3>1 DEF Removed
    <3> QED BY <2>3, <3>1, <3>2 DEF InPlace
  <2>4. c.op = "umount" => c.at # Point(m)
    BY <1>2, <1>4
  <2>5. Makes(c, m) => c.op \in {"mount", "link"} /\ c.at = Point(m)
    BY DEF Makes, PointMount, PointLink
  <2>6. Local(c.at) = Local(Point(m)) => c.at = Point(m)
    BY <1>2
  <2> QED BY <1>9, <2>1, <2>2, <2>3, <2>4, <2>5, <2>6 DEF InPlace
<1>10. RootsAreShort(v, S, t, n + 1)
  BY DEF After
<1>11. LineIsSafe(v, S, t, n + 1)
  BY <1>6, <1>7, <1>8, <1>10 DEF LineIsSafe
<1> QED BY <1>9, <1>11

\* The first line of a script.
LEMMA FirstLine ==
    ASSUME NEW S, NEW T, NEW t, Tidy(t, T), NEW w, Rootless(w, S) PROVE LineIsSafe(w, S, t, 1)
<1>1. Len(t) \in Nat /\ \A k \in 1..Len(t) : TidyAt(t, k, T)
  BY RowElements DEF Tidy
<1>2. MoveIsSafe(w, t, 1)
  <2> SUFFICES ASSUME NEW k \in {1, 2}, k <= Len(t), t[k].op = "mv" PROVE FALSE
    BY DEF MoveIsSafe
  <2>1. k \in 1..Len(t) /\ ~(k > 2)
    BY <1>1
  <2> QED BY <1>1, <2>1 DEF TidyAt, MoveIsTidy
<1>3. LinkIsSafe(w, t, 1)
  <2> SUFFICES ASSUME 1 <= Len(t), t[1].op = "link" PROVE FALSE
    BY DEF LinkIsSafe
  <2>1. 1 \in 1..Len(t) /\ ~(1 > 1)
    BY <1>1
  <2> QED BY <1>1, <2>1 DEF TidyAt, LinkIsTidy
<1>4. BlobsAreThere(w, S, t, 1)
  BY DEF BlobsAreThere
<1>5. RootsAreShort(w, S, t, 1)
  BY DEF RootsAreShort, Rootless
<1> QED BY <1>2, <1>3, <1>4, <1>5 DEF LineIsSafe

\* The end of a script.
LEMMA LastLine ==
    ASSUME NEW S, NEW t, Row(t), NEW w, LineIsSafe(w, S, t, Len(t) + 1) PROVE Rootless(w, S)
<1>1. Len(t) \in Nat
  BY RowElements
<1>2. PICK n \in Nat : n = Len(t) + 1
  BY <1>1
<1>3. ~(n <= Len(t)) /\ RootsAreShort(w, S, t, n)
  BY <1>1, <1>2 DEF LineIsSafe
<1> QED BY <1>1, <1>3, NoRootNow

\* exit 0 in a command of the user, whose script mounts nothing.
LEMMA ExitedLine ==
    ASSUME NEW S, NEW T, NEW t, Tidy(t, T), NEW n \in 1..Len(t), t[n].op = "user",
           NEW w, LineIsSafe(w, S, t, n)
    PROVE  T = {} /\ LineIsSafe(w, S, t, Len(t) + 1)
<1>1. Len(t) \in Nat /\ n \in Nat /\ \A k \in 1..Len(t) : TidyAt(t, k, T)
  <2>1. Len(t) \in Nat
    BY RowElements DEF Tidy
  <2> QED BY <2>1 DEF Tidy
<1>2. T = {}
  BY <1>1 DEF TidyAt
<1>3. \A k \in 1..Len(t) : t[k].op # "mount"
  BY <1>1, <1>2 DEF TidyAt, MountIsTidy
<1>4. Rootless(w, S)
  BY <1>1, NoRootNow DEF LineIsSafe
<1>5. RootsAreShort(w, S, t, Len(t) + 1)
  BY <1>4 DEF RootsAreShort, Rootless
<1>6. MoveIsSafe(w, t, Len(t) + 1) /\ LinkIsSafe(w, t, Len(t) + 1)
  BY <1>1 DEF MoveIsSafe, LinkIsSafe
<1>7. BlobsAreThere(w, S, t, Len(t) + 1)
  <2>1. \A k \in 1..((Len(t) + 1) - 1) : k \in 1..Len(t)
    BY <1>1
  <2> QED BY <1>3, <2>1 DEF BlobsAreThere, RootMount
<1> QED BY <1>2, <1>5, <1>6, <1>7 DEF LineIsSafe

-----------------------------------------------------------------------------
(* The invariant                                                            *)

\* What the commands before the n-th line of a script t have put in its place.
Made(t, n, m) == \E k \in 1..(n - 1) : k <= Len(t) /\ Makes(t[k], m)

\* The mount infos that a plugin asks for, and those of the plugins up to the k-th
\* that have a script.
InfosOf(i) == AsksFor(job[i])
AskedSet(k) == UNION {InfosOf(i) : i \in {j \in 1..k : script["pre"][j] # <<>>}}

TidyScripts ==
    \A i \in DOMAIN job :
        /\ Tidy(script["pre"][i], InfosOf(i)) /\ Tidy(script["post"][i], {})
        /\ script["pre"][i] # <<>> =>
              \A m \in InfosOf(i) : KnownInfo(m) /\ Brings(script["pre"][i], m)

\* Nothing has been mounted.
AtFirst == phase = "init" => box.table = <<>> /\ box.data = Given /\ Given \subseteq box.dirs

\* What the scripts up to one that is not over ask for: of these, it is enough
\* that mount points be well placed.
Ahead == IF phase = "pre" THEN (cur..Len(job)) \cup {Len(job)} ELSE {Len(job)}
Asks == {AskedSet(k) : k \in Ahead}

NoneIgnored == \A i \in bad : Strict(i)

\* What has been asked for and made is in its place.
InSight ==
    /\ \A m \in AskedSet(cur - 1) : InPlace(box, Current, line, m)
    /\ \A m \in InfosOf(cur) : Made(Current, line, m) => InPlace(box, Current, line, m)
InOrder(S) ==
    /\ Standing(box, S)
    /\ InScript => LineIsSafe(box, S, Current, line)
    /\ ~InScript => Rootless(box, S)
    /\ phase = "pre" /\ InScript /\ bad = {} => InSight
FilesStand ==
    NoneIgnored => \A S \in Asks : Placed(S) =>
        box.data = Given /\ (phase \in {"pre", "job", "post", "end"} => InOrder(S))

FilesInv == TidyScripts /\ AtFirst /\ FilesStand

\* The plugins before one, and that one.
LEMMA AskedOne ==
    ASSUME NEW n \in Nat \ {0}
    PROVE  /\ AskedSet(n - 1) \subseteq AskedSet(n)
           /\ script["pre"][n] # <<>> => InfosOf(n) \subseteq AskedSet(n)
           /\ \A m \in AskedSet(n) : \/ m \in AskedSet(n - 1)
                                     \/ script["pre"][n] # <<>> /\ m \in InfosOf(n)
<1>1. \A j \in 1..n : j = n \/ j \in 1..(n - 1)
  OBVIOUS
<1>2. n \in 1..n /\ \A j \in 1..(n - 1) : j \in 1..n
  OBVIOUS
<1>3. \A k, m : m \in AskedSet(k) <=> \E j \in 1..k : script["pre"][j] # <<>> /\ m \in InfosOf(j)
  BY DEF AskedSet
<1> QED BY <1>1, <1>2, <1>3

\* More plugins ask for more.
LEMMA AskedMore ==
    ASSUME NEW n \in Int, NEW k \in Int, n <= k PROVE AskedSet(n) \subseteq AskedSet(k)
<1>1. \A j \in 1..n : j \in 1..k
  OBVIOUS
<1> QED BY <1>1 DEF AskedSet

\* What is said of all that is asked for.
LEMMA AsksKnow ==
    ASSUME TypeOK, TidyScripts, NEW S \in Asks
    PROVE  /\ \A m \in S : KnownInfo(m)
           /\ phase = "pre" /\ cur \in DOMAIN job =>
                 AskedSet(cur - 1) \subseteq S /\ (Current # <<>> => InfosOf(cur) \subseteq S)
<1>1. Len(job) \in Nat /\ DOMAIN job = 1..Len(job)
  BY JobTypes DEF TypeOK
<1>2. PICK k \in Ahead : S = AskedSet(k)
  BY DEF Asks
<1>3. k \in Int /\ k <= Len(job)
  BY <1>1, <1>2 DEF Ahead, TypeOK
<1>4. \A j \in 1..k : j \in DOMAIN job
  BY <1>1, <1>3
<1>5. ASSUME NEW m \in S PROVE KnownInfo(m)
  <2>1. PICK j \in 1..k : script["pre"][j] # <<>> /\ m \in InfosOf(j)
    BY <1>2 DEF AskedSet
  <2> QED BY <1>4, <2>1 DEF TidyScripts
<1>6. ASSUME phase = "pre", cur \in DOMAIN job
      PROVE  AskedSet(cur - 1) \subseteq S /\ (Current # <<>> => InfosOf(cur) \subseteq S)
  <2>1. cur \in Nat \ {0} /\ cur <= k
    <3>1. cur \in 1..Len(job)
      BY <1>1, <1>6
    <3>2. k \in cur..Len(job) \/ k = Len(job)
      BY <1>2, <1>6 DEF Ahead
    <3> QED BY <1>1, <3>1, <3>2
  <2>2. AskedSet(cur) \subseteq S
    BY <1>2, <1>3, <2>1, AskedMore
  <2> QED BY <1>6, <2>1, <2>2, AskedOne DEF Current
<1> QED BY <1>5, <1>6

\* Of the script at hand.
LEMMA CurrentAsks ==
    ASSUME ScriptsInv, TidyScripts, InScript
    PROVE  \E T : /\ Tidy(Current, T) /\ (phase = "pre" => T = InfosOf(cur))
                  /\ (phase # "pre" => T = {})
                  /\ Running => \A S \in Asks : T \subseteq S
<1>1. phase \in {"pre", "post"} /\ cur \in DOMAIN job /\ TypeOK
  BY DEF InScript, ScriptsInv
<1>2. CASE phase = "pre"
  <2>1. Tidy(Current, InfosOf(cur))
    BY <1>1, <1>2 DEF TidyScripts, Current
  <2>2. ASSUME Running PROVE Current # <<>>
    <3>1. 1 <= line /\ line <= Len(Current) /\ line \in Nat
      BY <1>1, <2>2 DEF Running, TypeOK
    <3>2. Len(<<>>) = 0
      OBVIOUS
    <3> QED BY <3>1, <3>2
  <2>3. Running => \A S \in Asks : InfosOf(cur) \subseteq S
    BY <1>1, <1>2, <2>2, AsksKnow
  <2> QED BY <1>2, <2>1, <2>3
<1>3. CASE phase = "post"
  <2>1. Tidy(Current, {})
    BY <1>1, <1>3 DEF TidyScripts, Current
  <2> QED BY <1>3, <2>1
<1> QED BY <1>1, <1>2, <1>3

\* What is asked for does not change while scripts run.
LEMMA AsksStay ==
    ASSUME UNCHANGED <<job, script>>, Ahead' \subseteq Ahead, TidyScripts
    PROVE  Asks' \subseteq Asks /\ TidyScripts' /\ \A i : Strict(i)' <=> Strict(i)
<1>1. \A k : AskedSet(k)' = AskedSet(k)
  BY DEF AskedSet, InfosOf, AsksFor
<1>2. Asks' \subseteq Asks
  BY <1>1 DEF Asks
<1>3. TidyScripts'
  BY DEF TidyScripts, InfosOf
<1>4. \A i : Strict(i)' <=> Strict(i)
  BY DEF Strict, Lenient
<1> QED BY <1>2, <1>3, <1>4

-----------------------------------------------------------------------------
(* Every step keeps the invariant                                           *)

\* Nothing is mounted, and no script is written.
LEMMA InitFiles ==
    ASSUME Init PROVE FilesInv
<1>1. TidyScripts
  BY CalmRows DEF Init, TidyScripts
<1>2. box.table = <<>> /\ box.data = Given /\ Given \subseteq box.dirs /\ phase = "init"
  BY DEF Init
<1> QED BY <1>1, <1>2 DEF FilesInv, AtFirst, FilesStand

\* A plugin writes its scripts.
LEMMA WritingIsTidy ==
    ASSUME ScriptsInv, TidyScripts, Preparing, Write(job[cur]),
           job[cur].kind = "storage" => ~StorageRaises(job[cur].names)
    PROVE  TidyScripts'
<1> DEFINE c == job[cur]
           pre == InjectCommands(c, PreCommands(c))
           post == InjectCommands(c, PostCommands(c))
<1>1. TypeOK /\ cur \in DOMAIN job /\ job \in Jobs
  BY DEF ScriptsInv, TypeOK, Preparing
<1>2. c.kind \in Kinds /\ c.names \in Seq(STRING) /\ c.dir \in Paths
  BY <1>1, JobTypes DEF Paths
<1>3. /\ Tidy(pre, AsksFor(c)) /\ Tidy(post, {})
      /\ \A m \in AsksFor(c) : KnownInfo(m) /\ Brings(pre, m)
  BY <1>2, WrittenIsTidy
<1>4. /\ job' = job
      /\ script' = [pre |-> [script["pre"] EXCEPT ![cur] = pre],
                    post |-> [script["post"] EXCEPT ![cur] = post]]
  BY DEF Write
<1> HIDE DEF pre, post, c
<1>5. \A k \in {"pre", "post"} : DOMAIN script[k] = DOMAIN job
  BY <1>1 DEF TypeOK
<1>6. /\ script'["pre"] = [script["pre"] EXCEPT ![cur] = pre]
      /\ script'["post"] = [script["post"] EXCEPT ![cur] = post]
  BY <1>4
<1>7. ASSUME NEW i \in DOMAIN job
      PROVE  /\ Tidy(script'["pre"][i], InfosOf(i)) /\ Tidy(script'["post"][i], {})
             /\ script'["pre"][i] # <<>> =>
                   \A m \in InfosOf(i) : KnownInfo(m) /\ Brings(script'["pre"][i], m)
  <2>1. CASE i = cur
    <3>1. script'["pre"][i] = pre /\ script'["post"][i] = post /\ InfosOf(i) = AsksFor(c)
      BY <1>1, <1>5, <1>6, <2>1 DEF InfosOf, c
    <3> QED BY <1>3, <3>1
  <2>2. CASE i # cur
    <3>1. script'["pre"][i] = script["pre"][i] /\ script'["post"][i] = script["post"][i]
      BY <1>5, <1>6, <2>2
    <3> QED BY <3>1 DEF TidyScripts
  <2> QED BY <2>1, <2>2
<1> QED BY <1>4, <1>7 DEF TidyScripts, InfosOf

\* The init container.
LEMMA PreparationFiles ==
    ASSUME ScriptsInv, FilesInv, Prepare \/ Clone \/ CloneFails PROVE FilesInv'
<1>1. Preparing /\ phase = "init" /\ phase' \in {"init", "refused"}
  BY DEF Prepare, Clone, CloneFails, Cloning, Preparing, Write, Refuse
<1>2. box'.table = box.table /\ box'.data = box.data /\ box'.dirs = box.dirs
  BY DEF Prepare, Clone, CloneFails, ScriptsInv, Fields
<1>3. AtFirst'
  BY <1>1, <1>2 DEF FilesInv, AtFirst
<1>4. FilesStand'
  BY <1>1, <1>2 DEF FilesInv, AtFirst, FilesStand
<1>5. CASE Write(job[cur]) /\ (job[cur].kind = "storage" => ~StorageRaises(job[cur].names))
  BY <1>1, <1>3, <1>4, <1>5, WritingIsTidy DEF FilesInv
<1>6. CASE UNCHANGED <<job, script>>
  BY <1>3, <1>4, <1>6 DEF FilesInv, TidyScripts, InfosOf
<1>7. Refuse(job[cur]) => UNCHANGED <<job, script>>
  BY DEF Refuse
<1>8. CASE CloneFails
  BY <1>6, <1>7, <1>8 DEF CloneFails
<1>9. CASE Prepare
  <2>1. \E raises \in Raises(job[cur]) :
            (raises /\ Refuse(job[cur])) \/ (~raises /\ Write(job[cur]))
    BY <1>9, Zenon DEF Prepare
  <2> PICK raises \in Raises(job[cur]) :
             (raises /\ Refuse(job[cur])) \/ (~raises /\ Write(job[cur]))
    BY <2>1, Zenon
  <2>2. CASE Refuse(job[cur])
    BY <1>6, <1>7, <2>2
  <2>3. CASE ~raises /\ Write(job[cur])
    <3>1. job[cur].kind = "storage" => ~StorageRaises(job[cur].names)
      <4> SUFFICES ASSUME job[cur].kind = "storage" PROVE ~StorageRaises(job[cur].names)
        OBVIOUS
      <4>1. Raises(job[cur]) = {StorageRaises(job[cur].names), TRUE}
        BY DEF Raises
      <4>2. raises = StorageRaises(job[cur].names) \/ raises = TRUE
        BY <4>1, Zenon
      <4> QED BY <2>3, <4>2, Zenon
    <3> QED BY <1>5, <2>3, <3>1
  <2> QED BY <2>2, <2>3, Zenon
<1>10. CASE Clone
  BY <1>5, <1>10 DEF Clone, Cloning
<1> QED BY <1>8, <1>9, <1>10

\* The scripts start.
LEMMA StartFiles ==
    ASSUME ScriptsInv, FilesInv, StartScripts PROVE FilesInv'
<1>1. /\ phase = "init" /\ phase' = "pre" /\ cur' = 1 /\ line' = 1
      /\ UNCHANGED <<job, site, tries, script, box, bad, quit>>
  BY Zenon DEF StartScripts, NewShell
<1>2. TypeOK /\ TidyScripts /\ DOMAIN job = 1..Len(job) /\ Len(job) \in Nat
  BY JobTypes DEF ScriptsInv, FilesInv, TypeOK
<1>3. TidyScripts' /\ AtFirst'
  BY <1>1, <1>2 DEF TidyScripts, InfosOf, AtFirst
<1>4. box'.table = <<>> /\ box'.data = Given /\ Given \subseteq box'.dirs /\ Len(<<>>) = 0
  BY <1>1 DEF FilesInv, AtFirst
<1>5. ASSUME NEW S \in Asks' PROVE InOrder(S)'
  <2>1. Row(<<>>)
    BY ShortRows
  <2>2. Standing(box, S)' /\ Rootless(box, S)'
    BY <1>4, <2>1 DEF Standing, Rootless
  <2>3. InScript' => LineIsSafe(box, S, Current, line)'
    <3> SUFFICES ASSUME InScript' PROVE LineIsSafe(box, S, Current, line)'
      OBVIOUS
    <3>1. Tidy(script["pre"][1], InfosOf(1)) /\ Current' = script["pre"][1]
      BY <1>1, <1>2 DEF InScript, TidyScripts, Current
    <3>2. PICK t, T, w : t = Current' /\ Tidy(t, T) /\ w = box'
      BY <3>1
    <3>3. LineIsSafe(w, S, t, 1)
      BY <2>2, <3>2, FirstLine
    <3> QED BY <1>1, <3>2, <3>3
  <2>4. InSight'
    <3>1. \A m : m \notin AskedSet(cur - 1)'
      BY <1>1 DEF AskedSet
    <3>2. \A m : ~Made(Current, line, m)'
      BY <1>1 DEF Made
    <3> QED BY <3>1, <3>2 DEF InSight
  <2> QED BY <2>2, <2>3, <2>4 DEF InOrder
<1>6. FilesStand'
  BY <1>4, <1>5 DEF FilesStand
<1> QED BY <1>3, <1>6 DEF FilesInv

\* An option is set, or a command ends well.
LEMMA LineFiles ==
    ASSUME ScriptsInv, FilesInv, SetOption \/ Succeed PROVE FilesInv'
<1>1. /\ Running /\ InScript /\ line' = line + 1 /\ phase \in {"pre", "post"}
      /\ UNCHANGED <<job, phase, cur, script, bad>>
  BY DEF SetOption, Succeed, Running, InScript
<1>2. \/ Current[line].op = "set" /\ box' = box
      \/ Current[line].op \in Ops /\ Current[line].op # "set" /\ box' \in Succeeds(Current[line])
  <2>1. CASE SetOption
    BY <2>1 DEF SetOption
  <2>2. CASE Succeed
    BY <2>2, LineIsCommand DEF Succeed, PreparedAt
  <2> QED BY <2>1, <2>2
<1>3. /\ TypeOK /\ TidyScripts /\ DOMAIN box = Fields /\ line \in Nat /\ line >= 1
      /\ line <= Len(Current) /\ Current' = Current /\ InScript' /\ FilesStand
  BY <1>1 DEF ScriptsInv, FilesInv, TypeOK, Running, Current, InScript
<1>4. TidyScripts' /\ Asks' \subseteq Asks /\ (NoneIgnored' => NoneIgnored) /\ AtFirst'
  <2>1. Ahead' \subseteq Ahead
    BY <1>1 DEF Ahead
  <2>2. TidyScripts' /\ Asks' \subseteq Asks /\ \A i : Strict(i)' <=> Strict(i)
    BY <1>1, <1>3, <2>1, AsksStay
  <2> QED BY <1>1, <2>2 DEF NoneIgnored, AtFirst
<1>5. PICK T : /\ Tidy(Current, T) /\ (phase = "pre" => T = InfosOf(cur))
               /\ \A S \in Asks : T \subseteq S
  BY <1>1, <1>3, CurrentAsks
<1>6. PICK t, n, w, v : t = Current /\ n = line /\ w = box /\ v = box'
  OBVIOUS
<1>7. n \in 1..Len(t) /\ Tidy(t, T) /\ n \in Nat /\ Len(t) \in Nat /\ n + 1 = line'
  <2>1. Len(t) \in Nat
    BY <1>5, <1>6, RowElements DEF Tidy
  <2> QED BY <1>1, <1>3, <1>5, <1>6, <2>1
<1>8. ASSUME NEW S \in Asks', Placed(S), NoneIgnored'
      PROVE  box'.data = Given /\ InOrder(S)'
  <2>1. S \in Asks /\ T \subseteq S /\ InOrder(S) /\ Sound(S)
    <3>1. S \in Asks /\ T \subseteq S
      BY <1>4, <1>5, <1>8
    <3>2. Sound(S)
      BY <1>3, <1>8, <3>1, AsksKnow DEF Sound
    <3> QED BY <1>1, <1>3, <1>4, <1>8, <3>1, <3>2 DEF FilesStand
  <2>2. Standing(w, S) /\ LineIsSafe(w, S, t, n)
    BY <1>3, <1>1, <1>6, <2>1 DEF InOrder
  <2>3. After(w, v, S, t, n)
    <3>1. CASE t[n].op = "set" /\ v = w
      <4>1. RootsAreShort(w, S, t, n) /\ n <= Len(t)
        BY <1>7, <2>2 DEF LineIsSafe
      <4> QED BY <1>7, <2>2, <3>1, <4>1, SameAfter
    <3>2. CASE t[n].op \in Ops /\ v \in Succeeds(t[n])
      BY <1>3, <1>6, <1>7, <2>1, <2>2, <3>2, LineAfter
    <3> QED BY <1>2, <1>6, <3>1, <3>2
  <2>4. /\ LineIsSafe(v, S, t, n + 1)
        /\ \A m \in S : InPlace(w, t, n, m) \/ Makes(t[n], m) => InPlace(v, t, n + 1, m)
    BY <1>7, <2>1, <2>2, <2>3, NextLine
  <2>5. Standing(box, S)' /\ LineIsSafe(box, S, Current, line)'
    <3>1. Standing(v, S)
      BY <2>3 DEF After
    <3>2. t = Current' /\ n + 1 = line' /\ v = box'
      BY <1>3, <1>6, <1>7
    <3> QED BY <2>4, <3>1, <3>2
  <2>6. phase' = "pre" /\ bad' = {} => InSight'
    <3> SUFFICES ASSUME phase' = "pre", bad' = {} PROVE InSight'
      OBVIOUS
    <3>1. InSight /\ T = InfosOf(cur) /\ AskedSet(cur - 1) \subseteq S /\ InfosOf(cur) \subseteq S
      BY <1>1, <1>3, <1>5, <2>1, AsksKnow DEF InOrder, InScript
    <3>2. AskedSet(cur - 1)' = AskedSet(cur - 1) /\ InfosOf(cur)' = InfosOf(cur)
      BY <1>1 DEF AskedSet, InfosOf, AsksFor
    <3>3. ASSUME NEW m \in S, InPlace(w, t, n, m) \/ Makes(t[n], m)
          PROVE  InPlace(box, Current, line, m)'
      <4>1. InPlace(v, t, n + 1, m)
        BY <2>4, <3>3
      <4> QED BY <1>3, <1>6, <1>7, <4>1
    <3>4. ASSUME NEW m, Made(Current, line, m)' PROVE Made(t, n, m) \/ Makes(t[n], m)
      <4>1. PICK k \in 1..((n + 1) - 1) : k <= Len(t) /\ Makes(t[k], m)
        BY <1>3, <1>6, <1>7, <3>4 DEF Made
      <4>2. k = n \/ k \in 1..(n - 1)
        BY <1>7
      <4> QED BY <4>1, <4>2 DEF Made
    <3>5. ASSUME NEW m \in AskedSet(cur - 1) PROVE InPlace(box, Current, line, m)'
      BY <1>6, <3>1, <3>3, <3>5 DEF InSight
    <3>6. ASSUME NEW m \in InfosOf(cur), Made(Current, line, m)'
          PROVE  InPlace(box, Current, line, m)'
      BY <1>6, <3>1, <3>3, <3>4, <3>6 DEF InSight
    <3> QED BY <3>2, <3>5, <3>6 DEF InSight
  <2>7. box'.data = Given
    BY <2>5 DEF Standing
  <2> QED BY <1>3, <2>5, <2>6, <2>7 DEF InOrder
<1>9. FilesStand'
  BY <1>8 DEF FilesStand
<1> QED BY <1>4, <1>9 DEF FilesInv

\* A command fails: what the task leaves then still has the files, and of a
\* plugin whose failures are ignored nothing is said.
LEMMA FailFiles ==
    ASSUME ScriptsInv, FilesInv, Fail PROVE FilesInv'
<1>1. /\ Running /\ InScript /\ phase \in {"pre", "post"} /\ Current[line].op # "set"
      /\ box' \in Fails(Current[line]) /\ bad' = bad \cup {cur}
      /\ UNCHANGED <<job, cur, script>>
      /\ phase' \in {"pre", "post", "failed"} /\ (phase' # phase <=> errexit)
  BY DEF Fail, Running, InScript
<1>2. /\ TypeOK /\ TidyScripts /\ DOMAIN box = Fields /\ line \in Nat /\ line >= 1
      /\ line <= Len(Current) /\ FilesStand /\ Len(job) \in Nat
  BY <1>1, JobTypes DEF ScriptsInv, FilesInv, TypeOK, Running
<1>3. errexit <=> Strict(cur)
  BY <1>1, LineIsCommand
<1>4. TidyScripts' /\ AtFirst' /\ \A i : Strict(i)' <=> Strict(i)
  BY <1>1, <1>2 DEF TidyScripts, InfosOf, AtFirst, Strict, Lenient
<1>5. CASE ~errexit
  <2>1. ~NoneIgnored'
    BY <1>1, <1>3, <1>4, <1>5 DEF NoneIgnored
  <2> QED BY <1>4, <2>1 DEF FilesInv, FilesStand
<1>6. CASE errexit
  <2>1. phase' = "failed"
    BY <1>6 DEF Fail
  <2>2. Asks' \subseteq Asks
    <3>1. Ahead' \subseteq Ahead
      BY <1>1, <2>1 DEF Ahead
    <3> QED BY <1>1, <1>2, <3>1, AsksStay
  <2>3. ASSUME NEW S \in Asks', Placed(S), NoneIgnored' PROVE box'.data = Given
    <3>1. S \in Asks /\ InOrder(S) /\ Sound(S)
      <4>1. S \in Asks /\ NoneIgnored
        BY <1>1, <1>4, <2>2, <2>3 DEF NoneIgnored
      <4>2. Sound(S)
        BY <1>2, <2>3, <4>1, AsksKnow DEF Sound
      <4> QED BY <1>1, <1>2, <2>3, <4>1, <4>2 DEF FilesStand
    <3>2. Standing(box, S) /\ LineIsSafe(box, S, Current, line) /\ box.data = Given
      BY <1>1, <3>1 DEF InOrder, Standing
    <3>3. CASE Current[line].op = "rm" /\ box' = RmIn(box, Current[line].at)
      <4>1. PICK T : Tidy(Current, T) /\ T \subseteq S
        BY <1>1, <1>2, <3>1, CurrentAsks
      <4>2. PICK t, n : t = Current /\ n = line
        OBVIOUS
      <4>3. /\ n \in Nat /\ Len(t) \in Nat /\ n <= Len(t) /\ t[n].op = "rm"
            /\ RootsAreShort(box, S, t, n) /\ TidyAt(t, n, T)
        <5>1. Len(t) \in Nat
          BY <4>1, <4>2, RowElements DEF Tidy
        <5>2. n \in 1..Len(t)
          BY <1>2, <4>2, <5>1
        <5> QED BY <1>2, <3>2, <3>3, <4>1, <4>2, <5>1, <5>2 DEF Tidy, LineIsSafe
      <4>4. PICK m \in S : t[n].at = Removed(m)
        BY <4>1, <4>3 DEF TidyAt, RmIsTidy
      <4>5. After(box, RmIn(box, t[n].at), S, t, n)
        BY <1>2, <3>1, <3>2, <4>3, <4>4, RmAfter
      <4> QED BY <3>3, <4>2, <4>5 DEF After, Standing
    <3>4. CASE box' = box
      BY <3>2, <3>4
    <3>5. CASE \E h : box' = [box EXCEPT !.have = h]
      BY <1>2, <3>2, <3>5 DEF Fields
    <3>6. \/ Current[line].op = "rm" /\ box' = RmIn(box, Current[line].at)
          \/ box' = box \/ \E h : box' = [box EXCEPT !.have = h]
      <4>1. CASE Current[line].op = "install"
        BY <1>1, <4>1 DEF Fails, Installed
      <4>2. CASE Current[line].op = "apt"
        BY <1>1, <4>2 DEF Fails, Installed
      <4>3. CASE Current[line].op = "rm"
        BY <1>1, <4>3 DEF Fails
      <4>4. CASE Current[line].op \notin {"install", "apt", "rm"}
        BY <1>1, <4>4 DEF Fails
      <4> QED BY <4>1, <4>2, <4>3, <4>4
    <3> QED BY <3>3, <3>4, <3>5, <3>6
  <2>4. FilesStand'
    BY <2>1, <2>3 DEF FilesStand
  <2> QED BY <1>4, <2>4 DEF FilesInv
<1> QED BY <1>5, <1>6

\* A step that leaves the container alone.
LEMMA QuietFiles ==
    ASSUME ScriptsInv, FilesInv, UNCHANGED <<job, script, box, bad>>, phase' # "init", Ahead' \subseteq Ahead,
           phase' \in {"pre", "job", "post", "end"} =>
              /\ phase \in {"pre", "job", "post", "end"}
              /\ \A S \in Asks : Sound(S) /\ InOrder(S) => InOrder(S)'
    PROVE  FilesInv'
<1>1. TypeOK /\ TidyScripts /\ FilesStand
  BY DEF ScriptsInv, FilesInv
<1>2. TidyScripts' /\ Asks' \subseteq Asks /\ (NoneIgnored' => NoneIgnored) /\ AtFirst'
  <2>1. TidyScripts' /\ Asks' \subseteq Asks /\ \A i : Strict(i)' <=> Strict(i)
    BY <1>1, AsksStay
  <2> QED BY <2>1 DEF NoneIgnored, AtFirst
<1>3. ASSUME NEW S \in Asks', Placed(S), NoneIgnored'
      PROVE  box'.data = Given /\ (phase' \in {"pre", "job", "post", "end"} => InOrder(S)')
  <2>1. S \in Asks /\ Sound(S)
    BY <1>1, <1>2, <1>3, AsksKnow DEF Sound
  <2>2. box.data = Given /\ (phase \in {"pre", "job", "post", "end"} => InOrder(S))
    BY <1>1, <1>2, <1>3, <2>1 DEF FilesStand
  <2> QED BY <2>1, <2>2
<1>4. FilesStand'
  BY <1>3 DEF FilesStand
<1> QED BY <1>2, <1>4 DEF FilesInv

\* At the end of a script all that has been asked for is in its place.
LEMMA AllInPlace ==
    ASSUME ScriptsInv, TidyScripts, phase = "pre", cur \in DOMAIN job, line > Len(Current), InSight
    PROVE  \A m \in AskedSet(cur) : HasAt(box, Local(Point(m)))
<1>1. TypeOK /\ InScript /\ LineInv
  BY DEF ScriptsInv, InScript
<1>2. Tidy(Current, InfosOf(cur)) /\ Len(Current) \in Nat
  <2>1. Tidy(Current, InfosOf(cur))
    BY DEF TidyScripts, Current
  <2> QED BY <2>1, RowElements DEF Tidy
<1>3. line - 1 = Len(Current) /\ cur \in Nat \ {0}
  <2>1. line \in 1..(Len(Current) + 1)
    BY <1>1 DEF LineInv, LinePlace
  <2>2. cur \in Nat \ {0}
    BY <1>1, JobTypes DEF TypeOK
  <2> QED BY <1>2, <2>1, <2>2
<1>4. \A m : InPlace(box, Current, line, m) => HasAt(box, Local(Point(m)))
  BY <1>1, <1>2 DEF InPlace, TypeOK
<1>5. ASSUME NEW m \in InfosOf(cur), Current # <<>> PROVE Made(Current, line, m)
  <2>1. PICK c \in ToSet(Current) : Makes(c, m)
    BY <1>5 DEF TidyScripts, Current, Brings
  <2>2. PICK k \in 1..Len(Current) : Current[k] = c
    BY <1>2, RowElements DEF Tidy
  <2> QED BY <1>2, <1>3, <2>1, <2>2 DEF Made
<1>6. \A m \in AskedSet(cur) : m \in AskedSet(cur - 1) \/ (Current # <<>> /\ m \in InfosOf(cur))
  BY <1>3, AskedOne DEF Current
<1> QED BY <1>4, <1>5, <1>6 DEF InSight

\* exit in a command of the user, or in the check of the release.
LEMMA ExitFiles ==
    ASSUME ScriptsInv, FilesInv, Exit \/ ExitWell PROVE FilesInv'
<1>1. /\ Running /\ InScript /\ UNCHANGED <<job, script, box, bad, cur>> /\ phase \in {"pre", "post"}
      /\ phase' \in {phase, "failed"}
  BY DEF Exit, ExitWell, Running, InScript
<1>2. phase' # "init" /\ Ahead' \subseteq Ahead
  <2>1. Len(job) \in Nat
    BY JobTypes DEF ScriptsInv, TypeOK
  <2> QED BY <1>1, <2>1 DEF Ahead
<1>3. CASE Exit
  <2>1. phase' = "failed"
    BY <1>3 DEF Exit
  <2> QED BY <1>1, <1>2, <2>1, QuietFiles
<1>4. CASE ExitWell
  <2>1. /\ phase' = phase /\ Current[line].op = "user" /\ line' = Len(Current) + 1
        /\ Current' = Current /\ InScript'
    BY <1>1, <1>4 DEF ExitWell, Current, InScript
  <2>2. ASSUME NEW S \in Asks, InOrder(S) PROVE InOrder(S)'
    <3>1. PICK T : Tidy(Current, T) /\ (phase = "pre" => T = InfosOf(cur))
      BY <1>1, CurrentAsks DEF FilesInv
    <3>2. PICK t, n, w : t = Current /\ n = line /\ w = box
      OBVIOUS
    <3>3. n \in 1..Len(t) /\ t[n].op = "user" /\ LineIsSafe(w, S, t, n) /\ Tidy(t, T)
      <4>1. line \in Nat \ {0} /\ line <= Len(Current)
        BY <1>1 DEF ScriptsInv, TypeOK, Running
      <4>2. Len(t) \in Nat
        BY <3>1, <3>2, RowElements DEF Tidy
      <4> QED BY <1>1, <2>1, <2>2, <3>1, <3>2, <4>1, <4>2 DEF InOrder
    <3>4. T = {} /\ LineIsSafe(w, S, t, Len(t) + 1)
      BY <3>3, ExitedLine
    <3>5. Standing(box, S)' /\ LineIsSafe(box, S, Current, line)'
      BY <1>1, <2>1, <2>2, <3>2, <3>4 DEF InOrder, Standing
    <3>6. phase' = "pre" /\ bad' = {} => InSight'
      <4> SUFFICES ASSUME phase' = "pre", bad' = {} PROVE InSight'
        OBVIOUS
      <4>1. InSight /\ InfosOf(cur)' = {}
        BY <1>1, <2>1, <2>2, <3>1, <3>4 DEF InOrder, InfosOf, AsksFor
      <4>2. AskedSet(cur - 1)' = AskedSet(cur - 1)
        BY <1>1 DEF AskedSet, InfosOf, AsksFor
      <4>3. \A m : InPlace(box, Current, line, m) => InPlace(box, Current, line, m)'
        BY <1>1, <2>1 DEF InPlace, HasAt
      <4> QED BY <4>1, <4>2, <4>3 DEF InSight
    <3> QED BY <2>1, <3>5, <3>6 DEF InOrder
  <2> QED BY <1>1, <1>2, <2>1, <2>2, QuietFiles
<1> QED BY <1>3, <1>4

\* The next script.
LEMMA EndScriptFiles ==
    ASSUME ScriptsInv, FilesInv, EndScript PROVE FilesInv'
<1>1. /\ InScript /\ UNCHANGED <<job, script, box, bad>> /\ phase \in {"pre", "post"}
      /\ line > Len(Current) /\ phase' \in {phase, "failed"} /\ (phase' = phase => status # "fail")
  BY DEF EndScript, InScript
<1>2. TypeOK /\ TidyScripts /\ LineInv /\ Len(job) \in Nat /\ DOMAIN job = 1..Len(job)
  BY <1>1, JobTypes DEF ScriptsInv, FilesInv, TypeOK
<1>3. CASE phase' = "failed"
  <2>1. phase' # "init" /\ Ahead' \subseteq Ahead
    BY <1>1, <1>3 DEF Ahead
  <2> QED BY <1>1, <1>3, <2>1, QuietFiles
<1>4. CASE phase' = phase
  <2>1. cur' = (IF phase = "pre" THEN cur + 1 ELSE cur - 1) /\ line' = 1
    BY <1>1, <1>4, Zenon DEF EndScript, NewShell
  <2>2. phase' # "init" /\ Ahead' \subseteq Ahead
    <3>1. CASE phase = "pre"
      <4>1. cur' = cur + 1 /\ cur \in Nat
        BY <1>1, <1>2, <2>1, <3>1 DEF InScript
      <4>2. \A k \in (cur + 1)..Len(job) : k \in cur..Len(job)
        BY <1>2, <4>1
      <4> QED BY <1>1, <1>4, <3>1, <4>1, <4>2 DEF Ahead
    <3>2. CASE phase = "post"
      BY <1>1, <1>4, <3>2 DEF Ahead
    <3> QED BY <1>1, <3>1, <3>2
  <2>3. ASSUME NEW S \in Asks, InOrder(S) PROVE InOrder(S)'
    <3>1. PICK t, w : t = Current /\ w = box
      OBVIOUS
    <3>2. Row(t) /\ line = Len(t) + 1
      <4>1. Row(t)
        BY <1>1, <1>2, <3>1, CurrentAsks DEF Tidy
      <4>2. Len(t) \in Nat /\ line \in 1..(Len(t) + 1)
        BY <1>2, <3>1, <4>1, RowElements DEF LineInv, LinePlace
      <4> QED BY <1>1, <3>1, <4>1, <4>2
    <3>3. Rootless(w, S)
      <4>1. LineIsSafe(w, S, t, Len(t) + 1)
        BY <1>1, <2>3, <3>1, <3>2 DEF InOrder
      <4> QED BY <3>2, <4>1, LastLine
    <3>4. Standing(box, S)' /\ Rootless(box, S)'
      BY <1>1, <2>3, <3>1, <3>3 DEF InOrder, Standing, Rootless, Rooted
    <3>5. InScript' => LineIsSafe(box, S, Current, line)'
      <4> SUFFICES ASSUME InScript' PROVE LineIsSafe(box, S, Current, line)'
        OBVIOUS
      <4>1. \E T : Tidy(Current', T)
        BY <1>1, <1>2, <1>4 DEF InScript, TidyScripts, Current
      <4>2. PICK u, T : u = Current' /\ Tidy(u, T)
        BY <4>1
      <4>3. LineIsSafe(w, S, u, 1)
        BY <3>3, <4>2, FirstLine
      <4> QED BY <1>1, <2>1, <3>1, <4>2, <4>3
    <3>6. phase' = "pre" /\ InScript' /\ bad' = {} => InSight'
      <4> SUFFICES ASSUME phase' = "pre", InScript', bad' = {} PROVE InSight'
        OBVIOUS
      <4>1. \A m \in AskedSet(cur) : HasAt(box, Local(Point(m)))
        <5>1. phase = "pre" /\ cur \in DOMAIN job /\ InSight
          BY <1>1, <1>4, <2>3 DEF InOrder, InScript
        <5> QED BY <1>1, <1>2, <5>1, AllInPlace
      <4>2. AskedSet(cur - 1)' = AskedSet(cur)
        <5>1. cur' - 1 = cur
          BY <1>1, <1>2, <1>4, <2>1 DEF InScript
        <5> QED BY <1>1, <5>1 DEF AskedSet, InfosOf, AsksFor
      <4>3. \A m \in AskedSet(cur) : InPlace(box, Current, line, m)'
        BY <1>1, <4>1 DEF InPlace, HasAt
      <4>4. \A m : ~Made(Current, line, m)'
        BY <2>1 DEF Made
      <4> QED BY <4>2, <4>3, <4>4 DEF InSight
    <3> QED BY <3>4, <3>5, <3>6 DEF InOrder
  <2> QED BY <1>1, <1>4, <2>2, <2>3, QuietFiles
<1> QED BY <1>1, <1>3, <1>4

\* The job, and the scripts after it.
LEMMA PhaseFiles ==
    ASSUME ScriptsInv, FilesInv, RunJob \/ EndJob \/ End PROVE FilesInv'
<1>1. /\ UNCHANGED <<job, script, box, bad>> /\ phase \in {"pre", "job", "post"}
      /\ phase' \in {"job", "post", "end"} /\ ~InScript
      /\ (phase' = "post" => line' = 1)
  BY Zenon DEF RunJob, EndJob, End, InScript, NewShell
<1>2. TidyScripts /\ Len(job) \in Nat
  BY JobTypes DEF ScriptsInv, FilesInv, TypeOK
<1>3. phase' # "init" /\ Ahead' \subseteq Ahead
  BY <1>1 DEF Ahead
<1>4. ASSUME NEW S \in Asks, InOrder(S) PROVE InOrder(S)'
  <2>1. Standing(box, S)' /\ Rootless(box, S)' /\ Rootless(box, S)
    BY <1>1, <1>4 DEF InOrder, Standing, Rootless, Rooted
  <2>2. InScript' => LineIsSafe(box, S, Current, line)'
    <3> SUFFICES ASSUME InScript' PROVE LineIsSafe(box, S, Current, line)'
      OBVIOUS
    <3>1. phase' = "post" /\ line' = 1
      BY <1>1 DEF InScript
    <3>2. Tidy(Current', {})
      BY <1>1, <1>2, <3>1 DEF InScript, TidyScripts, Current
    <3>3. PICK u, T, w : u = Current' /\ Tidy(u, T) /\ w = box
      BY <3>2
    <3>4. LineIsSafe(w, S, u, 1)
      BY <2>1, <3>3, FirstLine
    <3> QED BY <1>1, <3>1, <3>3, <3>4
  <2> QED BY <1>1, <2>1, <2>2 DEF InOrder
<1> QED BY <1>1, <1>3, <1>4, QuietFiles

\* Nothing happens.
LEMMA StutterFiles ==
    ASSUME FilesInv, UNCHANGED vars PROVE FilesInv'
<1>1. UNCHANGED <<job, phase, cur, script, line, box, bad>>
  BY DEF vars, runVars
<1>2. TidyScripts' /\ AtFirst'
  BY <1>1 DEF FilesInv, TidyScripts, InfosOf, AtFirst
<1>3. Asks' \subseteq Asks /\ \A i : Strict(i)' <=> Strict(i)
  <2>1. Ahead' \subseteq Ahead
    BY <1>1 DEF Ahead
  <2> QED BY <1>1, <2>1, AsksStay DEF FilesInv
<1>4. \A S : InOrder(S) => InOrder(S)'
  <2>1. Current' = Current /\ (InScript' <=> InScript)
    BY <1>1 DEF Current, InScript
  <2>2. (InSight' <=> InSight)
    BY <1>1, <2>1 DEF InSight, AskedSet, InfosOf, AsksFor, Made, InPlace, HasAt
  <2>3. \A S : /\ Standing(box, S)' <=> Standing(box, S)
               /\ Rootless(box, S)' <=> Rootless(box, S)
               /\ LineIsSafe(box, S, Current, line)' <=> LineIsSafe(box, S, Current, line)
    BY <1>1, <2>1
  <2> QED BY <1>1, <2>1, <2>2, <2>3 DEF InOrder
<1>5. FilesStand'
  BY <1>1, <1>3, <1>4 DEF FilesInv, FilesStand, NoneIgnored
<1> QED BY <1>2, <1>5 DEF FilesInv

\* The inductive invariant.
LEMMA FilesInvariant == Spec => []FilesInv
<1>1. Init => FilesInv
  BY InitFiles
<1>2. ScriptsInv /\ FilesInv /\ [Next]_vars => FilesInv'
  BY PreparationFiles, StartFiles, LineFiles, FailFiles, ExitFiles, EndScriptFiles, PhaseFiles,
     StutterFiles DEF Next
<1> QED BY <1>1, <1>2, ScriptsInvariant, PTL DEF Spec

-----------------------------------------------------------------------------
(* The theorems about mounts and files                                      *)

\* What the properties say of rows of mount infos, of the sets of them.
LEMMA AskedHasAll ==
    ASSUME TypeOK, NEW k \in 0..Len(job)
    PROVE  Row(Asked(k)) /\ ToSet(Asked(k)) = AskedSet(k)
<1>1. Len(job) \in Nat /\ DOMAIN job = 1..Len(job) /\ k \in Nat /\ \A i \in 1..k : i \in DOMAIN job
  BY JobTypes DEF TypeOK
<1> DEFINE q == [i \in 1..k |-> IF job[i].kind = "storage" /\ script["pre"][i] # <<>>
                                THEN Infos(Names(job[i].names)) ELSE <<>>]
           C == AskedSet(k)
<1>2. q = [i \in 1..k |-> q[i]] /\ Asked(k) = FlattenSeq(q)
  BY DEF Asked
<1>3. ASSUME NEW i \in 1..k
      PROVE  /\ Row(q[i])
             /\ script["pre"][i] # <<>> => ToSet(q[i]) = InfosOf(i)
             /\ script["pre"][i] = <<>> => ToSet(q[i]) = {}
  <2>1. Row(Infos(Names(job[i].names)))
    <3>1. job[i].names \in Seq(STRING)
      BY <1>1, JobTypes DEF TypeOK
    <3>2. Infos(Names(job[i].names)) \in Seq(MountInfo)
      BY <3>1, NamesTyped, InfosTyped
    <3> QED BY <3>2, RowOf
  <2>2. Row(<<>>) /\ ToSet(<<>>) = {}
    <3>1. Row(<<>>) /\ Len(<<>>) = 0
      BY ShortRows
    <3>2. PICK s : s = <<>>
      OBVIOUS
    <3>3. \A x \in ToSet(s) : \E j \in 1..Len(s) : s[j] = x
      BY <3>1, <3>2, RowElements
    <3>4. \A x : x \notin ToSet(s)
      BY <3>1, <3>2, <3>3
    <3> QED BY <3>1, <3>2, <3>4
  <2>3. CASE job[i].kind = "storage" /\ script["pre"][i] # <<>>
    BY <2>1, <2>3 DEF InfosOf, AsksFor
  <2>4. CASE ~(job[i].kind = "storage" /\ script["pre"][i] # <<>>)
    BY <2>2, <2>4 DEF InfosOf, AsksFor
  <2> QED BY <2>3, <2>4
<1>4. \A i \in 1..k : ToSet(q[i]) \subseteq C
  BY <1>3 DEF AskedSet
<1>5. \A x \in C : \E i \in 1..k : x \in ToSet(q[i])
  BY <1>3 DEF AskedSet
<1> HIDE DEF q, C
<1>6. \A i \in 1..k : ToSet(q[i]) \subseteq ToSet(FlattenSeq(q))
  BY <1>1, <1>2, <1>3, FlattenHasAll
<1>7. FlattenSeq(q) \in Seq(C)
  <2>1. \A i \in 1..k : q[i] \in Seq(C)
    <3> SUFFICES ASSUME NEW i \in 1..k PROVE q[i] \in Seq(C)
      OBVIOUS
    <3>1. q[i] \in Seq(ToSet(q[i])) /\ ToSet(q[i]) \subseteq C
      BY <1>3, <1>4 DEF Row
    <3> QED BY <3>1, SeqGrows
  <2> QED BY <1>1, <1>2, <2>1, FlattenTyped
<1>8. Row(FlattenSeq(q)) /\ ToSet(FlattenSeq(q)) \subseteq C
  BY <1>7, RowOf
<1> QED BY <1>2, <1>5, <1>6, <1>8 DEF C

\* Mount points that are well placed in a row are so in the set.
LEMMA WellIsPlaced ==
    ASSUME NEW infos, Row(infos), WellPlaced(infos) PROVE Placed(ToSet(infos))
<1>1. /\ \A x \in ToSet(infos) : \E i \in 1..Len(infos) : infos[i] = x
      /\ DOMAIN infos = 1..Len(infos)
  BY RowElements
<1> SUFFICES ASSUME NEW m \in ToSet(infos)
             PROVE  /\ \A o \in ToSet(infos) : o = m \/ Apart(Point(m), Point(o))
                    /\ \A s \in DOMAIN Type : Apart(Point(m), Tmp(s))
                    /\ \A l \in Given : ~Under(l, Local(Removed(m)))
  BY DEF Placed
<1>2. PICK i \in DOMAIN infos : infos[i] = m
  BY <1>1
<1>3. /\ \A j \in DOMAIN infos \ {i} : Apart(Norm[m.mountPoint], Norm[infos[j].mountPoint])
      /\ \A s \in DOMAIN Type : Apart(Norm[m.mountPoint], Tmp(s))
      /\ \A l \in Given : ~Under(l, <<"local", Removed(m)>>)
  BY <1>2 DEF WellPlaced
<1>4. ASSUME NEW o \in ToSet(infos), o # m PROVE Apart(Point(m), Point(o))
  <2>1. PICK j \in DOMAIN infos : infos[j] = o
    BY <1>1
  <2>2. j \in DOMAIN infos \ {i}
    BY <1>2, <1>4, <2>1
  <2> QED BY <1>3, <2>1, <2>2 DEF Point
<1> QED BY <1>3, <1>4 DEF Point, Local

\* What the table says when all is in its place.
LEMMA TableAsAsked ==
    ASSUME NEW S, Sound(S), Standing(box, S), Rootless(box, S),
           \A m \in S : HasAt(box, Local(Point(m)))
    PROVE  /\ \A m \in S : Resolve(box.table, Point(m)) = Target(m)
           /\ Visible = {Target(m) : m \in S}
<1>1. /\ Sited(Spots(S)) /\ Stands(box.table, Spots(S)) /\ Row(box.table)
      /\ \A m \in S : Point(m) \in Spots(S)
  BY SpotsSited, EntriesSay, SpotsDiffer DEF Stands
<1>2. \A i \in 1..Len(box.table) : \A m \in S : box.table[i].at = Local(Point(m)) =>
          box.table[i].to = Target(m) /\ (box.table[i].link <=> IsBlob(m.server))
  BY EntriesSay
<1>3. ASSUME NEW m \in S PROVE Resolve(box.table, Point(m)) = Target(m)
  <2>1. Resolve(box.table, Point(m)) = Follow(box.table, Local(Point(m)))
    BY <1>1, AtMountPoint
  <2>2. \E i \in 1..Len(box.table) : box.table[i].at = Local(Point(m))
    BY DEF HasAt
  <2>3. PICK i \in 1..Len(box.table) :
            box.table[i].at = Local(Point(m)) /\ Follow(box.table, Local(Point(m))) = box.table[i].to
    BY <1>1, <2>2, FollowSome
  <2> QED BY <1>2, <2>1, <2>3
<1>4. \A m : Target(m)[1] = m.server /\ <<m.server, <<>>>>[1] = m.server
  BY DEF Target
<1>5. /\ \A i \in 1..Len(box.table) : box.table[i] \in ToSet(box.table)
      /\ \A e \in ToSet(box.table) : \E i \in 1..Len(box.table) : box.table[i] = e
  BY <1>1, RowElements
<1>6. ASSUME NEW e \in ToSet(box.table), e.link \/ ~IsBlob(e.to[1])
      PROVE  \E m \in S : e.to = Target(m)
  <2>1. PICK i \in 1..Len(box.table) : box.table[i] = e
    BY <1>5
  <2>2. PICK o \in S : EntryOf(e, o)
    BY <2>1 DEF Standing
  <2>3. ~(e.at = Local(Tmp(o.server)) /\ ~IsBlob(o.server))
    BY <2>1 DEF Rootless, Rooted
  <2> QED BY <1>4, <1>6, <2>2, <2>3 DEF EntryOf
<1>7. ASSUME NEW m \in S
      PROVE  \E e \in ToSet(box.table) : (e.link \/ ~IsBlob(e.to[1])) /\ e.to = Target(m)
  <2>1. PICK i \in 1..Len(box.table) : box.table[i].at = Local(Point(m))
    BY DEF HasAt
  <2>2. box.table[i].to = Target(m) /\ (box.table[i].link <=> IsBlob(m.server))
    BY <1>2, <2>1
  <2>3. box.table[i].link \/ ~IsBlob(box.table[i].to[1])
    BY <1>4, <2>2
  <2> QED BY <1>5, <2>2, <2>3
<1>8. Visible = {Target(m) : m \in S}
  BY <1>6, <1>7 DEF Visible
<1> QED BY <1>3, <1>8

\* Whatever plugins there are, in any order, with any servers and mount points, no file
\* of the user is destroyed, unless failures were ignored or mount points are not well
\* placed (storage_helper.py 127-131, git/check_clone_dir.sh).
THEOREM FilesStay == Spec => []FilesAreKept
<1>1. ScriptsInv /\ FilesInv => FilesAreKept
  <2> SUFFICES ASSUME ScriptsInv, FilesInv, NoneIgnored, WellPlaced(Asked(Len(job)))
               PROVE  box.data = Given
    BY DEF FilesAreKept, NoneIgnored
  <2>1. TypeOK /\ Len(job) \in Nat
    BY JobTypes DEF ScriptsInv, TypeOK
  <2>2. Placed(AskedSet(Len(job)))
    <3>1. Row(Asked(Len(job))) /\ ToSet(Asked(Len(job))) = AskedSet(Len(job))
      BY <2>1, AskedHasAll
    <3>2. PICK s : s = Asked(Len(job))
      OBVIOUS
    <3>3. Placed(ToSet(s))
      BY <3>1, <3>2, WellIsPlaced
    <3> QED BY <3>1, <3>2, <3>3
  <2>3. AskedSet(Len(job)) \in Asks
    BY DEF Asks, Ahead
  <2> QED BY <2>2, <2>3 DEF FilesInv, FilesStand
<1> QED BY <1>1, ScriptsInvariant, FilesInvariant, PTL

\* When the script of a storage plugin has ended, whatever the servers and their types,
\* every directory asked for so far is at its mount point, and nothing else of a server
\* is in sight (storage_command_generator.py 44-98, storage_helper.py 108-254).
THEOREM MountsAsAsked == Spec => []MountedAsAsked
<1>1. ScriptsInv /\ FilesInv => MountedAsAsked
  <2> DEFINE target(m) == <<m.server, Render(m.path)>>
  <2> SUFFICES ASSUME ScriptsInv, FilesInv, phase = "pre", cur \in DOMAIN job, line > Len(Current),
                      bad = {}, WellPlaced(Asked(cur))
               PROVE  /\ \A m \in ToSet(Asked(cur)) : Resolve(box.table, Norm[m.mountPoint]) = target(m)
                      /\ Visible = {target(m) : m \in ToSet(Asked(cur))}
    BY DEF MountedAsAsked
  <2>1. /\ TypeOK /\ TidyScripts /\ Len(job) \in Nat /\ cur \in 1..Len(job) /\ InScript
    BY JobTypes DEF ScriptsInv, FilesInv, TypeOK, InScript
  <2>2. PICK S : S = AskedSet(cur)
    OBVIOUS
  <2>3. ToSet(Asked(cur)) = S /\ Row(Asked(cur))
    <3>1. cur \in 0..Len(job)
      BY <2>1
    <3> QED BY <2>1, <2>2, <3>1, AskedHasAll
  <2>4. Placed(S)
    <3>1. PICK s : s = Asked(cur)
      OBVIOUS
    <3>2. Placed(ToSet(s))
      BY <2>3, <3>1, WellIsPlaced
    <3> QED BY <2>3, <3>1, <3>2
  <2>5. S \in Asks
    <3>1. cur \in cur..Len(job)
      BY <2>1
    <3> QED BY <2>2, <3>1 DEF Asks, Ahead
  <2>6. Sound(S) /\ InOrder(S)
    <3>1. NoneIgnored
      BY DEF NoneIgnored
    <3>2. InOrder(S)
      BY <2>4, <2>5, <3>1 DEF FilesInv, FilesStand
    <3> QED BY <2>1, <2>4, <2>5, <3>2, AsksKnow DEF Sound
  <2>7. Standing(box, S) /\ LineIsSafe(box, S, Current, line) /\ InSight
    BY <2>1, <2>6 DEF InOrder
  <2>8. Rootless(box, S)
    <3>1. PICK t, w, n : t = Current /\ w = box /\ n = line
      OBVIOUS
    <3>2. Len(t) \in Nat /\ n \in Nat /\ ~(n <= Len(t)) /\ RootsAreShort(w, S, t, n)
      <4>1. Row(Current)
        BY <2>1, CurrentAsks DEF Tidy
      <4>2. Len(Current) \in Nat
        BY <4>1, RowElements
      <4> QED BY <2>1, <2>7, <3>1, <4>2 DEF TypeOK, LineIsSafe
    <3> QED BY <3>1, <3>2, NoRootNow
  <2>9. \A m \in S : HasAt(box, Local(Point(m)))
    BY <2>1, <2>2, <2>7, AllInPlace
  <2>10. /\ \A m \in S : Resolve(box.table, Point(m)) = Target(m)
         /\ Visible = {Target(m) : m \in S}
    BY <2>6, <2>7, <2>8, <2>9, TableAsAsked
  <2> QED BY <2>3, <2>10 DEF Point, Target
<1> QED BY <1>1, ScriptsInvariant, FilesInvariant, PTL
=============================================================================
