------------------------ MODULE InitContainer_proofs ------------------------
(***************************************************************************)
(* Proofs about InitContainer, for any number of plugins and executions:   *)
(* its types, the freshness of the work directory it hands to the task     *)
(* container, the order of the plugins, and that no log is lost.           *)
(***************************************************************************)
EXTENDS InitContainer, TLAPS

-----------------------------------------------------------------------------
(* The plugin loop: what one execution of initializer.py, begun in a        *)
(* directory without generated files, leaves there, for any number of      *)
(* plugins and any failure policies.                                       *)

NoFiles == script = NoScripts /\ calls = Empty

\* A list of kind k calls exactly the plugins before index m that have a
\* script in files, setup in ascending and teardown in descending order.
ListOK(k, list, files, m) ==
    /\ \A a \in DOMAIN list : list[a] < m /\ files[list[a]] # <<>>
    /\ \A i \in Plugins : i < m /\ files[i] # <<>> =>
         \E a \in DOMAIN list : list[a] = i
    /\ \A a, b \in DOMAIN list : a < b =>
         IF k = "pre" THEN list[a] < list[b] ELSE list[a] > list[b]

\* While initializer.py runs: scripts are written once and in order, the lists
\* tell of the plugins up to idx, and the files are written from the lists.
PluginInv ==
    /\ PluginTypeOK
    /\ step = "idle" => NoFiles
    /\ \A k \in Kinds, i \in Plugins :
         /\ script[k][i] \in {<<>>, <<run>>}
         /\ i > idx => script[k][i] = <<>>
         /\ step = "run" /\ i = idx => script[k][i] = <<>>
    /\ step \in {"run", "include"} => 
         \A k \in Kinds : ListOK(k, commands[k], script[k], idx)
    /\ step = "include" => idx <= N
    /\ step \in {"writePre", "writePost", "done"} => 
         \A k \in Kinds : ListOK(k, commands[k], script[k], N + 1)
    /\ calls["pre"]  = IF step \in {"writePost", "done"} THEN Lines("pre") ELSE <<>>
    /\ calls["post"] = IF step = "done" THEN Lines("post") ELSE <<>>

\* Append adds one element at the end, <<x>> \o s one at the head.
LEMMA AppendFacts ==
  ASSUME NEW S, NEW s \in Seq(S), NEW x \in S
  PROVE  /\ Append(s, x) \in Seq(S) /\ DOMAIN Append(s, x) = 1..(Len(s) + 1)
         /\ Append(s, x)[Len(s) + 1] = x
         /\ \A a \in 1..Len(s) : Append(s, x)[a] = s[a]
         /\ Len(s) \in Nat /\ DOMAIN s = 1..Len(s)
  OBVIOUS

LEMMA PrependFacts ==
  ASSUME NEW S, NEW s \in Seq(S), NEW x \in S
  PROVE  /\ <<x>> \o s \in Seq(S) /\ DOMAIN (<<x>> \o s) = 1..(Len(s) + 1)
         /\ (<<x>> \o s)[1] = x
         /\ \A a \in 2..(Len(s) + 1) : (<<x>> \o s)[a] = s[a - 1]
         /\ Len(s) \in Nat /\ DOMAIN s = 1..Len(s)
  OBVIOUS

LEMMA NoFilesInv ==
  ASSUME PluginTypeOK, NoFiles, step = "idle"
  PROVE  PluginInv
  BY DEF PluginInv, PluginTypeOK, NoFiles, NoScripts, Empty, Kinds

\* Including plugin x extends a list of the plugins before x to one of the
\* plugins up to x.
LEMMA IncludeList ==
  ASSUME NEW k \in Kinds, NEW x \in Plugins, NEW s \in Seq(Plugins), NEW files,
         ListOK(k, s, files, x),
         NEW t, t = IF files[x] = <<>> THEN s
                    ELSE IF k = "pre" THEN Append(s, x) ELSE <<x>> \o s
  PROVE  t \in Seq(Plugins) /\ ListOK(k, t, files, x + 1)
<1>1. /\ x \in Nat /\ Plugins \subseteq Nat
      /\ Len(s) \in Nat /\ DOMAIN s = 1..Len(s) /\ \A a \in DOMAIN s : s[a] \in Plugins
  BY NAssumption DEF Plugins
<1>2. \A a \in DOMAIN s : s[a] \in Nat /\ s[a] < x /\ files[s[a]] # <<>>
  BY <1>1 DEF ListOK
<1>3. \A i \in Plugins : i < x + 1 => i = x \/ i < x
  BY <1>1
<1>4. CASE files[x] = <<>>
  <2>1. t = s
    BY <1>4
  <2>2. \A i \in Plugins : i < x + 1 /\ files[i] # <<>> => i < x
    BY <1>3, <1>4
  <2>3. \A a \in DOMAIN s : s[a] < x + 1
    BY <1>1, <1>2
  <2> QED BY <1>2, <2>1, <2>2, <2>3 DEF ListOK
<1>5. CASE files[x] # <<>> /\ k = "pre"
  <2>2. /\ t \in Seq(Plugins) /\ DOMAIN t = 1..(Len(s) + 1) /\ t[Len(s) + 1] = x
        /\ \A a \in 1..Len(s) : t[a] = s[a]
    BY <1>5, AppendFacts
  <2>3. ASSUME NEW a \in DOMAIN t PROVE t[a] < x + 1 /\ files[t[a]] # <<>>
    <3>1. CASE a = Len(s) + 1
      BY <1>1, <1>5, <2>2, <3>1
    <3>2. CASE a \in 1..Len(s)
      BY <1>1, <1>2, <2>2, <3>2
    <3> QED BY <1>1, <2>2, <2>3, <3>1, <3>2
  <2>4. ASSUME NEW i \in Plugins, i < x + 1, files[i] # <<>>
        PROVE  \E a \in DOMAIN t : t[a] = i
    <3>1. CASE i = x
      BY <1>1, <2>2, <3>1, SMTT(40)
    <3>2. CASE i < x
      <4>1. PICK a \in DOMAIN s : s[a] = i
        BY <2>4, <3>2 DEF ListOK
      <4>2. a \in 1..Len(s) /\ a \in DOMAIN t
        BY <1>1, <2>2, <4>1
      <4> QED BY <2>2, <4>1, <4>2
    <3> QED BY <1>3, <2>4, <3>1, <3>2
  <2>5. ASSUME NEW a \in DOMAIN t, NEW b \in DOMAIN t, a < b PROVE t[a] < t[b]
    <3>1. a \in 1..Len(s) /\ t[a] = s[a] /\ s[a] < x
      BY <1>1, <1>2, <2>2, <2>5, SMTT(40)
    <3>2. CASE b = Len(s) + 1
      BY <2>2, <3>1, <3>2
    <3>3. CASE b \in 1..Len(s)
      BY <1>1, <1>5, <2>2, <2>5, <3>1, <3>3 DEF ListOK
    <3> QED BY <1>1, <2>2, <2>5, <3>2, <3>3
  <2> QED BY <1>5, <2>2, <2>3, <2>4, <2>5 DEF ListOK
<1>6. CASE files[x] # <<>> /\ k # "pre"
  <2>2. /\ t \in Seq(Plugins) /\ DOMAIN t = 1..(Len(s) + 1) /\ t[1] = x
        /\ \A a \in 2..(Len(s) + 1) : t[a] = s[a - 1]
    BY <1>6, PrependFacts
  <2>6. \A a \in DOMAIN t : a # 1 => a - 1 \in DOMAIN s /\ t[a] = s[a - 1]
    BY <1>1, <2>2
  <2>3. ASSUME NEW a \in DOMAIN t PROVE t[a] < x + 1 /\ files[t[a]] # <<>>
    <3>1. CASE a = 1
      BY <1>1, <1>6, <2>2, <3>1
    <3>2. CASE a # 1
      BY <1>1, <1>2, <2>6, <3>2
    <3> QED BY <3>1, <3>2
  <2>4. ASSUME NEW i \in Plugins, i < x + 1, files[i] # <<>>
        PROVE  \E a \in DOMAIN t : t[a] = i
    <3>1. CASE i = x
      BY <1>1, <2>2, <3>1
    <3>2. CASE i < x
      <4>1. PICK a \in DOMAIN s : s[a] = i
        BY <2>4, <3>2 DEF ListOK
      <4>2. a + 1 \in DOMAIN t /\ a + 1 # 1 /\ (a + 1) - 1 = a
        BY <1>1, <2>2, <4>1
      <4> QED BY <2>6, <4>1, <4>2
    <3> QED BY <1>3, <2>4, <3>1, <3>2
  <2>5. ASSUME NEW a \in DOMAIN t, NEW b \in DOMAIN t, a < b PROVE t[a] > t[b]
    <3>1. b # 1 /\ b - 1 \in DOMAIN s /\ t[b] = s[b - 1] /\ s[b - 1] < x
      BY <1>1, <1>2, <2>2, <2>5, <2>6
    <3>2. CASE a = 1
      BY <1>1, <1>2, <2>2, <3>1, <3>2
    <3>3. CASE a # 1
      <4>1. a - 1 \in DOMAIN s /\ t[a] = s[a - 1] /\ a - 1 < b - 1
        BY <1>1, <2>2, <2>5, <2>6, <3>3, SMTT(40)
      <4> QED BY <1>6, <3>1, <4>1 DEF ListOK
    <3> QED BY <3>2, <3>3
  <2> QED BY <1>6, <2>2, <2>3, <2>4, <2>5 DEF ListOK
<1> QED BY <1>4, <1>5, <1>6

\* The contents written to a file are pairs of this execution and a plugin.
LEMMA LinesType ==
  ASSUME PluginTypeOK, NEW k \in Kinds
  PROVE  /\ Lines(k) \in Seq(Nat \X Plugins) /\ <<>> \o Lines(k) = Lines(k)
         /\ DOMAIN Lines(k) = DOMAIN commands[k]
         /\ \A j \in DOMAIN commands[k] : Lines(k)[j] = <<run, commands[k][j]>>
<1>1. commands[k] \in Seq(Plugins) /\ run \in Nat
  BY DEF PluginTypeOK
<1>2. /\ Len(commands[k]) \in Nat /\ DOMAIN commands[k] = 1..Len(commands[k])
      /\ \A j \in 1..Len(commands[k]) : commands[k][j] \in Plugins
  BY <1>1
<1>3. Lines(k) \in Seq(Nat \X Plugins)
  BY <1>1, <1>2 DEF Lines
<1> QED BY <1>2, <1>3 DEF Lines

LEMMA PluginStepInv ==
  ASSUME PluginInv, PluginNext, UNCHANGED <<run, policy>>
  PROVE  PluginInv'
<1>1. /\ PluginTypeOK /\ N \in Nat /\ Plugins = 1..N /\ Kinds = {"pre", "post"}
      /\ run \in Nat /\ idx \in 1..(N + 1)
  BY NAssumption DEF PluginInv, PluginTypeOK, Plugins, Kinds
<1>2. CASE StartPlugins
  <2>1. NoFiles /\ step' \in {"run", "raised"} /\ idx' = 1 /\ commands' = Empty
        /\ UNCHANGED <<script, calls>>
    BY <1>2 DEF StartPlugins, PluginInv
  <2>2. PluginTypeOK'
    BY <1>1, <2>1 DEF PluginTypeOK, Empty, Steps
  <2>3. \A k \in Kinds : ListOK(k, commands'[k], script'[k], 1)
    BY <1>1, <2>1 DEF ListOK, Empty
  <2> QED BY <1>1, <2>1, <2>2, <2>3
          DEF PluginInv, NoFiles, NoScripts, Empty
<1>3. CASE RunPlugin
  <2>1. /\ step = "run" /\ idx \in Plugins /\ UNCHANGED <<idx, commands, calls>>
        /\ step' \in {"include", "raised"}
    BY <1>1, <1>3 DEF RunPlugin
  <2>2. \A k \in Kinds : script[k] \in [Plugins -> Seq(Nat)] /\ script[k][idx] = <<>>
    BY <2>1 DEF PluginInv, PluginTypeOK
  <2>3. \A k \in Kinds : script'[k] \in {script[k], [script[k] EXCEPT ![idx] = <<run>>]}
    <3>1. Append(<<>>, run) = <<run>> /\ <<run>> \in Seq(Nat)
      BY <1>1
    <3>2. CASE UNCHANGED script
      BY <3>2
    <3>3. CASE ~ UNCHANGED script
      <4>1. PICK written \in SUBSET Kinds : script' = [k \in Kinds |->
                IF k \in written THEN [script[k] EXCEPT ![idx] = Append(@, run)]
                                 ELSE script[k]]
        BY <1>3, <3>3 DEF RunPlugin
      <4>2. \A k \in Kinds : [script[k] EXCEPT ![idx] = Append(@, run)]
                            = [script[k] EXCEPT ![idx] = <<run>>]
        BY <2>2, <3>1
      <4> QED BY <4>1, <4>2
    <3> QED BY <3>2, <3>3
  <2>4. script' \in [Kinds -> [Plugins -> Seq(Nat)]]
    <3>1. \A k \in Kinds : script'[k] \in [Plugins -> Seq(Nat)]
      <4>1. <<run>> \in Seq(Nat)
        BY <1>1
      <4> QED BY <2>1, <2>2, <2>3, <4>1
    <3>2. script' = [k \in Kinds |-> script'[k]]
      BY <1>3 DEF RunPlugin, PluginInv, PluginTypeOK
    <3> QED BY <3>1, <3>2
  <2>5. PluginTypeOK'
    BY <1>1, <2>1, <2>4 DEF PluginTypeOK, Steps
  <2>6. \A k \in Kinds, i \in Plugins :
          /\ i # idx => script'[k][i] = script[k][i]
          /\ script'[k][idx] \in {<<>>, <<run>>}
    BY <2>1, <2>2, <2>3
  <2>7. \A k \in Kinds : ListOK(k, commands[k], script'[k], idx)
    <3> SUFFICES ASSUME NEW k \in Kinds PROVE ListOK(k, commands[k], script'[k], idx)
      OBVIOUS
    <3>1. ListOK(k, commands[k], script[k], idx) /\ commands[k] \in Seq(Plugins)
      BY <2>1 DEF PluginInv, PluginTypeOK
    <3>2. \A a \in DOMAIN commands[k] : commands[k][a] \in Plugins
      BY <3>1
    <3>3. \A i \in Plugins : i < idx => script'[k][i] = script[k][i]
      BY <1>1, <2>6
    <3>4. \A a \in DOMAIN commands[k] :
            commands[k][a] < idx /\ script[k][commands[k][a]] # <<>>
      BY <3>1 DEF ListOK
    <3>5. \A a \in DOMAIN commands[k] : script'[k][commands[k][a]] # <<>>
      BY <3>2, <3>3, <3>4
    <3> QED BY <3>1, <3>3, <3>4, <3>5 DEF ListOK
  <2>8. \A k \in Kinds, i \in Plugins :
          /\ script'[k][i] \in {<<>>, <<run>>}
          /\ i > idx => script'[k][i] = <<>>
    BY <1>1, <2>1, <2>6 DEF PluginInv
  <2> QED BY <1>1, <2>1, <2>5, <2>7, <2>8 DEF PluginInv
<1>4. CASE IncludePlugin
  <2>1. /\ step = "include" /\ step' = "run" /\ idx' = idx + 1 /\ idx \in Plugins
        /\ UNCHANGED <<script, calls>>
    BY <1>1, <1>4 DEF IncludePlugin, PluginInv
  <2>2. ASSUME NEW k \in Kinds
        PROVE  commands'[k] \in Seq(Plugins) /\ ListOK(k, commands'[k], script[k], idx + 1)
    <3>1. ListOK(k, commands[k], script[k], idx) /\ commands[k] \in Seq(Plugins)
      BY <2>1 DEF PluginInv, PluginTypeOK
    <3>2. commands'[k] = IF script[k][idx] = <<>> THEN commands[k]
             ELSE IF k = "pre" THEN Append(commands[k], idx) ELSE <<idx>> \o commands[k]
      <4>1. CASE k = "pre"
        BY <1>4, <4>1 DEF IncludePlugin, Exists
      <4>2. CASE k = "post"
        BY <1>4, <4>2 DEF IncludePlugin, Exists
      <4> QED BY <1>1, <2>2, <4>1, <4>2
    <3> HIDE DEF ListOK
    <3> QED BY <2>1, <3>1, <3>2, IncludeList
  <2>3. commands' = [k \in Kinds |-> commands'[k]]
    BY <1>1, <1>4 DEF IncludePlugin
  <2>4. PluginTypeOK'
    BY <1>1, <2>1, <2>2, <2>3 DEF PluginTypeOK, Steps
  <2>5. \A k \in Kinds, i \in Plugins : i >= idx + 1 => script[k][i] = <<>>
    BY <1>1, <2>1 DEF PluginInv
  <2> QED BY <1>1, <2>1, <2>2, <2>4, <2>5 DEF PluginInv
<1>5. CASE EndLoop
  <2>1. /\ step = "run" /\ step' = "writePre" /\ idx = N + 1
        /\ UNCHANGED <<idx, commands, script, calls>>
    BY <1>1, <1>5 DEF EndLoop
  <2>2. PluginTypeOK'
    BY <1>1, <2>1 DEF PluginTypeOK, Steps
  <2> QED BY <1>1, <2>1, <2>2 DEF PluginInv
<1>6. ASSUME NEW k \in Kinds, NEW from, NEW to, WriteCalls(k, from, to),
             <<k, from, to>> \in {<<"pre", "writePre", "writePost">>,
                                  <<"post", "writePost", "done">>}
      PROVE  PluginInv'
  <2>1. /\ step = from /\ step' = to /\ calls[k] = <<>>
        /\ UNCHANGED <<idx, commands, script>>
        /\ calls' = [calls EXCEPT ![k] = Lines(k)]
    BY <1>1, <1>6, LinesType DEF WriteCalls, PluginInv
  <2>2. Lines(k) \in Seq(Nat \X Plugins)
    BY <1>1, LinesType
  <2>3. PluginTypeOK'
    BY <1>1, <1>6, <2>1, <2>2 DEF PluginTypeOK, Steps
  <2>4. \A m \in Kinds : Lines(m)' = Lines(m)
    BY <2>1 DEF Lines
  <2>5. calls' \in [Kinds -> Seq(Nat \X Plugins)] /\ calls'[k] = Lines(k)
        /\ \A m \in Kinds : m # k => calls'[m] = calls[m]
    BY <1>1, <2>1, <2>2, <2>3 DEF PluginTypeOK
  <2>6. \A m \in Kinds : ListOK(m, commands'[m], script'[m], N + 1)
    BY <1>6, <2>1 DEF PluginInv
  <2>7. /\ step' \in {"writePost", "done"} /\ run' = run
        /\ \A m \in Kinds, i \in Plugins : script'[m][i] \in {<<>>, <<run>>}
        /\ \A m \in Kinds, i \in Plugins : i > idx' => script'[m][i] = <<>>
    BY <1>6, <2>1 DEF PluginInv
  <2>8. /\ calls'["pre"]  = IF step' \in {"writePost", "done"} THEN Lines("pre")' ELSE <<>>
        /\ calls'["post"] = IF step' = "done" THEN Lines("post")' ELSE <<>>
    <3>1. CASE k = "pre"
      <4>1. step = "writePre" /\ step' = "writePost"
        BY <1>6, <2>1, <3>1
      <4> QED BY <1>1, <2>4, <2>5, <3>1, <4>1 DEF PluginInv
    <3>2. CASE k = "post"
      <4>1. step = "writePost" /\ step' = "done"
        BY <1>6, <2>1, <3>2
      <4> QED BY <1>1, <2>4, <2>5, <3>2, <4>1 DEF PluginInv
    <3> QED BY <1>1, <3>1, <3>2
  <2> QED BY <2>3, <2>6, <2>7, <2>8 DEF PluginInv
<1> QED BY <1>1, <1>2, <1>3, <1>4, <1>5, <1>6
        DEF PluginNext, WritePre, WritePost

-----------------------------------------------------------------------------
(* The init container                                                       *)

Empties == user = <<>> /\ NoFiles

Before    == {"chmod", "findLogs", "moveLogs", "clean"}
Early     == {"barrier", "retriever", "errorSpec", "env", "config"}
Late      == {"port", "image", "render", "done"}
Installed == Early \cup {"plugins"} \cup Late

\* Until it is removed, what is in the work directory is from an earlier
\* execution; once all is installed, from this one.  The generated files are
\* in runtime.d: there are none right after it was installed, and then only
\* those that the plugin stage and the last stage make.
WorkInv ==
    /\ run # 0
    /\ \A e \in Image : entries[e] <= run
    /\ entries["runtime.d"] = 0 => Empties
    /\ pc \in Before => \A e \in Image : entries[e] < run
    /\ pc \in Before \cup Early \cup {"install"} => step = "idle"
    /\ pc = "install" /\ entries["runtime.d"] = run => Empties
    /\ pc \in Installed => \A e \in Image : entries[e] = run
    /\ pc \in Early => Empties
    /\ pc \in {"plugins", "port", "image", "render"} => user = <<>>
    /\ pc \in {"plugins"} \cup Late => PluginInv
    /\ pc \in Late => step = "done"
    /\ pc = "done" => user = <<run>>

\* Logs are moved into a directory made for them, and the log directory is
\* empty from then on until the barrier runs.
LogInv ==
    /\ \A d \in DirNames \ preDirs, f \in LogNames : prelog[d][f] = {}
    /\ pc = "moveLogs" => preDir \in preDirs /\
         \A f \in LogNames : logs[f] # {} => prelog[preDir][f] = {}
    /\ pc \in {"clean", "install", "barrier"} =>
         \A f \in LogNames : logs[f] = {}

InitInv == TypeOK /\ WorkInv /\ LogInv

LEMMA InitInitInv == Init => InitInv
<1> SUFFICES ASSUME Init PROVE InitInv
  OBVIOUS
<1>1. PluginTypeOK
  BY NAssumption DEF Init, PluginInitState, PluginTypeOK, Empty, NoScripts, Plugins,
                     Steps
<1>2. TypeOK
  <2>1. gang \in BOOLEAN /\ pc \in Stages /\ exit \in 0..NoExit
    BY DEF Init, Stages, SimpleStages, NoExit
  <2>2. failure \in [stage : Stages \cup {"none"}, status : Nat]
    BY DEF Init
  <2>3. /\ entries \in [Image -> Nat] /\ user \in Seq(Nat)
        /\ logs \in [LogNames -> SUBSET Nat]
        /\ preDirs \subseteq DirNames /\ preDir \in DirNames
        /\ prelog \in [DirNames -> [LogNames -> SUBSET Nat]]
    BY DEF Init
  <2> QED BY <1>1, <2>1, <2>2, <2>3 DEF TypeOK
<1>3. WorkInv
  BY DEF Init, PluginInitState, WorkInv, Empties, NoFiles, Before, Early, Late,
         Installed, Image
<1>4. LogInv
  BY DEF Init, LogInv
<1> QED BY <1>2, <1>3, <1>4 DEF InitInv

\* A stage that fails ends the container with a status of eight bits.
LEMMA FailType ==
  ASSUME NEW stage \in Stages, NEW status \in 0..255, Fail(stage, status)
  PROVE  /\ pc' = "failed" /\ pc' \in Stages /\ exit' \in 0..NoExit
         /\ failure' \in [stage : Stages \cup {"none"}, status : Nat]
<1>1. ExitCode(stage, status) \in 0..NoExit
  BY DEF ExitCode, NoExit
<1> QED BY <1>1 DEF Fail, Stages

LEMMA RunStageInv ==
  ASSUME InitInv, NEW stage \in SimpleStages, RunStage(stage)
  PROVE  InitInv'
<1>1. /\ pc = stage /\ UNCHANGED <<run, gang, policy, pluginVars, fileVars, logVars>>
      /\ stage \in Stages /\ TypeOK /\ WorkInv /\ LogInv
  BY DEF RunStage, Stages, InitInv
<1>2. (Empties' <=> Empties) /\ (PluginInv' <=> PluginInv) /\ (PluginTypeOK' <=> PluginTypeOK)
  BY <1>1 DEF pluginVars, fileVars, Empties, NoFiles, PluginInv, PluginTypeOK, Exists,
              Lines
<1>3. CASE Advance(stage)
  <2>1. /\ pc' = After(stage) /\ pc' \in Stages /\ UNCHANGED <<failure, exit>>
        /\ \/ stage = "chmod" /\ pc' = "findLogs"
           \/ stage \in Early /\ pc' \in Early \ {"barrier"}
           \/ stage = "config" /\ pc' = "plugins"
           \/ stage \in {"port", "image"} /\ pc' \in {"image", "render"}
    BY <1>3 DEF Advance, After, Stages, SimpleStages, Early, Late
  <2>2. TypeOK'
    BY <1>1, <1>2, <2>1 DEF TypeOK, fileVars, logVars
  <2>3. LogInv'
    BY <1>1, <2>1 DEF LogInv, logVars, Early
  <2>4. stage = "config" => PluginInv /\ user = <<>>
    BY <1>1, NoFilesInv DEF WorkInv, Early, Before, Empties, TypeOK
  <2>5. WorkInv'
    <3>1. UNCHANGED <<run, step, entries, user>>
      BY <1>1 DEF pluginVars, fileVars
    <3>2. CASE stage = "chmod" \/ (stage \in Early /\ pc' # "plugins")
      BY <1>1, <1>2, <2>1, <3>1, <3>2 DEF WorkInv, Before, Early, Late, Installed
    <3>3. CASE stage = "config"
      BY <1>1, <1>2, <2>1, <2>4, <3>1, <3>3 DEF WorkInv, Before, Early, Late, Installed
    <3>4. CASE stage \in {"port", "image"}
      BY <1>1, <1>2, <2>1, <3>1, <3>4 DEF WorkInv, Before, Early, Late, Installed
    <3> QED BY <2>1, <3>2, <3>3, <3>4 DEF Early
  <2> QED BY <2>2, <2>3, <2>5 DEF InitInv
<1>4. ASSUME NEW status \in Statuses(stage), Fail(stage, status) PROVE InitInv'
  <2>1. status \in 0..255
    BY DEF Statuses
  <2>2. /\ pc' = "failed" /\ pc' \in Stages /\ exit' \in 0..NoExit
        /\ failure' \in [stage : Stages \cup {"none"}, status : Nat]
    BY <1>1, <1>4, <2>1, FailType
  <2>3. TypeOK'
    BY <1>1, <1>2, <2>2 DEF TypeOK, fileVars, logVars
  <2>4. WorkInv' /\ LogInv'
    BY <1>1, <1>2, <2>2
       DEF WorkInv, LogInv, Before, Early, Late, Installed, pluginVars, fileVars, logVars
  <2> QED BY <2>3, <2>4 DEF InitInv
<1> QED BY <1>3, <1>4 DEF RunStage

LEMMA FindLogsInv ==
  ASSUME InitInv, FindLogs
  PROVE  InitInv'
<1>1. /\ pc = "findLogs" /\ pc' \in {"clean", "moveLogs"} /\ TypeOK /\ WorkInv /\ LogInv
      /\ UNCHANGED <<run, gang, policy, pluginVars, failure, exit, fileVars, logs, prelog>>
  BY DEF FindLogs, InitInv
<1>2. (Empties' <=> Empties) /\ (PluginTypeOK' <=> PluginTypeOK)
  BY <1>1 DEF pluginVars, fileVars, Empties, NoFiles, PluginTypeOK
<1>3. preDirs' \subseteq DirNames /\ preDir' \in DirNames /\ preDirs \subseteq preDirs'
  BY <1>1 DEF FindLogs, TypeOK
<1>4. TypeOK'
  BY <1>1, <1>2, <1>3 DEF TypeOK, Stages, fileVars
<1>5. WorkInv'
  BY <1>1, <1>2 DEF WorkInv, Before, Early, Late, Installed, pluginVars, fileVars
<1>6. LogInv'
  <2>1. CASE pc' = "clean"
    BY <1>1, <1>3, <2>1 DEF LogInv, FindLogs
  <2>2. CASE pc' = "moveLogs"
    <3>1. preDir' \in DirNames \ preDirs /\ preDir' \in preDirs'
      BY <2>2 DEF FindLogs
    <3> QED BY <1>1, <1>3, <2>2, <3>1 DEF LogInv
  <2> QED BY <1>1, <2>1, <2>2
<1> QED BY <1>4, <1>5, <1>6 DEF InitInv

LEMMA MoveLogInv ==
  ASSUME InitInv, MoveLog
  PROVE  InitInv'
<1>1. /\ pc = "moveLogs" /\ pc' \in {"clean", "moveLogs"} /\ TypeOK /\ WorkInv /\ LogInv
      /\ UNCHANGED <<run, gang, policy, pluginVars, failure, exit, fileVars, preDirs,
                     preDir>>
  BY DEF MoveLog, InitInv
<1>2. (Empties' <=> Empties) /\ (PluginTypeOK' <=> PluginTypeOK)
  BY <1>1 DEF pluginVars, fileVars, Empties, NoFiles, PluginTypeOK
<1>3. ASSUME NEW f \in LogNames, logs[f] # {},
             prelog' = [prelog EXCEPT ![preDir][f] = logs[f]],
             logs' = [logs EXCEPT ![f] = {}], UNCHANGED pc
      PROVE  InitInv'
  <2>1. /\ logs' \in [LogNames -> SUBSET Nat]
        /\ prelog' \in [DirNames -> [LogNames -> SUBSET Nat]]
    BY <1>1, <1>3 DEF TypeOK
  <2>2. TypeOK'
    BY <1>1, <1>2, <1>3, <2>1 DEF TypeOK, fileVars
  <2>3. WorkInv'
    BY <1>1, <1>2, <1>3 DEF WorkInv, Before, Early, Late, Installed, pluginVars, fileVars
  <2>4. LogInv'
    BY <1>1, <1>3 DEF LogInv, TypeOK
  <2> QED BY <2>2, <2>3, <2>4 DEF InitInv
<1>4. ASSUME \A f \in LogNames : logs[f] = {}, pc' = "clean", UNCHANGED <<prelog, logs>>
      PROVE  InitInv'
  <2>1. TypeOK'
    BY <1>1, <1>2, <1>4 DEF TypeOK, fileVars, Stages
  <2>2. WorkInv'
    BY <1>1, <1>2, <1>4 DEF WorkInv, Before, Early, Late, Installed, pluginVars, fileVars
  <2>3. LogInv'
    BY <1>1, <1>4 DEF LogInv
  <2> QED BY <2>1, <2>2, <2>3 DEF InitInv
<1> QED BY <1>3, <1>4 DEF MoveLog

LEMMA CleanInv ==
  ASSUME InitInv, Clean
  PROVE  InitInv'
<1>1. /\ pc = "clean" /\ TypeOK /\ WorkInv /\ LogInv
      /\ UNCHANGED <<run, gang, policy, step, idx, commands, failure, exit, logVars>>
  BY DEF Clean, InitInv
<1>2. CASE pc' = "install" /\ UNCHANGED <<entries, user, script, calls>>
  <2>1. (Empties' <=> Empties) /\ (PluginTypeOK' <=> PluginTypeOK)
    BY <1>1, <1>2 DEF Empties, NoFiles, PluginTypeOK
  <2>2. TypeOK'
    BY <1>1, <1>2, <2>1 DEF TypeOK, logVars, Stages
  <2>3. WorkInv'
    BY <1>1, <1>2, <2>1 DEF WorkInv, Before, Early, Late, Installed, Image, TypeOK
  <2>4. LogInv'
    BY <1>1, <1>2 DEF LogInv, logVars
  <2> QED BY <2>2, <2>3, <2>4 DEF InitInv
<1>3. ASSUME NEW e \in Image, entries' = [entries EXCEPT ![e] = 0], UNCHANGED pc,
             IF e = "runtime.d"
                THEN user' = <<>> /\ script' = NoScripts /\ calls' = Empty
                ELSE UNCHANGED <<user, script, calls>>
      PROVE  InitInv'
  <2>1. Empties' \/ (e # "runtime.d" /\ (Empties' <=> Empties))
    BY <1>3 DEF Empties, NoFiles
  <2>2. /\ user' \in Seq(Nat) /\ script' \in [Kinds -> [Plugins -> Seq(Nat)]]
        /\ calls' \in [Kinds -> Seq(Nat \X Plugins)]
    <3>1. <<>> \in Seq(Nat) /\ <<>> \in Seq(Nat \X Plugins)
      OBVIOUS
    <3>2. NoScripts \in [Kinds -> [Plugins -> Seq(Nat)]]
      BY <3>1 DEF NoScripts
    <3>3. Empty \in [Kinds -> Seq(Nat \X Plugins)]
      BY <3>1 DEF Empty
    <3> QED BY <1>1, <1>3, <3>1, <3>2, <3>3 DEF TypeOK, PluginTypeOK
  <2>3. TypeOK'
    BY <1>1, <1>3, <2>2 DEF TypeOK, PluginTypeOK, logVars
  <2>4. WorkInv'
    BY <1>1, <1>3, <2>1 DEF WorkInv, Before, Early, Late, Installed, Image, TypeOK, PluginTypeOK
  <2>5. LogInv'
    BY <1>1, <1>3 DEF LogInv, logVars
  <2> QED BY <2>3, <2>4, <2>5 DEF InitInv
<1> QED BY <1>2, <1>3 DEF Clean

LEMMA InstallInv ==
  ASSUME InitInv, Install
  PROVE  InitInv'
<1>1. /\ pc = "install" /\ TypeOK /\ WorkInv /\ LogInv
      /\ UNCHANGED <<run, gang, policy, pluginVars, user, logVars>>
      /\ run \in Nat
  BY DEF Install, InitInv, TypeOK, PluginTypeOK
<1>2. (Empties' <=> Empties) /\ (PluginTypeOK' <=> PluginTypeOK)
  BY <1>1 DEF Empties, NoFiles, PluginTypeOK, pluginVars
<1>3. ASSUME NEW e \in Image, entries[e] = 0, entries' = [entries EXCEPT ![e] = run],
             UNCHANGED <<pc, failure, exit>>
      PROVE  InitInv'
  <2>1. TypeOK'
    BY <1>1, <1>2, <1>3 DEF TypeOK, logVars
  <2>2. WorkInv'
    BY <1>1, <1>2, <1>3
       DEF WorkInv, Before, Early, Late, Installed, Image, TypeOK, pluginVars
  <2>3. LogInv'
    BY <1>1, <1>3 DEF LogInv, logVars
  <2> QED BY <2>1, <2>2, <2>3 DEF InitInv
<1>4. ASSUME \A e \in Image : entries[e] = run, pc' = First,
             UNCHANGED <<failure, exit, entries>>
      PROVE  InitInv'
  <2>1. pc' \in Stages /\ pc' \in {"barrier", "retriever"}
    BY <1>4 DEF First, Stages, SimpleStages
  <2>2. TypeOK'
    BY <1>1, <1>2, <1>4, <2>1 DEF TypeOK, logVars
  <2>3. WorkInv'
    BY <1>1, <1>2, <1>4, <2>1
       DEF WorkInv, Before, Early, Late, Installed, Image, pluginVars
  <2>4. LogInv'
    BY <1>1, <2>1 DEF LogInv, logVars
  <2> QED BY <2>2, <2>3, <2>4 DEF InitInv
<1>5. ASSUME Fail("install", 1), UNCHANGED entries PROVE InitInv'
  <2>1. /\ pc' = "failed" /\ pc' \in Stages /\ exit' \in 0..NoExit
        /\ failure' \in [stage : Stages \cup {"none"}, status : Nat]
    BY <1>5, FailType DEF Stages
  <2>2. TypeOK'
    BY <1>1, <1>2, <1>5, <2>1 DEF TypeOK, logVars
  <2>3. WorkInv' /\ LogInv'
    BY <1>1, <1>2, <1>5, <2>1
       DEF WorkInv, LogInv, Before, Early, Late, Installed, pluginVars, logVars
  <2> QED BY <2>2, <2>3 DEF InitInv
<1> QED BY <1>3, <1>4, <1>5 DEF Install

LEMMA RunBarrierInv ==
  ASSUME InitInv, RunBarrier
  PROVE  InitInv'
<1>1. /\ pc = "barrier" /\ TypeOK /\ WorkInv /\ LogInv /\ run \in Nat
      /\ UNCHANGED <<run, gang, policy, pluginVars, fileVars, preDirs, preDir, prelog>>
      /\ logs' = [logs EXCEPT !["barrier.log"] = {run}]
  BY DEF RunBarrier, InitInv, TypeOK, PluginTypeOK
<1>2. /\ (Empties' <=> Empties) /\ (PluginTypeOK' <=> PluginTypeOK)
      /\ UNCHANGED <<run, step, entries, user>>
  BY <1>1 DEF Empties, NoFiles, PluginTypeOK, pluginVars, fileVars
<1>3. logs' \in [LogNames -> SUBSET Nat]
  BY <1>1 DEF TypeOK
<1>4. /\ pc' \in {"errorSpec", "failed"} /\ pc' \in Stages /\ exit' \in 0..NoExit
      /\ failure' \in [stage : Stages \cup {"none"}, status : Nat]
  <2>1. CASE Advance("barrier")
    BY <1>1, <2>1 DEF Advance, After, Stages, SimpleStages, TypeOK
  <2>2. ASSUME NEW status \in {1, 137, 200, 201, 210}, Fail("barrier", status)
        PROVE  /\ pc' = "failed" /\ pc' \in Stages /\ exit' \in 0..NoExit
               /\ failure' \in [stage : Stages \cup {"none"}, status : Nat]
    BY <2>2, FailType DEF Stages
  <2> QED BY <2>1, <2>2 DEF RunBarrier
<1>5. TypeOK'
  BY <1>1, <1>2, <1>3, <1>4 DEF TypeOK, fileVars
<1>6. WorkInv' /\ LogInv'
  BY <1>1, <1>2, <1>4 DEF WorkInv, LogInv, Before, Early, Late, Installed
<1> QED BY <1>5, <1>6 DEF InitInv

LEMMA RunInitializerInv ==
  ASSUME InitInv, RunInitializer
  PROVE  InitInv'
<1>1. /\ pc = "plugins" /\ TypeOK /\ WorkInv /\ LogInv /\ PluginInv
      /\ UNCHANGED <<run, gang, policy, fileVars, logVars, entries, user>>
      /\ entries["runtime.d"] = run /\ run # 0
  BY DEF RunInitializer, InitInv, WorkInv, Installed, Image, fileVars
<1>2. LogInv' \/ pc' \notin {"plugins", "port", "failed"}
  BY <1>1 DEF LogInv, logVars
<1>3. CASE PluginNext /\ UNCHANGED <<pc, failure, exit>>
  <2>1. PluginInv'
    BY <1>1, <1>3, PluginStepInv
  <2>2. TypeOK'
    BY <1>1, <1>3, <2>1 DEF TypeOK, PluginInv, fileVars, logVars
  <2>3. WorkInv'
    BY <1>1, <1>3, <2>1 DEF WorkInv, Before, Early, Late, Installed, Image
  <2> QED BY <1>1, <1>2, <1>3, <2>2, <2>3 DEF InitInv
<1>4. ASSUME UNCHANGED pluginVars,
             pc' = "failed" \/ (pc' = "port" /\ step = "done"), pc' \in Stages,
             exit' \in 0..NoExit,
             failure' \in [stage : Stages \cup {"none"}, status : Nat]
      PROVE  InitInv'
  <2>1. /\ (PluginInv' <=> PluginInv) /\ (PluginTypeOK' <=> PluginTypeOK)
        /\ step' = step
    BY <1>1, <1>4 DEF pluginVars, PluginInv, PluginTypeOK, NoFiles, Lines
  <2>2. TypeOK'
    BY <1>1, <1>4, <2>1 DEF TypeOK, fileVars, logVars
  <2>3. WorkInv'
    BY <1>1, <1>4, <2>1 DEF WorkInv, Before, Early, Late, Installed, Image
  <2> QED BY <1>2, <1>4, <2>2, <2>3 DEF InitInv
<1>5. CASE step = "done" /\ Advance("plugins") /\ UNCHANGED pluginVars
  BY <1>1, <1>4, <1>5 DEF Advance, After, Stages, SimpleStages, TypeOK
<1>6. ASSUME NEW status \in {1, 137}, Fail("plugins", status), UNCHANGED pluginVars
      PROVE  InitInv'
  BY <1>4, <1>6, FailType DEF Stages
<1> QED BY <1>3, <1>5, <1>6 DEF RunInitializer

LEMMA RenderInv ==
  ASSUME InitInv, RenderUserCommand
  PROVE  InitInv'
<1>1. /\ pc = "render" /\ TypeOK /\ WorkInv /\ LogInv /\ PluginInv /\ step = "done"
      /\ UNCHANGED <<run, gang, policy, pluginVars, entries, logVars>>
      /\ entries["runtime.d"] = run /\ run # 0 /\ run \in Nat /\ user = <<>>
  BY DEF RenderUserCommand, InitInv, WorkInv, Installed, Late, Image, TypeOK, PluginTypeOK
<1>2. /\ (PluginInv' <=> PluginInv) /\ (PluginTypeOK' <=> PluginTypeOK)
      /\ step' = step
  BY <1>1 DEF pluginVars, PluginInv, PluginTypeOK, NoFiles, Lines
<1>3. /\ \/ pc' = "done" /\ user' = <<run>>
         \/ pc' = "failed" /\ user' = user
      /\ pc' \in Stages /\ exit' \in 0..NoExit
      /\ failure' \in [stage : Stages \cup {"none"}, status : Nat]
  <2>1. CASE user' = Append(user, run) /\ Succeed
    BY <1>1, <2>1 DEF Succeed, Stages, TypeOK, NoExit
  <2>2. ASSUME NEW status \in Statuses("render"), Fail("render", status)
        PROVE  /\ pc' = "failed" /\ pc' \in Stages /\ exit' \in 0..NoExit
               /\ failure' \in [stage : Stages \cup {"none"}, status : Nat]
    BY <2>2, FailType DEF Stages, Statuses
  <2> QED BY <2>1, <2>2 DEF RenderUserCommand
<1>4. user' \in Seq(Nat)
  <2>1. <<run>> \in Seq(Nat) /\ user \in Seq(Nat)
    BY <1>1 DEF TypeOK
  <2> QED BY <1>3, <2>1
<1>5. TypeOK'
  BY <1>1, <1>2, <1>3, <1>4 DEF TypeOK, logVars
<1>6. WorkInv'
  BY <1>1, <1>2, <1>3 DEF WorkInv, Before, Early, Late, Installed, Image
<1>7. LogInv'
  BY <1>1, <1>3 DEF LogInv, logVars
<1> QED BY <1>5, <1>6, <1>7 DEF InitInv

LEMMA RunTaskInv ==
  ASSUME InitInv, RunTask
  PROVE  InitInv'
<1>1. /\ pc = "done" /\ pc' = pc /\ TypeOK /\ WorkInv /\ LogInv /\ run \in Nat
      /\ UNCHANGED <<run, gang, policy, pluginVars, failure, exit, fileVars, preDirs, preDir,
                     prelog, entries, user>>
  BY DEF RunTask, InitInv, TypeOK, PluginTypeOK, fileVars
<1>2. /\ (PluginInv' <=> PluginInv) /\ (PluginTypeOK' <=> PluginTypeOK)
      /\ (Empties' <=> Empties) /\ step' = step
  BY <1>1 DEF pluginVars, PluginInv, PluginTypeOK, NoFiles, Lines, Empties
<1>3. logs' \in [LogNames -> SUBSET Nat]
  BY <1>1 DEF TypeOK, RunTask
<1>4. TypeOK'
  BY <1>1, <1>2, <1>3 DEF TypeOK
<1>5. WorkInv'
  BY <1>1, <1>2 DEF WorkInv, Before, Early, Late, Installed
<1>6. LogInv'
  BY <1>1 DEF LogInv
<1> QED BY <1>4, <1>5, <1>6 DEF InitInv

LEMMA RerunInv ==
  ASSUME InitInv, Rerun
  PROVE  InitInv'
<1>1. /\ pc' = "chmod" /\ step' = "idle" /\ run' = run + 1 /\ run \in Nat
      /\ TypeOK /\ WorkInv /\ LogInv /\ exit' = NoExit
      /\ UNCHANGED <<gang, policy, idx, commands, script, calls, failure, fileVars,
                     logVars, entries, user>>
  BY DEF Rerun, InitInv, TypeOK, PluginTypeOK, fileVars
<1>2. PluginTypeOK' /\ (Empties' <=> Empties)
  BY <1>1 DEF TypeOK, PluginTypeOK, Steps, Empties, NoFiles
<1>3. TypeOK'
  BY <1>1, <1>2 DEF TypeOK, Stages, SimpleStages, logVars, NoExit
<1>4. WorkInv'
  BY <1>1, <1>2 DEF WorkInv, Before, Early, Late, Installed, TypeOK
<1>5. LogInv'
  BY <1>1 DEF LogInv, logVars
<1> QED BY <1>3, <1>4, <1>5 DEF InitInv

\* Every step preserves the invariant.
LEMMA InitStepInv == InitInv /\ [Next]_vars => InitInv'
<1> SUFFICES ASSUME InitInv, [Next]_vars PROVE InitInv'
  OBVIOUS
<1>1. CASE UNCHANGED vars
  <2>1. /\ UNCHANGED <<run, gang, policy, pc, failure, exit, step, idx, commands, script, calls>>
        /\ UNCHANGED <<entries, user, logs, preDirs, preDir, prelog>>
    BY <1>1 DEF vars, pluginVars, fileVars, logVars
  <2>2. /\ (PluginInv' <=> PluginInv) /\ (PluginTypeOK' <=> PluginTypeOK)
        /\ (Empties' <=> Empties)
    BY <2>1 DEF PluginInv, PluginTypeOK, NoFiles, Lines, Empties
  <2>3. (TypeOK' <=> TypeOK) /\ (WorkInv' <=> WorkInv) /\ (LogInv' <=> LogInv)
    BY <2>1, <2>2 DEF TypeOK, WorkInv, LogInv
  <2> QED BY <2>3 DEF InitInv
<1> QED BY <1>1, RunStageInv, FindLogsInv, MoveLogInv, CleanInv, InstallInv,
           RunBarrierInv, RunInitializerInv, RenderInv, RunTaskInv, RerunInv DEF Next

THEOREM InitInvariant == Spec => []InitInv
  BY InitInitInv, InitStepInv, PTL DEF Spec

\* The variables of the init container have their types.
THEOREM InitTypes == Spec => []TypeOK
<1>1. InitInv => TypeOK
  BY DEF InitInv
<1> QED BY <1>1, InitInvariant, PTL

LEMMA InitInvFresh == InitInv => WorkspaceIsFresh
<1> SUFFICES ASSUME InitInv, pc = "done"
             PROVE  /\ \A e \in Image : entries[e] = run
                    /\ user = <<run>>
                    /\ \A k \in Kinds :
                         /\ \A i \in Plugins : script[k][i] \in {<<>>, <<run>>}
                         /\ \A j \in DOMAIN calls[k] :
                              calls[k][j][1] = run /\ Exists(k, calls[k][j][2])
                         /\ \A i \in Plugins : Exists(k, i) =>
                              \E j \in DOMAIN calls[k] : calls[k][j] = <<run, i>>
  BY DEF WorkspaceIsFresh
<1>1. /\ PluginInv /\ step = "done" /\ user = <<run>>
      /\ \A e \in Image : entries[e] = run
  BY DEF InitInv, WorkInv, Installed, Late
<1>2. /\ PluginTypeOK /\ \A k \in Kinds : ListOK(k, commands[k], script[k], N + 1)
      /\ \A k \in Kinds, i \in Plugins : script[k][i] \in {<<>>, <<run>>}
      /\ \A k \in Kinds : calls[k] = Lines(k)
  BY <1>1 DEF PluginInv, Kinds
<1>3. ASSUME NEW k \in Kinds
      PROVE  /\ \A j \in DOMAIN calls[k] :
                  calls[k][j][1] = run /\ Exists(k, calls[k][j][2])
             /\ \A i \in Plugins : Exists(k, i) =>
                  \E j \in DOMAIN calls[k] : calls[k][j] = <<run, i>>
  <2>1. /\ DOMAIN calls[k] = DOMAIN commands[k]
        /\ \A j \in DOMAIN commands[k] : calls[k][j] = <<run, commands[k][j]>>
    BY <1>2, LinesType
  <2>2. \A i \in Plugins : i < N + 1
    BY NAssumption DEF Plugins
  <2> QED BY <1>2, <2>1, <2>2 DEF ListOK, Exists
<1> QED BY <1>1, <1>2, <1>3

LEMMA InitInvOrder == InitInv => TeardownMirrorsSetup
<1> SUFFICES ASSUME InitInv, pc = "done"
             PROVE  /\ \A a, b \in DOMAIN calls["pre"] :
                         a < b => calls["pre"][a][2] < calls["pre"][b][2]
                    /\ \A a, b \in DOMAIN calls["post"] :
                         a < b => calls["post"][a][2] > calls["post"][b][2]
  BY DEF TeardownMirrorsSetup
<1>1. /\ PluginTypeOK /\ "pre" \in Kinds /\ "post" \in Kinds
      /\ \A k \in Kinds : ListOK(k, commands[k], script[k], N + 1)
      /\ \A k \in Kinds : calls[k] = Lines(k)
  BY DEF InitInv, WorkInv, Late, PluginInv, Kinds
<1>2. \A k \in Kinds :
        /\ DOMAIN calls[k] = DOMAIN commands[k]
        /\ \A j \in DOMAIN commands[k] : calls[k][j][2] = commands[k][j]
  BY <1>1, LinesType
<1> QED BY <1>1, <1>2 DEF ListOK

\* A step that takes a log from the log directory puts it into a directory
\* where there was none of that name.
LEMMA StepKeepsLogs == InitInv /\ [Next]_vars => [KeepsLogs]_vars
<1> SUFFICES ASSUME InitInv, Next, NEW f \in LogNames, NEW r \in 1..run, Kept(f, r)
             PROVE  Kept(f, r)'
  BY DEF KeepsLogs
<1>1. TypeOK /\ LogInv
  BY DEF InitInv
<1>2. CASE MoveLog
  <2>1. pc = "moveLogs" /\ preDir \in DirNames
    BY <1>1, <1>2 DEF MoveLog, TypeOK
  <2>2. ASSUME NEW g \in LogNames, logs[g] # {},
               prelog' = [prelog EXCEPT ![preDir][g] = logs[g]],
               logs' = [logs EXCEPT ![g] = {}]
        PROVE  Kept(f, r)'
    <3>1. prelog'[preDir][g] = logs[g] /\ prelog[preDir][g] = {}
      BY <1>1, <2>1, <2>2 DEF TypeOK, LogInv
    <3>2. CASE f = g
      BY <1>1, <2>1, <2>2, <3>1, <3>2 DEF Kept, TypeOK
    <3>3. CASE f # g
      BY <1>1, <2>1, <2>2, <3>3 DEF Kept, TypeOK
    <3> QED BY <3>2, <3>3
  <2> QED BY <1>2, <2>2 DEF MoveLog, Kept
<1>3. CASE RunBarrier
  BY <1>1, <1>3 DEF RunBarrier, LogInv, Kept, TypeOK
<1>4. CASE RunTask
  BY <1>1, <1>4 DEF RunTask, Kept, TypeOK
<1>5. CASE FindLogs \/ Clean \/ Install \/ RunInitializer \/ RenderUserCommand \/ Rerun
  <2>1. UNCHANGED <<logs, prelog>>
    BY <1>5 DEF FindLogs, Clean, Install, RunInitializer, RenderUserCommand, Rerun, logVars
  <2> QED BY <2>1 DEF Kept
<1>6. ASSUME NEW stage \in SimpleStages, RunStage(stage) PROVE Kept(f, r)'
  BY <1>6 DEF RunStage, logVars, Kept
<1> QED BY <1>2, <1>3, <1>4, <1>5, <1>6 DEF Next

\* The work directory that the task container gets is that of this execution
\* alone, however many were interrupted before it.
THEOREM FreshWorkspace == Spec => []WorkspaceIsFresh
  BY InitInvFresh, InitInvariant, PTL

\* Plugins are torn down in the opposite order of their setup.
THEOREM TeardownOrder == Spec => []TeardownMirrorsSetup
  BY InitInvOrder, InitInvariant, PTL

\* No step of any execution loses a log.
THEOREM LogsAreKept == Spec => NoLogIsLost
  BY StepKeepsLogs, InitInvariant, PTL DEF Spec, NoLogIsLost
=============================================================================
