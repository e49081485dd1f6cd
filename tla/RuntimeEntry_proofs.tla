------------------------ MODULE RuntimeEntry_proofs ------------------------
(***************************************************************************)
(* Proofs about LogPipeline, for streams of any length, pipes of any       *)
(* capacity and any rotation size, and about RuntimeEntry, which extends   *)
(* it: its types, the contract of TaskLifecycle, what the postcommands     *)
(* find in the logs and what exithandler is given.                         *)
(***************************************************************************)
EXTENDS RuntimeEntry, FiniteSetTheorems, TLAPS

-----------------------------------------------------------------------------
(* The pipeline                                                             *)

\* A line passes the processes of its chain in order, and a process that has
\* ended has passed on all there was: its input was at EOF, so what comes
\* before it has ended too.
ChainInv(s) ==
    /\ logged[s] <= sent[s] /\ sent[s] <= split[s] /\ split[s] <= wrote[s]
    /\ kept[s] <= split[s]
    /\ splitter[s] = "closed" => held[s] = {} /\ split[s] = wrote[s]
    /\ relay[s] = "closed" => splitter[s] = "closed" /\ sent[s] = split[s]
    /\ relay[s] = "idle" => logger = "idle"
    /\ logger = "exited" /\ relay[s] = "closed" => logged[s] = sent[s]

\* The inductive invariant of the pipeline.
PipeInv ==
    /\ PipeTypeOK
    /\ \A s \in Streams : ChainInv(s)
    /\ TailIsKept

LEMMA PipeInitInv == PipeInit => PipeInv
  BY BoundsAssumption
     DEF PipeInit, PipeInv, PipeTypeOK, ChainInv, TailIsKept, Streams, Codes

\* Every step of the pipeline preserves the invariant.
LEMMA PipeStepInv == PipeInv /\ [PipeNext]_pipeVars => PipeInv'
<1> SUFFICES ASSUME PipeInv, [PipeNext]_pipeVars PROVE PipeInv'
  OBVIOUS
<1> USE BoundsAssumption DEF PipeInv, PipeTypeOK, ChainInv, TailIsKept, Codes,
                             jobVars, teeVars, loggerVars
<1>1. CASE StartJob
  BY <1>1 DEF StartJob
<1>2. CASE JobNext
  <2>1. ASSUME NEW s \in Streams, Write(s) PROVE PipeInv'
    BY <2>1 DEF Write
  <2>2. ASSUME NEW s \in Streams, CloseStream(s) PROVE PipeInv'
    BY <2>2 DEF CloseStream
  <2>3. CASE StartDaemon
    BY <2>3 DEF StartDaemon
  <2>4. CASE StopDaemon
    BY <2>4 DEF StopDaemon
  <2>5. CASE ExitJob
    BY <2>5 DEF ExitJob
  <2> QED BY <1>2, <2>1, <2>2, <2>3, <2>4, <2>5 DEF JobNext
<1>3. CASE LoggerNext
  <2>1. CASE OpenLogger
    BY <2>1 DEF OpenLogger
  <2>2. ASSUME NEW s \in Streams, Log(s) PROVE PipeInv'
    BY <2>2 DEF Log
  <2>3. CASE CloseLogger
    BY <2>3 DEF CloseLogger
  <2> QED BY <1>3, <2>1, <2>2, <2>3 DEF LoggerNext
<1>4. ASSUME NEW s \in Streams, StreamNext(s) \/ Keep(s) PROVE PipeInv'
  <2>1. CASE Split(s)
    BY <2>1 DEF Split
  <2>2. CASE CloseSplitter(s)
    BY <2>2 DEF CloseSplitter
  <2>3. CASE Keep(s)
    BY <2>3 DEF Keep
  <2>4. CASE OpenRelay(s)
    BY <2>4 DEF OpenRelay
  <2>5. CASE Send(s)
    BY <2>5 DEF Send
  <2>6. CASE CloseRelay(s)
    BY <2>6 DEF CloseRelay
  <2> QED BY <1>4, <2>1, <2>2, <2>3, <2>4, <2>5, <2>6 DEF StreamNext
<1>5. CASE UNCHANGED pipeVars
  BY <1>5 DEF pipeVars
<1> QED BY <1>1, <1>2, <1>3, <1>4, <1>5 DEF PipeNext

LEMMA PipeInvImplies == PipeInv => LossOnlyIfLate
  BY DEF PipeInv, PipeTypeOK, ChainInv, LossOnlyIfLate, Late

\* The invariant holds of every behaviour.
THEOREM PipelineInvariant == PipeSpec => []PipeInv
  BY PipeInitInv, PipeStepInv, PTL DEF PipeSpec

\* The variables of the pipeline have their types.
THEOREM PipelineTypes == PipeSpec => []PipeTypeOK
<1>1. PipeInv => PipeTypeOK
  BY DEF PipeInv
<1> QED BY <1>1, PipelineInvariant, PTL

-----------------------------------------------------------------------------
(* The entry point                                                          *)

Deciding == {"trap", "exited"} \cup HandlerPC

\* Where the script is tells how far its children have come, and the status
\* it ends with is 0 only if they have all succeeded.
PhaseInv ==
    /\ mpc \in {"source", "mkdir", "pre"} => pre = "idle" /\ job = "idle"
    /\ mpc = "waitPre" => pre # "idle" /\ job = "idle"
    /\ mpc = "user" => pre = "exited" /\ preCode = 0 /\ job = "idle"
    /\ mpc = "waitUser" => pre = "exited" /\ preCode = 0 /\ job # "idle"
    /\ mpc \in {"waitLogger", "post"} =>
         pre = "exited" /\ preCode = 0 /\ job = "exited" /\ jobCode = 0
    /\ mpc = "post" => logger = "exited"
    /\ mpc \in Deciding =>
         /\ pre # "running" /\ job # "running"
         /\ rc = 0 => /\ pre = "exited" /\ preCode = 0
                      /\ job = "exited" /\ jobCode = 0
    /\ mpc \in HandlerPC => rc # 0
    /\ mpc = "exited" => (exit = 0 <=> rc = 0)
    /\ mpc # "exited" => msg = NoCode

\* While the handler is at work: rot is where current began and seen where it
\* ended when the sizes were checked; the tail of user-all at that moment reaches
\* into the old file only if the copy is merged; what has been read covers that
\* part of the tail, and the rest of it too unless current was rotated away.
HandlerInv ==
    /\ input \subseteq 1..total
    /\ mpc \in {"tail", "cat", "exec"} =>
         /\ rot <= seen /\ seen <= total
         /\ ~raced => curStart = rot
         /\ merge \/ raced \/ rot + MinLog <= seen
    /\ mpc \in {"tail", "cat"} => merge
    /\ mpc = "cat" => Due \cap (1..rot) \subseteq input
    /\ mpc = "exec" /\ merge =>
         /\ Due \cap (1..rot) \subseteq input
         /\ ~raced => Due \subseteq input
    /\ KnownFailureRecognised

EntryInv == TypeOK /\ PipeInv /\ PhaseInv /\ HandlerInv

\* What a step of the pipeline can do to the rest of the container.
LEMMA PipeStepEffect ==
  ASSUME PipeInv, JobNext \/ LoggerNext \/ \E s \in Streams : StreamNext(s) \/ Keep(s)
  PROVE  /\ PipeInv'
         /\ total' \in Nat /\ total <= total'
         /\ curStart' = curStart => oldStart' = oldStart
         /\ job' = job \/ (job = "running" /\ job' = "exited")
         /\ job' = job => jobCode' = jobCode
         /\ logger = "exited" => logger' = "exited"
<1>1. PipeInv'
  BY PipeStepInv DEF PipeNext
<1>2. total \in Nat /\ job \in {"idle", "running", "exited"}
  BY DEF PipeInv, PipeTypeOK
<1> DEFINE Effect == /\ total' \in Nat /\ total <= total'
                     /\ curStart' = curStart => oldStart' = oldStart
                     /\ job' = job \/ (job = "running" /\ job' = "exited")
                     /\ job' = job => jobCode' = jobCode
                     /\ logger = "exited" => logger' = "exited"
<1>3. ASSUME JobNext PROVE Effect
  BY <1>2, <1>3 DEF JobNext, Write, CloseStream, StartDaemon, StopDaemon, ExitJob,
                    teeVars, loggerVars
<1>4. ASSUME LoggerNext PROVE Effect
  <2>1. CASE OpenLogger
    BY <1>2, <2>1 DEF OpenLogger, jobVars, teeVars
  <2>2. ASSUME NEW s \in Streams, Log(s) PROVE Effect
    <3>1. curStart \in Nat /\ RotSize \in Nat \ {0}
      BY BoundsAssumption DEF PipeInv, PipeTypeOK
    <3>2. curStart' = curStart => oldStart' = oldStart
      BY <1>2, <2>2, <3>1 DEF Log
    <3>3. total' = total + 1 /\ UNCHANGED <<job, jobCode, logger>>
      BY <2>2 DEF Log, jobVars
    <3> QED BY <1>2, <3>2, <3>3
  <2>3. CASE CloseLogger
    BY <1>2, <2>3 DEF CloseLogger, jobVars, teeVars
  <2> QED BY <1>4, <2>1, <2>2, <2>3 DEF LoggerNext
<1>5. ASSUME NEW s \in Streams, StreamNext(s) \/ Keep(s) PROVE Effect
  <2>1. UNCHANGED <<jobVars, loggerVars>>
    BY <1>5 DEF StreamNext, Split, CloseSplitter, OpenRelay, Send, CloseRelay, Keep
  <2> QED BY <1>2, <2>1 DEF jobVars, loggerVars
<1> QED BY <1>1, <1>3, <1>4, <1>5

LEMMA EntryInitInv == Init => EntryInv
<1> SUFFICES ASSUME Init PROVE EntryInv
  OBVIOUS
<1>1. PipeInv
  BY PipeInitInv DEF Init
<1>2. TypeOK
  <2>1. PipeTypeOK
    BY <1>1 DEF PipeInv
  <2>2. mpc \in MainPC /\ dirs \in BOOLEAN /\ merge \in BOOLEAN /\ raced \in BOOLEAN
    BY DEF Init, MainPC
  <2>3. /\ rc \in 0..255 /\ exit \in 0..NoCode /\ msg \in Nat /\ preLogged \in Nat
        /\ (exit = NoCode) <=> Running
    BY DEF Init, NoCode, Running
  <2>4. preWrote \in 0..MaxPreLines /\ preEv \in 0..MaxPreLines
    BY EntryBoundsAssumption DEF Init
  <2>5. /\ pre \in {"idle", "running", "exited"} /\ preCode \in Codes
        /\ preHeld \subseteq {"pre", "daemon"}
        /\ reader \in {"idle", "running", "exited"}
        /\ input \subseteq Nat /\ seen \in Nat /\ rot \in Nat
    BY DEF Init, Codes
  <2> QED BY <2>1, <2>2, <2>3, <2>4, <2>5 DEF TypeOK
<1>3. PhaseInv /\ HandlerInv
  BY DEF Init, PipeInit, PhaseInv, Deciding, HandlerPC, HandlerInv,
         KnownFailureRecognised
<1> QED BY <1>1, <1>2, <1>3 DEF EntryInv

\* The steps of the script up to the trap: user-all plays no part in them.
LEMMA ScriptStep ==
  ASSUME EntryInv,
         \/ SourceEnv \/ MakeDirs \/ StartPre \/ WaitPre \/ StartUser \/ WaitUser
         \/ WaitLogger \/ Post
  PROVE  EntryInv'
<1> USE DEF EntryInv
<1>1. PipeInv'
  <2>1. CASE StartJob
    BY <2>1, PipeStepInv DEF PipeNext
  <2>2. CASE UNCHANGED pipeVars
    BY <2>2, PipeStepInv
  <2> QED BY <2>1, <2>2 DEF SourceEnv, MakeDirs, StartPre, WaitPre, StartUser,
                            WaitUser, WaitLogger, Post
<1>2. TypeOK'
  <2>1. PipeTypeOK' /\ jobCode \in Codes
    BY <1>1 DEF PipeInv, TypeOK, PipeTypeOK
  <2>2. \A c \in Codes : c \in 0..255
    BY DEF Codes
  <2>3. mpc' \in MainPC
    BY DEF MainPC, SourceEnv, MakeDirs, StartPre, WaitPre, StartUser, WaitUser,
           WaitLogger, Post, Goto, Trap
  <2>6. rc' \in {rc, 1, jobCode, preCode} \cup Codes
    BY DEF SourceEnv, MakeDirs, StartPre, WaitPre, StartUser, WaitUser, WaitLogger,
           Post, Goto, Trap
  <2>7. rc' \in 0..255
    BY <2>1, <2>2, <2>6 DEF TypeOK, Codes
  <2>8. exit' = exit /\ dirs' \in BOOLEAN
    BY DEF TypeOK, SourceEnv, MakeDirs, StartPre, WaitPre, StartUser, WaitUser,
           WaitLogger, Post
  <2>4. UNCHANGED preVars \/ StartPre
    BY DEF SourceEnv, MakeDirs, WaitPre, StartUser, WaitUser, WaitLogger, Post
  <2>5. UNCHANGED <<handlerVars, raced>>
    BY DEF SourceEnv, MakeDirs, StartPre, WaitPre, StartUser, WaitUser, WaitLogger,
           Post
  <2>9. Running /\ Running'
    BY DEF Running, SourceEnv, MakeDirs, StartPre, WaitPre, StartUser, WaitUser,
           WaitLogger, Post, Goto, Trap
  <2> QED BY <2>1, <2>3, <2>4, <2>5, <2>7, <2>8, <2>9
          DEF TypeOK, StartPre, preVars, handlerVars
<1>3. PhaseInv'
  BY DEF PhaseInv, Deciding, HandlerPC, TypeOK, PipeTypeOK, Codes, pipeVars,
         jobVars, teeVars, loggerVars, preVars, handlerVars, StartJob, SourceEnv,
         MakeDirs, StartPre, WaitPre, StartUser, WaitUser, WaitLogger, Post, Goto,
         Trap
<1>4. mpc' \notin HandlerPC \cup {"exited"} /\ input' = input /\ total' = total
  BY DEF SourceEnv, MakeDirs, StartPre, WaitPre, StartUser, WaitUser, WaitLogger,
         Post, Goto, Trap, HandlerPC, handlerVars, StartJob, pipeVars, loggerVars
<1>5. HandlerInv'
  BY <1>4 DEF HandlerInv, HandlerPC, KnownFailureRecognised
<1> QED BY <1>1, <1>2, <1>3, <1>5

\* The steps of exit_handler.
LEMMA HandlerStep ==
  ASSUME EntryInv,
         \/ TrapExit \/ TouchLogs \/ CheckSize \/ TailRotated \/ CatCurrent
         \/ RunExitHandler
  PROVE  EntryInv'
<1> USE DEF EntryInv
<1>1. UNCHANGED pipeVars
  BY DEF TrapExit, TouchLogs, CheckSize, TailRotated, CatCurrent, RunExitHandler
<1>2. PipeInv'
  BY <1>1, PipeStepInv
<1>3. /\ total \in Nat /\ curStart \in Nat /\ oldStart \in Nat
      /\ oldStart <= curStart /\ curStart <= total
      /\ oldStart > 0 => curStart - oldStart >= RotSize
      /\ MinLog \in Nat \ {0} /\ RotSize \in Nat \ {0} /\ MinLog <= RotSize
  BY BoundsAssumption, EntryBoundsAssumption DEF PipeInv, PipeTypeOK, TailIsKept
<1>4. UNCHANGED <<total, curStart, oldStart, evAt, job, jobCode, logger>>
  BY <1>1 DEF pipeVars, jobVars, teeVars, loggerVars
<1>5. PipeTypeOK' /\ PipeTypeOK
  BY <1>2 DEF PipeInv
<1>6. CASE TrapExit
  <2>1. TypeOK'
    BY <1>5, <1>6 DEF TrapExit, TypeOK, MainPC, NoCode, Exit, Running, preVars,
                      handlerVars
  <2>2. PhaseInv'
    BY <1>4, <1>6 DEF TrapExit, PhaseInv, Exit, Deciding, HandlerPC, preVars,
                      handlerVars
  <2>3. HandlerInv'
    <3>1. mpc' \in {"touch", "exited"} /\ UNCHANGED handlerVars
      BY <1>6 DEF TrapExit, Exit
    <3>2. msg = NoCode
      BY <1>6 DEF TrapExit, PhaseInv
    <3> QED BY <1>4, <3>1, <3>2 DEF HandlerInv, KnownFailureRecognised, handlerVars
  <2> QED BY <1>2, <2>1, <2>2, <2>3
<1>7. CASE TouchLogs
  <2>1. TypeOK'
    BY <1>5, <1>7 DEF TouchLogs, TypeOK, MainPC, NoCode, Exit, Running, preVars,
                      handlerVars
  <2>2. PhaseInv'
    BY <1>4, <1>7 DEF TouchLogs, PhaseInv, Exit, Deciding, HandlerPC, preVars,
                      handlerVars
  <2>3. HandlerInv'
    <3>1. mpc' \in {"size", "exited"} /\ UNCHANGED handlerVars
      BY <1>7 DEF TouchLogs, Exit
    <3>2. msg = NoCode
      BY <1>7 DEF TouchLogs, PhaseInv
    <3> QED BY <1>4, <3>1, <3>2 DEF HandlerInv, KnownFailureRecognised, handlerVars
  <2> QED BY <1>2, <2>1, <2>2, <2>3
<1>8. CASE CheckSize
  <2>1. TypeOK'
    BY <1>3, <1>5, <1>8 DEF CheckSize, TypeOK, MainPC, Running, preVars
  <2>2. PhaseInv'
    BY <1>4, <1>8 DEF CheckSize, PhaseInv, Deciding, HandlerPC, preVars
  <2>3. HandlerInv'
    <3>1. /\ seen' = total /\ rot' = curStart /\ input' = input
          /\ merge' <=> total - curStart < MinLog
          /\ mpc' = IF merge' THEN "tail" ELSE "exec"
      BY <1>8 DEF CheckSize
    <3> QED BY <1>3, <1>4, <3>1 DEF HandlerInv, KnownFailureRecognised
  <2> QED BY <1>2, <2>1, <2>2, <2>3
<1>9. CASE TailRotated
  <2> DEFINE Old == {i \in (oldStart + 1)..rot : i + MinLog > rot}
  <2>1. /\ mpc = "tail" /\ UNCHANGED <<rc, dirs, preVars, seen, rot, msg, raced>>
        /\ \/ /\ rot \in {0, curStart} /\ input' = Old /\ mpc' = "cat"
              /\ UNCHANGED <<merge, exit>>
           \/ /\ rot \notin {0, curStart} /\ merge' = FALSE /\ mpc' = "exec"
              /\ UNCHANGED <<input, exit>>
           \/ mpc' = "exited" /\ exit' = 1 /\ UNCHANGED <<merge, input>>
    BY <1>9 DEF TailRotated, Exit
  <2>2. /\ rot <= seen /\ seen <= total /\ rot \in Nat /\ seen \in Nat
        /\ ~raced => curStart = rot
        /\ merge /\ input \subseteq 1..total /\ msg = NoCode
    BY <2>1 DEF HandlerInv, TypeOK, PhaseInv
  <2>3. input' \subseteq 1..total
    <3>1. Old \subseteq 1..total
      BY <1>3, <2>2
    <3> QED BY <2>1, <2>2, <3>1
  <2>4. TypeOK'
    <3>1. input' \subseteq Nat
      BY <2>3
    <3>2. exit = NoCode /\ exit' \in 0..NoCode /\ (exit' = NoCode <=> mpc' # "exited")
      BY <2>1 DEF TypeOK, Running, NoCode
    <3> QED BY <1>5, <2>1, <3>1, <3>2 DEF TypeOK, MainPC, Running, preVars
  <2>5. PhaseInv'
    BY <1>4, <2>1 DEF PhaseInv, Deciding, HandlerPC, preVars
  <2>6. ASSUME rot \in {0, curStart} PROVE Due \cap (1..rot) \subseteq Old
    <3> SUFFICES ASSUME NEW i \in Due, i \in 1..rot PROVE i \in Old
      OBVIOUS
    <3>1. i \in Nat /\ i + MinLog > seen
      BY <2>2 DEF Due
    <3>2. i + MinLog > rot
      BY <1>3, <2>2, <3>1
    <3>3. i > oldStart
      BY <1>3, <2>2, <2>6, <3>1, <3>2
    <3> QED BY <1>3, <2>2, <3>1, <3>2, <3>3
  <2>7. HandlerInv'
    <3>1. Due' = Due
      BY <2>1 DEF Due
    <3> QED BY <1>4, <2>1, <2>2, <2>3, <2>6, <3>1
            DEF HandlerInv, KnownFailureRecognised
  <2> QED BY <1>2, <2>4, <2>5, <2>7
<1>10. CASE CatCurrent
  <2>1. /\ mpc = "cat" /\ UNCHANGED <<rc, dirs, preVars, merge, seen, rot, msg, raced>>
        /\ \/ /\ input' = input \cup ((curStart + 1)..total) /\ mpc' = "exec"
              /\ exit' = exit
           \/ mpc' = "exited" /\ exit' = 1 /\ input' = input
    BY <1>10 DEF CatCurrent, Exit
  <2>2. /\ rot <= seen /\ seen <= total /\ rot \in Nat /\ seen \in Nat
        /\ ~raced => curStart = rot
        /\ merge /\ input \subseteq 1..total /\ msg = NoCode
        /\ Due \cap (1..rot) \subseteq input
    BY <2>1 DEF HandlerInv, TypeOK, PhaseInv
  <2>3. input' \subseteq 1..total
    <3>1. (curStart + 1)..total \subseteq 1..total
      BY <1>3
    <3> QED BY <2>1, <2>2, <3>1
  <2>4. TypeOK'
    <3>1. input' \subseteq Nat
      BY <2>3
    <3>2. exit = NoCode /\ exit' \in 0..NoCode /\ (exit' = NoCode <=> mpc' # "exited")
      BY <2>1 DEF TypeOK, Running, NoCode
    <3> QED BY <1>5, <2>1, <3>1, <3>2 DEF TypeOK, MainPC, Running, preVars
  <2>5. PhaseInv'
    BY <1>4, <2>1 DEF PhaseInv, Deciding, HandlerPC, preVars
  <2>6. ASSUME ~raced PROVE Due \subseteq input \cup ((curStart + 1)..total)
    <3> SUFFICES ASSUME NEW i \in Due, i > rot PROVE i \in (curStart + 1)..total
      BY <2>2 DEF Due
    <3> QED BY <1>3, <2>2, <2>6 DEF Due
  <2>7. HandlerInv'
    <3>1. Due' = Due
      BY <2>1 DEF Due
    <3> QED BY <1>4, <2>1, <2>2, <2>3, <2>6, <3>1
            DEF HandlerInv, KnownFailureRecognised
  <2> QED BY <1>2, <2>4, <2>5, <2>7
<1>11. CASE RunExitHandler
  <2> DEFINE log == IF merge THEN input ELSE (curStart + 1)..total
  <2>1. /\ mpc = "exec" /\ mpc' = "exited" /\ input' = log
        /\ UNCHANGED <<rc, dirs, preVars, merge, seen, rot, raced>>
    BY <1>11 DEF RunExitHandler, Exit
  <2>2. PICK verdict \in Verdicts(log), panics \in BOOLEAN, c \in Codes :
          /\ msg' = IF panics THEN NoCode ELSE verdict
          /\ exit' = IF c # 0 THEN c ELSE IF panics THEN 1 ELSE verdict % 256
    <3>1. PICK answer \in ExitHandler(log), c \in Codes :
            msg' = answer[1] /\ exit' = IF c # 0 THEN c ELSE answer[2]
      BY <1>11 DEF RunExitHandler, Exit
    <3>2. CASE answer = <<NoCode, 1>>
      <4>1. PICK verdict \in Verdicts(log) : TRUE
        BY DEF Verdicts
      <4>2. msg' = NoCode /\ exit' = IF c # 0 THEN c ELSE 1
        BY <3>1, <3>2
      <4> QED BY <4>1, <4>2
    <3>3. CASE \E code \in Verdicts(log) : answer = <<code, code % 256>>
      <4>1. PICK code \in Verdicts(log) : answer = <<code, code % 256>>
        BY <3>3
      <4>2. msg' = code /\ exit' = IF c # 0 THEN c ELSE code % 256
        BY <3>1, <4>1
      <4> QED BY <4>1, <4>2, ZenonT(40)
    <3> QED BY <3>1, <3>2, <3>3 DEF ExitHandler
  <2>3. /\ verdict \in {UserCode, PlatCode, DefaultCode}
        /\ evAt \in Searched(log) => verdict \in {UserCode, PlatCode}
    BY DEF Verdicts
  <2>4. verdict \in Nat /\ verdict % 256 \in 1..255
    <3>1. verdict \in Nat /\ verdict % 256 # 0
      BY <2>3, CodesAssumption
    <3>2. \A v \in Nat : v % 256 \in 0..255
      BY SMT
    <3> QED BY <3>1, <3>2
  <2>5. exit' \in 1..255 /\ msg' \in Nat
    BY <2>2, <2>4 DEF Codes, NoCode
  <2>6. /\ rot <= seen /\ seen <= total /\ rot \in Nat /\ seen \in Nat
        /\ ~raced => curStart = rot
        /\ merge \/ raced \/ rot + MinLog <= seen
        /\ merge => /\ Due \cap (1..rot) \subseteq input
                    /\ ~raced => Due \subseteq input
        /\ input \subseteq 1..total
    BY <2>1 DEF HandlerInv, TypeOK
  <2>7. log \subseteq 1..total
    BY <1>3, <2>6
  <2>8. TypeOK'
    BY <1>5, <2>1, <2>5, <2>7 DEF TypeOK, MainPC, preVars, NoCode, Running
  <2>9. PhaseInv'
    BY <1>4, <2>1, <2>5 DEF PhaseInv, Deciding, HandlerPC, preVars
  <2>10. ASSUME evAt \in Due, total + MinLog <= seen + MaxSearch,
                raced => merge /\ evAt <= rot
         PROVE  evAt \in Searched(log)
    <3>1. evAt \in 1..seen /\ evAt + MinLog > seen
      BY <2>10 DEF Due
    <3>2. evAt \in log
      <4>1. CASE merge /\ ~raced
        BY <2>6, <2>10, <4>1
      <4>2. CASE merge /\ raced
        BY <2>6, <2>10, <3>1, <4>2
      <4>3. CASE ~merge
        BY <1>3, <2>6, <2>10, <3>1, <4>3
      <4> QED BY <4>1, <4>2, <4>3
    <3> DEFINE After == {j \in log : j > evAt}
    <3>3. After \subseteq (evAt + 1)..total
      <4> SUFFICES ASSUME NEW j \in 1..total, j > evAt PROVE j \in (evAt + 1)..total
        BY <2>7
      <4> QED BY <1>3, <2>6, <3>1
    <3>4. /\ IsFiniteSet((evAt + 1)..total)
          /\ Cardinality((evAt + 1)..total) = total - evAt
      <4>1. evAt + 1 \in Int /\ total \in Int /\ evAt <= total
        BY <1>3, <2>6, <3>1
      <4>2. /\ IsFiniteSet((evAt + 1)..total)
            /\ Cardinality((evAt + 1)..total) =
                 IF evAt + 1 > total THEN 0 ELSE total - (evAt + 1) + 1
        BY <4>1, FS_Interval
      <4> QED BY <4>1, <4>2, <3>1
    <3>5. Cardinality(After) <= total - evAt /\ Cardinality(After) \in Nat
      <4> HIDE DEF After
      <4>1. IsFiniteSet(After) /\ Cardinality(After) <= Cardinality((evAt + 1)..total)
        BY <3>3, <3>4, FS_Subset
      <4> QED BY <3>4, <4>1, FS_CardinalityType
    <3>6. total - evAt < MaxSearch
      BY <1>3, <2>6, <2>10, <3>1, EntryBoundsAssumption
    <3>7. Cardinality(After) < MaxSearch
      <4> HIDE DEF After
      <4> QED BY <1>3, <2>6, <3>1, <3>5, <3>6, EntryBoundsAssumption
    <3> QED BY <3>2, <3>7 DEF Searched
  <2>11. HandlerInv'
    <3>1. Due' = Due
      BY <2>1 DEF Due
    <3>2. KnownFailureRecognised'
      BY <1>4, <2>1, <2>2, <2>3, <2>10, <3>1 DEF KnownFailureRecognised
    <3> QED BY <1>4, <2>1, <2>7, <3>2 DEF HandlerInv
  <2> QED BY <1>2, <2>8, <2>9, <2>11
<1> QED BY <1>6, <1>7, <1>8, <1>9, <1>10, <1>11

\* The steps of the precommands.
LEMMA PreChildStep ==
  ASSUME EntryInv, PreStep(PreJob) \/ PreStep(ExitPre) \/ PreStep(LogPre)
  PROVE  EntryInv'
<1> USE DEF EntryInv
<1>1. UNCHANGED <<pipeVars, mainVars, handlerVars, raced>> /\ Running
  BY DEF PreStep
<1>2. PipeInv'
  BY <1>1, PipeStepInv
<1>3. WritePre \/ StartPreDaemon \/ StopPreDaemon \/ ExitPre \/ LogPre
  BY DEF PreStep, PreJob
<1>4. TypeOK'
  <2>1. PipeTypeOK'
    BY <1>2 DEF PipeInv
  <2>2. preWrote' \in 0..MaxPreLines /\ preEv' \in 0..MaxPreLines
    BY <1>3, EntryBoundsAssumption
       DEF TypeOK, WritePre, StartPreDaemon, StopPreDaemon, ExitPre, LogPre
  <2>3. preLogged' \in Nat
    BY <1>3 DEF TypeOK, WritePre, StartPreDaemon, StopPreDaemon, ExitPre, LogPre
  <2>4. /\ pre' \in {"idle", "running", "exited"} /\ preCode' \in Codes
        /\ preHeld' \subseteq {"pre", "daemon"}
        /\ reader' \in {"idle", "running", "exited"}
    BY <1>3 DEF TypeOK, WritePre, StartPreDaemon, StopPreDaemon, ExitPre, LogPre
  <2> QED BY <1>1, <2>1, <2>2, <2>3, <2>4 DEF TypeOK, Running, mainVars, handlerVars
<1>5. /\ UNCHANGED <<pre, preCode>> \/ (pre = "running" /\ pre' = "exited")
      /\ pre' \in {pre, "exited"}
  BY <1>3 DEF WritePre, StartPreDaemon, StopPreDaemon, ExitPre, LogPre
<1>6. PhaseInv'
  BY <1>1, <1>5 DEF PhaseInv, Deciding, pipeVars, jobVars, loggerVars, mainVars,
                    handlerVars
<1>7. HandlerInv'
  BY <1>1 DEF HandlerInv, KnownFailureRecognised, Due, pipeVars, loggerVars,
              mainVars, handlerVars
<1> QED BY <1>2, <1>4, <1>6, <1>7

\* The steps of the job and of the processes that log its output.
LEMMA PipeChildStep ==
  ASSUME EntryInv,
         \/ PipeStep(JobNext) \/ PipeStep(LoggerNext)
         \/ \E s \in Streams : PipeStep(StreamNext(s)) \/ PipeStep(Keep(s))
  PROVE  EntryInv'
<1> USE DEF EntryInv
<1>1. JobNext \/ LoggerNext \/ \E s \in Streams : StreamNext(s) \/ Keep(s)
  BY DEF PipeStep
<1>2. /\ UNCHANGED <<mainVars, preVars, handlerVars>> /\ Running
      /\ raced' = (raced \/ (mpc \in {"tail", "cat", "exec"} /\ curStart' # curStart))
  BY DEF PipeStep
<1>3. /\ PipeInv'
      /\ total' \in Nat /\ total <= total'
      /\ curStart' = curStart => oldStart' = oldStart
      /\ job' = job \/ (job = "running" /\ job' = "exited")
      /\ job' = job => jobCode' = jobCode
      /\ logger = "exited" => logger' = "exited"
  BY <1>1, PipeStepEffect
<1>4. TypeOK'
  BY <1>2, <1>3 DEF TypeOK, PipeInv, Running, mainVars, preVars, handlerVars
<1>5. PhaseInv'
  BY <1>2, <1>3 DEF PhaseInv, Deciding, Running, mainVars, preVars, handlerVars
<1>6. HandlerInv'
  <2>1. UNCHANGED <<mpc, merge, input, seen, rot, msg>> /\ mpc # "exited"
    BY <1>2 DEF mainVars, handlerVars, Running
  <2>2. Due' = Due /\ total \in Nat
    BY <2>1 DEF Due, PipeInv, PipeTypeOK
  <2>3. raced => raced'
    BY <1>2
  <2>4. ASSUME ~raced', mpc \in {"tail", "cat", "exec"} PROVE curStart' = curStart
    BY <1>2, <2>4
  <2>5. input' \subseteq 1..total'
    BY <1>3, <2>1, <2>2 DEF HandlerInv
  <2>6. mpc \in {"tail", "cat", "exec"} => seen <= total'
    BY <1>3, <2>2 DEF HandlerInv, TypeOK
  <2> QED BY <2>1, <2>2, <2>3, <2>4, <2>5, <2>6 DEF HandlerInv, KnownFailureRecognised
<1> QED BY <1>3, <1>4, <1>5, <1>6

LEMMA EntryStepInv == EntryInv /\ [Next]_vars => EntryInv'
<1>1. ASSUME EntryInv, Next PROVE EntryInv'
  BY <1>1, ScriptStep, HandlerStep, PreChildStep, PipeChildStep DEF Next, Main
<1>2. ASSUME EntryInv, UNCHANGED vars PROVE EntryInv'
  <2>1. PipeInv'
    BY <1>2, PipeStepInv DEF EntryInv, vars
  <2>2. UNCHANGED <<pipeVars, mainVars, preVars, handlerVars, raced>>
    BY <1>2 DEF vars
  <2>3. TypeOK'
    BY <1>2, <2>1, <2>2
       DEF EntryInv, TypeOK, PipeInv, Running, mainVars, preVars, handlerVars
  <2>4. PhaseInv' /\ HandlerInv'
    BY <1>2, <2>2 DEF EntryInv, PhaseInv, HandlerInv, KnownFailureRecognised,
       Due, pipeVars, jobVars, loggerVars, mainVars, preVars, handlerVars
  <2> QED BY <2>1, <2>3, <2>4 DEF EntryInv
<1> QED BY <1>1, <1>2

THEOREM EntryInvariant == Spec => []EntryInv
  BY EntryInitInv, EntryStepInv, PTL DEF Spec

\* The variables of the task container have their types.
THEOREM EntryTypes == Spec => []TypeOK
<1>1. EntryInv => TypeOK
  BY DEF EntryInv
<1> QED BY <1>1, EntryInvariant, PTL

\* When the logger has exited, nothing is missing from user-all but the lines
\* of a stream whose relay came too late.
THEOREM NoOtherLoss == Spec => []LossOnlyIfLate
<1>1. EntryInv => LossOnlyIfLate
  BY PipeInvImplies DEF EntryInv
<1> QED BY <1>1, EntryInvariant, PTL

\* The last RotSize lines logged are still in one of the two files.
THEOREM TailSurvivesRotation == Spec => []TailIsKept
<1>1. EntryInv => TailIsKept
  BY DEF EntryInv, PipeInv
<1> QED BY <1>1, EntryInvariant, PTL

\* The postcommands find all the output in user-all, but for late streams.
THEOREM PostFindsOutput == Spec => []PostAfterOutput
<1>1. EntryInv => PostAfterOutput
  BY DEF EntryInv, PhaseInv, PipeInv, PipeTypeOK, ChainInv, PostAfterOutput, Late
<1> QED BY <1>1, EntryInvariant, PTL

\* A known failure in the tail of the log is recognised, whatever the sizes
\* and positions of the files.
THEOREM KnownFailures == Spec => []KnownFailureRecognised
<1>1. EntryInv => KnownFailureRecognised
  BY DEF EntryInv, HandlerInv, KnownFailureRecognised
<1> QED BY <1>1, EntryInvariant, PTL

LEMMA ContractInit == Init => Contract!Init
  BY DEF Init, PipeInit, Contract!Init, Result, Outcome, HandlerPC

LEMMA ContractStep ==
  EntryInv /\ [Next]_vars => [Contract!Next]_(Contract!vars)
<1> SUFFICES ASSUME EntryInv, [Next]_vars PROVE [Contract!Next]_(Contract!vars)
  OBVIOUS
<1> DEFINE P == Result(pre, preCode)
           J == Result(job, jobCode)
<1> USE DEF EntryInv, Contract!vars
<1>1. ASSUME UNCHANGED <<pre, preCode, job, jobCode>>, Outcome' = Outcome
      PROVE  UNCHANGED Contract!vars
  BY <1>1 DEF Result
<1>2. UNCHANGED pipeVars => UNCHANGED <<job, jobCode>>
  BY DEF pipeVars, jobVars
<1>3. UNCHANGED preVars => UNCHANGED <<pre, preCode>>
  BY DEF preVars
<1>4. ASSUME UNCHANGED <<pre, preCode, job, jobCode>>,
             mpc \notin Deciding, mpc' = "trap",
             pre # "running", job # "running",
             rc' = 0 => /\ pre = "exited" /\ preCode = 0
                        /\ job = "exited" /\ jobCode = 0
      PROVE  Contract!Decide
  BY <1>4 DEF Contract!Decide, Result, Outcome, Deciding, HandlerPC
<1>5. ASSUME mpc \notin Deciding, mpc' \notin Deciding PROVE Outcome' = Outcome
  BY <1>5 DEF Outcome, Deciding, HandlerPC
<1>6. ASSUME mpc \in Deciding \ {"exited"}, mpc' \in Deciding, rc' = rc
      PROVE  Outcome' = Outcome
  <2>1. PhaseInv'
    BY EntryStepInv
  <2> QED BY <1>6, <2>1 DEF Outcome, Deciding, PhaseInv
<1>7. CASE SourceEnv \/ MakeDirs
  <2>1. UNCHANGED <<pre, preCode, job, jobCode>> /\ mpc \notin Deciding
    BY <1>2, <1>3, <1>7 DEF SourceEnv, MakeDirs, Deciding, HandlerPC
  <2>2. mpc' \notin Deciding \/ (mpc' = "trap" /\ rc' = 1)
    BY <1>7 DEF SourceEnv, MakeDirs, Goto, Trap, Deciding, HandlerPC
  <2>3. pre = "idle" /\ job = "idle"
    BY <1>7 DEF SourceEnv, MakeDirs, PhaseInv
  <2> QED BY <1>1, <1>4, <1>5, <2>1, <2>2, <2>3 DEF Contract!Next
<1>8. CASE StartPre
  <2>1. mpc = "pre" /\ UNCHANGED <<job, jobCode>> /\ pre = "idle" /\ job = "idle"
    BY <1>2, <1>8 DEF StartPre, PhaseInv
  <2>2. CASE mpc' = "waitPre"
    <3>1. pre' = "running"
      BY <1>8, <2>2 DEF StartPre, Trap
    <3> QED BY <2>1, <2>2, <3>1
            DEF Contract!Next, Contract!StartPre, Result, Outcome, HandlerPC
  <2>3. CASE mpc' # "waitPre"
    <3>1. mpc' = "trap" /\ rc' = 1 /\ UNCHANGED <<pre, preCode>>
      BY <1>3, <1>8, <2>3 DEF StartPre, Trap, Goto
    <3> QED BY <1>4, <2>1, <3>1 DEF Contract!Next, Deciding, HandlerPC
  <2> QED BY <2>2, <2>3
<1>9. CASE StartUser
  <2>1. /\ mpc = "user" /\ UNCHANGED <<pre, preCode>>
        /\ pre = "exited" /\ preCode = 0 /\ job = "idle"
    BY <1>3, <1>9 DEF StartUser, PhaseInv
  <2>2. CASE mpc' = "waitUser"
    <3>1. job' = "running"
      BY <1>9, <2>2 DEF StartUser, Trap, StartJob
    <3> QED BY <2>1, <2>2, <3>1
            DEF Contract!Next, Contract!StartJob, Result, Outcome, HandlerPC
  <2>3. CASE mpc' # "waitUser"
    <3>1. mpc' = "trap" /\ rc' = 1 /\ UNCHANGED <<job, jobCode>>
      BY <1>2, <1>9, <2>3 DEF StartUser, Trap, Goto
    <3> QED BY <1>4, <2>1, <3>1 DEF Contract!Next, Deciding, HandlerPC
  <2> QED BY <2>2, <2>3
<1>10. CASE WaitPre \/ WaitUser \/ WaitLogger \/ Post
  <2>1. UNCHANGED <<pre, preCode, job, jobCode>> /\ mpc \notin Deciding
    BY <1>2, <1>3, <1>10
       DEF WaitPre, WaitUser, WaitLogger, Post, Deciding, HandlerPC
  <2>2. pre = "exited" /\ job \in {"idle", "exited"}
    BY <1>10 DEF WaitPre, WaitUser, WaitLogger, Post, PhaseInv
  <2>3. \/ mpc' \notin Deciding
        \/ mpc' = "trap" /\ rc' # 0
        \/ Post /\ mpc' = "trap"
    BY <1>10 DEF WaitPre, WaitUser, WaitLogger, Post, Goto, Trap, Deciding,
                 HandlerPC
  <2>4. Post => preCode = 0 /\ job = "exited" /\ jobCode = 0
    BY DEF Post, PhaseInv
  <2> QED BY <1>1, <1>4, <1>5, <2>1, <2>2, <2>3, <2>4 DEF Contract!Next
<1>11. CASE \/ TrapExit \/ TouchLogs \/ CheckSize \/ TailRotated \/ CatCurrent
            \/ RunExitHandler
  <2>1. UNCHANGED <<pre, preCode, job, jobCode>>
    BY <1>2, <1>3, <1>11 DEF TrapExit, TouchLogs, CheckSize, TailRotated,
                             CatCurrent, RunExitHandler
  <2>2. mpc \in Deciding \ {"exited"} /\ mpc' \in Deciding /\ rc' = rc
    BY <1>11 DEF TrapExit, TouchLogs, CheckSize, TailRotated, CatCurrent,
                 RunExitHandler, Exit, Deciding, HandlerPC
  <2> QED BY <1>1, <1>6, <2>1, <2>2
<1>12. ASSUME UNCHANGED mainVars PROVE Outcome' = Outcome
  BY <1>12 DEF Outcome, mainVars
<1>13. CASE PreStep(PreJob) \/ PreStep(ExitPre) \/ PreStep(LogPre)
  <2>1. UNCHANGED mainVars /\ UNCHANGED <<job, jobCode>>
    BY <1>2, <1>13 DEF PreStep
  <2>2. CASE UNCHANGED <<pre, preCode>>
    BY <1>1, <1>12, <2>1, <2>2
  <2>3. CASE ~ UNCHANGED <<pre, preCode>>
    <3>1. pre = "running" /\ pre' = "exited"
      BY <1>13, <2>3 DEF PreStep, PreJob, WritePre, StartPreDaemon, StopPreDaemon,
                         ExitPre, LogPre
    <3> QED BY <1>12, <2>1, <3>1
            DEF Contract!Next, Contract!EndPre, Contract!Results, Result
  <2> QED BY <2>2, <2>3
<1>14. CASE \/ PipeStep(JobNext) \/ PipeStep(LoggerNext)
            \/ \E s \in Streams : PipeStep(StreamNext(s)) \/ PipeStep(Keep(s))
  <2>1. UNCHANGED mainVars /\ UNCHANGED <<pre, preCode>>
    BY <1>3, <1>14 DEF PipeStep
  <2>2. /\ job' = job \/ (job = "running" /\ job' = "exited")
        /\ job' = job => jobCode' = jobCode
    <3>1. JobNext \/ LoggerNext \/ \E s \in Streams : StreamNext(s) \/ Keep(s)
      BY <1>14 DEF PipeStep
    <3> QED BY <3>1, PipeStepEffect
  <2>3. CASE job' = job
    BY <1>1, <1>12, <2>1, <2>2, <2>3
  <2>4. CASE job' # job
    BY <1>12, <2>1, <2>2, <2>4
       DEF Contract!Next, Contract!EndJob, Contract!Results, Result
  <2> QED BY <2>3, <2>4
<1>15. CASE UNCHANGED vars
  BY <1>1, <1>2, <1>3, <1>12, <1>15 DEF vars
<1> QED BY <1>7, <1>8, <1>9, <1>10, <1>11, <1>13, <1>14, <1>15 DEF Next, Main

\* The task container keeps its contract: every behaviour of the script and
\* its children is one of TaskLifecycle.
THEOREM KeepsContract == Spec => ContractKept
<1>1. Init => Contract!Init
  BY ContractInit
<1>2. EntryInv /\ [Next]_vars => [Contract!Next]_(Contract!vars)
  BY ContractStep
<1> QED BY <1>1, <1>2, EntryInvariant, PTL DEF Spec, ContractKept, Contract!Spec
=============================================================================
