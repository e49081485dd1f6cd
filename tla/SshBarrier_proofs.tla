-------------------------- MODULE SshBarrier_proofs --------------------------
(***************************************************************************)
(* The ssh barrier for any number of containers and any timeout: nobody    *)
(* goes first, and nobody gives up early.  The invariant says what has     *)
(* become of every container that a barrier has to reach: it is still to   *)
(* be tried, it was tried in vain in this round and all those before, or   *)
(* it was reached, and has then arrived.                                   *)
(***************************************************************************)
EXTENDS SshBarrier, TLAPS

\* What container i knows of container j.
Known(i, j) ==
    /\ phase[i] \in {"check", "open", "job"} /\ j \notin left[i] /\ j \notin failed[i]
         => j \in arrived
    /\ phase[i] = "prep" => tries[i][j] = 0
    /\ phase[i] = "check" => /\ j \in left[i] => tries[i][j] = retry[i]
                             /\ j \in failed[i] => tries[i][j] = retry[i] + 1
                             /\ tries[i][j] <= retry[i] + 1
                             /\ j \notin left[i] => tries[i][j] >= 1

\* What is open to the containers at each phase.
Progress(i) ==
    /\ left[i] \subseteq Others(i) /\ failed[i] \subseteq Others(i)
    /\ left[i] \cap failed[i] = {}
    /\ phase[i] = "prep" => left[i] = {} /\ failed[i] = {} /\ retry[i] = 0
    /\ phase[i] \in {"open", "job"} => i \in gaveUp \/ (left[i] = {} /\ failed[i] = {})
    /\ i \in gaveUp => phase[i] \notin {"prep", "check"}
    /\ i \in gaveUp /\ i \notin Ignores => phase[i] = "end"

BInv ==
    /\ TypeOK /\ GivesUpAfterAllRounds
    /\ \A i \in Instances : Progress(i) /\ \A j \in Others(i) : Known(i, j)

LEMMA MaxRetries == MAX_RETRY_COUNT \in Nat
  <1>1. CASE Minutes = -1
    BY <1>1 DEF MAX_RETRY_COUNT
  <1>2. CASE Minutes \in Nat
    <2>1. Minutes * 60 \in Nat /\ RETRY_INTERVAL \in Nat /\ RETRY_INTERVAL > 0
      BY <1>2, BarrierAssumption
    <2>2. \A a, b \in Nat : b > 0 => a \div b \in Nat
      OBVIOUS
    <2> QED
      BY <1>2, <2>1, <2>2 DEF MAX_RETRY_COUNT
  <1> QED
    BY <1>1, <1>2, BarrierAssumption

LEMMA InitBInv == Init => BInv
  <1> SUFFICES ASSUME Init PROVE BInv
    OBVIOUS
  <1>1. TypeOK
    BY MaxRetries DEF Init, TypeOK, Phases
  <1> QED
    BY <1>1 DEF Init, BInv, GivesUpAfterAllRounds, Progress, Known, Others

\* The phases of the other containers do not matter to a container.
LEMMA OthersStay ==
  ASSUME BInv, NEW i \in Instances, NEW k \in Instances, k # i,
         phase'[k] = phase[k], left'[k] = left[k], failed'[k] = failed[k],
         retry'[k] = retry[k], tries'[k] = tries[k],
         k \in gaveUp' <=> k \in gaveUp, arrived \subseteq arrived'
  PROVE  Progress(k)' /\ \A j \in Others(k) : Known(k, j)'
  BY DEF BInv, Progress, Known, Others

LEMMA StartInv ==
  ASSUME BInv, NEW i \in Instances, StartSshd(i)
  PROVE  BInv'
  <1>1. TypeOK /\ Progress(i) /\ \A j \in Others(i) : Known(i, j)
    BY DEF BInv
  <1>2. TypeOK'
    BY <1>1 DEF StartSshd, TypeOK, Go, Phases, Others
  <1>3. \A k \in Instances \ {i} : /\ phase'[k] = phase[k] /\ left'[k] = left[k]
    BY <1>1 DEF StartSshd, TypeOK, Go
  <1>4. \A k \in Instances \ {i} : Progress(k)' /\ \A j \in Others(k) : Known(k, j)'
    BY <1>3, OthersStay DEF StartSshd
  <1>5. phase'[i] = "check" /\ left'[i] = Others(i)
    BY <1>1 DEF StartSshd, TypeOK, Go
  <1>6. Progress(i)' /\ \A j \in Others(i) : Known(i, j)'
    BY <1>1, <1>5 DEF StartSshd, TypeOK, Progress, Known, Others
  <1>7. GivesUpAfterAllRounds'
    BY DEF BInv, StartSshd, GivesUpAfterAllRounds, Others
  <1> QED
    BY <1>2, <1>4, <1>6, <1>7 DEF BInv, Others

LEMMA CheckInv ==
  ASSUME BInv, NEW i \in Instances, NEW j \in Instances, Check(i, j)
  PROVE  BInv'
  <1>1. TypeOK /\ Progress(i) /\ (\A k \in Others(i) : Known(i, k)) /\ j \in Others(i)
        /\ i \notin gaveUp /\ phase[i] = "check" /\ j \in left[i] /\ j \notin failed[i]
        /\ up \subseteq arrived /\ retry[i] \in Nat
    BY MaxRetries DEF BInv, Check, Progress, TypeOK
  <1>2. /\ left' = [left EXCEPT ![i] = left[i] \ {j}]
        /\ tries' = [tries EXCEPT ![i] = [tries[i] EXCEPT ![j] = tries[i][j] + 1]]
        /\ UNCHANGED <<phase, up, retry, gaveUp, arrived>>
        /\ failed' = failed \/ failed' = [failed EXCEPT ![i] = failed[i] \cup {j}]
        /\ j \notin failed'[i] => j \in up
    BY <1>1 DEF Check, TypeOK
  <1>3. TypeOK'
    BY <1>1, <1>2 DEF TypeOK
  <1>4. \A k \in Instances \ {i} : /\ left'[k] = left[k] /\ failed'[k] = failed[k]
                                   /\ tries'[k] = tries[k]
    BY <1>1, <1>2 DEF TypeOK
  <1>5. \A k \in Instances \ {i} : Progress(k)' /\ \A l \in Others(k) : Known(k, l)'
    BY <1>2, <1>4, OthersStay
  <1>6. /\ left'[i] = left[i] \ {j}
        /\ failed'[i] = failed[i] \/ failed'[i] = failed[i] \cup {j}
        /\ tries'[i][j] = tries[i][j] + 1
        /\ \A k \in Instances \ {j} : tries'[i][k] = tries[i][k]
    BY <1>1, <1>2 DEF TypeOK
  <1>7. Progress(i)'
    BY <1>1, <1>2, <1>6 DEF Progress, Others
  <1>8. ASSUME NEW k \in Others(i) PROVE Known(i, k)'
    <2>1. Known(i, k) /\ tries[i][k] \in Nat
      BY <1>1 DEF TypeOK, Others
    <2>2. CASE k = j
      BY <2>1, <2>2, <1>1, <1>2, <1>6 DEF Known
    <2>3. CASE k # j
      <3>1. /\ tries'[i][k] = tries[i][k] /\ (k \in left'[i] <=> k \in left[i])
            /\ (k \in failed'[i] <=> k \in failed[i])
        BY <2>3, <1>6 DEF Others
      <3> QED
        BY <2>1, <3>1, <1>2 DEF Known
    <2> QED
      BY <2>2, <2>3
  <1>9. GivesUpAfterAllRounds'
    BY <1>1, <1>2, <1>4 DEF BInv, GivesUpAfterAllRounds, Others, TypeOK
  <1> QED
    BY <1>3, <1>5, <1>7, <1>8, <1>9 DEF BInv, Others

LEMMA PassInv ==
  ASSUME BInv, NEW i \in Instances, Pass(i)
  PROVE  BInv'
  <1>1. TypeOK /\ Progress(i) /\ (\A j \in Others(i) : Known(i, j)) /\ i \notin gaveUp
    BY DEF BInv, Progress, Pass
  <1>2. TypeOK'
    BY <1>1 DEF Pass, TypeOK, Go, Phases
  <1>3. phase'[i] = "open" /\ \A k \in Instances \ {i} : phase'[k] = phase[k]
    BY <1>1 DEF Pass, TypeOK, Go
  <1>4. \A k \in Instances \ {i} : Progress(k)' /\ \A j \in Others(k) : Known(k, j)'
    BY <1>3, OthersStay DEF Pass
  <1>5. Progress(i)' /\ \A j \in Others(i) : Known(i, j)'
    BY <1>1, <1>3 DEF Pass, Progress, Known, Others
  <1>6. GivesUpAfterAllRounds'
    BY DEF BInv, Pass, GivesUpAfterAllRounds, Others
  <1> QED
    BY <1>2, <1>4, <1>5, <1>6 DEF BInv, Others

LEMMA GiveUpInv ==
  ASSUME BInv, NEW i \in Instances, GiveUp(i)
  PROVE  BInv'
  <1>1. TypeOK /\ Progress(i) /\ (\A j \in Others(i) : Known(i, j))
        /\ phase[i] = "check" /\ left[i] = {} /\ failed[i] # {} /\ failed[i] \subseteq Others(i)
        /\ retry[i] = MAX_RETRY_COUNT
    <2>1. TypeOK /\ Progress(i) /\ \A j \in Others(i) : Known(i, j)
      BY DEF BInv
    <2>2. phase[i] = "check" /\ left[i] = {} /\ failed[i] # {} /\ retry[i] >= MAX_RETRY_COUNT
      BY DEF GiveUp, TooLate
    <2>3. retry[i] = MAX_RETRY_COUNT
      <3>1. retry[i] \in 0..MAX_RETRY_COUNT
        BY <2>1 DEF TypeOK
      <3> HIDE DEF MAX_RETRY_COUNT
      <3> QED
        BY <2>2, <3>1, MaxRetries
    <2> QED
      BY <2>1, <2>2, <2>3 DEF Progress
  <1>2. /\ gaveUp' = gaveUp \cup {i} /\ UNCHANGED <<left, failed, retry, arrived, tries>>
        /\ i \notin Ignores => phase' = [phase EXCEPT ![i] = "end"]
        /\ i \in Ignores => phase' = [phase EXCEPT ![i] = "open"]
        /\ up' \subseteq up
    BY DEF GiveUp, Go
  <1>3. TypeOK'
    BY <1>1, <1>2 DEF TypeOK, Phases
  <1>4. \A k \in Instances \ {i} : phase'[k] = phase[k] /\ (k \in gaveUp' <=> k \in gaveUp)
    BY <1>1, <1>2 DEF TypeOK
  <1>5. phase'[i] \in {"open", "end"} /\ (i \notin Ignores => phase'[i] = "end")
    BY <1>1, <1>2 DEF TypeOK
  <1>6. \A k \in Instances \ {i} : Progress(k)' /\ \A j \in Others(k) : Known(k, j)'
    BY <1>2, <1>4, OthersStay
  <1>7. Progress(i)' /\ \A j \in Others(i) : Known(i, j)'
    <2>1. ASSUME NEW j \in Others(i) PROVE Known(i, j)'
      <3>1. Known(i, j)
        BY <1>1
      <3> QED
        BY <3>1, <1>1, <1>2, <1>5 DEF Known
    <2>2. Progress(i)'
      BY <1>1, <1>2, <1>5 DEF Progress, Others
    <2> QED
      BY <2>1, <2>2
  <1>8. GivesUpAfterAllRounds'
    <2>1. /\ failed[i] # {} /\ \A j \in Others(i) : tries[i][j] \in 1..(MAX_RETRY_COUNT + 1)
          /\ \A j \in failed[i] : tries[i][j] = MAX_RETRY_COUNT + 1
      <3>1. \A j \in Others(i) : tries[i][j] \in Nat /\ Known(i, j)
        BY <1>1 DEF TypeOK, Others
      <3> QED
        BY <3>1, <1>1, MaxRetries DEF Known
    <2> QED
      BY <2>1, <1>2 DEF BInv, GivesUpAfterAllRounds, Others
  <1> QED
    BY <1>3, <1>6, <1>7, <1>8 DEF BInv, Others

LEMMA RetryInv ==
  ASSUME BInv, NEW i \in Instances, Retry(i)
  PROVE  BInv'
  <1>1. TypeOK /\ Progress(i) /\ (\A j \in Others(i) : Known(i, j)) /\ i \notin gaveUp
        /\ phase[i] = "check" /\ left[i] = {} /\ failed[i] # {} /\ retry[i] \in Nat
        /\ retry[i] + 1 <= MAX_RETRY_COUNT
    BY MaxRetries DEF BInv, Progress, Retry, TooLate, TypeOK
  <1>2. /\ left' = [left EXCEPT ![i] = failed[i]] /\ failed' = [failed EXCEPT ![i] = {}]
        /\ retry' = [retry EXCEPT ![i] = retry[i] + 1]
        /\ UNCHANGED <<phase, up, gaveUp, arrived, tries>>
    BY DEF Retry
  <1>3. TypeOK'
    <2>1. retry[i] + 1 \in 0..MAX_RETRY_COUNT
      BY <1>1, MaxRetries
    <2> QED
      BY <2>1, <1>1, <1>2 DEF TypeOK
  <1>4. /\ left'[i] = failed[i] /\ failed'[i] = {} /\ retry'[i] = retry[i] + 1
        /\ \A k \in Instances \ {i} : left'[k] = left[k] /\ failed'[k] = failed[k] /\ retry'[k] = retry[k]
    BY <1>1, <1>2 DEF TypeOK
  <1>5. \A k \in Instances \ {i} : Progress(k)' /\ \A j \in Others(k) : Known(k, j)'
    BY <1>2, <1>4, OthersStay
  <1>6. Progress(i)'
    BY <1>1, <1>2, <1>4 DEF Progress, Others
  <1>7. ASSUME NEW j \in Others(i) PROVE Known(i, j)'
    <2>1. Known(i, j) /\ tries[i][j] \in Nat
      BY <1>1 DEF TypeOK, Others
    <2> QED
      BY <2>1, <1>1, <1>2, <1>4 DEF Known
  <1>8. GivesUpAfterAllRounds'
    BY <1>1, <1>2, <1>4 DEF BInv, GivesUpAfterAllRounds, Others, TypeOK
  <1> QED
    BY <1>3, <1>5, <1>6, <1>7, <1>8 DEF BInv, Others

LEMMA JobInv ==
  ASSUME BInv, NEW i \in Instances, StartJob(i) \/ End(i)
  PROVE  BInv'
  <1>1. TypeOK /\ Progress(i) /\ (\A j \in Others(i) : Known(i, j))
    BY DEF BInv
  <1>2. /\ UNCHANGED <<left, failed, retry, gaveUp, arrived, tries>> /\ up' \subseteq up
        /\ \/ phase[i] = "open" /\ phase' = [phase EXCEPT ![i] = "job"]
           \/ phase' = [phase EXCEPT ![i] = "end"]
    BY DEF StartJob, End, Go
  <1>3. TypeOK'
    BY <1>1, <1>2 DEF TypeOK, Phases
  <1>4. /\ \A k \in Instances \ {i} : phase'[k] = phase[k]
        /\ phase'[i] = "end" \/ (phase[i] = "open" /\ phase'[i] = "job")
    BY <1>1, <1>2 DEF TypeOK
  <1>5. \A k \in Instances \ {i} : Progress(k)' /\ \A j \in Others(k) : Known(k, j)'
    BY <1>2, <1>4, OthersStay
  <1>6. Progress(i)' /\ \A j \in Others(i) : Known(i, j)'
    BY <1>1, <1>2, <1>4 DEF Progress, Known, Others
  <1>7. GivesUpAfterAllRounds'
    BY <1>2 DEF BInv, GivesUpAfterAllRounds, Others
  <1> QED
    BY <1>3, <1>5, <1>6, <1>7 DEF BInv, Others

LEMMA BInvariant == Spec => []BInv
  <1>1. BInv /\ [Next]_vars => BInv'
    <2> SUFFICES ASSUME BInv, [Next]_vars PROVE BInv'
      OBVIOUS
    <2>1. ASSUME NEW i \in Instances, StartSshd(i) \/ Barrier(i) \/ StartJob(i) \/ End(i)
          PROVE  BInv'
      BY <2>1, StartInv, CheckInv, PassInv, GiveUpInv, RetryInv, JobInv DEF Barrier
    <2>2. CASE UNCHANGED vars
      BY <2>2 DEF vars, BInv, TypeOK, GivesUpAfterAllRounds, Progress, Known, Others
    <2> QED
      BY <2>1, <2>2 DEF Next
  <1> QED
    BY InitBInv, <1>1, PTL DEF Spec

\* The variables of the barriers have their types; in particular no barrier
\* counts more retries than MAX_RETRY_COUNT.
THEOREM BarrierTypes == Spec => []TypeOK
  BY BInvariant, PTL DEF BInv

\* For any number of containers: no container starts the user's command before
\* the sshd of every other one has been running, if failures count.
THEOREM NobodyFirst == Spec => []NobodyGoesFirst
  <1>1. BInv => NobodyGoesFirst
    BY DEF BInv, NobodyGoesFirst, Progress, Known
  <1> QED
    BY BInvariant, <1>1, PTL

\* For any timeout: a barrier that is given up has tried some container in
\* every round in vain, and none more often.
THEOREM AllRounds == Spec => []GivesUpAfterAllRounds
  BY BInvariant, PTL DEF BInv
=============================================================================
