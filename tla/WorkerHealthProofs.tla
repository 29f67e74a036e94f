-------------------------- MODULE WorkerHealthProofs --------------------------
(***************************************************************************)
(* A worker fences itself in time: for all flags, clocks and interleavings, *)
(* the initial wait of the next scheduler outlives the worker.  The         *)
(* scheduler's RemoteWorker is one of the schedulers that WorkerSelfHealth  *)
(* lets a worker have, so the worker fences itself beside it too; and the   *)
(* worker's opinion of itself never runs ahead of the scheduler's.          *)
(***************************************************************************)
EXTENDS WorkerHealth, TLAPS

(* The provers, in this order: most leaves are about sets and functions, which *)
(* is what Zenon does, and the rest needs arithmetic.                          *)
USE ZenonT(3), SMTT(20), ZenonT(20)

-----------------------------------------------------------------------------
(* The worker, beside any scheduler *)

\* The timeouts derived from the flags are positive integers.
LEMMA Timeouts ==
  /\ maxHealthcheckGap \in Nat /\ maxHeartbeatGap \in Nat
  /\ patience \in Nat /\ patience > 0
  /\ slack \in Nat
  /\ loseUnhealthyWorkerAfter \in Nat /\ workerCheckInterval \in Nat
  /\ minSafeWait = maxHealthcheckGap + slack + patience + 3
  /\ Never \in Int /\ Never < 0 /\ Skew \in Int /\ RpcTimeout \in Nat
  /\ MaxTime \in Nat /\ HeartbeatPeriod \in Nat
BY FlagsAssumption, LoseAssumption, NeverAssumption
   DEF AtLeast1, workerCheckInterval, loseUnhealthyWorkerAfter, maxHealthcheckGap,
       maxHeartbeatGap, minSafeWait, slack, patience

\* computeState returns a state, HEALTHY only on fresh healthchecks, and anything
\* but MUST_DIE only if one of its three excuses holds.
LEMMA ComputeStateFacts ==
  ASSUME NEW r \in HealthRecords(Int), NEW t \in Int, NEW hc \in Nat, NEW hb \in Nat,
         NEW lose \in Nat, lose > 0, Never \in Int
  PROVE  LET s == ComputeState(r, t, hc, hb, lose, FALSE)
         IN  /\ s \in States
             /\ s = "HEALTHY" => t <= r.timeLastGoodHealthcheckSent + hc
             /\ s # "MUST_DIE" =>
                  \/ t <= r.timeLastGoodHealthcheckSent + hc
                  \/ r.state = "HEALTHY"
                  \/ t <= r.timeBecameUnhealthy + lose
BY DEF HealthRecords, States, ComputeState, HealthOf, IsDisallowed, IsStale

\* setState keeps the record well formed and restarts the clock only on a change
\* from HEALTHY.
LEMMA SetStateFacts ==
  ASSUME NEW r \in HealthRecords(Int), NEW s \in States, NEW t \in Int, Never \in Int
  PROVE  LET q == SetState(r, s, t)
         IN  /\ q \in HealthRecords(Int)
             /\ q.state = s
             /\ q.timeLastGoodHealthcheckSent = r.timeLastGoodHealthcheckSent
             /\ q.timeBecameUnhealthy =
                  IF r.state = "HEALTHY" /\ s # "HEALTHY" THEN t ELSE r.timeBecameUnhealthy
BY DEF HealthRecords, States, SetState

\* A worker that has just started satisfies FenceInv.
LEMMA FenceInvInit == WorkerInit => FenceInv
<1> SUFFICES ASSUME WorkerInit PROVE FenceInv
  OBVIOUS
<1>1. TypeOK
  <2>1. NewRecord(Skew) \in HealthRecords(Int)
    BY Timeouts DEF NewRecord, HealthRecords, States
  <2>2. [isNew \in BOOLEAN |-> Idle]
          \in [BOOLEAN -> [start : Int, phase : {"none", "runs", "recorded"}]]
    BY Timeouts DEF Idle
  <2>3. now \in Time /\ workCheckedAt \in Time /\ callAt \in Int
    BY Timeouts DEF WorkerInit, Time
  <2> QED BY <2>1, <2>2, <2>3, Zenon DEF WorkerInit, TypeOK
<1>2. ThreadsAreOnTime /\ TimesArePast /\ Fencing
  BY Timeouts DEF WorkerInit, ThreadsAreOnTime, TimesArePast, Fencing, NewRecord, Idle,
     workerNow, lastContact, schedulerUp
<1> QED
  BY <1>1, <1>2 DEF FenceInv

\* Every step of the worker or of its environment keeps FenceInv.
LEMMA FenceInvNext == FenceInv /\ [WorkerNext]_workerVars => FenceInv'
<1> SUFFICES ASSUME FenceInv, [WorkerNext]_workerVars PROVE FenceInv'
  OBVIOUS
<1> USE Timeouts, ClockAssumption
<1> USE DEF FenceInv
<1>1. CASE ReceiveReply
  <2> DEFINE base == IF associated THEN work ELSE NewRecord(workerNow)
             beaten == [base EXCEPT !.timeLastHeartbeatReceived = workerNow]
  <2>1. /\ beaten \in HealthRecords(Int)
        /\ beaten.timeBecameUnhealthy <= workerNow
        /\ beaten.timeLastGoodHealthcheckSent <= lastContact
        /\ workerNow \in Int /\ reply \in States
    <3>1. workerNow \in Int /\ reply \in States
      BY <1>1 DEF ReceiveReply, TypeOK, workerNow, Time
    <3>2. /\ base \in HealthRecords(Int)
          /\ base.timeBecameUnhealthy <= workerNow
          /\ base.timeLastGoodHealthcheckSent <= lastContact
      BY <3>1 DEF TypeOK, TimesArePast, NewRecord, HealthRecords, States, workerNow,
         lastContact, Time, schedulerUp
    <3> QED
      <4> HIDE DEF base
      <4> QED BY <3>1, <3>2 DEF HealthRecords
  <2>2. work' = SetState(beaten, reply, workerNow)
    BY <1>1 DEF ReceiveReply
  <2>3. /\ work' \in HealthRecords(Int)
        /\ work'.timeBecameUnhealthy <= workerNow
        /\ work'.timeLastGoodHealthcheckSent <= lastContact
    <3> HIDE DEF beaten
    <3> QED BY <2>1, <2>2, SetStateFacts
  <2>4. TypeOK'
    BY <1>1, <2>3 DEF ReceiveReply, TypeOK, Time
  <2>5. ThreadsAreOnTime' /\ TimesArePast'
    BY <1>1, <2>3 DEF ReceiveReply, TypeOK, ThreadsAreOnTime, TimesArePast, lastContact,
       schedulerUp, workerNow, Time
  <2>6. Fencing'
    BY <1>1, <2>3 DEF ReceiveReply, TypeOK, ThreadsAreOnTime, TimesArePast, Fencing,
       lastContact, lastHealthy, schedulerUp, workerNow, Time, HealthRecords
  <2> QED BY <2>4, <2>5, <2>6
<1>2. CASE LoseReply
  BY <1>2 DEF LoseReply, workVars, TypeOK, ThreadsAreOnTime, TimesArePast, Fencing,
     lastContact, lastHealthy, schedulerUp, workerNow, Time
<1>3. CASE WorkerCheck
  <2> DEFINE s == ComputeState(work, workerNow, maxHealthcheckGap, maxHeartbeatGap,
                               patience, FALSE)
  <2>1. workerNow \in Int /\ work \in HealthRecords(Int)
    BY DEF TypeOK, workerNow, Time
  <2>2. /\ s \in States
        /\ s = "HEALTHY" =>
             workerNow <= work.timeLastGoodHealthcheckSent + maxHealthcheckGap
        /\ s # "MUST_DIE" =>
             \/ workerNow <= work.timeLastGoodHealthcheckSent + maxHealthcheckGap
             \/ work.state = "HEALTHY"
             \/ workerNow <= work.timeBecameUnhealthy + patience
    BY <2>1, ComputeStateFacts
  <2>3. work' = IF ~associated THEN work ELSE SetState(work, s, workerNow)
    BY <1>3 DEF WorkerCheck, patience
  <2> HIDE DEF s
  <2>4. /\ work' \in HealthRecords(Int)
        /\ work'.timeLastGoodHealthcheckSent = work.timeLastGoodHealthcheckSent
        /\ associated =>
             /\ work'.state = s
             /\ work'.timeBecameUnhealthy =
                  IF work.state = "HEALTHY" /\ s # "HEALTHY"
                  THEN workerNow ELSE work.timeBecameUnhealthy
        /\ ~associated => work' = work
    BY <2>1, <2>2, <2>3, SetStateFacts
  <2>5. TypeOK'
    BY <1>3, <2>4 DEF WorkerCheck, TypeOK, callVars, Time
  <2>6. ThreadsAreOnTime'
    BY <1>3 DEF WorkerCheck, TypeOK, callVars, ThreadsAreOnTime, lastContact, schedulerUp, Time
  <2>8. TimesArePast'
    <3>1. work'.timeBecameUnhealthy <= workerNow
      BY <2>1, <2>4 DEF TimesArePast
    <3> QED
      BY <1>3, <2>4, <3>1 DEF WorkerCheck, TimesArePast, lastContact, schedulerUp, workerNow
  <2>7. Fencing'
    <3> SUFFICES ASSUME associated, ~schedulerUp PROVE Fencing'
      BY <1>3 DEF WorkerCheck, Fencing, schedulerUp
    <3>1. /\ workCheckedAt' = now /\ crashedAt' = crashedAt /\ now \in Int
          /\ crashedAt \in Int /\ workCheckedAt \in Int /\ now <= workCheckedAt + 1
          /\ work.timeBecameUnhealthy \in Int /\ work.timeLastGoodHealthcheckSent \in Int
          /\ work.timeLastGoodHealthcheckSent <= crashedAt
      BY <1>3, <2>1 DEF WorkerCheck, TypeOK, Time, ThreadsAreOnTime, TimesArePast,
         lastContact, schedulerUp, HealthRecords
    <3>2. /\ work.state = "HEALTHY" => workCheckedAt <= lastHealthy
          /\ work.state # "HEALTHY" => work.timeBecameUnhealthy <= lastHealthy + 1 + Skew
          /\ workCheckedAt <= lastHealthy + 1 + patience
      BY <1>3 DEF WorkerCheck, Fencing
    <3>3. workerNow <= work.timeLastGoodHealthcheckSent + maxHealthcheckGap
            => now <= lastHealthy
      BY <3>1 DEF lastHealthy, workerNow
    <3>4. /\ s = "HEALTHY" => now <= lastHealthy
          /\ s # "MUST_DIE" => now <= lastHealthy + 1 + patience
          /\ now <= lastHealthy + 2 + patience
      BY <2>2, <3>1, <3>2, <3>3 DEF lastHealthy, workerNow
    <3>5. s # "HEALTHY" => work'.timeBecameUnhealthy <= lastHealthy + 1 + Skew
      BY <2>4, <3>1, <3>2 DEF lastHealthy, workerNow
    <3> QED
      BY <2>4, <3>1, <3>4, <3>5, <1>3 DEF WorkerCheck, Fencing, lastHealthy
  <2> QED BY <2>5, <2>6, <2>7, <2>8
<1>4. CASE WorkerDecide
  BY <1>4 DEF WorkerDecide, callVars, TypeOK, ThreadsAreOnTime, TimesArePast, Fencing,
     lastContact, lastHealthy, schedulerUp, workerNow, Time
<1>5. ASSUME NEW isNew \in BOOLEAN, ReportBadHealthcheck(isNew) PROVE FenceInv'
  BY <1>5 DEF ReportBadHealthcheck, Idle, workVars, callVars, TypeOK, ThreadsAreOnTime,
     TimesArePast, Fencing, lastContact, lastHealthy, schedulerUp, workerNow, Time
<1>6. ASSUME NEW isNew \in BOOLEAN, RetryUpdateStatus(isNew) PROVE FenceInv'
  BY <1>6 DEF RetryUpdateStatus, workVars, callVars, TypeOK, ThreadsAreOnTime,
     TimesArePast, Fencing, lastContact, lastHealthy, schedulerUp, workerNow, Time
<1>7. ASSUME NEW isNew \in BOOLEAN, AcknowledgeHealthcheck(isNew) PROVE FenceInv'
  BY <1>7 DEF AcknowledgeHealthcheck, Idle, callVars, TypeOK, HealthRecords, ThreadsAreOnTime,
     TimesArePast, Fencing, lastContact, lastHealthy, schedulerUp, workerNow, Time
<1>8. CASE WorkerTick
  BY <1>8 DEF WorkerTick, workVars, callVars, TypeOK, ThreadsAreOnTime, HealthRecords,
     TimesArePast, Fencing, lastContact, lastHealthy, schedulerUp, workerNow, Time
<1>9. CASE RequestSuicide
  BY <1>9 DEF RequestSuicide, callVars, TypeOK, ThreadsAreOnTime,
     TimesArePast, Fencing, lastContact, lastHealthy, schedulerUp, workerNow, Time
<1>10. ASSUME NEW isNew \in BOOLEAN, HealthcheckCall(isNew), schedulerUp,
              UNCHANGED <<now, crashedAt, workVars>>
       PROVE  /\ running' \in [BOOLEAN -> [start : Int, phase : {"none", "runs", "recorded"}]]
              /\ \A b \in BOOLEAN : running'[b].start <= now
  BY <1>10 DEF HealthcheckCall, TypeOK, TimesArePast, lastContact, schedulerUp, Time
<1>11. CASE AnyHeartbeat
  BY <1>11, <1>10 DEF AnyHeartbeat, HeartbeatCall, workVars, TypeOK, ThreadsAreOnTime,
     TimesArePast, Fencing, lastContact, lastHealthy, schedulerUp, workerNow, Time
<1>12. CASE AnyHealthcheck
  BY <1>12, <1>10 DEF AnyHealthcheck, workVars, callVars, TypeOK, ThreadsAreOnTime,
     TimesArePast, Fencing, lastContact, lastHealthy, schedulerUp, workerNow, Time
<1>13. CASE AnyUpdateStatus
  BY <1>13 DEF AnyUpdateStatus, UpdateStatusCall, workVars, callVars, TypeOK, ThreadsAreOnTime,
     TimesArePast, Fencing, lastContact, lastHealthy, schedulerUp, workerNow, Time
<1>14. CASE Crash
  BY <1>14 DEF Crash, workVars, callVars, TypeOK, ThreadsAreOnTime, HealthRecords,
     TimesArePast, Fencing, lastContact, lastHealthy, schedulerUp, workerNow, Time
<1>15. CASE UNCHANGED workerVars
  BY <1>15 DEF workerVars, workVars, callVars, TypeOK, ThreadsAreOnTime,
     TimesArePast, Fencing, lastContact, lastHealthy, schedulerUp, workerNow, Time
<1> QED
  BY <1>1, <1>2, <1>3, <1>4, <1>5, <1>6, <1>7, <1>8, <1>9, <1>11, <1>12, <1>13, <1>14,
     <1>15 DEF WorkerNext, WorkerStep

\* The health record of a worker and the times it refers to are always well
\* formed, and its fence always holds (BistroWorkerHandler's three threads).
THEOREM WorkerIsFenced == WorkerSpec => []FenceInv
BY FenceInvInit, FenceInvNext, PTL DEF WorkerSpec

\* Once a scheduler that starts at the crash has waited for kMinSafeWait less the
\* kill time, every worker of the old scheduler is killing its tasks.
THEOREM InitialWaitIsSafe == WorkerSpec => []InitialWaitOutlivesWorker
<1>1. FenceInv => InitialWaitOutlivesWorker
  BY Timeouts DEF FenceInv, TypeOK, ThreadsAreOnTime, Fencing, InitialWaitOutlivesWorker,
     lastHealthy, schedulerUp, Time
<1> QED
  BY <1>1, WorkerIsFenced, PTL

-----------------------------------------------------------------------------
(* The worker beside the scheduler *)

\* The scheduler knows a worker that knows it, or that it is about to answer.
ContactIsMutual == associated \/ reply # NoReply => sched # NoWorker

\* HEALTHY is said of a worker only once it has been healthy.
HealthyIsRemembered ==
  /\ reply = "HEALTHY" => sched.hasBeenHealthy
  /\ sched # NoWorker /\ sched.state = "HEALTHY" => sched.hasBeenHealthy

\* A healthcheck whose update reached the scheduler is credited there.
RecordedIsCredited ==
  \A isNew \in BOOLEAN : running[isNew].phase = "recorded" =>
    sched # NoWorker /\ running[isNew].start <= sched.timeLastGoodHealthcheckSent

\* The inductive invariant.
HealthInv ==
  /\ SchedTypeOK /\ ContactIsMutual /\ HealthyIsRemembered /\ RecordedIsCredited
  /\ HealthyByConsensus /\ NoExtraHealthcheckCredit

\* Whoever asks, computeState answers with a state, and says HEALTHY without the
\* consensus only of a worker that has been healthy.
LEMMA ComputeStateAnyFacts ==
  ASSUME NEW r \in HealthRecords(Int), NEW t \in Int, NEW hc \in Nat, NEW hb \in Nat,
         NEW lose \in Nat, NEW allowed \in BOOLEAN, Never \in Int
  PROVE  LET s == ComputeState(r, t, hc, hb, lose, allowed)
         IN  /\ s \in States
             /\ s = "HEALTHY" /\ ~allowed => r.hasBeenHealthy
BY DEF HealthRecords, States, ComputeState, HealthOf, IsDisallowed, IsStale

\* setState remembers that the worker has been healthy.
LEMMA SetStateRemembers ==
  ASSUME NEW r \in HealthRecords(Int), NEW s \in States, NEW t \in Int
  PROVE  SetState(r, s, t).hasBeenHealthy = (r.hasBeenHealthy \/ s = "HEALTHY")
BY DEF HealthRecords, States, SetState

\* What updateState does to the record it is given, and to the healthchecks.
LEMMA UpdateStateFacts ==
  ASSUME NEW r \in HealthRecords(Int), NEW permits \in BOOLEAN, SchedTypeOK,
         UpdateState(r, permits)
  PROVE  /\ sched' \in HealthRecords(Int) /\ sched'.state \in States
         /\ sched'.hasBeenHealthy = (r.hasBeenHealthy \/ sched'.state = "HEALTHY")
         /\ sched'.timeLastGoodHealthcheckSent = r.timeLastGoodHealthcheckSent
         /\ healthcheckSentAt' \in Int
         /\ \E isNew \in BOOLEAN : HealthcheckCall(isNew)
<1> DEFINE newState == ComputeState(r, now, maxHealthcheckGap, maxHeartbeatGap,
                                    loseUnhealthyWorkerAfter, permits)
<1>1. now \in Int /\ Never \in Int /\ healthcheckSentAt \in Int
  BY Timeouts DEF SchedTypeOK, TypeOK, Time
<1>2. newState \in States
  BY <1>1, Timeouts, ComputeStateAnyFacts
<1>3. sched' = SetState(r, newState, now)
  BY DEF UpdateState
<1> HIDE DEF newState
<1>4. /\ sched' \in HealthRecords(Int) /\ sched'.state = newState
      /\ sched'.timeLastGoodHealthcheckSent = r.timeLastGoodHealthcheckSent
  BY <1>1, <1>2, <1>3, SetStateFacts
<1>5. sched'.hasBeenHealthy = (r.hasBeenHealthy \/ newState = "HEALTHY")
  BY <1>1, <1>2, <1>3, SetStateRemembers
<1>6. healthcheckSentAt' \in Int /\ \E isNew \in BOOLEAN : HealthcheckCall(isNew)
  <2>1. CASE UNCHANGED <<healthcheckSentAt, running>>
    BY <2>1, <1>1 DEF HealthcheckCall
  <2>2. CASE healthcheckSentAt' = now /\ HealthcheckCall(newState = "NEW")
    BY <2>2, <1>1
  <2> QED BY <2>1, <2>2 DEF UpdateState, newState
<1> QED BY <1>2, <1>4, <1>5, <1>6

\* The record that processWorkerHeartbeat updates.
LEMMA BeatenFacts ==
  ASSUME SchedTypeOK
  PROVE  LET known == IF sched = NoWorker THEN NewRecord(now) ELSE sched
             beaten == [known EXCEPT !.timeLastHeartbeatReceived = now]
         IN  /\ beaten \in HealthRecords(Int)
             /\ beaten.timeLastGoodHealthcheckSent = known.timeLastGoodHealthcheckSent
             /\ beaten.hasBeenHealthy = known.hasBeenHealthy
             /\ beaten.state = known.state
             /\ known.state = "HEALTHY" => sched # NoWorker
<1>1. now \in Int /\ Never \in Int
  BY Timeouts DEF SchedTypeOK, TypeOK, Time
<1>2. CASE sched = NoWorker
  BY <1>1, <1>2 DEF NewRecord, HealthRecords, States
<1>3. CASE sched # NoWorker
  <2>1. sched \in HealthRecords(Int)
    BY <1>3 DEF SchedTypeOK
  <2> QED BY <1>1, <1>3, <2>1 DEF HealthRecords
<1> QED BY <1>2, <1>3

\* A healthcheck call starts one at most, and records none.
LEMMA HealthcheckCallFacts ==
  ASSUME NEW isNew \in BOOLEAN, SchedTypeOK, HealthcheckCall(isNew)
  PROVE  \A other \in BOOLEAN : running'[other].phase = "recorded" =>
           running'[other] = running[other]
BY DEF HealthcheckCall, SchedTypeOK, TypeOK

\* Every step of the two sides is a step that the worker may take beside some
\* scheduler, or leaves the worker alone.
LEMMA StepRefines == SchedTypeOK /\ [Next]_vars => [WorkerNext]_workerVars
<1> SUFFICES ASSUME SchedTypeOK, [Next]_vars PROVE [WorkerNext]_workerVars
  OBVIOUS
<1>1. CASE SchedulerCheck
  <2>1. sched \in HealthRecords(Int)
    BY <1>1 DEF SchedulerCheck, SchedTypeOK
  <2>2. \E isNew \in BOOLEAN : HealthcheckCall(isNew)
    BY <1>1, <2>1, UpdateStateFacts DEF SchedulerCheck
  <2>3. AnyHealthcheck
    BY <1>1, <2>2 DEF SchedulerCheck, AnyHealthcheck
  <2> QED BY <2>3 DEF WorkerNext
<1>2. CASE ProcessHeartbeat
  <2> DEFINE known == IF sched = NoWorker THEN NewRecord(now) ELSE sched
             beaten == [known EXCEPT !.timeLastHeartbeatReceived = now]
  <2>1. beaten \in HealthRecords(Int)
    BY BeatenFacts
  <2>2. PICK permits \in BOOLEAN : UpdateState(beaten, permits)
    BY <1>2 DEF ProcessHeartbeat
  <2>3. sched'.state \in States /\ \E isNew \in BOOLEAN : HealthcheckCall(isNew)
    BY <2>1, <2>2, UpdateStateFacts
  <2>4. AnyHeartbeat
    BY <1>2, <2>3 DEF ProcessHeartbeat, AnyHeartbeat
  <2> QED BY <2>4 DEF WorkerNext
<1>3. CASE InitializeRunningTasks
  BY <1>3 DEF InitializeRunningTasks
<1>4. CASE \E isNew \in BOOLEAN : RecordHealthcheck(isNew)
  BY <1>4 DEF RecordHealthcheck, AnyUpdateStatus, WorkerNext
<1>5. CASE ReceiveSuicideRequest
  BY <1>5 DEF ReceiveSuicideRequest, WorkerNext
<1>6. CASE Tick
  BY <1>6 DEF Tick, WorkerNext
<1>7. CASE (WorkerStep \/ Crash) /\ UNCHANGED schedVars
  BY <1>7 DEF WorkerNext
<1>8. CASE UNCHANGED vars
  BY <1>8 DEF vars
<1> QED BY <1>1, <1>2, <1>3, <1>4, <1>5, <1>6, <1>7, <1>8 DEF Next

\* Both invariants hold at first.
LEMMA HealthInvInit == Init => FenceInv /\ HealthInv
<1> SUFFICES ASSUME Init PROVE FenceInv /\ HealthInv
  OBVIOUS
<1>1. FenceInv
  BY FenceInvInit DEF Init
<1>2. SchedTypeOK
  BY <1>1, Timeouts DEF FenceInv, SchedTypeOK, Init, Time
<1>3. /\ ContactIsMutual /\ HealthyIsRemembered /\ RecordedIsCredited
      /\ HealthyByConsensus /\ NoExtraHealthcheckCredit
  BY Timeouts DEF Init, WorkerInit, NewRecord, Idle, NoReply, ContactIsMutual,
     HealthyIsRemembered, RecordedIsCredited, HealthyByConsensus, NoExtraHealthcheckCredit
<1> QED BY <1>1, <1>2, <1>3 DEF HealthInv

\* Every step of the pair keeps HealthInv.
LEMMA HealthInvNext == FenceInv /\ HealthInv /\ [Next]_vars => HealthInv'
<1> SUFFICES ASSUME FenceInv, HealthInv, [Next]_vars PROVE HealthInv'
  OBVIOUS
<1> USE DEF HealthInv
<1>t. TypeOK'
  BY StepRefines, FenceInvNext DEF FenceInv
<1>n. Never \in Int /\ now \in Int /\ Skew \in Int
  BY Timeouts DEF SchedTypeOK, TypeOK, Time
\* The scheduler's record is replaced by one as healthy and with the same credit.
<1>u. ASSUME sched' \in HealthRecords(Int),
             sched # NoWorker =>
               /\ sched.hasBeenHealthy => sched'.hasBeenHealthy
               /\ sched'.timeLastGoodHealthcheckSent = sched.timeLastGoodHealthcheckSent,
             sched'.state = "HEALTHY" => sched'.hasBeenHealthy,
             healthcheckSentAt' \in Int, schedCheckedAt' \in Time,
             reply' # NoReply => reply' = reply \/ reply' = sched'.state,
             \A isNew \in BOOLEAN : running'[isNew].phase = "recorded" =>
               running'[isNew] = running[isNew],
             UNCHANGED workVars
      PROVE  HealthInv'
  <2>1. sched' # NoWorker
    BY <1>u DEF NoWorker, HealthRecords, States
  <2>2. SchedTypeOK'
    BY <1>u, <1>t DEF SchedTypeOK
  <2>3. HealthyIsRemembered'
    BY <1>u, <2>1 DEF HealthyIsRemembered, ContactIsMutual, NoReply
  <2>4. RecordedIsCredited'
    BY <1>u, <2>1 DEF RecordedIsCredited
  <2>5. HealthyByConsensus'
    BY <1>u, <2>1 DEF HealthyByConsensus, workVars
  <2>6. NoExtraHealthcheckCredit'
    BY <1>u, <2>1 DEF NoExtraHealthcheckCredit, workVars
  <2> QED BY <2>1, <2>2, <2>3, <2>4, <2>5, <2>6 DEF ContactIsMutual
<1>1. CASE SchedulerCheck
  <2>1. sched \in HealthRecords(Int) /\ sched # NoWorker
    BY <1>1 DEF SchedulerCheck, SchedTypeOK
  <2>2. PICK permits \in BOOLEAN : UpdateState(sched, permits)
    BY <1>1 DEF SchedulerCheck
  <2>3. /\ sched' \in HealthRecords(Int) /\ healthcheckSentAt' \in Int
        /\ sched'.hasBeenHealthy = (sched.hasBeenHealthy \/ sched'.state = "HEALTHY")
        /\ sched'.timeLastGoodHealthcheckSent = sched.timeLastGoodHealthcheckSent
        /\ \E isNew \in BOOLEAN : HealthcheckCall(isNew)
    BY <2>1, <2>2, UpdateStateFacts
  <2>4. \A isNew \in BOOLEAN : running'[isNew].phase = "recorded" =>
          running'[isNew] = running[isNew]
    BY <2>3, HealthcheckCallFacts
  <2>5. schedCheckedAt' \in Time /\ reply' = reply /\ UNCHANGED workVars
    BY <1>1 DEF SchedulerCheck, SchedTypeOK, TypeOK, callVars
  <2> QED BY <2>3, <2>4, <2>5, <1>u
<1>2. CASE ProcessHeartbeat
  <2> DEFINE known == IF sched = NoWorker THEN NewRecord(now) ELSE sched
             beaten == [known EXCEPT !.timeLastHeartbeatReceived = now]
  <2>1. /\ beaten \in HealthRecords(Int)
        /\ beaten.timeLastGoodHealthcheckSent = known.timeLastGoodHealthcheckSent
        /\ beaten.hasBeenHealthy = known.hasBeenHealthy
    BY BeatenFacts
  <2>2. PICK permits \in BOOLEAN : UpdateState(beaten, permits)
    BY <1>2 DEF ProcessHeartbeat
  <2> HIDE DEF beaten
  <2>3. /\ sched' \in HealthRecords(Int) /\ healthcheckSentAt' \in Int
        /\ sched'.hasBeenHealthy = (beaten.hasBeenHealthy \/ sched'.state = "HEALTHY")
        /\ sched'.timeLastGoodHealthcheckSent = beaten.timeLastGoodHealthcheckSent
        /\ \E isNew \in BOOLEAN : HealthcheckCall(isNew)
    BY <2>1, <2>2, UpdateStateFacts
  <2>4. \A isNew \in BOOLEAN : running'[isNew].phase = "recorded" =>
          running'[isNew] = running[isNew]
    BY <2>3, HealthcheckCallFacts
  <2>5. schedCheckedAt' \in Time /\ UNCHANGED workVars
    BY <1>2 DEF ProcessHeartbeat, SchedTypeOK, TypeOK
  <2>6. reply' # NoReply => reply' = sched'.state
    BY <1>2 DEF ProcessHeartbeat, HeartbeatCall
  <2> QED BY <2>1, <2>3, <2>4, <2>5, <2>6, <1>u
<1>3. CASE InitializeRunningTasks
  <2>1. sched \in HealthRecords(Int) /\ sched # NoWorker
    BY <1>3 DEF InitializeRunningTasks, SchedTypeOK, NoWorker
  <2>2. sched' = SetState(sched, "UNHEALTHY", now) /\ "UNHEALTHY" \in States
    BY <1>3 DEF InitializeRunningTasks, States
  <2>3. /\ sched' \in HealthRecords(Int) /\ sched'.state = "UNHEALTHY"
        /\ sched'.timeLastGoodHealthcheckSent = sched.timeLastGoodHealthcheckSent
        /\ sched'.hasBeenHealthy = (sched.hasBeenHealthy \/ "UNHEALTHY" = "HEALTHY")
    BY <1>n, <2>1, <2>2, SetStateFacts, SetStateRemembers
  <2>4. /\ UNCHANGED <<reply, running, workVars>>
        /\ healthcheckSentAt' \in Int /\ schedCheckedAt' \in Time
    BY <1>3 DEF InitializeRunningTasks, SchedTypeOK, workerVars, callVars
  <2> QED BY <2>1, <2>2, <2>3, <2>4, <1>u
<1>4. ASSUME NEW isNew \in BOOLEAN, RecordHealthcheck(isNew) PROVE HealthInv'
  <2> DEFINE start == running[isNew].start
  <2>1. sched \in HealthRecords(Int) /\ sched # NoWorker
    BY <1>4 DEF RecordHealthcheck, UpdateStatusCall, ContactIsMutual, SchedTypeOK
  <2>2. running \in [BOOLEAN -> [start : Int, phase : {"none", "runs", "recorded"}]]
    BY DEF SchedTypeOK, TypeOK
  <2>3. /\ sched' \in HealthRecords(Int)
        /\ sched'.state = sched.state /\ sched'.hasBeenHealthy = sched.hasBeenHealthy
        /\ start <= sched'.timeLastGoodHealthcheckSent
        /\ sched.timeLastGoodHealthcheckSent <= sched'.timeLastGoodHealthcheckSent
        /\ sched.timeLastGoodHealthcheckSent \in Int
        /\ sched'.timeLastGoodHealthcheckSent \in Int
    BY <1>4, <1>n, <2>1, <2>2 DEF RecordHealthcheck, HealthRecords
  <2>4. sched' # NoWorker
    BY <2>3 DEF NoWorker, HealthRecords, States
  <2>5. /\ running'[isNew].start = start
        /\ running'[~isNew] = running[~isNew]
        /\ UNCHANGED <<reply, workVars, healthcheckSentAt, schedCheckedAt>>
    BY <1>4, <2>2 DEF RecordHealthcheck, UpdateStatusCall, callVars
  <2>6. \A other \in BOOLEAN : other = isNew \/ other = ~isNew
    OBVIOUS
  <2>7. RecordedIsCredited'
    BY <2>2, <2>3, <2>4, <2>5, <2>6 DEF RecordedIsCredited
  <2>8. NoExtraHealthcheckCredit'
    BY <1>n, <2>3, <2>4, <2>5 DEF NoExtraHealthcheckCredit, workVars, SchedTypeOK, TypeOK,
       HealthRecords
  <2>9. SchedTypeOK'
    BY <1>t, <2>3, <2>5 DEF SchedTypeOK
  <2>10. ContactIsMutual' /\ HealthyIsRemembered' /\ HealthyByConsensus'
    BY <2>1, <2>3, <2>4, <2>5 DEF ContactIsMutual, HealthyIsRemembered, HealthyByConsensus,
       workVars
  <2> QED BY <2>7, <2>8, <2>9, <2>10
\* A step of the worker that leaves the scheduler alone.
<1>v. ASSUME UNCHANGED schedVars,
             associated' => associated \/ reply # NoReply,
             reply' # NoReply => reply' = reply,
             work'.hasBeenHealthy => work.hasBeenHealthy \/ reply = "HEALTHY",
             work'.state = "HEALTHY" => work'.hasBeenHealthy,
             \/ work'.timeLastGoodHealthcheckSent \in {Never, work.timeLastGoodHealthcheckSent}
             \/ \E isNew \in BOOLEAN :
                  /\ running[isNew].phase = "recorded"
                  /\ work'.timeLastGoodHealthcheckSent = running[isNew].start,
             \A isNew \in BOOLEAN : running'[isNew].phase = "recorded" =>
               running'[isNew] = running[isNew]
      PROVE  HealthInv'
  <2>1. SchedTypeOK'
    BY <1>v, <1>t DEF SchedTypeOK, schedVars
  <2>2. ContactIsMutual' /\ HealthyIsRemembered'
    BY <1>v DEF ContactIsMutual, HealthyIsRemembered, schedVars, NoReply
  <2>3. HealthyByConsensus'
    BY <1>v DEF ContactIsMutual, HealthyIsRemembered, HealthyByConsensus, schedVars, NoReply
  <2>4. NoExtraHealthcheckCredit'
    BY <1>v, <1>n DEF NoExtraHealthcheckCredit, RecordedIsCredited, schedVars
  <2>5. RecordedIsCredited'
    BY <1>v DEF RecordedIsCredited, schedVars
  <2> QED BY <2>1, <2>2, <2>3, <2>4, <2>5
<1>w. HealthyByConsensus /\ work \in HealthRecords(Int)
  BY DEF SchedTypeOK, TypeOK
<1>5. CASE ReceiveSuicideRequest \/ Tick \/ (Crash /\ UNCHANGED schedVars) \/ UNCHANGED vars
  <2>1. UNCHANGED <<schedVars, associated, reply, work, running>>
    BY <1>5 DEF ReceiveSuicideRequest, RequestSuicide, Tick, WorkerTick, Crash, vars,
       workerVars, workVars, callVars
  <2> QED BY <2>1, <1>v, <1>w DEF HealthyByConsensus
<1>6. CASE (LoseReply \/ WorkerDecide) /\ UNCHANGED schedVars
  <2>1. /\ UNCHANGED <<schedVars, associated, work, running>>
        /\ reply' # NoReply => reply' = reply
    BY <1>6 DEF LoseReply, WorkerDecide, workVars, callVars
  <2> QED BY <2>1, <1>v, <1>w DEF HealthyByConsensus
<1>7. CASE ReceiveReply /\ UNCHANGED schedVars
  <2> DEFINE base == IF associated THEN work ELSE NewRecord(workerNow)
             beaten == [base EXCEPT !.timeLastHeartbeatReceived = workerNow]
  <2>1. workerNow \in Int /\ reply \in States
    BY <1>7, <1>n DEF ReceiveReply, SchedTypeOK, TypeOK, workerNow
  <2>2. /\ base \in HealthRecords(Int)
        /\ base.hasBeenHealthy => work.hasBeenHealthy
        /\ base.timeLastGoodHealthcheckSent \in {Never, work.timeLastGoodHealthcheckSent}
    BY <1>w, <1>n, <2>1 DEF NewRecord, HealthRecords, States
  <2> HIDE DEF base
  <2>3. /\ beaten \in HealthRecords(Int)
        /\ beaten.hasBeenHealthy = base.hasBeenHealthy
        /\ beaten.timeLastGoodHealthcheckSent = base.timeLastGoodHealthcheckSent
    BY <2>1, <2>2 DEF HealthRecords
  <2>4. work' = SetState(beaten, reply, workerNow)
    BY <1>7 DEF ReceiveReply, base
  <2> HIDE DEF beaten
  <2>5. /\ work'.hasBeenHealthy = (beaten.hasBeenHealthy \/ reply = "HEALTHY")
        /\ work'.state = reply
        /\ work'.timeLastGoodHealthcheckSent = beaten.timeLastGoodHealthcheckSent
    BY <1>n, <2>1, <2>3, <2>4, SetStateFacts, SetStateRemembers
  <2>6. reply # NoReply /\ reply' = NoReply /\ UNCHANGED <<schedVars, running>>
    BY <1>7 DEF ReceiveReply
  <2> QED BY <2>2, <2>3, <2>5, <2>6, <1>v
<1>8. CASE WorkerCheck /\ UNCHANGED schedVars
  <2> DEFINE newState == ComputeState(work, workerNow, maxHealthcheckGap, maxHeartbeatGap,
                           loseUnhealthyWorkerAfter - workerCheckInterval, FALSE)
  <2>1. UNCHANGED <<schedVars, associated, reply, running>>
    BY <1>8 DEF WorkerCheck, callVars
  <2>2. CASE work' = work
    BY <2>1, <2>2, <1>v, <1>w DEF HealthyByConsensus
  <2>3. CASE work' = SetState(work, newState, workerNow)
    <3>1. workerNow \in Int /\ loseUnhealthyWorkerAfter - workerCheckInterval \in Nat
      BY <1>n, Timeouts DEF workerNow, patience
    <3>2. newState \in States /\ (newState = "HEALTHY" => work.hasBeenHealthy)
      BY <1>n, <1>w, <3>1, Timeouts, ComputeStateAnyFacts
    <3> HIDE DEF newState
    <3>3. /\ work'.hasBeenHealthy = (work.hasBeenHealthy \/ newState = "HEALTHY")
          /\ work'.state = newState
          /\ work'.timeLastGoodHealthcheckSent = work.timeLastGoodHealthcheckSent
      BY <1>n, <1>w, <2>3, <3>1, <3>2, SetStateFacts, SetStateRemembers
    <3> QED BY <2>1, <3>2, <3>3, <1>v
  <2> QED BY <1>8, <2>2, <2>3 DEF WorkerCheck
<1>9. ASSUME NEW isNew \in BOOLEAN, UNCHANGED schedVars,
             ReportBadHealthcheck(isNew) \/ RetryUpdateStatus(isNew)
      PROVE  HealthInv'
  <2>1. UNCHANGED <<schedVars, associated, work, reply>>
    BY <1>9 DEF ReportBadHealthcheck, RetryUpdateStatus, workVars, callVars
  <2>2. \A other \in BOOLEAN : running'[other].phase = "recorded" =>
          running'[other] = running[other]
    BY <1>9 DEF ReportBadHealthcheck, RetryUpdateStatus, SchedTypeOK, TypeOK, Idle
  <2> QED BY <2>1, <2>2, <1>v, <1>w DEF HealthyByConsensus
<1>10. ASSUME NEW isNew \in BOOLEAN, UNCHANGED schedVars, AcknowledgeHealthcheck(isNew)
       PROVE  HealthInv'
  <2>1. UNCHANGED <<schedVars, associated, reply>>
    BY <1>10 DEF AcknowledgeHealthcheck, callVars
  <2>2. \A other \in BOOLEAN : running'[other].phase = "recorded" =>
          running'[other] = running[other]
    BY <1>10 DEF AcknowledgeHealthcheck, SchedTypeOK, TypeOK, Idle
  <2>3. /\ work'.state = work.state /\ work'.hasBeenHealthy = work.hasBeenHealthy
        /\ work'.timeLastGoodHealthcheckSent = running[isNew].start
        /\ running[isNew].phase = "recorded"
    BY <1>10, <1>w DEF AcknowledgeHealthcheck, HealthRecords
  <2> QED BY <2>1, <2>2, <2>3, <1>v, <1>w DEF HealthyByConsensus
<1> QED
  BY <1>1, <1>2, <1>3, <1>4, <1>5, <1>6, <1>7, <1>8, <1>9, <1>10
     DEF Next, WorkerStep

\* RemoteWorker and the worker's own health model together: every run of the two is
\* a run of the worker beside a scheduler that answers as it likes (updateState,
\* processHeartbeat and recordNonRunningTaskStatus add nothing it must fear).
THEOREM SchedulerIsAnyScheduler == Spec => WorkerSpec
<1>1. Init => WorkerInit
  BY DEF Init
<1>2. Spec => [](FenceInv /\ HealthInv)
  <2>1. FenceInv /\ HealthInv /\ [Next]_vars => FenceInv' /\ HealthInv'
    BY HealthInvNext, StepRefines, FenceInvNext DEF HealthInv
  <2> QED BY <2>1, HealthInvInit, PTL DEF Spec
<1>3. HealthInv /\ [Next]_vars => [WorkerNext]_workerVars
  BY StepRefines DEF HealthInv
<1> QED BY <1>1, <1>2, <1>3, PTL DEF Spec, WorkerSpec

\* So kMinSafeWait (updateInitialWait) is long enough beside the real scheduler too.
COROLLARY InitialWaitIsSafeHere == Spec => []InitialWaitOutlivesWorker
BY SchedulerIsAnyScheduler, InitialWaitIsSafe, PTL

\* Whatever the consensus says and whichever calls are lost, HealthInv holds.
LEMMA HealthInvHolds == Spec => []HealthInv
<1>1. FenceInv /\ HealthInv /\ [Next]_vars => FenceInv' /\ HealthInv'
  BY HealthInvNext, StepRefines, FenceInvNext DEF HealthInv
<1> QED BY <1>1, HealthInvInit, PTL DEF Spec

\* The worker never thinks it was healthy before the scheduler did
\* (RemoteWorker::setState, BistroWorkerHandler::setState).
THEOREM WorkerDefersToConsensus == Spec => []HealthyByConsensus
BY HealthInvHolds, PTL DEF HealthInv

\* The worker never credits itself with a later healthcheck than the scheduler does
\* (notifyFinished, recordNonRunningTaskStatus).
THEOREM WorkerTakesNoExtraCredit == Spec => []NoExtraHealthcheckCredit
BY HealthInvHolds, PTL DEF HealthInv

\* The health records and the times that the worker and the scheduler's RemoteWorker
\* hold keep their types, whichever calls are lost or late (RemoteWorker::updateState).
THEOREM SchedulerTypeCorrect == Spec => []SchedTypeOK
BY HealthInvHolds, PTL DEF HealthInv
=============================================================================
