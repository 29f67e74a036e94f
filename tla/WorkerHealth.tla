----------------------------- MODULE WorkerHealth -----------------------------
(***************************************************************************)
(* A worker's health on both sides: the worker of WorkerSelfHealth and the  *)
(* RemoteWorker that the scheduler keeps for it.  Whether the worker set    *)
(* consensus permits the worker to become healthy is left open here.        *)
(***************************************************************************)
EXTENDS WorkerSelfHealth

VARIABLES
  sched,              \* RemoteWorker::state_, or NoWorker before the first heartbeat
  healthcheckSentAt,  \* RemoteWorker::timeLastHealthcheckSent_
  schedCheckedAt      \* the last pass of the RemoteWorkerRunner thread

schedVars == <<sched, healthcheckSentAt, schedCheckedAt>>
vars == <<workerVars, schedVars>>

NoWorker == [state |-> "NONE"]

(* The type invariant of the scheduler's side.                               *)
SchedTypeOK ==
  /\ TypeOK
  /\ sched \in HealthRecords(Int) \cup {NoWorker}
  /\ healthcheckSentAt \in Int /\ schedCheckedAt \in Time

Init ==
  /\ WorkerInit
  /\ sched = NoWorker /\ healthcheckSentAt = Never /\ schedCheckedAt = 0

\* RemoteWorker::updateState on the record r, and what applyUpdate does with it.
\* computeState never leaves MUST_DIE, and a lost worker gets no healthcheck.
UpdateState(r, consensusPermits) ==
  LET newState == ComputeState(r, now, maxHealthcheckGap, maxHeartbeatGap,
                               loseUnhealthyWorkerAfter, consensusPermits)
      due == now >= healthcheckSentAt + AtLeast1(HealthcheckPeriod)
  IN  /\ sched' = SetState(r, newState, now)
      /\ IF newState # "MUST_DIE" /\ due
         THEN healthcheckSentAt' = now /\ HealthcheckCall(newState = "NEW")
         ELSE UNCHANGED <<healthcheckSentAt, running>>

\* The RemoteWorkerRunner background thread.
SchedulerCheck ==
  /\ schedulerUp /\ sched # NoWorker
  /\ \E consensusPermits \in BOOLEAN : UpdateState(sched, consensusPermits)
  /\ schedCheckedAt' = now
  /\ UNCHANGED <<now, crashedAt, workVars, callVars>>

\* processWorkerHeartbeat; the first one makes a RemoteWorker.
ProcessHeartbeat ==
  /\ schedulerUp
  /\ LET known == IF sched = NoWorker THEN NewRecord(now) ELSE sched
     IN  \E consensusPermits \in BOOLEAN :
           UpdateState([known EXCEPT !.timeLastHeartbeatReceived = now],
                       consensusPermits)
  /\ HeartbeatCall(sched'.state)
  /\ UNCHANGED <<now, crashedAt, workVars, schedCheckedAt>>

\* fetchRunningTasksForNewWorkers gets an answer: initializeRunningTasks.
InitializeRunningTasks ==
  /\ schedulerUp /\ sched.state = "NEW" /\ ~suicidal
  /\ sched' = SetState(sched, "UNHEALTHY", now)
  /\ UNCHANGED <<workerVars, healthcheckSentAt, schedCheckedAt>>

\* remoteUpdateStatus of a good healthcheck: recordNonRunningTaskStatus.
RecordHealthcheck(isNew) ==
  /\ UpdateStatusCall(isNew)
  /\ sched' = [sched EXCEPT !.timeLastGoodHealthcheckSent =
                 IF running[isNew].start > @ THEN running[isNew].start ELSE @]
  /\ UNCHANGED <<now, crashedAt, workVars, callVars, healthcheckSentAt, schedCheckedAt>>

\* Mutant of ReceiveSuicideRequest: the worker does not compare scheduler IDs.
ReceiveAnySuicideRequest ==
  /\ sched.state = "MUST_DIE" /\ ~suicidal
  /\ suicidal' = TRUE
  /\ UNCHANGED <<now, crashedAt, work, associated, workCheckedAt, deciding,
                 callVars, running, schedVars>>

\* A requestSuicide, sent when the scheduler loses the worker and on every later
\* heartbeat, arrives.
ReceiveSuicideRequest ==
  /\ sched.state = "MUST_DIE"
  /\ RequestSuicide
  /\ UNCHANGED schedVars

\* The scheduler does not oversleep either.
Tick ==
  /\ schedulerUp /\ sched # NoWorker => now < schedCheckedAt + workerCheckInterval
  /\ WorkerTick
  /\ UNCHANGED schedVars

Next ==
  \/ SchedulerCheck \/ ProcessHeartbeat \/ InitializeRunningTasks
  \/ \E isNew \in BOOLEAN : RecordHealthcheck(isNew)
  \/ ReceiveSuicideRequest \/ Tick
  \/ (WorkerStep \/ Crash) /\ UNCHANGED schedVars

Spec == Init /\ [][Next]_vars

------------------------------------------------------------------------------
\* The worker defers its first switch to HEALTHY to the scheduler, which alone
\* knows the worker set consensus (RemoteWorker::setState, BistroWorkerHandler::
\* setState): it never thinks it was healthy before the scheduler did.
HealthyByConsensus ==
  /\ work.hasBeenHealthy => sched # NoWorker /\ sched.hasBeenHealthy
  /\ work.state = "HEALTHY" => work.hasBeenHealthy

\* The worker never credits itself with a healthcheck later than the last one
\* the scheduler credits it with, although acknowledgements get lost, updates are
\* retried and two healthchecks may run at once (notifyFinished).
NoExtraHealthcheckCredit ==
  work.timeLastGoodHealthcheckSent > Never =>
    /\ sched # NoWorker
    /\ work.timeLastGoodHealthcheckSent <= sched.timeLastGoodHealthcheckSent
=============================================================================
