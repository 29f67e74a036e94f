--------------------------- MODULE WorkerSelfHealth ---------------------------
(***************************************************************************)
(* The health model that a worker (BistroWorkerHandler) keeps of itself: the *)
(* heartbeat, healthcheck and notifyFinished threads, the healthchecks it   *)
(* runs, and its suicide.  The scheduler is the environment here: it may    *)
(* answer a heartbeat with any state, send a healthcheck at any time, or    *)
(* crash.  WorkerHealth puts the real scheduler in its place.               *)
(*                                                                          *)
(* Time is in whole seconds of the scheduler's clock; the worker's clock    *)
(* reads now + Skew.                                                        *)
(***************************************************************************)
EXTENDS RemoteWorkerState

CONSTANTS
  HealthcheckPeriod,      \* --healthcheck_period
  HealthcheckGrace,       \* --healthcheck_grace_period
  HeartbeatPeriod,        \* --heartbeat_period_sec of the worker
  HeartbeatGrace,         \* --heartbeat_grace_period
  LoseAfter,              \* --lose_unhealthy_worker_after
  CheckInterval,          \* --worker_check_interval
  SafetyMargin,           \* --CAUTION_worker_suicide_backoff_safety_margin_sec
  RpcTimeout,             \* connect + send + receive timeouts of a thrift call
  Skew,                   \* worker clock minus scheduler clock
  MaxUptime, MaxTime      \* bounds on the time explored: before and after a crash

AtLeast1(flag) == IF flag < 1 THEN 1 ELSE flag

workerCheckInterval == AtLeast1(CheckInterval)
loseUnhealthyWorkerAfter == AtLeast1(LoseAfter)
maxHealthcheckGap ==
  AtLeast1(HealthcheckPeriod) + AtLeast1(HealthcheckGrace) + workerCheckInterval
maxHeartbeatGap == HeartbeatPeriod + AtLeast1(HeartbeatGrace)

\* Mutant of minSafeWait: the wait forgets the time a worker may stay unhealthy.
minSafeWaitIgnoringLoss ==
  maxHealthcheckGap + workerCheckInterval + AtLeast1(SafetyMargin) + 1

\* kMinSafeWait of updateInitialWait, without its last term: the time that the
\* worker's tasks need to die once the worker starts killing them.
minSafeWait ==
  maxHealthcheckGap + loseUnhealthyWorkerAfter + workerCheckInterval
    + AtLeast1(SafetyMargin) + 1

ASSUME FlagsAssumption ==
  /\ HealthcheckPeriod \in Int /\ HealthcheckGrace \in Int
  /\ HeartbeatPeriod \in Nat /\ HeartbeatGrace \in Int
  /\ LoseAfter \in Int /\ CheckInterval \in Int /\ SafetyMargin \in Int
  /\ RpcTimeout \in Nat /\ Skew \in Int /\ MaxUptime \in Nat /\ MaxTime \in Nat

\* The worker dies a check interval before the scheduler loses it, and a timeout
\* that is not positive would mean "never".
ASSUME LoseAssumption == loseUnhealthyWorkerAfter > workerCheckInterval

\* What kMinSafeWait leaves for a worker clock that is behind, and for a response
\* that the scheduler sent just before it crashed.
slack == 2 * workerCheckInterval + AtLeast1(SafetyMargin) - 2

ASSUME ClockAssumption == -Skew <= slack /\ RpcTimeout <= maxHealthcheckGap + slack

\* INT64_MIN is so early that adding any gap leaves it in the past.
ASSUME NeverAssumption ==
  /\ Never \in Int
  /\ Never + maxHealthcheckGap < 0 /\ Never + maxHealthcheckGap < Skew
  /\ Never + maxHeartbeatGap < 0 /\ Never + maxHeartbeatGap < Skew

VARIABLES
  now,           \* the scheduler's clock
  crashedAt,     \* when the scheduler crashed, or Never
  work,          \* BistroWorkerHandler::state_
  associated,    \* schedulerState_ holds this scheduler's ID and timeouts
  workCheckedAt, \* the last pass of the worker's healthcheck thread
  deciding,      \* healthcheck() is between its unlock and its re-read
  suicidal,      \* committingSuicide_
  reply,         \* workerState in the heartbeat response on its way, or NoReply
  callAt,        \* when that call reached the scheduler, or the last one ended
  running        \* healthchecks sent to the worker or in its runningTasks_: the
                 \* "new worker" one (TRUE) and the ordinary one (FALSE) have
                 \* task IDs of their own

callVars == <<reply, callAt>>
workVars == <<work, associated, workCheckedAt, deciding, suicidal>>
workerVars == <<now, crashedAt, workVars, callVars, running>>

NoReply == "NONE"
Idle == [start |-> Never, phase |-> "none"]
Time == 0..MaxTime
workerNow == now + Skew
schedulerUp == crashedAt = Never

(* The type invariant.                                                       *)
TypeOK ==
  /\ now \in Time /\ crashedAt \in Time \cup {Never}
  /\ work \in HealthRecords(Int)
  /\ associated \in BOOLEAN /\ deciding \in BOOLEAN /\ suicidal \in BOOLEAN
  /\ workCheckedAt \in Time
  /\ reply \in States \cup {NoReply} /\ callAt \in Int
  /\ running \in [BOOLEAN -> [start : Int, phase : {"none", "runs", "recorded"}]]

WorkerInit ==
  /\ now = 0 /\ crashedAt = Never
  /\ work = NewRecord(Skew)
  /\ associated = FALSE /\ workCheckedAt = 0
  /\ deciding = FALSE /\ suicidal = FALSE
  /\ reply = NoReply /\ callAt = -HeartbeatPeriod
  /\ running = [isNew \in BOOLEAN |-> Idle]

------------------------------------------------------------------------------
(* Calls between the worker and the scheduler *)

\* heartbeat(), up to the answer.  The thread sleeps a period between calls.
\* The response may be lost: then the call has ended.
HeartbeatCall(workerState) ==
  /\ ~suicidal /\ reply = NoReply /\ now >= callAt + HeartbeatPeriod
  /\ reply' \in {NoReply, workerState} /\ callAt' = now

\* sendWorkerHealthcheck and the admission test of the worker's runTask: refused
\* while one with the same task ID is in runningTasks_, and by instance ID unless
\* it is a "new worker" healthcheck.  The call may also get lost.
HealthcheckCall(isNew) ==
  \/ UNCHANGED running
  \/ /\ ~suicidal /\ running[isNew] = Idle /\ (associated \/ isNew)
     /\ running' = [running EXCEPT ![isNew] = [start |-> now, phase |-> "runs"]]

\* A healthcheck process has ended well, and notifyFinished() calls updateStatus;
\* that thread makes one call at a time.  The scheduler refuses it unless the
\* worker names this scheduler.
UpdateStatusCall(isNew) ==
  /\ schedulerUp /\ associated
  /\ running[isNew].phase = "runs" /\ running[~isNew].phase # "recorded"
  /\ running' = [running EXCEPT ![isNew].phase = "recorded"]

------------------------------------------------------------------------------
(* The worker's own steps *)

\* Mutant of ReceiveReply: a call that failed is handled like a response.
ReceiveAnyReply ==
  /\ work' = SetState(work, reply, workerNow)
  /\ associated' = TRUE /\ reply' = NoReply /\ callAt' = now
  /\ UNCHANGED <<now, crashedAt, workCheckedAt, deciding, suicidal, running>>

\* heartbeat(), from the response on.
ReceiveReply ==
  /\ reply # NoReply
  /\ LET base == IF associated THEN work ELSE NewRecord(workerNow)
         beaten == [base EXCEPT !.timeLastHeartbeatReceived = workerNow]
     IN  work' = SetState(beaten, reply, workerNow)
  /\ associated' = TRUE /\ reply' = NoReply /\ callAt' = now
  /\ UNCHANGED <<now, crashedAt, workCheckedAt, deciding, suicidal, running>>

\* The response is lost on the way, or too late.
LoseReply ==
  /\ reply # NoReply
  /\ reply' = NoReply /\ callAt' = now
  /\ UNCHANGED <<now, crashedAt, workVars, running>>

\* Mutant of WorkerCheck: the worker lets itself become healthy.
WorkerCheckAllowingHealthy ==
  /\ ~suicidal /\ ~deciding
  /\ work' = IF ~associated THEN work
             ELSE SetState(work,
                    ComputeState(work, workerNow, maxHealthcheckGap, maxHeartbeatGap,
                      loseUnhealthyWorkerAfter - workerCheckInterval, TRUE),
                    workerNow)
  /\ workCheckedAt' = now /\ deciding' = TRUE
  /\ UNCHANGED <<now, crashedAt, associated, suicidal, callVars, running>>

\* healthcheck(), under the state_ lock.  Before the first response the dummy
\* timeouts keep a NEW worker NEW.
WorkerCheck ==
  /\ ~suicidal /\ ~deciding
  /\ work' = IF ~associated THEN work
             ELSE SetState(work,
                    ComputeState(work, workerNow, maxHealthcheckGap, maxHeartbeatGap,
                      loseUnhealthyWorkerAfter - workerCheckInterval, FALSE),
                    workerNow)
  /\ workCheckedAt' = now /\ deciding' = TRUE
  /\ UNCHANGED <<now, crashedAt, associated, suicidal, callVars, running>>

\* Mutant of WorkerDecide: a worker dies only if it was healthy once.
WorkerDecideIfHealthyOnce ==
  /\ deciding
  /\ deciding' = FALSE
  /\ suicidal' = (suicidal \/ (work.state = "MUST_DIE" /\ work.hasBeenHealthy))
  /\ UNCHANGED <<now, crashedAt, work, associated, workCheckedAt, callVars, running>>

\* healthcheck(), after the unlock: the state is read again.
WorkerDecide ==
  /\ deciding
  /\ deciding' = FALSE
  /\ suicidal' = (suicidal \/ work.state = "MUST_DIE")
  /\ UNCHANGED <<now, crashedAt, work, associated, workCheckedAt, callVars, running>>

\* A healthcheck ended badly: notifyFinished() reports it, the scheduler ignores it.
ReportBadHealthcheck(isNew) ==
  /\ schedulerUp /\ associated
  /\ running[isNew].phase = "runs" /\ running[~isNew].phase # "recorded"
  /\ running' = [running EXCEPT ![isNew] = Idle]
  /\ UNCHANGED <<now, crashedAt, workVars, callVars>>

\* notifyFinished(): updateStatus fails after the scheduler recorded it, and the
\* status goes back to the queue.
RetryUpdateStatus(isNew) ==
  /\ running[isNew].phase = "recorded"
  /\ running' = [running EXCEPT ![isNew].phase = "runs"]
  /\ UNCHANGED <<now, crashedAt, workVars, callVars>>

\* Mutant of AcknowledgeHealthcheck: the credit is for when the check ended.
AcknowledgeHealthcheckAtEnd(isNew) ==
  /\ running[isNew].phase = "recorded"
  /\ running' = [running EXCEPT ![isNew] = Idle]
  /\ work' = [work EXCEPT !.timeLastGoodHealthcheckSent = workerNow]
  /\ UNCHANGED <<now, crashedAt, associated, workCheckedAt, deciding, suicidal, callVars>>

\* notifyFinished(): updateStatus is acknowledged.
AcknowledgeHealthcheck(isNew) ==
  /\ running[isNew].phase = "recorded"
  /\ running' = [running EXCEPT ![isNew] = Idle]
  /\ work' = [work EXCEPT !.timeLastGoodHealthcheckSent = running[isNew].start]
  /\ UNCHANGED <<now, crashedAt, associated, workCheckedAt, deciding, suicidal, callVars>>

\* requestSuicide is refused unless both IDs match.
RequestSuicide ==
  /\ associated /\ ~suicidal
  /\ suicidal' = TRUE
  /\ UNCHANGED <<now, crashedAt, work, associated, workCheckedAt, deciding,
                 callVars, running>>

\* One second passes.  No thread oversleeps: the worker checks itself every
\* second, and a call ends by its timeout.
WorkerTick ==
  /\ now < MaxTime /\ (schedulerUp => now < MaxUptime)
  /\ suicidal \/ (now < workCheckedAt + 1 /\ ~deciding)
  /\ reply = NoReply \/ now < callAt + RpcTimeout
  /\ now' = now + 1
  /\ UNCHANGED <<crashedAt, workVars, callVars, running>>

WorkerStep ==
  \/ ReceiveReply \/ LoseReply \/ WorkerCheck \/ WorkerDecide
  \/ \E isNew \in BOOLEAN :
       \/ ReportBadHealthcheck(isNew) \/ RetryUpdateStatus(isNew)
       \/ AcknowledgeHealthcheck(isNew)

------------------------------------------------------------------------------
(* Any scheduler at all *)

AnyHeartbeat ==
  /\ schedulerUp
  /\ \E workerState \in States : HeartbeatCall(workerState)
  /\ \E isNew \in BOOLEAN : HealthcheckCall(isNew)
  /\ UNCHANGED <<now, crashedAt, workVars>>

AnyHealthcheck ==
  /\ schedulerUp
  /\ \E isNew \in BOOLEAN : HealthcheckCall(isNew)
  /\ UNCHANGED <<now, crashedAt, workVars, callVars>>

AnyUpdateStatus ==
  /\ \E isNew \in BOOLEAN : UpdateStatusCall(isNew)
  /\ UNCHANGED <<now, crashedAt, workVars, callVars>>

Crash ==
  /\ schedulerUp
  /\ crashedAt' = now
  /\ UNCHANGED <<now, workVars, callVars, running>>

WorkerNext ==
  \/ WorkerStep \/ WorkerTick \/ RequestSuicide
  \/ AnyHeartbeat \/ AnyHealthcheck \/ AnyUpdateStatus \/ Crash

WorkerSpec == WorkerInit /\ [][WorkerNext]_workerVars

------------------------------------------------------------------------------
\* A scheduler that starts after the crash waits for at least kMinSafeWait, so
\* that no worker of the old scheduler is left (updateInitialWait).  When only the
\* time to kill its tasks remains of that wait, the worker has indeed begun to
\* kill them, whatever it was told last and however its threads interleave.
InitialWaitOutlivesWorker ==
  associated /\ ~schedulerUp /\ now >= crashedAt + minSafeWait => suicidal

\* The inductive invariant behind it.  Everything the worker knows of a crashed
\* scheduler is at most as late as the crash or a response timeout after it, so
\* it sees itself unhealthy by lastHealthy + 1, and lost a patience later.
patience == loseUnhealthyWorkerAfter - workerCheckInterval
lastContact == IF schedulerUp THEN now ELSE crashedAt
lastHealthy == crashedAt + maxHealthcheckGap + slack

ThreadsAreOnTime ==
  /\ callAt <= now /\ workCheckedAt <= now
  /\ reply # NoReply => now <= callAt + RpcTimeout /\ callAt <= lastContact
  /\ ~suicidal => now <= workCheckedAt + 1 /\ (deciding => workCheckedAt = now)

TimesArePast ==
  /\ lastContact <= now
  /\ work.timeBecameUnhealthy <= workerNow
  /\ work.timeLastGoodHealthcheckSent <= lastContact
  /\ \A isNew \in BOOLEAN : running[isNew].start <= lastContact

Fencing ==
  associated /\ ~schedulerUp /\ ~suicidal =>
    /\ work.state = "HEALTHY" => workCheckedAt <= lastHealthy
    /\ work.state # "HEALTHY" => work.timeBecameUnhealthy <= lastHealthy + 1 + Skew
    /\ ~deciding \/ work.state # "MUST_DIE" => workCheckedAt <= lastHealthy + 1 + patience
    /\ workCheckedAt <= lastHealthy + 2 + patience

FenceInv == TypeOK /\ ThreadsAreOnTime /\ TimesArePast /\ Fencing
=============================================================================
