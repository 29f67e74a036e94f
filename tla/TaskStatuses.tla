---------------------------- MODULE TaskStatuses ----------------------------
(***************************************************************************)
(* What the scheduler knows about its tasks: TaskStatuses with its snapshot *)
(* and the persistent TaskStore (statuses/), the scheduling loop that reads *)
(* them (Bistro.cpp, scheduler/Scheduler.cpp, runners/TaskRunner.cpp), and  *)
(* the stream of updates that RemoteWorkerRunner feeds into updateStatus.   *)
(*                                                                          *)
(* Jobs are their numeric IDs.  A task is a <<job, node>> pair.  Several    *)
(* threads interleave: the scheduling loop, the Thrift threads that deliver *)
(* statuses (they hold the lock of workers_ through updateStatus), and the  *)
(* threads that run applyUpdate, which report lost tasks without that lock. *)
(*                                                                          *)
(* An attempt is one invocation of a task as its worker sees it.  Its       *)
(* standing says what the scheduler's RemoteWorker makes of it:             *)
(*   tracked      in RemoteWorker::runningTasks_                            *)
(*   losing       cleared by loseRunningTasks, applyUpdate still to come    *)
(*   lost         applyUpdate has reported it as lost                       *)
(*   recorded     its status was recorded but the worker was not told so    *)
(*   unreported   the scheduler restarted, and the worker has yet to answer *)
(*                getRunningTasks                                           *)
(*   forgotten    lost, and then the scheduler restarted                    *)
(***************************************************************************)
EXTENDS TaskStatus, FiniteSets

CONSTANTS
    NumJobs, Nodes, Workers,
    DependsOn,          \* depends_on of every job, a sequence of jobs
    SafeBackoff,        \* kSafeBackoffSec
    NoTask,             \* no RunningTask
    NoRecord,           \* the thread has no result to store
    LateRetries,        \* an unacknowledged status may still be retried when
                        \* the next attempt gets an overwriteable status
    Forever,            \* the deadline of a task that was not lost
    MaxTime, MaxInvocations, MaxRestarts, MaxConfigChanges, MaxForgives  \* bounds

Jobs == 1 .. NumJobs
Tasks == Jobs \X Nodes
JobOf(t) == t[1]

(* kSafeBackoffSec is a sum of which one term is 1. *)
ASSUME SizesAssumption ==
    /\ NumJobs \in Nat /\ SafeBackoff \in Nat \ {0}
    /\ DependsOn \in [Jobs -> Seq(Jobs)]

ASSUME BoundsAssumption ==
    {MaxTime, MaxInvocations, MaxRestarts, MaxConfigChanges, MaxForgives} \subseteq Nat

VARIABLES
    now,
    config,        \* the jobs of the configuration the loop is using
    rows,          \* rows_: [loaded, statuses] of every job
    numRows,       \* rows_.size()
    runningTasks,  \* runningTasks_
    loop,          \* "updated" between updateForConfig and copySnapshot
    eligible,      \* the tasks schedule() found, with their configured backoff
    store,         \* the TaskStore
    recording,     \* what each updating thread still has to store
    attempts,      \* the invocations some worker may know of
    abort,         \* the CHECK that killed the scheduler, or "none"
    started, changes, restarts, forgives,   \* bounded counters
    removed,       \* the jobs that have ever left the configuration
    tried          \* attempts since the configured backoff was last zero

statusVars == <<rows, numRows, runningTasks>>
loopVars == <<config, loop, eligible>>
counters == <<started, changes, restarts, forgives, removed>>
vars == <<now, statusVars, loopVars, store, recording, attempts, abort,
          counters, tried>>

EmptyRow == [loaded |-> FALSE, statuses |-> [n \in Nodes |-> Empty]]

StatusOf(t) == rows[JobOf(t)].statuses[t[2]]

Outcomes == {"done", "failed", "incomplete", "incompleteBackoff", "errorBackoff"}

StatusFrom(outcome) ==
    CASE outcome = "done" -> Done
      [] outcome = "failed" -> Failed
      [] outcome = "incomplete" -> Incomplete
      [] outcome = "incompleteBackoff" -> IncompleteBackoff(now)
      [] outcome = "errorBackoff" -> ErrorBackoff(now)

RunningTaskRecords == [inv : 1 .. MaxInvocations, next : BackoffDurations]

StoredResults == [task : Tasks, result : {"done", "failed"}]

ASSUME AbsentAssumption ==
    NoTask \notin RunningTaskRecords /\ NoRecord \notin StoredResults /\ Forever \notin Nat

Attempts ==
    [task : Tasks, rt : RunningTaskRecords, worker : Workers,
     phase : {"running", "exited", "gone"},
     outcome : Outcomes \cup {"unknown"},
     replied : BOOLEAN,    \* runTask's reply is not outstanding any more
     standing : {"tracked", "losing", "lost", "recorded", "unreported", "forgotten"},
     deadline : Nat \cup {Forever}]

(* The threads that are inside updateStatus: the one that holds workers_,   *)
(* and one that runs applyUpdate.                                           *)
Threads == {"locked", "losing"}

(* The type invariant: rows, running tasks, store and attempts.              *)
TypeOK ==
    /\ now \in 0 .. MaxTime
    /\ config \subseteq Jobs
    /\ rows \in [Jobs -> [loaded : BOOLEAN, statuses : [Nodes -> Statuses]]]
    /\ numRows \in 0 .. NumJobs
    /\ runningTasks \in [Tasks -> RunningTaskRecords \cup {NoTask}]
    /\ loop \in {"updated", "scheduling"}
    /\ DOMAIN eligible \subseteq Tasks /\ \A t \in DOMAIN eligible : eligible[t] \in Nat
    /\ store \in [Tasks -> {"none", "done", "failed"}]
    /\ recording \in [Threads -> StoredResults \cup {NoRecord}]
    /\ attempts \subseteq Attempts
    /\ abort \in {"none", "invocation mismatch", "stored is running",
                  "started twice on a worker", "job not loaded"}
    /\ started \in 0 .. MaxInvocations /\ changes \in 0 .. MaxConfigChanges
    /\ restarts \in 0 .. MaxRestarts /\ forgives \in 0 .. MaxForgives
    /\ removed \subseteq Jobs
    /\ tried \in [Tasks -> 0 .. MaxInvocations]

Init ==
    /\ now = 0
    /\ config = Jobs
    /\ rows = [j \in Jobs |-> EmptyRow] /\ numRows = 0
    /\ runningTasks = [t \in Tasks |-> NoTask]
    /\ loop = "scheduling" /\ eligible = <<>>
    /\ store = [t \in Tasks |-> "none"]
    /\ recording = [th \in Threads |-> NoRecord]
    /\ attempts = {}
    /\ abort = "none"
    /\ started = 0 /\ changes = 0 /\ restarts = 0 /\ forgives = 0
    /\ removed = {}
    /\ tried = [t \in Tasks |-> 0]

Fail(check) == abort' = check /\ UNCHANGED <<statusVars, recording>>

-----------------------------------------------------------------------------
(* TaskStatuses::updateStatus: the snapshot changes at once, under its      *)
(* lock; the result is written to the store by RecordStatus, later.         *)

(* Mutant of SetStatus: access() makes one row too many. *)
SetStatusOneRowMore(t, s) ==
    /\ rows' = [rows EXCEPT ![JobOf(t)].statuses[t[2]] = s]
    /\ numRows' = Max({numRows, JobOf(t) + 1})

SetStatus(t, s) ==
    /\ rows' = [rows EXCEPT ![JobOf(t)].statuses[t[2]] = s]
    /\ numRows' = Max({numRows, JobOf(t)})

(* What the calling thread goes on to store: recordStatusUpdate's argument  *)
ToRecord(t, stored) ==
    IF stored.kind \in {"done", "failed"}
    THEN [task |-> t, result |-> stored.kind] ELSE NoRecord

KeepStatus(t, thread) ==
    /\ SetStatus(t, StatusOf(t))
    /\ recording' = [recording EXCEPT ![thread] = ToRecord(t, StatusOf(t))]
    /\ UNCHANGED <<runningTasks, abort>>

ReplaceStatus(t, rt, new, thread) ==
    LET s == Update(StatusOf(t), rt.next, new)
    IN  /\ SetStatus(t, s)
        /\ runningTasks' = [runningTasks EXCEPT
                               ![t] = IF new.kind # "running" THEN NoTask
                                      ELSE IF @ = NoTask THEN rt ELSE @]
        /\ recording' = [recording EXCEPT ![thread] = ToRecord(t, s)]
        /\ UNCHANGED abort

(* Mutant of UpdateStatus: the last status to arrive wins. *)
UpdateStatusLastWins(t, rt, new, thread) ==
    /\ recording[thread] = NoRecord
    /\ IF runningTasks[t] # NoTask /\ runningTasks[t].inv # rt.inv
       THEN Fail("invocation mismatch") ELSE ReplaceStatus(t, rt, new, thread)

(* Mutant of UpdateStatus: a lost task leaves runningTasks_ before it is    *)
(* known whether its status stays.                                          *)
UpdateStatusErasingFirst(t, rt, new, thread) ==
    /\ recording[thread] = NoRecord
    /\ IF new.overwriteable
       THEN /\ SetStatus(t, StatusOf(t))
            /\ runningTasks' = [runningTasks EXCEPT ![t] = NoTask]
            /\ UNCHANGED <<recording, abort>>
       ELSE ReplaceStatus(t, rt, new, thread)

(* TaskStatusSnapshot::updateStatus followed by the start of                *)
(* recordStatusUpdate.                                                      *)
UpdateStatus(t, rt, new, thread) ==
    /\ recording[thread] = NoRecord
    /\ IF runningTasks[t] # NoTask
       THEN IF runningTasks[t].inv # rt.inv
            THEN Fail("invocation mismatch")
            ELSE ReplaceStatus(t, rt, new, thread)
       ELSE IF new.kind = "running" THEN ReplaceStatus(t, rt, new, thread)
       ELSE IF new.overwriteable
            THEN IF StatusOf(t).kind = "running"
                 THEN Fail("stored is running") ELSE KeepStatus(t, thread)
       ELSE IF StatusOf(t).overwriteable
            THEN ReplaceStatus(t, rt, new, thread)
            ELSE KeepStatus(t, thread)

(* TaskStatuses::recordStatusUpdate writes DONE and FAILED to the store.    *)
RecordStatus(thread) ==
    /\ recording[thread] # NoRecord
    /\ store' = [store EXCEPT ![recording[thread].task] = recording[thread].result]
    /\ recording' = [recording EXCEPT ![thread] = NoRecord]
    /\ UNCHANGED <<now, statusVars, loopVars, attempts, abort, counters, tried>>

(* TaskStatuses::forgiveJob *)
ForgiveJob(j) ==
    /\ forgives < MaxForgives
    /\ forgives' = forgives + 1
    /\ rows' = [rows EXCEPT ![j].statuses =
                   [n \in Nodes |-> Forgive(rows[j].statuses[n])]]
    /\ UNCHANGED <<now, numRows, runningTasks, loopVars, store, recording,
                   attempts, abort, started, changes, restarts, removed, tried>>

-----------------------------------------------------------------------------
(* The scheduling loop, Bistro::scheduleOnce.                               *)

(* TaskStatusSnapshot::updateForConfig, when the new configuration has the  *)
(* jobs `jobs`.  Rows of jobs that are neither configured nor running are   *)
(* cleared; rows that are not loaded get the results in the store.          *)
UpdateForConfig(jobs) ==
    LET busy == {t \in Tasks : runningTasks[t] # NoTask}
        current == jobs \cup {JobOf(t) : t \in busy}
        InMemory(t) == IF t \in busy THEN Running ELSE StatusOf(t)
        Stored(t) == CASE store[t] = "done" -> Done
                       [] store[t] = "failed" -> Failed
                       [] OTHER -> InMemory(t)
        Cleared(j) == j \notin current /\ rows[j].statuses # EmptyRow.statuses
        NewRow(j) ==
            IF Cleared(j) THEN EmptyRow
            ELSE [loaded |-> rows[j].loaded \/ j \in current,
                  statuses |-> [n \in Nodes |->
                      IF j \in current /\ ~rows[j].loaded
                      THEN Stored(<<j, n>>) ELSE InMemory(<<j, n>>)]]
    IN  /\ loop = "scheduling"
        /\ loop' = "updated"
        /\ config' = jobs
        /\ changes' = IF jobs = config THEN changes ELSE changes + 1
        /\ changes' <= MaxConfigChanges
        /\ removed' = removed \cup (Jobs \ jobs)
        /\ rows' = [j \in Jobs |-> NewRow(j)]
        /\ numRows' = Max({numRows} \cup current)
        /\ eligible' = <<>>
        /\ UNCHANGED <<now, runningTasks, store, recording, attempts, abort,
                       started, restarts, forgives, tried>>

(* getPtr() and getRow() abort when the row exists and is not loaded.       *)
NotLoaded(j) == j <= numRows /\ ~rows[j].loaded

Excluded(s) ==
    s.kind \in {"running", "done", "failed"} \/ InBackoff(s, now)

(* Mutant of CopySnapshot: a dependency that is not running is good enough. *)
CopySnapshotWithIdleDependencies ==
    LET free == {t \in Tasks : JobOf(t) \in config /\ ~Excluded(StatusOf(t))}
        found == {t \in free : \A i \in DOMAIN DependsOn[JobOf(t)] :
                      StatusOf(<<DependsOn[JobOf(t)][i], t[2]>>).kind # "running"}
    IN  /\ loop = "updated"
        /\ loop' = "scheduling"
        /\ eligible' = [t \in found |-> ConfiguredBackoff(StatusOf(t))]
        /\ UNCHANGED <<now, config, statusVars, store, recording, attempts, abort,
                       counters, tried>>

(* copySnapshot, and Scheduler::schedule up to the call of the policy: the  *)
(* tasks that are neither running, finished nor backed off, and whose       *)
(* dependencies are done.                                                   *)
CopySnapshot ==
    LET free == {t \in Tasks : JobOf(t) \in config /\ ~Excluded(StatusOf(t))}
        Dependency(t, i) == DependsOn[JobOf(t)][i]
        DependencyDone(t, i) ==
            /\ Dependency(t, i) <= numRows
            /\ StatusOf(<<Dependency(t, i), t[2]>>).kind = "done"
        DoneBelow(t, n) == \A i \in 1 .. n : DependencyDone(t, i)
        found == {t \in free : DoneBelow(t, Len(DependsOn[JobOf(t)]))}
    IN  /\ loop = "updated"
        /\ loop' = "scheduling"
        /\ IF \E t \in free : \E i \in DOMAIN DependsOn[JobOf(t)] :
                  NotLoaded(Dependency(t, i)) /\ DoneBelow(t, i - 1)
           THEN abort' = "job not loaded" /\ UNCHANGED eligible
           ELSE /\ eligible' = [t \in found |-> ConfiguredBackoff(StatusOf(t))]
                /\ UNCHANGED abort
        /\ UNCHANGED <<now, config, statusVars, store, recording, attempts,
                       counters, tried>>

InInitialWait == \E a \in attempts : a.standing = "unreported"

TrackedOn(t, w) == {a \in attempts :
                       a.task = t /\ a.worker = w /\ a.standing = "tracked"}

Healthy(w) == \A a \in attempts :
                 a.worker = w => a.standing \in {"tracked", "recorded"}

(* TaskRunner::runTask and RemoteWorkerRunner::runTaskImpl, which picks a   *)
(* worker; other tasks of the snapshot are simply not run.                  *)
RunTask(t, w) ==
    LET rt == [inv |-> started + 1, next |-> GetNext(eligible[t])]
    IN  /\ loop = "scheduling" /\ t \in DOMAIN eligible
        /\ ~InInitialWait /\ Healthy(w)
        /\ started < MaxInvocations
        /\ started' = started + 1
        /\ eligible' = [u \in DOMAIN eligible \ {t} |-> eligible[u]]
        /\ IF TrackedOn(t, w) # {}
           THEN Fail("started twice on a worker") /\ recording["locked"] = NoRecord
           ELSE UpdateStatus(t, rt, Running, "locked")
        /\ attempts' = IF abort' # "none" THEN attempts ELSE attempts \cup
               {[task |-> t, rt |-> rt, worker |-> w, phase |-> "running",
                 outcome |-> "unknown", replied |-> FALSE,
                 standing |-> "tracked", deadline |-> Forever]}
        /\ tried' = [tried EXCEPT ![t] = IF eligible[t] = 0 THEN 1 ELSE @ + 1]
        /\ UNCHANGED <<now, config, loop, store, changes, restarts, forgives, removed>>

-----------------------------------------------------------------------------
(* Updates from the workers.                                                *)

Become(a, b) == attempts' = (attempts \ {a}) \cup {b}

(* The worker is done with the attempt; a loss that applyUpdate has yet to  *)
(* report is still reported.                                                *)
Leave(a) ==
    IF a.standing = "losing" THEN Become(a, [a EXCEPT !.phase = "gone"])
    ELSE attempts' = attempts \ {a}

(* remoteUpdateStatus for a task that exited.  RemoteWorker drops it when   *)
(* the worker is known to run a later invocation of the task.  Without the  *)
(* acknowledgement the worker retries.                                      *)
DeliverStatus(a, outcome, acknowledged) ==
    /\ a.standing \in {"tracked", "losing", "lost", "recorded"}
    /\ a.phase # "gone"
    /\ a.phase = "exited" => outcome = a.outcome
    /\ ~\E b \in attempts :     \* else the worker would have refused to run it
          b.task = a.task /\ b.worker = a.worker /\ b.rt.inv < a.rt.inv
    /\ IF \E b \in TrackedOn(a.task, a.worker) : b # a
       THEN UNCHANGED <<statusVars, recording, abort>> /\ recording["locked"] = NoRecord
       ELSE UpdateStatus(a.task, a.rt, StatusFrom(outcome), "locked")
    /\ IF acknowledged /\ abort' = "none" THEN Leave(a)
       ELSE Become(a, [a EXCEPT !.phase = "exited", !.outcome = outcome,
                                !.replied = TRUE,
                                !.standing = IF @ = "tracked" THEN "recorded" ELSE @])
    /\ UNCHANGED <<now, loopVars, store, counters, tried>>

(* runTask threw: the worker never ran the task.                            *)
FailToStart(a) ==
    /\ ~a.replied /\ a.standing \in {"tracked", "losing", "lost"} /\ a.phase = "running"
    /\ UpdateStatus(a.task, a.rt, NeverStarted, "locked")
    /\ IF abort' = "none" THEN Leave(a) ELSE UNCHANGED attempts
    /\ UNCHANGED <<now, loopVars, store, counters, tried>>

(* No worker still retries to deliver the status of an earlier attempt. *)
NoRetryPending(a) ==
    ~\E b \in attempts :
        b.task = a.task /\ b.rt.inv < a.rt.inv /\ b.phase = "exited"

(* The reply to runTask was lost, the worker was asked whether it runs the  *)
(* task, and it does not.                                                   *)
ReportNotRunning(a) ==
    /\ ~a.replied /\ a.standing = "tracked" /\ a.phase = "running"
    /\ LateRetries \/ NoRetryPending(a)
    /\ UpdateStatus(a.task, a.rt, WasNotRunning, "locked")
    /\ IF abort' = "none" THEN Leave(a) ELSE UNCHANGED attempts
    /\ UNCHANGED <<now, loopVars, store, counters, tried>>

(* RemoteWorker::loseRunningTasks.  From here on the worker has SafeBackoff *)
(* to kill its tasks.                                                       *)
LoseWorker(w) ==
    /\ \E a \in attempts : a.worker = w /\ a.standing = "tracked"
    /\ \A a \in attempts :
          a.worker = w /\ a.standing = "tracked" => LateRetries \/ NoRetryPending(a)
    /\ recording["locked"] = NoRecord
    /\ attempts' = {IF a.worker = w /\ a.standing = "tracked"
                    THEN [a EXCEPT !.standing = "losing",
                                   !.deadline = now + SafeBackoff]
                    ELSE a : a \in attempts}
    /\ UNCHANGED <<now, statusVars, loopVars, store, recording, abort,
                   counters, tried>>

(* RemoteWorkerRunner::applyUpdate, for one lost task.                      *)
ReportLost(a) ==
    LET seconds == Max({a.rt.next.seconds, SafeBackoff})
        tweaked == [a.rt EXCEPT !.next.seconds = seconds]
    IN  /\ a.standing = "losing"
        /\ UpdateStatus(a.task, tweaked, WorkerLost(a.rt.next.seconds, now), "losing")
        /\ IF a.phase = "gone" THEN attempts' = attempts \ {a}
           ELSE Become(a, [a EXCEPT !.standing = "lost"])
        /\ UNCHANGED <<now, loopVars, store, counters, tried>>

(* A lost worker, or one that never reaches the restarted scheduler, kills  *)
(* its tasks.                                                               *)
Die(a) ==
    /\ a.standing \in {"losing", "lost", "unreported", "forgotten"}
    /\ a.phase # "gone"
    /\ Leave(a)
    /\ UNCHANGED <<now, statusVars, loopVars, store, recording, abort,
                   counters, tried>>

(* The reply to getRunningTasks: initializeRunningTasks and updateStatus.   *)
ReportRunning(a) ==
    /\ a.standing = "unreported"
    /\ UpdateStatus(a.task, a.rt, Running, "locked")
    /\ IF abort' = "none" THEN Become(a, [a EXCEPT !.standing = "tracked"])
       ELSE UNCHANGED attempts
    /\ UNCHANGED <<now, loopVars, store, counters, tried>>

-----------------------------------------------------------------------------
(* The scheduler dies, by a failed CHECK or otherwise, and is restarted.    *)
(* Only the store survives.                                                 *)
Restart ==
    /\ restarts < MaxRestarts
    /\ restarts' = restarts + 1
    /\ rows' = [j \in Jobs |-> EmptyRow] /\ numRows' = 0
    /\ runningTasks' = [t \in Tasks |-> NoTask]
    /\ loop' = "scheduling" /\ eligible' = <<>>
    /\ recording' = [th \in Threads |-> NoRecord]
    /\ attempts' = {[a EXCEPT !.replied = TRUE,
                              !.standing = IF @ \in {"losing", "lost", "forgotten"}
                                           THEN "forgotten" ELSE "unreported"]
                    : a \in {b \in attempts : b.phase # "gone"}}
    /\ abort' = "none"
    /\ UNCHANGED <<now, config, store, started, changes, forgives, removed, tried>>

(* Lost tasks die, and their last status is delivered, before SafeBackoff   *)
(* has elapsed: applyUpdate explains the margin, and concedes that nothing  *)
(* is safe when termination is slower than that.                            *)
Tick ==
    /\ now < MaxTime
    /\ \A a \in attempts :
          a.phase # "gone" /\ a.deadline # Forever => now + 1 < a.deadline
    /\ now' = now + 1
    /\ UNCHANGED <<statusVars, loopVars, store, recording, attempts, abort,
                   counters, tried>>

Next ==
    \/ /\ abort = "none"
       /\ \/ \E th \in Threads : RecordStatus(th)
          \/ \E j \in Jobs : ForgiveJob(j)
          \/ \E jobs \in SUBSET Jobs : UpdateForConfig(jobs)
          \/ CopySnapshot
          \/ \E t \in Tasks, w \in Workers : RunTask(t, w)
          \/ \E a \in attempts :
                \/ \E o \in Outcomes, ack \in BOOLEAN : DeliverStatus(a, o, ack)
                \/ FailToStart(a)
                \/ ReportNotRunning(a)
                \/ ReportLost(a)
                \/ ReportRunning(a)
                \/ Die(a)
          \/ \E w \in Workers : LoseWorker(w)
          \/ Tick
    \/ Restart

Spec == Init /\ [][Next]_vars

-----------------------------------------------------------------------------
(* Properties                                                               *)

(* The scheduler has its memory of the task: it did not restart, and the   *)
(* row of the job was never cleared because the job was removed.            *)
Remembers(t) == restarts = 0 /\ JobOf(t) \notin removed

(* The scheduler never starts a second copy of a task while a worker may    *)
(* still be running the first, not even when it has lost that worker (the   *)
(* backoff of applyUpdate and the provisions of TaskStatus::forgive).  The  *)
(* exceptions are a restart of the scheduler, which applyUpdate concedes,   *)
(* and the removal of the job: both forget the backoff of a lost task.      *)
NoSecondCopy ==
    \A a, b \in attempts :
        a # b /\ a.task = b.task /\ Remembers(a.task)
        => ~(a.phase = "running" /\ b.phase = "running")

(* A row says "running" only while runningTasks_ accounts for the task, so  *)
(* that schedule() does not skip a task that nobody runs.                   *)
RunningRowsAreTracked ==
    \A t \in Tasks : StatusOf(t).kind = "running" => runningTasks[t] # NoTask

(* Duplicate and synthetic statuses do not burn retries: the task has moved *)
(* at most one step along its backoffs per attempt, and running out of them *)
(* takes one attempt more than there are backoffs.                          *)
Position(seconds) == Cardinality({i \in DOMAIN Backoffs : Backoffs[i] <= seconds})
RetriesAreNotBurnt ==
    \A t \in Tasks :
        LET s == StatusOf(t)
        IN  Remembers(t) /\ s.usesBackoff =>
               /\ Position(ConfiguredBackoff(s)) <= tried[t]
               /\ s.kind = "failed" => tried[t] > Len(Backoffs)

(* A done task stays done, whatever statuses, losses and pardons arrive and *)
(* whatever snapshot the loop is using, until the scheduler restarts or the *)
(* job leaves the configuration.                                            *)
DoneStaysDone ==
    [][\A t \in Tasks : StatusOf(t).kind = "done" /\ Remembers(t)'
          => StatusOf(t)'.kind = "done"]_vars

(* A task runs only where its dependencies are done, although schedule()    *)
(* looked them up in a snapshot (for as long as the scheduler remembers     *)
(* them).                                                                   *)
DependenciesAreDone ==
    \A a \in attempts : \A i \in DOMAIN DependsOn[JobOf(a.task)] :
        LET needed == <<DependsOn[JobOf(a.task)][i], a.task[2]>>
        IN  Remembers(needed) => StatusOf(needed).kind = "done"

=============================================================================
