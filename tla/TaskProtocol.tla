---------------------------- MODULE TaskProtocol ----------------------------
(***************************************************************************)
(* The calls by which the scheduler and one worker shard keep their lists   *)
(* of running tasks together: runTask, updateStatus,                        *)
(* notifyIfTasksNotRunning, getRunningTasks, and the heartbeat as far as it *)
(* associates the two (RemoteWorkerRunner and RemoteWorker on one side,     *)
(* BistroWorkerHandler on the other; if/README.worker_protocol).            *)
(*                                                                          *)
(* Requests and replies are delayed, reordered and lost.  The worker and    *)
(* the scheduler may each die and come back as another instance.  Health is *)
(* reduced to what the calls test: a RemoteWorker is NEW, UP (HEALTHY or    *)
(* UNHEALTHY) or MUST_DIE, and a worker that is UP may refuse any runTask.  *)
(*                                                                          *)
(* A running task is its task ID with its invocation ID and the instance of *)
(* the worker it is meant for.                                              *)
(***************************************************************************)
EXTENDS Naturals, FiniteSets

CONSTANTS
    Tasks,
    NoWorker,        \* the shard has not been heard of
    NoReply,         \* no heartbeat response is under way
    MaxInvocations, MaxSequence, MaxWorkers, MaxSchedulers   \* bounds

RunningTasks == [task : Tasks, inv : Nat, worker : Nat]
States == {"NEW", "UP", "MUST_DIE"}
RemoteWorkers ==
    [id : Nat, state : States, running : SUBSET RunningTasks,
     unsure : SUBSET RunningTasks, seq : Nat]
WorkerTasks == [rt : RunningTasks, phase : {"running", "exited", "recorded"}]
Workers ==
    [id : Nat, scheduler : Nat, state : States, seq : Nat,
     tasks : SUBSET WorkerTasks, notRunning : SUBSET RunningTasks]

(* A call is in the network, past the worker's first checks, or answered;   *)
(* `waiting` says that the scheduler still expects the answer.              *)
Calls ==
    [rt : RunningTasks, seq : Nat, scheduler : Nat, waiting : BOOLEAN,
     at : {"network", "admitted", "ok", "refused", "lost"}]
Polls == [tasks : SUBSET RunningTasks, worker : Nat]
Notifies ==
    [tasks : SUBSET RunningTasks, worker : Nat, seq : Nat, scheduler : Nat,
     accepted : BOOLEAN]
Updates == [rt : RunningTasks, ended : BOOLEAN, worker : Nat, scheduler : Nat]
Beats == [scheduler : Nat, state : States]
Lists ==
    [scheduler : Nat, worker : Nat, answered : BOOLEAN, tasks : SUBSET RunningTasks]

ASSUME BoundsAssumption ==
    /\ MaxInvocations \in Nat /\ MaxSequence \in Nat
    /\ MaxWorkers \in Nat \ {0} /\ MaxSchedulers \in Nat \ {0}
ASSUME NoneAssumption == NoWorker \notin RemoteWorkers /\ NoReply \notin Beats

VARIABLES
    scheduler,     \* the instance of the scheduler
    shard,         \* its RemoteWorker: worker_.id, state_, runningTasks_,
                   \* unsureIfRunningTasks_, notifyIfTasksNotRunningSequenceNum_
    worker,        \* the BistroWorkerHandler: its instance, the scheduler it is
                   \* associated with, state_, sequence number, runningTasks_
                   \* and notifyNotRunningQueue_
    statuses,      \* the running tasks of TaskStatuses
    calls,         \* runTask calls that either side has yet to deal with
    polls,         \* "unsure" tasks that will be sent in notifyIfTasksNotRunning
    notifies,      \* notifyIfTasksNotRunning calls under way
    updates,       \* updateStatus requests under way
    beat,          \* the heartbeat response under way
    lists,         \* getRunningTasks calls under way, and their replies
    invocations,   \* how many invocations there were
    abort          \* the CHECK that killed the scheduler, or "none"

vars == <<scheduler, shard, worker, statuses, calls, polls, notifies, updates,
          beat, lists, invocations, abort>>
schedulerVars == <<scheduler, shard, statuses, invocations, abort>>
messages == <<calls, polls, notifies, updates, beat, lists>>

(* The type invariant: both sides and every message between them.            *)
TypeOK ==
    /\ scheduler \in 1 .. MaxSchedulers
    /\ shard \in RemoteWorkers \cup {NoWorker}
    /\ worker \in Workers /\ worker.id \in 1 .. MaxWorkers
    /\ statuses \subseteq RunningTasks
    /\ calls \subseteq Calls
    /\ polls \subseteq Polls
    /\ notifies \subseteq Notifies
    /\ updates \subseteq Updates
    /\ beat \in Beats \cup {NoReply}
    /\ lists \subseteq Lists
    /\ invocations \in 0 .. MaxInvocations
    /\ abort \in {"none", "unsure task is run", "already unsure", "superseded",
                  "unsure in NEW", "runs already", "invocation mismatch"}

NewRemoteWorker(id) ==
    [id |-> id, state |-> "NEW", running |-> {}, unsure |-> {}, seq |-> 0]
NewWorker(id) ==
    [id |-> id, scheduler |-> 0, state |-> "NEW", seq |-> 0, tasks |-> {},
     notRunning |-> {}]

Init ==
    /\ scheduler = 1 /\ shard = NoWorker /\ worker = NewWorker(1)
    /\ statuses = {} /\ calls = {} /\ polls = {} /\ notifies = {} /\ updates = {}
    /\ beat = NoReply /\ lists = {}
    /\ invocations = 0 /\ abort = "none"

Of(t, rts) == {rt \in rts : rt.task = t}

(* A CHECK fails, and nothing more happens before the scheduler restarts.   *)
Fail(check) == abort' = check /\ UNCHANGED <<shard, statuses>>

-----------------------------------------------------------------------------
(* Association                                                              *)

(* processHeartbeat: another instance replaces the current one, whose tasks *)
(* are lost.  The response may get lost.  (How loseRunningTasks and         *)
(* applyUpdate share out the losing of a task is in TaskStatuses.)          *)
ProcessHeartbeat ==
    /\ beat = NoReply
    /\ IF shard = NoWorker
       THEN shard' = NewRemoteWorker(worker.id) /\ UNCHANGED statuses
       ELSE IF shard.id # worker.id
       THEN shard' = NewRemoteWorker(worker.id) /\ statuses' = statuses \ shard.running
       ELSE UNCHANGED <<shard, statuses>>
    /\ beat' \in {NoReply, [scheduler |-> scheduler, state |-> shard'.state]}
    /\ UNCHANGED <<scheduler, worker, calls, polls, notifies, updates, lists,
                   invocations, abort>>

(* BistroWorkerHandler::heartbeat gets the response. *)
ReceiveHeartbeat ==
    /\ beat # NoReply
    /\ worker' = [worker EXCEPT
                     !.scheduler = beat.scheduler, !.state = beat.state,
                     !.seq = IF beat.scheduler = worker.scheduler THEN @ ELSE 0]
    /\ beat' = NoReply
    /\ UNCHANGED <<schedulerVars, calls, polls, notifies, updates, lists>>

(* fetchRunningTasksForNewWorkers, again at every updateState *)
FetchRunningTasks ==
    /\ shard # NoWorker /\ shard.state = "NEW"
    /\ lists' = lists \cup {[scheduler |-> scheduler, worker |-> shard.id,
                             answered |-> FALSE, tasks |-> {}]}
    /\ UNCHANGED <<schedulerVars, worker, calls, polls, notifies, updates, beat>>

(* Mutant of GetRunningTasks: the reply has the worker's own entries. *)
GetRunningTasksRaw(l) ==
    /\ ~l.answered /\ l.worker = worker.id
    /\ lists' = (lists \ {l}) \cup {[l EXCEPT !.answered = TRUE, !.tasks = worker.tasks]}
    /\ UNCHANGED <<schedulerVars, worker, calls, polls, notifies, updates, beat>>

(* The worker's getRunningTasks compares only its own instance. *)
GetRunningTasks(l) ==
    /\ ~l.answered
    /\ lists' = (lists \ {l}) \cup
          (IF l.worker # worker.id THEN {}
           ELSE {[l EXCEPT !.answered = TRUE, !.tasks = {x.rt : x \in worker.tasks}]})
    /\ UNCHANGED <<schedulerVars, worker, calls, polls, notifies, updates, beat>>

(* Mutant of InitializeRunningTasks: TaskStatuses is not told. *)
InitializeWorkerOnly(l) ==
    /\ l.answered
    /\ lists' = lists \ {l}
    /\ shard' = IF l.scheduler # scheduler \/ shard.state # "NEW" THEN shard
                ELSE [shard EXCEPT !.state = "UP", !.running = l.tasks]
    /\ UNCHANGED <<scheduler, worker, statuses, calls, polls, notifies, updates, beat,
                   invocations, abort>>

(* The reply arrives: RemoteWorkers::initializeRunningTasks ignores it      *)
(* unless the RemoteWorker is NEW, and TaskStatuses is updated anyway.      *)
InitializeRunningTasks(l) ==
    /\ l.answered
    /\ lists' = lists \ {l}
    /\ IF l.scheduler # scheduler THEN UNCHANGED <<shard, statuses, abort>>
       ELSE IF shard.state = "NEW" /\ shard.unsure # {} THEN Fail("unsure in NEW")
       ELSE IF \E rt \in l.tasks : Of(rt.task, statuses) \notin {{}, {rt}}
       THEN Fail("invocation mismatch")
       ELSE /\ shard' = IF shard.state # "NEW" THEN shard
                        ELSE [shard EXCEPT !.state = "UP", !.running = l.tasks]
            /\ statuses' = statuses \cup l.tasks
            /\ UNCHANGED abort
    /\ UNCHANGED <<scheduler, worker, calls, polls, notifies, updates, beat, invocations>>

-----------------------------------------------------------------------------
(* runTask                                                                  *)

(* runTaskImpl for a task that does not run, once a worker is chosen.  A    *)
(* task whose worker was lost is first in backoff, for much longer than a   *)
(* call can be outstanding.                                                 *)
RunTask(t) ==
    LET rt == [task |-> t, inv |-> invocations + 1, worker |-> shard.id]
    IN  /\ shard # NoWorker /\ shard.state = "UP" /\ Of(t, statuses) = {}
        /\ ~\E c \in calls : c.waiting /\ c.rt.task = t /\ c.rt.worker # shard.id
        /\ invocations < MaxInvocations
        /\ invocations' = invocations + 1
        /\ IF Of(t, shard.unsure) # {}
           THEN Fail("unsure task is run") /\ UNCHANGED calls
           ELSE IF Of(t, shard.running) # {}
           THEN Fail("runs already") /\ UNCHANGED calls
           ELSE /\ shard' = [shard EXCEPT !.running = @ \cup {rt}]
                /\ statuses' = statuses \cup {rt}
                /\ calls' = calls \cup {[rt |-> rt, seq |-> shard.seq,
                                         scheduler |-> scheduler,
                                         waiting |-> TRUE, at |-> "network"]}
                /\ UNCHANGED abort
        /\ UNCHANGED <<scheduler, worker, polls, notifies, updates, beat, lists>>

(* The RemoteWorker and TaskStatuses are told that rt does not run, under   *)
(* the lock of workers_.                                                    *)
RecordNotRunning(rt) ==
    IF Of(rt.task, statuses) \notin {{}, {rt}} THEN Fail("invocation mismatch")
    ELSE /\ shard' = [shard EXCEPT !.running = @ \ {rt},
                                   !.unsure = @ \ Of(rt.task, @)]
         /\ statuses' = statuses \ {rt}
         /\ UNCHANGED abort

RecordFailedTask(rt) ==
    IF Of(rt.task, shard.running) \notin {{}, {rt}} THEN Fail("superseded")
    ELSE RecordNotRunning(rt)

(* The request could not even be sent. *)
CannotSend(c) ==
    /\ c.at = "network" /\ c.waiting
    /\ RecordFailedTask(c.rt)
    /\ calls' = calls \ {c}
    /\ UNCHANGED <<scheduler, worker, polls, notifies, updates, beat, lists, invocations>>

Become(c, at) ==
    calls' = (calls \ {c}) \cup (IF c.waiting THEN {[c EXCEPT !.at = at]} ELSE {})

(* BistroWorkerHandler::runTask, up to its locks: it compares the instances *)
(* and refuses when it is not healthy.                                      *)
AdmitTask(c) ==
    /\ c.at = "network"
    /\ \/ Become(c, "refused")
       \/ /\ c.scheduler = worker.scheduler /\ c.rt.worker = worker.id
          /\ worker.state = "UP"
          /\ calls' = (calls \ {c}) \cup {[c EXCEPT !.at = "admitted"]}
    /\ UNCHANGED <<schedulerVars, worker, polls, notifies, updates, beat, lists>>

(* Mutant of StartTask: the sequence number is not compared. *)
StartTaskIgnoringSequence(c) ==
    /\ c.at = "admitted"
    /\ IF \E x \in worker.tasks : x.rt.task = c.rt.task
       THEN Become(c, "refused") /\ UNCHANGED worker
       ELSE /\ worker' = [worker EXCEPT
                             !.tasks = @ \cup {[rt |-> c.rt, phase |-> "running"]}]
            /\ Become(c, "ok")
    /\ UNCHANGED <<schedulerVars, polls, notifies, updates, beat, lists>>

(* The rest of runTask, under the locks of state_ and runningTasks_. *)
StartTask(c) ==
    /\ c.at = "admitted"
    /\ IF c.seq < worker.seq \/ \E x \in worker.tasks : x.rt.task = c.rt.task
       THEN Become(c, "refused") /\ UNCHANGED worker
       ELSE /\ worker' = [worker EXCEPT
                             !.tasks = @ \cup {[rt |-> c.rt, phase |-> "running"]}]
            /\ Become(c, "ok")
    /\ UNCHANGED <<schedulerVars, polls, notifies, updates, beat, lists>>

(* The callback of runTask *)
CallSucceeds(c) ==
    /\ c.at = "ok"
    /\ calls' = calls \ {c}
    /\ UNCHANGED <<schedulerVars, worker, polls, notifies, updates, beat, lists>>

CallIsRefused(c) ==
    /\ c.at = "refused"
    /\ RecordFailedTask(c.rt)
    /\ calls' = calls \ {c}
    /\ UNCHANGED <<scheduler, worker, polls, notifies, updates, beat, lists, invocations>>

(* It timed out or the connection broke: addUnsureIfRunningTask. *)
CallFails(c) ==
    /\ c.waiting
    /\ IF Of(c.rt.task, shard.unsure) # {} THEN Fail("already unsure")
       ELSE /\ shard' = [shard EXCEPT !.unsure = @ \cup {c.rt}]
            /\ UNCHANGED <<statuses, abort>>
    /\ calls' = (calls \ {c}) \cup (IF c.at \in {"network", "admitted"}
                                    THEN {[c EXCEPT !.waiting = FALSE]} ELSE {})
    /\ UNCHANGED <<scheduler, worker, polls, notifies, updates, beat, lists, invocations>>

-----------------------------------------------------------------------------
(* notifyIfTasksNotRunning                                                  *)

(* updateState copies the "unsure if running" tasks, at long intervals. *)
CheckUnsure ==
    /\ shard # NoWorker /\ shard.state # "MUST_DIE" /\ shard.unsure # {} /\ polls = {}
    /\ polls' = {[tasks |-> shard.unsure, worker |-> shard.id]}
    /\ UNCHANGED <<schedulerVars, worker, calls, notifies, updates, beat, lists>>

(* checkUnsureIfRunningTasks, later and in another thread.  It takes the    *)
(* next sequence number of whoever holds the shard by then.                 *)
SendNotify(p) ==
    /\ shard.seq < MaxSequence
    /\ polls' = polls \ {p}
    /\ shard' = [shard EXCEPT !.seq = @ + 1]
    /\ notifies' = notifies \cup
          {[tasks |-> p.tasks, worker |-> p.worker, seq |-> shard.seq + 1,
            scheduler |-> scheduler, accepted |-> FALSE]}
    /\ UNCHANGED <<scheduler, worker, statuses, calls, updates, beat, lists,
                   invocations, abort>>

(* Mutant of ReceiveNotify: the tasks that do not run are not queued. *)
ReceiveNotifyOnly(n) ==
    /\ ~n.accepted
    /\ IF n.scheduler # worker.scheduler \/ n.worker # worker.id \/ n.seq <= worker.seq
       THEN notifies' = notifies \ {n} /\ UNCHANGED worker
       ELSE /\ worker' = [worker EXCEPT !.seq = n.seq]
            /\ notifies' = (notifies \ {n}) \cup {[n EXCEPT !.accepted = TRUE]}
    /\ UNCHANGED <<schedulerVars, calls, polls, updates, beat, lists>>

(* The worker's notifyIfTasksNotRunning *)
ReceiveNotify(n) ==
    /\ ~n.accepted
    /\ IF n.scheduler # worker.scheduler \/ n.worker # worker.id \/ n.seq <= worker.seq
       THEN notifies' = notifies \ {n} /\ UNCHANGED worker
       ELSE /\ worker' = [worker EXCEPT
                  !.seq = n.seq,
                  !.notRunning = @ \cup
                      {rt \in n.tasks : ~\E x \in worker.tasks : x.rt.task = rt.task}]
            /\ notifies' = (notifies \ {n}) \cup {[n EXCEPT !.accepted = TRUE]}
    /\ UNCHANGED <<schedulerVars, calls, polls, updates, beat, lists>>

(* Its reply arrives, or is lost: eraseUnsureIfRunningTasks. *)
NotifySucceeds(n) ==
    /\ n.accepted
    /\ \/ UNCHANGED shard
       \/ /\ n.scheduler = scheduler
          /\ shard' = [shard EXCEPT !.unsure = @ \ n.tasks]
    /\ notifies' = notifies \ {n}
    /\ UNCHANGED <<scheduler, worker, statuses, calls, polls, updates, beat, lists,
                   invocations, abort>>

-----------------------------------------------------------------------------
(* updateStatus                                                             *)

EndTask(x) ==
    /\ x.phase = "running"
    /\ worker' = [worker EXCEPT !.tasks = (@ \ {x}) \cup {[x EXCEPT !.phase = "exited"]}]
    /\ UNCHANGED <<schedulerVars, messages>>

Update(rt, ended) ==
    [rt |-> rt, ended |-> ended, worker |-> worker.id, scheduler |-> worker.scheduler]

(* What is in notifyFinishedQueue_ and notifyNotRunningQueue_ *)
Pending ==
    {Update(x.rt, TRUE) : x \in {y \in worker.tasks : y.phase # "running"}}
        \cup {Update(rt, FALSE) : rt \in worker.notRunning}

(* notifyFinished and notifyNotRunning.  A failed send goes back into its   *)
(* queue.                                                                   *)
SendUpdate(u) ==
    /\ updates' = updates \cup {u}
    /\ UNCHANGED <<schedulerVars, worker, calls, polls, notifies, beat, lists>>

(* recordNonRunningTaskStatusImpl drops a status of another invocation, and *)
(* a synthetic status for a task that does not run.                         *)
RecordUpdate(u) ==
    LET current == Of(u.rt.task, shard.running)
    IN  IF (current = {} /\ ~u.ended) \/ current \notin {{}, {u.rt}}
        THEN UNCHANGED <<shard, statuses, abort>>
        ELSE RecordNotRunning(u.rt)

(* The worker keeps an update until it hears that it was recorded. *)
Recorded(u) ==
    [worker EXCEPT
        !.tasks = {IF x.rt = u.rt /\ u.ended THEN [x EXCEPT !.phase = "recorded"] ELSE x :
                   x \in @},
        !.notRunning = IF u.ended THEN @ ELSE @ \ {u.rt}]

(* remoteUpdateStatus.  Copies that timed out may still be in the network.  *)
ReceiveUpdate(u) ==
    /\ updates' \in {updates, updates \ {u}}
    /\ IF \/ u.scheduler # scheduler \/ shard = NoWorker
          \/ u.worker # shard.id \/ shard.state = "NEW"
       THEN UNCHANGED <<shard, statuses, abort, worker>>
       ELSE /\ RecordUpdate(u)
            /\ worker' \in {worker} \cup (IF u.worker = worker.id THEN {Recorded(u)} ELSE {})
    /\ UNCHANGED <<scheduler, calls, polls, notifies, beat, lists, invocations>>

(* notifyFinished is told that the update was recorded. *)
Acknowledge(x) ==
    /\ x.phase = "recorded"
    /\ worker' = [worker EXCEPT !.tasks = @ \ {x}]
    /\ UNCHANGED <<schedulerVars, messages>>

-----------------------------------------------------------------------------
(* Deaths                                                                   *)

(* updateState loses the worker. *)
LoseWorker ==
    /\ shard # NoWorker /\ shard.state # "MUST_DIE"
    /\ shard' = [shard EXCEPT !.state = "MUST_DIE", !.running = {}, !.unsure = {}]
    /\ statuses' = statuses \ shard.running
    /\ UNCHANGED <<scheduler, worker, messages, invocations, abort>>

(* The worker dies with its tasks; another instance takes over the shard. *)
RestartWorker ==
    /\ worker.id < MaxWorkers
    /\ worker' = NewWorker(worker.id + 1)
    /\ beat' = NoReply
    /\ calls' = {IF c.at = "admitted" THEN [c EXCEPT !.at = "lost"] ELSE c : c \in calls}
    /\ UNCHANGED <<schedulerVars, polls, notifies, updates, lists>>

(* The scheduler dies; what it sent may still arrive. *)
RestartScheduler ==
    /\ scheduler < MaxSchedulers
    /\ scheduler' = scheduler + 1
    /\ shard' = NoWorker /\ statuses' = {} /\ polls' = {} /\ abort' = "none"
    /\ calls' = {[c EXCEPT !.waiting = FALSE] :
                    c \in {d \in calls : d.at \in {"network", "admitted"}}}
    /\ UNCHANGED <<worker, notifies, updates, beat, lists, invocations>>

SchedulerStep ==
    \/ ProcessHeartbeat \/ FetchRunningTasks \/ LoseWorker \/ CheckUnsure
    \/ \E l \in lists : InitializeRunningTasks(l)
    \/ \E t \in Tasks : RunTask(t)
    \/ \E c \in calls : CannotSend(c) \/ CallSucceeds(c) \/ CallIsRefused(c) \/ CallFails(c)
    \/ \E p \in polls : SendNotify(p)
    \/ \E n \in notifies : NotifySucceeds(n)
    \/ \E u \in updates : ReceiveUpdate(u)

WorkerStep ==
    \/ ReceiveHeartbeat
    \/ \E u \in Pending : SendUpdate(u)
    \/ \E l \in lists : GetRunningTasks(l)
    \/ \E c \in calls : AdmitTask(c) \/ StartTask(c)
    \/ \E n \in notifies : ReceiveNotify(n)
    \/ \E x \in worker.tasks : EndTask(x) \/ Acknowledge(x)

Next ==
    \/ abort = "none" /\ (SchedulerStep \/ WorkerStep \/ RestartWorker)
    \/ RestartScheduler

Spec == Init /\ [][Next]_vars

(* Every call is answered or times out, the periodic threads of both sides  *)
(* go on, and messages that are sent again and again get through.  Nothing  *)
(* says that a runTask request arrives, or that a task ends.                *)
Up(step) == abort = "none" /\ step
Fairness ==
    /\ WF_vars(Up(\E c \in calls : CallSucceeds(c) \/ CallIsRefused(c) \/ CallFails(c)))
    /\ WF_vars(Up(CheckUnsure))
    /\ WF_vars(Up(\E p \in polls : SendNotify(p)))
    /\ WF_vars(Up(\E n \in notifies : ReceiveNotify(n) \/ NotifySucceeds(n)))
    /\ \A i \in 1 .. MaxInvocations :
          /\ WF_vars(Up(\E u \in Pending : u.rt.inv = i /\ SendUpdate(u)))
          /\ WF_vars(Up(\E u \in updates : u.rt.inv = i /\ ReceiveUpdate(u)))

FairSpec == Spec /\ Fairness

-----------------------------------------------------------------------------
(* Every task that the worker is running is a running task of its           *)
(* RemoteWorker: although runTask calls are delayed past their own failure, *)
(* and past the worker's claim that the task "was not running", no task     *)
(* starts after the scheduler has given up on it.                           *)
Tracked ==
    shard # NoWorker /\ shard.state = "UP" /\ shard.id = worker.id =>
        \A x \in worker.tasks : x.phase = "running" => x.rt \in shard.running

TracksWorker == scheduler = 1 => Tracked

(* The scheduling loop, which goes by TaskStatuses, sees every running task *)
(* of a RemoteWorker: RemoteWorkerRunner updates both under one lock.       *)
StatusesCoverWorker ==
    shard # NoWorker => shard.running \subseteq statuses

(* A task that the scheduler counts as running but that does not run on the *)
(* worker, because runTask failed in any way or because it ended, is found  *)
(* out: it stops being counted (by the scheduler that started it) at the    *)
(* latest when its worker is lost.  The search ends with the last           *)
(* notifyIfTasksNotRunning that the bound allows.                           *)
RunsOnWorker(rt) == \E x \in worker.tasks : x.rt = rt /\ x.phase = "running"
Counted(t, i) ==
    /\ scheduler = 1 /\ shard # NoWorker
    /\ \E rt \in shard.running : rt.task = t /\ rt.inv = i /\ ~RunsOnWorker(rt)
FailuresAreFoundOut ==
    \A t \in Tasks, i \in 1 .. MaxInvocations :
        Counted(t, i) ~> \/ ~Counted(t, i) \/ shard.seq = MaxSequence
                        \/ abort # "none"
=============================================================================
