---------------------------- MODULE TaskSubprocess ----------------------------
(***************************************************************************)
(* One invocation of a task on a worker, from runTask to its final status:   *)
(* TaskSubprocessQueue starts the child and waits for it, its pipes and its  *)
(* cgroups on one EventBase thread, while other threads call kill().  The    *)
(* worker around it (BistroWorkerHandler) lists the task, forwards kills,    *)
(* and, when it commits suicide or is destroyed, kills what it runs.         *)
(*                                                                          *)
(* Outside src/: the processes (the child and one descendant that it may     *)
(* leave behind), the signals, the pipes and the cgroup freezer.             *)
(***************************************************************************)
EXTENDS Integers, Sequences, FiniteSetsExt, Functions

CONSTANTS
  OptionSets,    \* TaskSubprocessOptions: [cgroup, group, canary, linesPerPoll],
                 \* and maxLines, the number of lines that the child may write
  Requests,      \* KillRequests: [method, ticks], ticks is killWaitMs / pollMs
  SuicideTicks,  \* workerSuicideTaskKillWaitMs / pollMs
  QueueSize,     \* of kill requests: 10
  FreezeTimeout, \* cgroup_freeze_timeout_ms, in calls of the reaper
  Statuses,      \* what the child may write to its status pipe
  NoStatus, Never,
  MaxQuota,      \* bounds quota_; stands for its numeric limit
  MaxKills, MaxMisreads  \* bounds

VARIABLES
  opts,    \* the options that the task runs with
  task,    \* its entry in tasks_ (held), and TaskSubprocessState
  child,   \* folly::Subprocess: [state, sigs]
  kid,     \* the descendant: [state, inGroup, holds, killed]; inGroup: in the
           \* process group of a child that leads one
  pipes,   \* the AsyncReadPipes and their rate limiter
  cg,      \* the cgroups and AsyncCGroupReaper
  report,  \* what status_cob was called with
  worker,  \* [state, call, listed]: listed is its entry in runningTasks_
  crashed, \* a FATAL of the worker
  hist     \* [last, due, lines, kills, misreads]: history and bounds

vars == <<opts, task, child, kid, pipes, cg, report, worker, crashed, hist>>

\* cgroup: no subsystems at all, some but neither a freezer nor
\* killWithoutFreezer, killWithoutFreezer, or a freezer
CGroupModes == {"off", "watch", "kill", "freezer"}
Methods == {"TERM", "TERM_WAIT_KILL", "KILL"}

ASSUME OptionsAssumption ==
  OptionSets \subseteq [cgroup : CGroupModes, group : BOOLEAN, canary : BOOLEAN,
                       linesPerPoll : Int, maxLines : Nat]

\* A task cannot write as many lines as quota_ can count.
ASSUME QuotaAssumption == MaxQuota \in Nat /\ \A o \in OptionSets : MaxQuota > o.maxLines

AllPipes == {"log", "status", "canary"}
PipesOf(o) == {"log", "status"} \cup (IF o.canary THEN {"canary"} ELSE {})

NoTask == [held |-> FALSE, phase |-> "none", queue |-> <<>>, killAfterTicks |-> 0,
           wasKilled |-> FALSE, rawStatus |-> NoStatus]

NoCGroups == [dirs |-> FALSE, reaper |-> "none", freezer |-> "THAWED", waited |-> 0]

Init ==
  /\ opts \in OptionSets
  /\ task = NoTask
  /\ child = [state |-> "none", sigs |-> {}]
  /\ kid = [state |-> "none", inGroup |-> FALSE, holds |-> {}, killed |-> FALSE]
  /\ pipes = [data |-> [p \in AllPipes |-> <<>>], closed |-> {}, paused |-> FALSE, quota |-> 0]
  /\ cg = NoCGroups
  /\ report = NoStatus
  /\ worker = [state |-> "up", call |-> "none", listed |-> FALSE]
  /\ crashed = FALSE
  /\ hist = [last |-> NoStatus, due |-> Never, lines |-> 0, kills |-> 0,
             misreads |-> 0]

Alive == child.state = "alive"
KidAlive == kid.state = "alive"

-----------------------------------------------------------------------------
(* BistroWorkerHandler::runTask and killTask.  The check for suicide, the     *)
(* entry in runningTasks_ and the call of the queue are three steps.          *)

CheckNotSuicidal ==
  /\ worker.state = "up" /\ worker.call = "none"
  /\ worker' = [worker EXCEPT !.call = "checked"]
  /\ UNCHANGED <<opts, task, child, kid, pipes, cg, report, crashed, hist>>

ListTask ==
  /\ worker.call = "checked"
  /\ worker' = [worker EXCEPT !.call = "listed", !.listed = TRUE]
  /\ UNCHANGED <<opts, task, child, kid, pipes, cg, report, crashed, hist>>

\* Mutant of QueueTask: the task is not yet in tasks_ when the call returns.
QueueTaskLater ==
  /\ worker.call = "listed"
  /\ worker' = [worker EXCEPT !.call = "returned"]
  /\ task' = [task EXCEPT !.phase = "queued"]
  /\ UNCHANGED <<opts, child, kid, pipes, cg, report, crashed, hist>>

\* TaskSubprocessQueue::runTask adds the task before its thread starts it.
QueueTask ==
  /\ worker.call = "listed"
  /\ worker' = [worker EXCEPT !.call = "returned"]
  /\ task' = [task EXCEPT !.held = TRUE, !.phase = "queued"]
  /\ UNCHANGED <<opts, child, kid, pipes, cg, report, crashed, hist>>

\* TaskSubprocessQueue::kill throws if the task is not held or its queue is full.
CanQueueKill == task.held /\ Len(task.queue) < QueueSize

WithKill(req) == [task EXCEPT !.queue = Append(@, req)]

KillTask(req) ==
  /\ worker.state = "up"
  /\ CanQueueKill
  /\ hist.kills < MaxKills
  /\ task' = WithKill(req)
  /\ hist' = [hist EXCEPT !.kills = @ + 1]
  /\ UNCHANGED <<opts, child, kid, pipes, cg, report, worker, crashed>>

\* notifyFinished: the scheduler acknowledged the status.
Acknowledge ==
  /\ worker.listed /\ report # NoStatus
  /\ worker' = [worker EXCEPT !.listed = FALSE]
  /\ UNCHANGED <<opts, task, child, kid, pipes, cg, report, crashed, hist>>

-----------------------------------------------------------------------------
(* Suicide.  requestSuicide, a failed healthcheck or a signal leads to        *)
(* killTasksAndStop; after the server stopped, the destructor repeats it, and *)
(* the destructor of the queue waits for its tasks.                          *)

RequestSuicide ==
  /\ worker.state = "up"
  /\ worker' = [worker EXCEPT !.state = "suicidal"]
  /\ UNCHANGED <<opts, task, child, kid, pipes, cg, report, crashed, hist>>

SuicideRequest == [method |-> "TERM_WAIT_KILL", ticks |-> SuicideTicks]

\* One round of the loop in killTasksAndStop; next is the worker's state once
\* none of the listed tasks is held.
KillRound(next) ==
  /\ task' = IF worker.listed /\ CanQueueKill THEN WithKill(SuicideRequest) ELSE task
  /\ worker' = IF worker.listed /\ task.held THEN worker ELSE [worker EXCEPT !.state = next]
  /\ UNCHANGED <<opts, child, kid, pipes, cg, report, crashed, hist>>

KillTasksAndStop == worker.state = "suicidal" /\ KillRound("stopped")

\* The server waits for the calls that it is serving.
Destroy ==
  /\ worker.state = "stopped" /\ worker.call \notin {"checked", "listed"}
  /\ KillRound("destroyed")

\* ~TaskSubprocessQueue; its threads finish what they are at before they stop.
WaitForTasks ==
  /\ worker.state = "destroyed" /\ ~task.held /\ task.phase # "failed"
  /\ worker' = [worker EXCEPT !.state = "gone"]
  /\ UNCHANGED <<opts, task, child, kid, pipes, cg, report, crashed, hist>>

-----------------------------------------------------------------------------
(* Starting the child, on the EventBase thread of the task                    *)

\* The working directory, cgroupSetup, fork or exec failed, or the child could
\* not join all its cgroups; cgroupSetup removes what it made, a child that
\* could not join leaves them to the system's release_agent.
FailToStart ==
  /\ task.phase = "queued"
  /\ task' = [NoTask EXCEPT !.phase = "failed"]
  /\ \E left \in BOOLEAN :
       cg' = [cg EXCEPT !.dirs = left /\ opts.cgroup # "off"]
  /\ UNCHANGED <<opts, child, kid, pipes, report, worker, crashed, hist>>

ReportFailure ==
  /\ task.phase = "failed"
  /\ task' = [task EXCEPT !.phase = "over"]
  /\ report' = "error_backoff"
  /\ UNCHANGED <<opts, child, kid, pipes, cg, worker, crashed, hist>>

\* Mutant of Start: an exception after the child was started gives the task up.
StartAndGiveUp ==
  /\ task.phase = "queued"
  /\ task' = [task EXCEPT !.phase = "started", !.held = FALSE]
  /\ child' = [child EXCEPT !.state = "alive"]
  /\ pipes' = [pipes EXCEPT !.closed = AllPipes \ PipesOf(opts), !.quota = opts.linesPerPoll]
  /\ cg' = [cg EXCEPT !.dirs = (opts.cgroup # "off")]
  /\ UNCHANGED <<opts, kid, report, worker, crashed, hist>>

\* cgroupSetup, folly::Subprocess and waitForSubprocessAndPipes
Start ==
  /\ task.phase = "queued"
  /\ task' = [task EXCEPT !.phase = "started"]
  /\ child' = [child EXCEPT !.state = "alive"]
  /\ pipes' = [pipes EXCEPT !.closed = AllPipes \ PipesOf(opts), !.quota = opts.linesPerPoll]
  /\ cg' = [cg EXCEPT !.dirs = (opts.cgroup # "off")]
  /\ UNCHANGED <<opts, kid, report, worker, crashed, hist>>

-----------------------------------------------------------------------------
(* What the processes do                                                     *)

Write(p, line) == pipes' = [pipes EXCEPT !.data[p] = Append(@, line)]

WriteLine ==
  /\ Alive /\ "KILL" \notin child.sigs
  /\ hist.lines < opts.maxLines
  /\ Write("log", "line")
  /\ hist' = [hist EXCEPT !.lines = @ + 1]
  /\ UNCHANGED <<opts, task, child, kid, cg, report, worker, crashed>>

WriteStatus(s) ==
  /\ Alive /\ "KILL" \notin child.sigs
  /\ hist.lines < opts.maxLines
  /\ Write("status", s)
  /\ hist' = [hist EXCEPT !.lines = @ + 1, !.last = s]
  /\ UNCHANGED <<opts, task, child, kid, cg, report, worker, crashed>>

\* A descendant inherits the pipes; a daemon closes those that it knows of.
Fork(inGroup, daemon) ==
  /\ Alive /\ "KILL" \notin child.sigs
  /\ kid.state = "none"
  /\ kid' = [state |-> "alive", inGroup |-> inGroup /\ opts.group, killed |-> FALSE,
             holds |-> PipesOf(opts) \ (IF daemon THEN {"log", "status"} ELSE {})]
  /\ UNCHANGED <<opts, task, child, pipes, cg, report, worker, crashed, hist>>

\* The child exits, of its own accord or because of a signal.
Exit ==
  /\ Alive
  /\ child' = [child EXCEPT !.state = "exited"]
  /\ UNCHANGED <<opts, task, kid, pipes, cg, report, worker, crashed, hist>>

DieOfKill == "KILL" \in child.sigs /\ Exit

\* Frozen processes do nothing, not even die.
KidExits ==
  /\ KidAlive /\ (opts.cgroup = "freezer" => cg.freezer # "FROZEN")
  /\ kid' = [kid EXCEPT !.state = "dead"]
  /\ UNCHANGED <<opts, task, child, pipes, cg, report, worker, crashed, hist>>

KidDiesOfKill == kid.killed /\ KidExits

Freeze ==
  /\ cg.freezer = "FREEZING"
  /\ cg' = [cg EXCEPT !.freezer = "FROZEN"]
  /\ UNCHANGED <<opts, task, child, kid, pipes, report, worker, crashed, hist>>

-----------------------------------------------------------------------------
(* AsyncReadPipe and AsyncReadPipeRateLimiter.  All pipes of the task are     *)
(* paused and resumed together.                                              *)

IsOpen(p) == Alive \/ (KidAlive /\ p \in kid.holds)

\* reduceQuotaBy(1) for each of n lines
ReducedQuota(n) == pipes.quota - n
PausesAfter(n) == pipes.quota > 0 /\ ReducedQuota(n) <= 0

\* The callback reads until there is nothing left or a line paused the pipes,
\* in which case it still gets the lines that were read together with that
\* line.  At the end of the file it closes its end.
Readable(p) ==
  /\ task.phase = "started" /\ p \notin pipes.closed /\ ~pipes.paused
  /\ pipes.data[p] # <<>> \/ ~IsOpen(p)

ReadLog ==
  /\ Readable("log")
  /\ \E n \in 0 .. Len(pipes.data["log"]) :
       /\ n < Len(pipes.data["log"]) => PausesAfter(n)
       /\ pipes' =
            [pipes EXCEPT
               !.data["log"] = SubSeq(@, n + 1, Len(@)),
               !.quota = ReducedQuota(n),
               !.paused = PausesAfter(n),
               !.closed = IF ~PausesAfter(n) /\ ~IsOpen("log") THEN @ \cup {"log"} ELSE @]
  /\ UNCHANGED <<opts, task, child, kid, cg, report, worker, crashed, hist>>

LastLine(lines) == lines[Len(lines)]

\* Only the last line of the status pipe counts; these lines have no quota.
ReadOther(p) ==
  /\ p # "log" /\ Readable(p)
  /\ task' = IF p = "status" /\ pipes.data[p] # <<>>
             THEN [task EXCEPT !.rawStatus = LastLine(pipes.data[p])] ELSE task
  /\ pipes' = [pipes EXCEPT !.data[p] = <<>>,
                            !.closed = IF IsOpen(p) THEN @ ELSE @ \cup {p}]
  /\ UNCHANGED <<opts, child, kid, cg, report, worker, crashed, hist>>

\* Mutant of GrowQuota: the pipes stay paused.
GrowQuotaAndForget ==
  /\ task.phase = "started"
  /\ pipes.quota < MaxQuota
  /\ LET next == pipes.quota + opts.linesPerPoll
     IN pipes' = [pipes EXCEPT !.quota = IF next > @ THEN next ELSE MaxQuota]
  /\ UNCHANGED <<opts, task, child, kid, cg, report, worker, crashed, hist>>

\* AsyncReadPipeRateLimiter::timeoutExpired
GrowQuota ==
  /\ task.phase = "started"
  /\ pipes.quota < MaxQuota
  /\ LET next == pipes.quota + opts.linesPerPoll
     IN pipes' = [pipes EXCEPT
                    !.quota = IF next > @ THEN next ELSE MaxQuota,
                    !.paused = @ /\ ~(pipes.quota <= 0 /\ next > 0)]
  /\ UNCHANGED <<opts, task, child, kid, cg, report, worker, crashed, hist>>

-----------------------------------------------------------------------------
(* AsyncSubprocess::timeoutExpired polls the child, and calls                 *)
(* asyncSubprocessCallback for as long as it runs.                           *)

\* What is left to do after the timer tick: [signal, ticks]
Ticked ==
  LET ticks == IF task.killAfterTicks > 0 THEN task.killAfterTicks - 1 ELSE 0
  IN [signal |-> IF task.killAfterTicks = 1 THEN "KILL" ELSE "none", ticks |-> ticks]

\* Mutant of AddRequest: a later TERM_WAIT_KILL restarts the timer.
AddRequestAndRestart(todo, req) ==
  CASE req.method = "KILL" -> [signal |-> "KILL", ticks |-> 0]
    [] req.method = "TERM" ->
         [todo EXCEPT !.signal = IF @ = "none" THEN "TERM" ELSE @]
    [] req.method = "TERM_WAIT_KILL" ->
         [signal |-> IF todo.signal = "none" THEN "TERM" ELSE todo.signal, ticks |-> req.ticks]

\* KILL replaces TERM and what is scheduled; of two scheduled ones the earlier stays.
AddRequest(todo, req) ==
  CASE req.method = "KILL" -> [signal |-> "KILL", ticks |-> 0]
    [] req.method = "TERM" ->
         [todo EXCEPT !.signal = IF @ = "none" THEN "TERM" ELSE @]
    [] req.method = "TERM_WAIT_KILL" ->
         [signal |-> IF todo.signal = "none" THEN "TERM" ELSE todo.signal,
          ticks |-> IF todo.ticks = 0 THEN req.ticks ELSE Min({req.ticks, todo.ticks})]

ToDo ==
  LET after[n \in 0..Len(task.queue)] ==
        IF n = 0 THEN Ticked ELSE AddRequest(after[n - 1], task.queue[n])
  IN after[Len(task.queue)]

\* The number of polls from now until a SIGKILL is due, by what was asked for
DueAfterPoll ==
  LET asked == {IF r.method = "KILL" THEN 0 ELSE r.ticks :
                r \in {q \in Range(task.queue) : q.method # "TERM"}}
      left == IF hist.due = Never THEN {} ELSE {Max({hist.due - 1, 0})}
  IN IF asked \cup left = {} THEN Never ELSE Min(asked \cup left)

\* If there is no signal to send, it may be time (getNumPolls) to report what the
\* task uses; the worker has a CHECK that it has listed the task.
\* A signal to the process group (if the child leads one) also reaches a descendant that stayed in it.
PollRunning ==
  /\ task.phase = "started" /\ Alive
  /\ LET todo == ToDo
         signals == todo.signal # "none"
     IN /\ task' = [task EXCEPT !.queue = <<>>, !.killAfterTicks = todo.ticks,
                                !.wasKilled = @ \/ signals]
        /\ child' = [child EXCEPT !.sigs = IF signals THEN @ \cup {todo.signal} ELSE @]
        /\ kid' = [kid EXCEPT !.killed = @ \/ (todo.signal = "KILL" /\ KidAlive /\ kid.inGroup)]
        /\ crashed' = (~signals /\ ~worker.listed)
  /\ hist' = [hist EXCEPT !.due = DueAfterPoll]
  /\ UNCHANGED <<opts, pipes, cg, report, worker>>

-----------------------------------------------------------------------------
(* AsyncCGroupReaper                                                          *)

\* Mutant of WorkOnKilling: it signals while the cgroup is still freezing.
WorkOnKillingAtOnce ==
  CASE opts.cgroup = "watch" -> UNCHANGED <<kid, crashed>> /\ cg' = [cg EXCEPT !.reaper = "waiting"]
    [] OTHER ->
         \E late \in BOOLEAN :
           /\ kid' = [kid EXCEPT !.killed = ~late, !.state = IF late THEN "dead" ELSE @]
           /\ crashed' = late
           /\ cg' = [cg EXCEPT !.reaper = "waiting"]

\* workOnKillingCGroupTasks.  Without a freezer, a process that exits after its
\* PID was read makes kill() fail, which is FATAL.
WorkOnKilling ==
  CASE opts.cgroup = "watch" -> UNCHANGED <<kid, crashed>> /\ cg' = [cg EXCEPT !.reaper = "waiting"]
    [] opts.cgroup = "kill" ->
         \E late \in BOOLEAN :
           /\ kid' = [kid EXCEPT !.killed = ~late, !.state = IF late THEN "dead" ELSE @]
           /\ crashed' = late
           /\ cg' = [cg EXCEPT !.reaper = "waiting"]
    [] opts.cgroup = "freezer" ->
         /\ cg' = [cg EXCEPT
                     !.reaper = "waiting",
                     !.waited = IF cg.freezer = "FREEZING" THEN @ + 1 ELSE 0,
                     !.freezer = CASE @ = "THAWED" -> "FREEZING"
                                   [] @ = "FREEZING" ->
                                        IF cg.waited + 1 > FreezeTimeout THEN "THAWED" ELSE @
                                   [] @ = "FROZEN" -> "THAWED"]
         /\ kid' = [kid EXCEPT !.killed = @ \/ cg.freezer = "FROZEN"]
         /\ UNCHANGED crashed

\* Mutant of LookAtCGroups: it leaves the removal to the release_agent.
LookAtCGroupsOnly ==
  \/ /\ KidAlive
     /\ WorkOnKilling
     /\ UNCHANGED hist
  \/ /\ ~KidAlive
     /\ cg' = [cg EXCEPT !.reaper = "done"]
     /\ UNCHANGED <<kid, crashed, hist>>

\* findNonEmptySubsystem removes empty cgroups, and takes one that it cannot
\* read for an empty one.
LookAtCGroups ==
  \/ /\ KidAlive
     /\ WorkOnKilling
     /\ UNCHANGED hist
  \/ /\ ~KidAlive
     /\ cg' = [NoCGroups EXCEPT !.reaper = "done"]
     /\ UNCHANGED <<kid, crashed, hist>>
  \/ /\ KidAlive /\ hist.misreads < MaxMisreads
     /\ hist' = [hist EXCEPT !.misreads = @ + 1]
     /\ cg' = [cg EXCEPT !.reaper = "done"]
     /\ UNCHANGED <<kid, crashed>>

\* Mutant of PollExited: descendants are not waited for.
PollExitedAndGo ==
  /\ task.phase = "started" /\ child.state = "exited"
  /\ child' = [child EXCEPT !.state = "waited"]
  /\ cg' = [cg EXCEPT !.reaper = "done"]
  /\ UNCHANGED <<kid, crashed, hist>>
  /\ UNCHANGED <<opts, task, pipes, report, worker>>

\* The poll that finds that the child has exited; the reaper starts at once.
PollExited ==
  /\ task.phase = "started" /\ child.state = "exited"
  /\ child' = [child EXCEPT !.state = "waited"]
  /\ IF opts.cgroup = "off"
     THEN cg' = [cg EXCEPT !.reaper = "done"] /\ UNCHANGED <<kid, crashed, hist>>
     ELSE LookAtCGroups
  /\ UNCHANGED <<opts, task, pipes, report, worker>>

\* AsyncCGroupReaper::timeoutExpired
Reap ==
  /\ cg.reaper = "waiting"
  /\ LookAtCGroups
  /\ UNCHANGED <<opts, task, child, pipes, report, worker>>

-----------------------------------------------------------------------------
(* The end of waitForSubprocessAndPipes                                       *)

\* TaskStatus::fromString: a line that does not parse is an error.
FromString(line) == IF line = "garbage" THEN "error_backoff" ELSE line

\* What parseStatus may say
FinalStatuses ==
  {FromString(s) : s \in Statuses} \cup {"incomplete_backoff", "error_backoff"}

ASSUME StatusAssumption == NoStatus \notin Statuses \cup FinalStatuses

\* parseStatus
ParseStatus ==
  IF task.rawStatus # NoStatus THEN FromString(task.rawStatus)
  ELSE IF task.wasKilled THEN "incomplete_backoff" ELSE "error_backoff"

\* Mutant of Report: it does not wait for the pipes to close.
ReportAtExit ==
  /\ task.phase = "started"
  /\ cg.reaper = "done"
  /\ report' = ParseStatus
  /\ task' = [task EXCEPT !.phase = "reported"]
  /\ UNCHANGED <<opts, child, kid, pipes, cg, worker, crashed, hist>>

Report ==
  /\ task.phase = "started"
  /\ cg.reaper = "done" /\ pipes.closed = AllPipes
  /\ report' = ParseStatus
  /\ task' = [task EXCEPT !.phase = "reported"]
  /\ UNCHANGED <<opts, child, kid, pipes, cg, worker, crashed, hist>>

\* The callbacks are gone, and with them TaskSubprocessState.
Erase ==
  /\ task.phase = "reported"
  /\ task' = [NoTask EXCEPT !.phase = "over"]
  /\ UNCHANGED <<opts, child, kid, pipes, cg, report, worker, crashed, hist>>

-----------------------------------------------------------------------------
\* The steps of each thread or timer
Call == CheckNotSuicidal \/ ListTask \/ QueueTask
Suicide == KillTasksAndStop \/ Destroy \/ WaitForTasks
Proceed == Start \/ FailToStart \/ ReportFailure \/ Report \/ Erase
Read == ReadLog \/ \E p \in AllPipes : ReadOther(p)
Supervise == PollRunning \/ PollExited \/ Reap

Next ==
  /\ ~crashed
  /\ \/ Call \/ Suicide \/ Proceed \/ Read \/ GrowQuota \/ Supervise
     \/ Acknowledge \/ RequestSuicide \/ \E req \in Requests : KillTask(req)
     \/ WriteLine \/ \E s \in Statuses : WriteStatus(s)
     \/ \E inGroup, daemon \in BOOLEAN : Fork(inGroup, daemon)
     \/ Exit \/ KidExits \/ Freeze

Spec == Init /\ [][Next]_vars

\* The threads of the worker and the timers of the EventBase run on, a killed
\* process dies once it is not frozen, and a cgroup that is frozen over and over
\* gets frozen.
Fairness ==
  /\ WF_vars(~crashed /\ (ListTask \/ QueueTask)) /\ WF_vars(~crashed /\ Suicide)
  /\ WF_vars(~crashed /\ Proceed) /\ WF_vars(~crashed /\ Read) /\ WF_vars(~crashed /\ GrowQuota)
  /\ WF_vars(~crashed /\ Supervise) /\ WF_vars(~crashed /\ DieOfKill)
  /\ SF_vars(~crashed /\ KidDiesOfKill) /\ SF_vars(~crashed /\ Freeze)

FairSpec == Spec /\ Fairness

-----------------------------------------------------------------------------
(* The status that a started task ends with is the last line that it wrote   *)
(* to its status pipe, however its pipes were paused and in whatever order   *)
(* its exit and its output were noticed; if it wrote none, it counts as      *)
(* killed only if it was really sent a signal (parseStatus).                 *)
StatusIsTheLastWord ==
  (task.phase \in {"reported", "over"} /\ child.state # "none") =>
     report = IF hist.last # NoStatus THEN FromString(hist.last)
              ELSE IF child.sigs # {} THEN "incomplete_backoff" ELSE "error_backoff"

(* Once its status is reported, which frees its resources for other tasks,   *)
(* nothing of a task runs any more that the worker was told to look after:   *)
(* not the child, not a descendant in its cgroups (unless these could not be *)
(* read), not a descendant that holds one of its pipes.                      *)
NothingOutlivesItsReport ==
  report # NoStatus =>
    /\ ~Alive
    /\ KidAlive => /\ opts.cgroup = "off" \/ hist.misreads > 0
                   /\ kid.holds = {}

KillRequests == Requests \cup {SuicideRequest}

\* Nobody asks for a wait that is shorter than a poll.  The code does not check
\* this, and 0 stands for "do not kill" in killAfterTicks_.
WaitsTakePolls ==
  /\ Requests \subseteq [method : Methods, ticks : Nat]
  /\ SuicideTicks \in Nat
  /\ \A r \in KillRequests : r.method = "TERM_WAIT_KILL" => r.ticks # 0
  /\ Never \notin Nat

(* Kill requests coalesce in asyncSubprocessCallback: however many arrive,   *)
(* the child is sent a SIGKILL as soon as the earliest of them calls for it. *)
(* This takes waits of at least one poll.                                    *)
EarliestKillWins == (hist.due = 0 /\ Alive) => "KILL" \in child.sigs

(* The reaper's kill() never fails, and the resource callback finds its task *)
(* (both are FATAL), except where killWithoutFreezer is set.                 *)
FatalOnlyWithoutFreezer == crashed => opts.cgroup = "kill"

(* The pipes are paused only while there is no quota, so that none of them   *)
(* waits for a resume() that does not come.                                  *)
PausedOnlyWithoutQuota == pipes.paused => (pipes.quota <= 0 /\ opts.linesPerPoll > 0)

(* A worker that is gone has left nothing running: neither a runTask that    *)
(* had passed the check for suicide when the suicide began, nor a task that  *)
(* was queued and not yet started, escapes killTasksAndStop.                 *)
WorkerLeavesNothing ==
  worker.state = "gone" =>
    /\ ~Alive
    /\ worker.call = "returned" => report # NoStatus

(* A task whose cgroups were reaped leaves no cgroup behind.                 *)
CGroupsAreRemoved == (cg.reaper = "done" /\ hist.misreads = 0) => ~cg.dirs

\* A descendant that nothing kills or waits for
MayLinger == KidAlive /\ (opts.cgroup \in {"off", "watch"} \/ hist.misreads > 0)

AskedToDie == hist.due # Never \/ \E r \in Range(task.queue) : r.method # "TERM"

(* A task that was told to die is reported in the end, whatever it, its      *)
(* descendant and its output do.                                             *)
KilledTasksAreReported == AskedToDie ~> (report # NoStatus \/ crashed \/ MayLinger)

(* A worker that commits suicide goes away, whatever its task does.          *)
SuicideSucceeds == (worker.state # "up") ~> (worker.state = "gone" \/ crashed \/ MayLinger)

(* The queue is an implementation of TaskLifecycle.                          *)
Lifecycle == INSTANCE TaskLifecycle
               WITH held <- task.held, status <- report, Results <- FinalStatuses
ImplementsLifecycle == Lifecycle!Spec
=============================================================================
