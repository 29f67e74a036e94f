------------------------- MODULE TaskSubprocessProofs -------------------------
(***************************************************************************)
(* What TaskSubprocessQueue guarantees for any options, any number of kills  *)
(* and any length of its queues: it implements TaskLifecycle, reports the    *)
(* task's last word, lets nothing outlive the report, dies of no CHECK where *)
(* there is a freezer, removes its cgroups and leaves nothing behind.  It    *)
(* pauses the pipes only while a task has no quota left and will get more,   *)
(* and kills no later than the earliest of the kill requests says.           *)
(***************************************************************************)
EXTENDS TaskSubprocess, WellFoundedInduction, TLAPS

(* The provers, in this order: most leaves are about sets and functions, which *)
(* is what Zenon does, and the rest needs arithmetic.                          *)
USE ZenonT(3), SMTT(20), ZenonT(20)

\* The fields of the records; a value is not restricted where nothing below needs it.
Shape ==
  /\ opts \in OptionSets
  /\ task = [held |-> task.held, phase |-> task.phase, queue |-> task.queue,
             killAfterTicks |-> task.killAfterTicks, wasKilled |-> task.wasKilled,
             rawStatus |-> task.rawStatus]
  /\ task.held \in BOOLEAN /\ task.wasKilled \in BOOLEAN
  /\ child = [state |-> child.state, sigs |-> child.sigs]
  /\ kid = [state |-> kid.state, inGroup |-> kid.inGroup, holds |-> kid.holds,
            killed |-> kid.killed]
  /\ pipes = [data |-> pipes.data, closed |-> pipes.closed, paused |-> pipes.paused,
              quota |-> pipes.quota]
  /\ cg = [dirs |-> cg.dirs, reaper |-> cg.reaper, freezer |-> cg.freezer,
           waited |-> cg.waited]
  /\ worker = [state |-> worker.state, call |-> worker.call, listed |-> worker.listed]
  /\ worker.listed \in BOOLEAN
  /\ hist = [last |-> hist.last, due |-> hist.due, lines |-> hist.lines,
             kills |-> hist.kills, misreads |-> hist.misreads]
  /\ hist.misreads \in Nat /\ pipes.data = [p \in AllPipes |-> pipes.data[p]]
  /\ pipes.data["status"] \in Seq(Statuses)

\* How far the task is, who holds it, and what was said of it.
Progress ==
  /\ task.phase \in {"none", "queued", "failed", "started", "reported", "over"}
  /\ task.held <=> (task.phase \in {"queued", "started", "reported"})
  /\ (report # NoStatus) <=> (task.phase \in {"reported", "over"})
  /\ (worker.call = "returned") <=> (task.phase # "none")
  /\ worker.call \in {"listed", "returned"} /\ report = NoStatus => worker.listed

\* The child and its reaper follow each other.
ChildProgress ==
  /\ child.state \in {"none", "alive", "exited", "waited"}
  /\ kid.state \in {"none", "alive", "dead"}
  /\ cg.reaper \in {"none", "waiting", "done"}
  /\ (cg.reaper # "none") <=> (child.state = "waited")
  /\ task.phase \in {"none", "queued", "failed"} => child.state = "none"
  /\ task.phase \in {"started", "reported"} => child.state # "none"
  /\ child.state = "none" => kid.state = "none" /\ child.sigs = {} /\ hist.last = NoStatus
  /\ task.phase \in {"reported", "over"} /\ child.state # "none" =>
       cg.reaper = "done" /\ pipes.closed = AllPipes

\* A pipe is closed only once nobody is left who could write to it.
ClosedForGood ==
  /\ kid.holds \subseteq PipesOf(opts)
  /\ child.state # "none" =>
       \A p \in pipes.closed \cap PipesOf(opts) : ~IsOpen(p)
  /\ cg.reaper = "done" /\ KidAlive => opts.cgroup = "off" \/ hist.misreads > 0

\* The last status line is in the pipe or has been read.
LastWord ==
  /\ task.phase \in {"none", "queued"} => ~task.wasKilled /\ task.rawStatus = NoStatus
  /\ child.state = "none" => pipes.data["status"] = <<>>
  /\ task.phase = "started" =>
       /\ (child.sigs # {}) <=> task.wasKilled
       /\ hist.last = IF pipes.data["status"] = <<>> THEN task.rawStatus
                      ELSE LastLine(pipes.data["status"])
       /\ "status" \in pipes.closed => pipes.data["status"] = <<>>
       /\ task.rawStatus \in Statuses \cup {NoStatus}
  /\ StatusIsTheLastWord

\* A worker that stopped serves no call, and one that is gone holds nothing.
Departure ==
  /\ worker.state \in {"destroyed", "gone"} => worker.call \notin {"checked", "listed"}
  /\ worker.state = "gone" => task.phase \in {"none", "over"}

\* The cgroups and the FATALs.
Leftovers ==
  /\ cg.dirs \in BOOLEAN
  /\ task.phase \in {"none", "queued"} \/ opts.cgroup = "off" => ~cg.dirs
  /\ cg.reaper = "waiting" => opts.cgroup # "off"
  /\ CGroupsAreRemoved
  /\ FatalOnlyWithoutFreezer

QueueInv ==
  Shape /\ Progress /\ ChildProgress /\ ClosedForGood /\ LastWord /\ Departure /\ Leftovers

\* A worker that has not been called yet satisfies QueueInv.
LEMMA QueueInvInit == Init => QueueInv
<1> SUFFICES ASSUME Init PROVE QueueInv
  OBVIOUS
<1> USE DEF Init, NoTask, NoCGroups
<1>1. Shape
  BY DEF Shape, AllPipes
<1>2. Progress /\ ChildProgress /\ Departure
  BY DEF Progress, ChildProgress, Departure
<1>3. ClosedForGood
  BY DEF ClosedForGood, KidAlive, IsOpen, PipesOf
<1>4. LastWord
  BY DEF LastWord, StatusIsTheLastWord, AllPipes
<1>5. Leftovers
  BY DEF Leftovers, CGroupsAreRemoved, FatalOnlyWithoutFreezer
<1> QED BY <1>1, <1>2, <1>3, <1>4, <1>5 DEF QueueInv

\* The threads that call the queue: they add the task and its kill requests, and
\* otherwise only move the worker on.
LEMMA CallerSteps ==
  ASSUME QueueInv,
         Call \/ Suicide \/ Acknowledge \/ RequestSuicide \/ \E req \in Requests : KillTask(req)
  PROVE  QueueInv'
<1> USE StatusAssumption
    DEF QueueInv, Shape, Progress, ChildProgress, ClosedForGood, LastWord, Departure,
        Leftovers, StatusIsTheLastWord, CGroupsAreRemoved, FatalOnlyWithoutFreezer,
        IsOpen, Alive, KidAlive
<1>1. CASE CheckNotSuicidal
  BY <1>1 DEF CheckNotSuicidal
<1>2. CASE ListTask
  BY <1>2 DEF ListTask
<1>3. CASE QueueTask
  BY <1>3 DEF QueueTask
<1>4. CASE Acknowledge
  BY <1>4 DEF Acknowledge
<1>5. CASE RequestSuicide
  BY <1>5 DEF RequestSuicide
<1>6. CASE WaitForTasks
  BY <1>6 DEF WaitForTasks
<1>7. ASSUME NEW req \in Requests, KillTask(req) PROVE QueueInv'
  <2>1. /\ task'.held = task.held /\ task'.phase = task.phase
        /\ task'.wasKilled = task.wasKilled /\ task'.rawStatus = task.rawStatus
        /\ hist'.last = hist.last /\ hist'.misreads = hist.misreads
        /\ UNCHANGED <<opts, child, kid, pipes, cg, report, worker, crashed>>
    BY <1>7 DEF KillTask, WithKill
  <2>2. Shape'
    BY <1>7 DEF KillTask, WithKill
  <2>3. Progress' /\ ChildProgress'
    BY <2>1
  <2>4. ClosedForGood' /\ LastWord'
    BY <2>1
  <2>5. Departure' /\ Leftovers'
    BY <2>1
  <2> QED BY <2>2, <2>3, <2>4, <2>5
<1>8. ASSUME NEW next \in {"stopped", "destroyed"}, KillRound(next),
             next = "destroyed" => worker.call \notin {"checked", "listed"},
             worker.state \in {"suicidal", "stopped"}
      PROVE  QueueInv'
  <2>1. /\ task'.held = task.held /\ task'.phase = task.phase
        /\ task'.wasKilled = task.wasKilled /\ task'.rawStatus = task.rawStatus
        /\ task' = [held |-> task'.held, phase |-> task'.phase, queue |-> task'.queue,
                    killAfterTicks |-> task'.killAfterTicks, wasKilled |-> task'.wasKilled,
                    rawStatus |-> task'.rawStatus]
    BY <1>8 DEF KillRound, WithKill
  <2>2. /\ worker'.call = worker.call /\ worker'.listed = worker.listed
        /\ worker'.state \in {worker.state, next}
        /\ worker' = [state |-> worker'.state, call |-> worker'.call,
                      listed |-> worker'.listed]
    BY <1>8 DEF KillRound
  <2>3. UNCHANGED <<opts, child, kid, pipes, cg, report, crashed, hist>>
    BY <1>8 DEF KillRound
  <2>4. Shape'
    BY <2>1, <2>2, <2>3
  <2>5. Progress' /\ ChildProgress'
    BY <2>1, <2>2, <2>3
  <2>6. ClosedForGood' /\ LastWord'
    BY <2>1, <2>3
  <2>7. Departure'
    BY <1>8, <2>1, <2>2
  <2>8. Leftovers'
    BY <2>1, <2>3
  <2> QED BY <2>4, <2>5, <2>6, <2>7, <2>8
<1>9. CASE KillTasksAndStop \/ Destroy
  BY <1>8, <1>9 DEF KillTasksAndStop, Destroy
<1> QED
  BY <1>1, <1>2, <1>3, <1>4, <1>5, <1>6, <1>7, <1>9 DEF Call, Suicide

\* The processes: they write while somebody holds the pipe open.
LEMMA ProcessSteps ==
  ASSUME QueueInv,
         \/ WriteLine \/ Exit \/ KidExits \/ Freeze
         \/ \E s \in Statuses : WriteStatus(s)
         \/ \E inGroup, daemon \in BOOLEAN : Fork(inGroup, daemon)
  PROVE  QueueInv'
<1> USE StatusAssumption, OptionsAssumption
    DEF QueueInv, Shape, Progress, ChildProgress, ClosedForGood, LastWord, Departure,
        Leftovers, StatusIsTheLastWord, CGroupsAreRemoved, FatalOnlyWithoutFreezer,
        IsOpen, Alive, KidAlive, AllPipes, PipesOf
<1>1. CASE WriteLine
  BY <1>1 DEF WriteLine, Write
<1>2. CASE Exit
  BY <1>2 DEF Exit
<1>3. CASE KidExits
  BY <1>3 DEF KidExits
<1>4. CASE Freeze
  BY <1>4 DEF Freeze
<1>5. ASSUME NEW inGroup \in BOOLEAN, NEW daemon \in BOOLEAN, Fork(inGroup, daemon)
      PROVE  QueueInv'
  BY <1>5 DEF Fork
<1>6. ASSUME NEW s \in Statuses, WriteStatus(s) PROVE QueueInv'
  <2> DEFINE old == pipes.data["status"]
  <2>1. /\ pipes'.data["status"] = Append(old, s)
        /\ pipes'.closed = pipes.closed
        /\ pipes' = [data |-> pipes'.data, closed |-> pipes'.closed,
                     paused |-> pipes'.paused, quota |-> pipes'.quota]
        /\ pipes'.data = [p \in AllPipes |-> pipes'.data[p]]
    BY <1>6 DEF WriteStatus, Write
  <2>2. /\ Append(old, s) \in Seq(Statuses) /\ Append(old, s) # <<>>
        /\ LastLine(Append(old, s)) = s
    BY <1>6 DEF LastLine
  <2>3. /\ hist'.last = s /\ hist'.misreads = hist.misreads
        /\ hist' = [last |-> hist'.last, due |-> hist'.due, lines |-> hist'.lines,
                    kills |-> hist'.kills, misreads |-> hist'.misreads]
        /\ UNCHANGED <<opts, task, child, kid, cg, report, worker, crashed>>
        /\ child.state = "alive" /\ task.phase = "started"
    BY <1>6 DEF WriteStatus
  <2>4. "status" \notin pipes.closed
    BY <2>3
  <2>5. Shape'
    BY <2>1, <2>2, <2>3
  <2>6. Progress' /\ ChildProgress' /\ ClosedForGood' /\ Departure' /\ Leftovers'
    BY <2>1, <2>3
  <2>7. LastWord'
    BY <2>1, <2>2, <2>3, <2>4
  <2> QED BY <2>5, <2>6, <2>7
<1> QED BY <1>1, <1>2, <1>3, <1>4, <1>5, <1>6

\* Starting the task and reporting it.
LEMMA ProceedSteps == ASSUME QueueInv, Proceed PROVE QueueInv'
<1> USE StatusAssumption, OptionsAssumption
    DEF QueueInv, Shape, Progress, ChildProgress, ClosedForGood, LastWord, Departure,
        Leftovers, StatusIsTheLastWord, CGroupsAreRemoved, FatalOnlyWithoutFreezer,
        IsOpen, Alive, KidAlive, AllPipes, PipesOf
<1>1. CASE Start
  BY <1>1 DEF Start
<1>2. CASE FailToStart
  BY <1>2 DEF FailToStart, NoTask
<1>3. CASE ReportFailure
  BY <1>3 DEF ReportFailure, FinalStatuses
<1>4. CASE Report
  <2>1. ParseStatus # NoStatus
    BY <1>4 DEF Report, ParseStatus, FinalStatuses
  <2>2. /\ task'.phase = "reported" /\ task'.held = task.held
        /\ task'.wasKilled = task.wasKilled /\ task'.rawStatus = task.rawStatus
        /\ Shape'
    BY <1>4 DEF Report
  <2>3. StatusIsTheLastWord'
    BY <1>4 DEF Report, ParseStatus
  <2> QED BY <1>4, <2>1, <2>2, <2>3 DEF Report
<1>5. CASE Erase
  BY <1>5 DEF Erase, NoTask
<1> QED BY <1>1, <1>2, <1>3, <1>4, <1>5 DEF Proceed

\* The callbacks of the pipes.
LEMMA PipeSteps == ASSUME QueueInv, Read \/ GrowQuota PROVE QueueInv'
<1> USE StatusAssumption, OptionsAssumption
    DEF QueueInv, Shape, Progress, ChildProgress, ClosedForGood, LastWord, Departure,
        Leftovers, StatusIsTheLastWord, CGroupsAreRemoved, FatalOnlyWithoutFreezer,
        Alive, KidAlive, AllPipes
<1>1. CASE GrowQuota
  <2>1. /\ pipes'.data = pipes.data /\ pipes'.closed = pipes.closed
        /\ UNCHANGED <<opts, task, child, kid, cg, report, worker, crashed, hist>>
    BY <1>1 DEF GrowQuota
  <2>2. Shape'
    BY <1>1, <2>1 DEF GrowQuota
  <2>3. Progress' /\ ChildProgress'
    BY <2>1
  <2>4. ClosedForGood' /\ LastWord'
    BY <2>1 DEF IsOpen
  <2>5. Departure' /\ Leftovers'
    BY <2>1
  <2> QED BY <2>2, <2>3, <2>4, <2>5
\* What a read leaves of the pipes.
<1>r. ASSUME pipes' = [data |-> pipes'.data, closed |-> pipes'.closed,
                       paused |-> pipes'.paused, quota |-> pipes'.quota],
             pipes'.data = [p \in AllPipes |-> pipes'.data[p]],
             NEW q \in AllPipes, task.phase = "started",
             pipes'.closed = pipes.closed \/ (pipes'.closed = pipes.closed \cup {q} /\ ~IsOpen(q)),
             UNCHANGED <<opts, child, kid, cg, report, worker, crashed, hist>>
      PROVE  ClosedForGood' /\ (ChildProgress /\ task'.phase = "started" => ChildProgress')
  BY <1>r DEF IsOpen
<1>2. CASE ReadLog
  <2>1. /\ pipes' = [data |-> pipes'.data, closed |-> pipes'.closed,
                     paused |-> pipes'.paused, quota |-> pipes'.quota]
        /\ pipes'.data = [p \in AllPipes |-> pipes'.data[p]]
        /\ pipes'.data["status"] = pipes.data["status"]
        /\ \/ pipes'.closed = pipes.closed
           \/ pipes'.closed = pipes.closed \cup {"log"} /\ ~IsOpen("log")
    <3>1. PICK n \in 0 .. Len(pipes.data["log"]) :
            pipes' = [pipes EXCEPT
               !.data["log"] = SubSeq(@, n + 1, Len(@)),
               !.quota = ReducedQuota(n),
               !.paused = PausesAfter(n),
               !.closed = IF ~PausesAfter(n) /\ ~IsOpen("log") THEN @ \cup {"log"} ELSE @]
      BY <1>2 DEF ReadLog
    <3> QED BY <3>1
  <2>2. /\ UNCHANGED <<opts, task, child, kid, cg, report, worker, crashed, hist>>
        /\ task.phase = "started"
    BY <1>2 DEF ReadLog, Readable
  <2>3. ClosedForGood' /\ ChildProgress'
    BY <2>1, <2>2, <1>r
  <2>4. Shape' /\ Progress' /\ Departure' /\ Leftovers'
    BY <2>1, <2>2
  <2>5. LastWord'
    BY <2>1, <2>2
  <2> QED BY <2>3, <2>4, <2>5
<1>3. ASSUME NEW p \in AllPipes, ReadOther(p) PROVE QueueInv'
  <2>1. /\ pipes' = [data |-> pipes'.data, closed |-> pipes'.closed,
                     paused |-> pipes'.paused, quota |-> pipes'.quota]
        /\ pipes'.data = [q \in AllPipes |-> pipes'.data[q]]
        /\ pipes'.data["status"] = IF p = "status" THEN <<>> ELSE pipes.data["status"]
        /\ \/ pipes'.closed = pipes.closed
           \/ pipes'.closed = pipes.closed \cup {p} /\ ~IsOpen(p)
    BY <1>3 DEF ReadOther
  <2>2. /\ UNCHANGED <<opts, child, kid, cg, report, worker, crashed, hist>>
        /\ task.phase = "started" /\ task'.phase = "started" /\ task'.held = task.held
        /\ task'.wasKilled = task.wasKilled
        /\ task' = [held |-> task'.held, phase |-> task'.phase, queue |-> task'.queue,
                    killAfterTicks |-> task'.killAfterTicks, wasKilled |-> task'.wasKilled,
                    rawStatus |-> task'.rawStatus]
    BY <1>3 DEF ReadOther, Readable
  <2>3. task'.rawStatus = IF p = "status" /\ pipes.data["status"] # <<>>
                          THEN LastLine(pipes.data["status"]) ELSE task.rawStatus
    BY <1>3 DEF ReadOther
  <2>4. pipes.data["status"] # <<>> => LastLine(pipes.data["status"]) \in Statuses
    BY DEF LastLine
  <2>5. ClosedForGood' /\ ChildProgress'
    BY <2>1, <2>2, <1>r
  <2>6. Shape'
    <3>1. pipes'.data["status"] \in Seq(Statuses)
      BY <2>1
    <3> HIDE DEF Progress, ChildProgress, ClosedForGood, LastWord, Departure, Leftovers
    <3>2. task'.held \in BOOLEAN /\ task'.wasKilled \in BOOLEAN
      BY <2>2
    <3>3. /\ opts' \in OptionSets
          /\ child' = [state |-> child'.state, sigs |-> child'.sigs]
          /\ kid' = [state |-> kid'.state, inGroup |-> kid'.inGroup, holds |-> kid'.holds,
                     killed |-> kid'.killed]
          /\ cg' = [dirs |-> cg'.dirs, reaper |-> cg'.reaper, freezer |-> cg'.freezer,
                    waited |-> cg'.waited]
          /\ worker' = [state |-> worker'.state, call |-> worker'.call,
                        listed |-> worker'.listed]
          /\ worker'.listed \in BOOLEAN
          /\ hist' = [last |-> hist'.last, due |-> hist'.due, lines |-> hist'.lines,
                      kills |-> hist'.kills, misreads |-> hist'.misreads]
          /\ hist'.misreads \in Nat
      BY <2>2
    <3> QED BY <2>1, <2>2, <3>1, <3>2, <3>3
  <2>7. Progress' /\ Departure'
    BY <2>2
  <2>8. Leftovers'
    BY <2>2
  <2>9. LastWord'
    BY <2>1, <2>2, <2>3, <2>4
  <2> QED BY <2>5, <2>6, <2>7, <2>8, <2>9
<1> QED BY <1>1, <1>2, <1>3 DEF Read

\* What the reaper's look at the cgroups may do.
LEMMA LookAtCGroupsFacts ==
  ASSUME Shape, ChildProgress, Leftovers, opts.cgroup # "off", LookAtCGroups
  PROVE  /\ kid' = [state |-> kid'.state, inGroup |-> kid'.inGroup, holds |-> kid'.holds,
                    killed |-> kid'.killed]
         /\ cg' = [dirs |-> cg'.dirs, reaper |-> cg'.reaper, freezer |-> cg'.freezer,
                   waited |-> cg'.waited]
         /\ hist' = [last |-> hist'.last, due |-> hist'.due, lines |-> hist'.lines,
                     kills |-> hist'.kills, misreads |-> hist'.misreads]
         /\ kid'.holds = kid.holds /\ kid'.state \in {kid.state, "dead"}
         /\ kid.state = "none" => kid'.state = "none"
         /\ hist'.last = hist.last /\ hist'.misreads \in Nat
         /\ hist'.misreads >= hist.misreads
         /\ cg'.reaper \in {"waiting", "done"}
         /\ cg'.dirs \in BOOLEAN /\ (cg'.dirs => cg.dirs)
         /\ cg'.reaper = "done" =>
              hist'.misreads > 0 \/ (kid'.state # "alive" /\ ~cg'.dirs)
         /\ crashed' => crashed \/ opts.cgroup = "kill"
<1> USE DEF Shape, ChildProgress, Leftovers, KidAlive
<1>1. opts.cgroup \in CGroupModes
  BY OptionsAssumption
<1>2. CASE KidAlive /\ WorkOnKilling /\ UNCHANGED hist
  <2>1. CASE opts.cgroup = "watch"
    BY <1>2, <2>1 DEF WorkOnKilling
  <2>2. CASE opts.cgroup = "kill"
    <3>1. PICK late \in BOOLEAN :
            /\ kid' = [kid EXCEPT !.killed = ~late, !.state = IF late THEN "dead" ELSE @]
            /\ crashed' = late
            /\ cg' = [cg EXCEPT !.reaper = "waiting"]
      BY <1>2, <2>2 DEF WorkOnKilling
    <3>2. /\ kid' = [state |-> kid'.state, inGroup |-> kid'.inGroup, holds |-> kid'.holds,
                     killed |-> kid'.killed]
          /\ kid'.holds = kid.holds /\ kid'.state \in {kid.state, "dead"}
      BY <3>1
    <3>3. /\ cg' = [dirs |-> cg'.dirs, reaper |-> cg'.reaper, freezer |-> cg'.freezer,
                    waited |-> cg'.waited]
          /\ cg'.reaper = "waiting" /\ cg'.dirs = cg.dirs
      BY <3>1
    <3> QED BY <1>2, <2>2, <3>2, <3>3
  <2>3. CASE opts.cgroup = "freezer"
    <3>1. /\ cg'.reaper = "waiting" /\ cg'.dirs = cg.dirs
          /\ cg' = [dirs |-> cg'.dirs, reaper |-> cg'.reaper, freezer |-> cg'.freezer,
                    waited |-> cg'.waited]
      BY <1>2, <2>3 DEF WorkOnKilling
    <3>2. /\ kid' = [kid EXCEPT !.killed = @ \/ cg.freezer = "FROZEN"]
          /\ UNCHANGED <<crashed, hist>>
      BY <1>2, <2>3 DEF WorkOnKilling
    <3> QED BY <1>2, <3>1, <3>2
  <2> QED BY <1>1, <2>1, <2>2, <2>3 DEF CGroupModes
<1>3. CASE /\ ~KidAlive
           /\ cg' = [NoCGroups EXCEPT !.reaper = "done"]
           /\ UNCHANGED <<kid, crashed, hist>>
  <2>1. cg' = [dirs |-> FALSE, reaper |-> "done", freezer |-> "THAWED", waited |-> 0]
    BY <1>3 DEF NoCGroups
  <2>2. cg' = [dirs |-> cg'.dirs, reaper |-> cg'.reaper, freezer |-> cg'.freezer,
               waited |-> cg'.waited]
    BY <2>1
  <2>3. cg'.reaper = "done" /\ cg'.dirs \in BOOLEAN /\ ~cg'.dirs
    BY <2>1
  <2>4. kid'.state = kid.state /\ kid.state # "alive" /\ kid'.holds = kid.holds
    BY <1>3
  <2>5. hist'.misreads = hist.misreads /\ hist'.last = hist.last
    BY <1>3
  <2> QED BY <1>3, <2>2, <2>3, <2>4, <2>5
<1>4. CASE /\ KidAlive /\ hist.misreads < MaxMisreads
           /\ hist' = [hist EXCEPT !.misreads = @ + 1]
           /\ cg' = [cg EXCEPT !.reaper = "done"]
           /\ UNCHANGED <<kid, crashed>>
  BY <1>4
<1> QED BY <1>2, <1>3, <1>4 DEF LookAtCGroups

\* The timers that watch the child and reap its cgroups.
LEMMA SuperviseSteps == ASSUME QueueInv, Supervise PROVE QueueInv'
<1> USE StatusAssumption
    DEF QueueInv, Shape, Progress, ChildProgress, ClosedForGood, LastWord, Departure,
        Leftovers, StatusIsTheLastWord, CGroupsAreRemoved, FatalOnlyWithoutFreezer,
        IsOpen, Alive, KidAlive
<1>1. CASE PollRunning
  BY <1>1 DEF PollRunning
\* The reaper looks while the task waits for it.
<1>2. ASSUME LookAtCGroups, opts.cgroup # "off", task.phase = "started",
             child' = [state |-> "waited", sigs |-> child.sigs],
             child.state # "none", child.state # "alive",
             UNCHANGED <<opts, task, pipes, report, worker>>
      PROVE  QueueInv'
  <2> HIDE DEF LookAtCGroups
  <2>1. /\ kid' = [state |-> kid'.state, inGroup |-> kid'.inGroup, holds |-> kid'.holds,
                   killed |-> kid'.killed]
        /\ cg' = [dirs |-> cg'.dirs, reaper |-> cg'.reaper, freezer |-> cg'.freezer,
                  waited |-> cg'.waited]
        /\ hist' = [last |-> hist'.last, due |-> hist'.due, lines |-> hist'.lines,
                    kills |-> hist'.kills, misreads |-> hist'.misreads]
    BY <1>2, LookAtCGroupsFacts
  <2>2. /\ kid'.holds = kid.holds /\ kid'.state \in {kid.state, "dead"}
        /\ hist'.last = hist.last /\ hist'.misreads \in Nat
        /\ cg'.reaper \in {"waiting", "done"} /\ cg'.dirs \in BOOLEAN
        /\ cg'.reaper = "done" =>
             hist'.misreads > 0 \/ (kid'.state # "alive" /\ ~cg'.dirs)
        /\ crashed' => crashed \/ opts.cgroup = "kill"
    BY <1>2, LookAtCGroupsFacts
  <2>3. child'.state = "waited" /\ child'.sigs = child.sigs
    BY <1>2
  <2>4. Shape'
    BY <1>2, <2>1, <2>2
  <2>5. Progress' /\ ChildProgress' /\ Departure'
    BY <1>2, <2>2, <2>3
  <2>6. ClosedForGood'
    BY <1>2, <2>2, <2>3
  <2>7. LastWord'
    BY <1>2, <2>2, <2>3
  <2>8. CGroupsAreRemoved' /\ FatalOnlyWithoutFreezer'
    BY <1>2, <2>2
  <2>9. Leftovers'
    BY <1>2, <2>2, <2>8
  <2> QED BY <2>4, <2>5, <2>6, <2>7, <2>9
<1>3. CASE PollExited /\ opts.cgroup # "off"
  BY <1>2, <1>3 DEF PollExited
<1>4. CASE PollExited /\ opts.cgroup = "off"
  BY <1>4 DEF PollExited
<1>5. CASE Reap
  <2>1. task.phase = "started" \/ cg.reaper # "waiting"
    OBVIOUS
  <2> QED BY <1>2, <1>5, <2>1 DEF Reap
<1> QED BY <1>1, <1>3, <1>4, <1>5 DEF Supervise

\* Every step keeps QueueInv.
LEMMA QueueInvNext == QueueInv /\ [Next]_vars => QueueInv'
<1> SUFFICES ASSUME QueueInv, [Next]_vars PROVE QueueInv'
  OBVIOUS
<1>1. CASE UNCHANGED vars
  <2> USE <1>1 DEF vars, QueueInv
  <2>1. Shape'
    BY DEF Shape
  <2>2. Progress' /\ ChildProgress'
    BY DEF Progress, ChildProgress
  <2>3. ClosedForGood'
    BY DEF ClosedForGood, IsOpen, Alive, KidAlive
  <2>4. LastWord'
    BY DEF LastWord, StatusIsTheLastWord
  <2>5. Departure' /\ Leftovers'
    BY DEF Departure, Leftovers, CGroupsAreRemoved, FatalOnlyWithoutFreezer
  <2> QED BY <2>1, <2>2, <2>3, <2>4, <2>5
<1>2. CASE Next
  BY <1>2, CallerSteps, ProcessSteps, ProceedSteps, PipeSteps, SuperviseSteps DEF Next
<1> QED BY <1>1, <1>2

\* QueueInv is an invariant.
LEMMA QueueInvHolds == Spec => []QueueInv
BY QueueInvInit, QueueInvNext, PTL DEF Spec

\* A task's status is its last word (parseStatus), for any pipes, limits and kills.
THEOREM LastWordIsReported == Spec => []StatusIsTheLastWord
<1>1. QueueInv => StatusIsTheLastWord
  BY DEF QueueInv, LastWord
<1> QED BY <1>1, QueueInvHolds, PTL

\* Nothing that the worker looks after runs on once the status is out
\* (waitForSubprocessAndPipes waits for the child, the pipes and the cgroups).
THEOREM ReportIsFinal == Spec => []NothingOutlivesItsReport
<1>1. QueueInv => NothingOutlivesItsReport
  BY DEF QueueInv, Progress, ChildProgress, ClosedForGood, NothingOutlivesItsReport,
     Alive, KidAlive, IsOpen, PipesOf, AllPipes
<1> QED BY <1>1, QueueInvHolds, PTL

\* Neither the reaper's kill() nor the resource callback's CHECK fails, except where
\* killWithoutFreezer is set (AsyncCGroupReaper, BistroWorkerHandler::runTask).
THEOREM FreezerAvoidsFatal == Spec => []FatalOnlyWithoutFreezer
<1>1. QueueInv => FatalOnlyWithoutFreezer
  BY DEF QueueInv, Leftovers
<1> QED BY <1>1, QueueInvHolds, PTL

\* A worker that is gone has left nothing running (killTasksAndStop and the two
\* destructors).
THEOREM GoneLeavesNothing == Spec => []WorkerLeavesNothing
<1>1. QueueInv => WorkerLeavesNothing
  BY DEF QueueInv, Progress, ChildProgress, Departure, WorkerLeavesNothing, Alive
<1> QED BY <1>1, QueueInvHolds, PTL

\* The reaper removes the cgroups that it could read (findNonEmptySubsystem).
THEOREM ReaperCleansUp == Spec => []CGroupsAreRemoved
<1>1. QueueInv => CGroupsAreRemoved
  BY DEF QueueInv, Leftovers
<1> QED BY <1>1, QueueInvHolds, PTL

\* Only starting and reporting move the task on in its life.
LEMMA StepImplements ==
  QueueInv /\ [Next]_vars => [Lifecycle!Next]_<<task.held, report>>
<1> SUFFICES ASSUME QueueInv, [Next]_vars,
                    ~(UNCHANGED <<task.held, report>>)
             PROVE  Lifecycle!Next
  OBVIOUS
<1> USE DEF QueueInv, Shape, Progress
<1>1. CASE QueueTask
  <2>1. Lifecycle!Accept
    BY <1>1 DEF QueueTask, Lifecycle!Accept
  <2> QED BY <2>1 DEF Lifecycle!Next
<1>2. CASE FailToStart
  <2>1. Lifecycle!GiveUp
    BY <1>2 DEF FailToStart, NoTask, Lifecycle!GiveUp
  <2> QED BY <2>1 DEF Lifecycle!Next
<1>3. CASE ReportFailure
  <2>1. Lifecycle!ReportGivenUp
    BY <1>3 DEF ReportFailure, Lifecycle!ReportGivenUp
  <2> QED BY <2>1 DEF Lifecycle!Next
<1>4. CASE Report
  <2>1. ParseStatus \in FinalStatuses
    BY <1>4 DEF Report, LastWord, ParseStatus, FinalStatuses
  <2>2. Lifecycle!ReportHeld(ParseStatus)
    BY <1>4 DEF Report, Lifecycle!ReportHeld
  <2> QED BY <2>1, <2>2 DEF Lifecycle!Next
<1>5. CASE Erase
  <2>1. Lifecycle!Release
    BY <1>5 DEF Erase, NoTask, Lifecycle!Release
  <2> QED BY <2>1 DEF Lifecycle!Next
\* Everything else leaves the task where it is.
<1>6. CASE \/ UNCHANGED vars \/ CheckNotSuicidal \/ ListTask \/ Acknowledge
           \/ RequestSuicide \/ WaitForTasks \/ GrowQuota \/ WriteLine \/ Exit \/ KidExits
           \/ Freeze \/ ReadLog \/ PollExited \/ Reap
           \/ \E s \in Statuses : WriteStatus(s)
           \/ \E inGroup, daemon \in BOOLEAN : Fork(inGroup, daemon)
  <2>1. UNCHANGED <<task, report>>
    BY <1>6 DEF vars, CheckNotSuicidal, ListTask, Acknowledge, RequestSuicide,
       WaitForTasks, GrowQuota, WriteLine, Exit, KidExits, Freeze, ReadLog, PollExited,
       Reap, WriteStatus, Fork
  <2> QED BY <2>1
<1>7. CASE Start \/ PollRunning \/ \E p \in AllPipes : ReadOther(p)
  BY <1>7 DEF Start, PollRunning, ReadOther
<1>8. CASE KillTasksAndStop \/ Destroy \/ \E req \in Requests : KillTask(req)
  BY <1>8 DEF KillTasksAndStop, Destroy, KillRound, KillTask, WithKill
<1> QED
  BY <1>1, <1>2, <1>3, <1>4, <1>5, <1>6, <1>7, <1>8
     DEF Next, Call, Suicide, Proceed, Read, Supervise

\* TaskSubprocessQueue implements TaskLifecycle: a task is held, reported once, and
\* given up only then or with the news that it could not be started.
THEOREM QueueImplementsLifecycle == Spec => ImplementsLifecycle
<1>1. Init => Lifecycle!Init
  BY DEF Init, NoTask, Lifecycle!Init
<1> QED
  BY <1>1, StepImplements, QueueInvHolds, PTL
     DEF Spec, ImplementsLifecycle, Lifecycle!Spec

-----------------------------------------------------------------------------
(* AsyncReadPipeRateLimiter *)

\* The quota, and the lines that it is for.  The limiter counts a read line against
\* the quota at once, and a limit that is not positive restores the whole quota at
\* each tick: what such a task has used since then is at most what it ever wrote.
QuotaInv ==
  /\ pipes.quota \in Int /\ pipes.paused \in BOOLEAN
  /\ pipes.data["log"] \in Seq({"line"})
  /\ hist.lines \in Nat /\ hist.lines <= opts.maxLines
  /\ Len(pipes.data["log"]) <= hist.lines
  /\ task.phase \in {"none", "queued"} => ~pipes.paused
  /\ opts.linesPerPoll <= 0 /\ pipes.quota > 0 =>
       pipes.quota >= MaxQuota - hist.lines + Len(pipes.data["log"])
  /\ PausedOnlyWithoutQuota

\* The options of the task, as numbers.
LEMMA OptionNumbers ==
  ASSUME Shape
  PROVE  /\ opts.linesPerPoll \in Int /\ opts.maxLines \in Nat
         /\ MaxQuota \in Nat /\ MaxQuota > opts.maxLines
BY OptionsAssumption, QuotaAssumption DEF Shape

\* Nothing was written, and nothing is paused.
LEMMA QuotaInit == Init => QuotaInv
<1> SUFFICES ASSUME Init PROVE QuotaInv
  OBVIOUS
<1>1. opts.linesPerPoll \in Int /\ opts.maxLines \in Nat
  BY OptionsAssumption DEF Init
<1>2. /\ pipes.quota = 0 /\ pipes.paused = FALSE /\ pipes.data["log"] = <<>>
      /\ hist.lines = 0
  BY DEF Init, AllPipes
<1>3. pipes.data["log"] \in Seq({"line"}) /\ Len(pipes.data["log"]) = 0
  BY <1>2
<1>4. PausedOnlyWithoutQuota
  BY <1>2 DEF PausedOnlyWithoutQuota
<1>5. ~(pipes.quota > 0)
  BY <1>2
<1>6. pipes.quota \in Int
  BY <1>2
<1>7. pipes.paused \in BOOLEAN /\ ~pipes.paused
  BY <1>2, Zenon
<1>8. hist.lines \in Nat /\ hist.lines <= opts.maxLines /\ Len(pipes.data["log"]) <= hist.lines
  BY <1>1, <1>2, <1>3
<1> QED BY <1>3, <1>4, <1>5, <1>6, <1>7, <1>8 DEF QuotaInv

\* A step that neither reads nor writes the log, nor starts the task.
LEMMA QuotaUntouched ==
  ASSUME QuotaInv, UNCHANGED <<opts, pipes.quota, pipes.paused, hist.lines>>,
         pipes'.data["log"] = pipes.data["log"],
         task'.phase \in {"none", "queued"} => task.phase \in {"none", "queued"}
  PROVE  QuotaInv'
BY DEF QuotaInv, PausedOnlyWithoutQuota

\* A line that is written is still to be read.
LEMMA WriteKeepsQuota ==
  ASSUME QueueInv, QuotaInv, WriteLine \/ \E s \in Statuses : WriteStatus(s)
  PROVE  QuotaInv'
<1> DEFINE log == pipes.data["log"]
<1>1. /\ hist.lines < opts.maxLines /\ hist'.lines = hist.lines + 1
      /\ UNCHANGED <<opts, task>>
  BY DEF QueueInv, Shape, WriteLine, WriteStatus
<1>2. /\ pipes'.quota = pipes.quota /\ pipes'.paused = pipes.paused
      /\ \/ pipes'.data["log"] = log
         \/ pipes'.data["log"] = Append(log, "line")
  <2>1. CASE WriteLine
    BY <2>1 DEF QueueInv, Shape, WriteLine, Write, AllPipes
  <2>2. ASSUME NEW s \in Statuses, WriteStatus(s)
        PROVE  /\ pipes'.quota = pipes.quota /\ pipes'.paused = pipes.paused
               /\ pipes'.data["log"] = log
    BY <2>2 DEF QueueInv, Shape, WriteStatus, Write, AllPipes
  <2> QED BY <2>1, <2>2
<1>3. opts.maxLines \in Nat /\ MaxQuota \in Nat
  BY OptionNumbers DEF QueueInv
<1>4. log \in Seq({"line"}) /\ Len(log) \in Nat
  BY DEF QuotaInv
<1>5. Append(log, "line") \in Seq({"line"}) /\ Len(Append(log, "line")) = Len(log) + 1
  BY <1>4
<1>6. /\ pipes'.data["log"] \in Seq({"line"}) /\ Len(pipes'.data["log"]) \in Nat
      /\ Len(log) <= Len(pipes'.data["log"]) /\ Len(pipes'.data["log"]) <= Len(log) + 1
  <2>1. CASE pipes'.data["log"] = log
    BY <1>4, <2>1
  <2>2. CASE pipes'.data["log"] = Append(log, "line")
    BY <1>4, <1>5, <2>2
  <2> QED BY <1>2, <2>1, <2>2
<1>7. PausedOnlyWithoutQuota'
  BY <1>1, <1>2 DEF QuotaInv, PausedOnlyWithoutQuota
<1> HIDE DEF log
<1>8. Len(log) <= hist.lines /\ hist.lines \in Nat /\ pipes.quota \in Int
  BY DEF QuotaInv, log
<1>9. opts.linesPerPoll <= 0 /\ pipes.quota > 0 =>
        pipes.quota >= MaxQuota - hist.lines + Len(log)
  BY DEF QuotaInv, log
<1>10. /\ hist'.lines \in Nat /\ hist'.lines <= opts.maxLines
       /\ Len(pipes'.data["log"]) <= hist'.lines
       /\ opts.linesPerPoll <= 0 /\ pipes.quota > 0 =>
            pipes.quota >= MaxQuota - hist'.lines + Len(pipes'.data["log"])
  <2> DEFINE n == Len(log)
              m == Len(pipes'.data["log"])
  <2>1. n \in Nat /\ m \in Nat /\ n <= m /\ m <= n + 1
    BY <1>4, <1>6
  <2>2. hist'.lines \in Nat /\ hist'.lines <= opts.maxLines
    BY <1>1, <1>3, <1>8
  <2>3. m <= hist'.lines
    BY <1>1, <1>8, <2>1
  <2>4. \A q \in Int, l \in Nat : q >= MaxQuota - l + n => q >= MaxQuota - (l + 1) + m
    BY <1>3, <2>1
  <2>5. opts.linesPerPoll <= 0 /\ pipes.quota > 0 => pipes.quota >= MaxQuota - (hist.lines + 1) + m
    BY <1>8, <1>9, <2>4
  <2> QED BY <1>1, <2>2, <2>3, <2>5
<1> QED BY <1>1, <1>2, <1>6, <1>7, <1>10 DEF QuotaInv

\* With a limit that is not positive no read uses up a quota: there are not as many
\* lines (AsyncReadPipeRateLimiter::reduceQuotaBy).
LEMMA ReadKeepsQuota == ASSUME QueueInv, QuotaInv, ReadLog PROVE QuotaInv'
<1> DEFINE log == pipes.data["log"]
<1>1. PICK n \in 0 .. Len(log) :
        /\ pipes'.data["log"] = SubSeq(log, n + 1, Len(log))
        /\ pipes'.quota = pipes.quota - n
        /\ pipes'.paused = (pipes.quota > 0 /\ pipes.quota - n <= 0)
  BY DEF ReadLog, PausesAfter, ReducedQuota, QueueInv, Shape, AllPipes
<1>2. UNCHANGED <<opts, task, hist>> /\ task.phase = "started"
  BY DEF ReadLog, Readable
<1>3. log \in Seq({"line"}) /\ Len(log) \in Nat /\ n \in Nat /\ n <= Len(log)
  BY DEF QuotaInv
<1>4. pipes'.data["log"] \in Seq({"line"}) /\ Len(pipes'.data["log"]) = Len(log) - n
  BY <1>1, <1>3
<1>5. /\ opts.linesPerPoll \in Int /\ opts.maxLines \in Nat
      /\ MaxQuota \in Nat /\ MaxQuota > opts.maxLines
  BY OptionNumbers DEF QueueInv
<1>6. opts.linesPerPoll <= 0 /\ pipes.quota > 0 => pipes.quota - n > 0
  BY <1>3, <1>5 DEF QuotaInv
<1>7. PausedOnlyWithoutQuota'
  BY <1>1, <1>2, <1>5, <1>6 DEF QuotaInv, PausedOnlyWithoutQuota
<1>8. opts.linesPerPoll <= 0 /\ pipes'.quota > 0 =>
        pipes'.quota >= MaxQuota - hist.lines + Len(pipes'.data["log"])
  <2>1. pipes.quota \in Int /\ hist.lines \in Nat
    BY DEF QuotaInv
  <2>2. opts.linesPerPoll <= 0 /\ pipes.quota > 0 =>
          pipes.quota >= MaxQuota - hist.lines + Len(log)
    BY DEF QuotaInv
  <2>3. \A q, l \in Int : q >= MaxQuota - l + Len(log) =>
                           q - n >= MaxQuota - l + (Len(log) - n)
    BY <1>3, <1>5
  <2>4. pipes.quota - n > 0 => pipes.quota > 0
    BY <1>3, <2>1
  <2> QED BY <1>1, <1>4, <2>1, <2>2, <2>3, <2>4
<1>9. /\ pipes'.quota \in Int /\ pipes'.paused \in BOOLEAN
      /\ Len(pipes'.data["log"]) <= hist.lines
  <2>1. pipes.quota \in Int /\ hist.lines \in Nat /\ Len(log) <= hist.lines
    BY DEF QuotaInv
  <2> QED BY <1>1, <1>3, <1>4, <2>1
<1> QED BY <1>2, <1>4, <1>7, <1>8, <1>9 DEF QuotaInv

\* Where the quota grows past 0 the pipes are resumed
\* (AsyncReadPipeRateLimiter::timeoutExpired).
LEMMA GrowKeepsQuota == ASSUME QueueInv, QuotaInv, GrowQuota PROVE QuotaInv'
<1> DEFINE next == pipes.quota + opts.linesPerPoll
<1>1. /\ pipes'.data = pipes.data
      /\ pipes'.quota = IF next > pipes.quota THEN next ELSE MaxQuota
      /\ pipes'.paused = (pipes.paused /\ ~(pipes.quota <= 0 /\ next > 0))
  BY DEF GrowQuota, QueueInv, Shape
<1>2. UNCHANGED <<opts, task, hist>> /\ task.phase = "started"
  BY DEF GrowQuota
<1>3. /\ opts.linesPerPoll \in Int /\ opts.maxLines \in Nat
      /\ MaxQuota \in Nat /\ MaxQuota > opts.maxLines
  BY OptionNumbers DEF QueueInv
<1>4. pipes.quota \in Int /\ Len(pipes.data["log"]) \in Nat
  BY DEF QuotaInv
<1>5. PausedOnlyWithoutQuota'
  <2>1. pipes.paused => pipes.quota <= 0 /\ opts.linesPerPoll > 0
    BY DEF QuotaInv, PausedOnlyWithoutQuota
  <2>2. pipes'.paused => pipes.paused /\ ~(pipes.quota <= 0 /\ next > 0)
    BY <1>1, Zenon
  <2>3. pipes'.paused => pipes'.quota <= 0 /\ opts.linesPerPoll > 0
    BY <1>1, <1>3, <1>4, <2>1, <2>2
  <2> QED BY <1>2, <2>3 DEF PausedOnlyWithoutQuota
<1> QED BY <1>1, <1>2, <1>3, <1>4, <1>5 DEF QuotaInv

\* The limiter starts with the lines of one poll.
LEMMA StartKeepsQuota == ASSUME QueueInv, QuotaInv, Start PROVE QuotaInv'
<1>1. /\ pipes'.data = pipes.data /\ pipes'.paused = pipes.paused
      /\ pipes'.quota = opts.linesPerPoll
  BY DEF Start, QueueInv, Shape
<1>2. UNCHANGED <<opts, hist>> /\ task.phase = "queued" /\ task'.phase = "started"
  BY DEF Start, QueueInv, Shape
<1>3. opts.linesPerPoll \in Int
  BY OptionNumbers DEF QueueInv
<1> QED BY <1>1, <1>2, <1>3 DEF QuotaInv, PausedOnlyWithoutQuota

\* QuotaInv is inductive relative to QueueInv.
LEMMA QuotaNext == QueueInv /\ QuotaInv /\ [Next]_vars => QuotaInv'
<1> SUFFICES ASSUME QueueInv, QuotaInv, [Next]_vars PROVE QuotaInv'
  OBVIOUS
<1>1. CASE WriteLine \/ \E s \in Statuses : WriteStatus(s)
  BY <1>1, WriteKeepsQuota
<1>2. CASE ReadLog
  BY <1>2, ReadKeepsQuota
<1>3. CASE GrowQuota
  BY <1>3, GrowKeepsQuota
<1>4. CASE Start
  BY <1>4, StartKeepsQuota
\* The others: they leave the pipes alone.
<1>5. CASE \/ UNCHANGED vars \/ CheckNotSuicidal \/ ListTask \/ Acknowledge
           \/ RequestSuicide \/ WaitForTasks \/ Exit \/ KidExits \/ Freeze
           \/ \E inGroup, daemon \in BOOLEAN : Fork(inGroup, daemon)
  <2>1. UNCHANGED <<opts, task, pipes, hist>>
    BY <1>5 DEF vars, CheckNotSuicidal, ListTask, Acknowledge, RequestSuicide,
       WaitForTasks, Exit, KidExits, Freeze, Fork
  <2> QED BY <2>1, QuotaUntouched
<1>6. CASE FailToStart \/ ReportFailure \/ Report \/ Erase \/ QueueTask
  <2>1. /\ UNCHANGED <<opts, pipes, hist>>
        /\ task'.phase \in {"failed", "over", "reported"}
           \/ (task'.phase = "queued" /\ task.phase = "none")
    BY <1>6 DEF FailToStart, ReportFailure, Report, Erase, QueueTask, NoTask, QueueInv,
       Shape, Progress
  <2> QED BY <2>1, QuotaUntouched
<1>7. CASE KillTasksAndStop \/ Destroy \/ \E req \in Requests : KillTask(req)
  <2>1. UNCHANGED <<opts, pipes>> /\ hist'.lines = hist.lines /\ task'.phase = task.phase
    BY <1>7 DEF KillTasksAndStop, Destroy, KillRound, KillTask, WithKill, QueueInv, Shape
  <2> QED BY <2>1, QuotaUntouched
<1>8. CASE PollRunning
  <2>1. UNCHANGED <<opts, pipes>> /\ hist'.lines = hist.lines /\ task'.phase = task.phase
    BY <1>8 DEF PollRunning, QueueInv, Shape
  <2> QED BY <2>1, QuotaUntouched
<1>9. CASE PollExited \/ Reap
  <2>1. hist' = hist \/ hist' = [hist EXCEPT !.misreads = @ + 1]
    BY <1>9 DEF PollExited, Reap, LookAtCGroups
  <2>2. hist'.lines = hist.lines
    BY <2>1 DEF QueueInv, Shape
  <2>3. UNCHANGED <<opts, pipes, task>>
    BY <1>9 DEF PollExited, Reap
  <2> QED BY <2>2, <2>3, QuotaUntouched
<1>10. ASSUME NEW p \in AllPipes, ReadOther(p) PROVE QuotaInv'
  <2>1. /\ UNCHANGED <<opts, hist>> /\ task'.phase = task.phase
        /\ pipes'.quota = pipes.quota /\ pipes'.paused = pipes.paused
        /\ pipes'.data["log"] = pipes.data["log"]
    BY <1>10 DEF ReadOther, QueueInv, Shape, AllPipes
  <2> QED BY <2>1, QuotaUntouched
<1> QED
  BY <1>1, <1>2, <1>3, <1>4, <1>5, <1>6, <1>7, <1>8, <1>9, <1>10
     DEF Next, Call, Suicide, Proceed, Read, Supervise

\* The pipes are paused only while there is no quota and a limit that will restore
\* it (AsyncReadPipeRateLimiter): no pipe waits for a resume() that does not come.
THEOREM PauseEnds == Spec => []PausedOnlyWithoutQuota
<1>1. QuotaInv => PausedOnlyWithoutQuota
  BY DEF QuotaInv
<1> QED BY <1>1, QuotaInit, QuotaNext, QueueInvHolds, PTL DEF Spec

-----------------------------------------------------------------------------
(* Kill requests *)

(* A nonempty set of naturals has a least element. *)
LEMMA LeastNatural ==
    ASSUME NEW S \in SUBSET Nat, S # {}
    PROVE  \E m \in S : \A n \in S : m <= n
<1>. DEFINE Less == OpToRel(<, Nat)
<1>1. IsWellFoundedOn(Less, Nat)
  BY NatLessThanWellFounded
<1>2. \A n, m \in Nat : n < m => <<n, m>> \in Less
  BY Zenon DEF OpToRel
<1>. HIDE DEF Less
<1>3. PICK m \in S : \A n \in S : ~(<<n, m>> \in Less)
  BY <1>1, WFMin
<1>4. \A n \in S : n \in Nat
  OBVIOUS
<1>5. \A n \in S : ~(n < m)
  BY <1>2, <1>3, <1>4, Zenon
<1>. QED
  BY <1>4, <1>5

(* What induction on naturals comes down to: the least of the values for which *)
(* a claim fails follows one for which it holds, or is 0.                      *)
LEMMA LeastFailure ==
    ASSUME NEW Bad \in SUBSET Nat, Bad # {}
    PROVE  \E m \in Bad : m \in Nat /\ m - 1 \notin Bad
<1>1. PICK m \in Bad : \A n \in Bad : m <= n
  BY LeastNatural
<1>2. m \in Nat
  OBVIOUS
<1>3. m - 1 \notin Bad
  BY <1>1, <1>2
<1>. QED
  BY <1>2, <1>3

(* killAfterTicks_ counts down to the earliest SIGKILL that was asked for,    *)
(* unless one was sent.                                                       *)
KillInv ==
  /\ task.queue \in Seq(KillRequests)
  /\ child.state = "none" => hist.due = Never /\ task.killAfterTicks = 0
  /\ Alive /\ "KILL" \notin child.sigs =>
       \/ hist.due = Never /\ task.killAfterTicks = 0
       \/ hist.due \in Nat \ {0} /\ task.killAfterTicks = hist.due

\* The polls after which the first n requests, and what was asked before, call for a SIGKILL
Left == IF hist.due = Never THEN {} ELSE {Max({hist.due - 1, 0})}
Asks(r) == IF r.method = "KILL" THEN 0 ELSE r.ticks
AskedFor(n) == Left \cup {Asks(task.queue[k]) : k \in {j \in 1..n : task.queue[j].method # "TERM"}}

\* A least element
IsLeast(m, S) == m \in S /\ \A x \in S : m <= x

\* What is to be done does what was asked for.
Does(todo, S) ==
  /\ todo = [signal |-> todo.signal, ticks |-> todo.ticks]
  /\ todo.ticks \in Nat
  /\ 0 \in S => todo.signal = "KILL"
  /\ 0 \notin S => IF S = {} THEN todo.ticks = 0 ELSE IsLeast(todo.ticks, S)

\* The least element is the minimum.
LEMMA LeastIsMin ==
  ASSUME NEW S \in SUBSET Nat, NEW m, IsLeast(m, S)
  PROVE  Min(S) = m
<1>1. Min(S) \in S /\ \A x \in S : Min(S) <= x
  BY DEF IsLeast, Min
<1>2. m \in Nat /\ Min(S) \in Nat /\ m <= Min(S) /\ Min(S) <= m
  BY <1>1 DEF IsLeast
<1>. QED  BY <1>2

\* The minimum and the maximum of two numbers.
LEMMA LeastOfTwo ==
  ASSUME NEW a \in Nat, NEW b \in Nat
  PROVE  /\ Min({a, b}) = IF a <= b THEN a ELSE b
         /\ Max({a, b}) = IF a <= b THEN b ELSE a
<1>1. Min({a, b}) = IF a <= b THEN a ELSE b
  <2>1. IsLeast(IF a <= b THEN a ELSE b, {a, b})
    BY DEF IsLeast
  <2>2. {a, b} \in SUBSET Nat
    OBVIOUS
  <2>. QED  BY <2>1, <2>2, LeastIsMin
<1>2. Max({a, b}) = IF a <= b THEN b ELSE a
  BY DEF Max
<1>. QED  BY <1>1, <1>2

\* The timer ticks.
LEMMA TickedDoes ==
  ASSUME KillInv, WaitsTakePolls, Alive, "KILL" \notin child.sigs
  PROVE  Does(Ticked, Left) /\ Left \in SUBSET Nat
<1>1. CASE hist.due = Never
  <2>1. task.killAfterTicks = 0
    BY <1>1 DEF KillInv, WaitsTakePolls
  <2>2. Ticked = [signal |-> "none", ticks |-> 0] /\ Left = {}
    BY <1>1, <2>1 DEF Ticked, Left
  <2>. QED  BY <2>2 DEF Does
<1>2. CASE hist.due # Never
  <2>1. hist.due \in Nat /\ hist.due # 0 /\ task.killAfterTicks = hist.due
    BY <1>2 DEF KillInv
  <2>2. PICK d \in Nat : d = hist.due - 1
    BY <2>1
  <2>3. Max({d, 0}) = d
    <3>1. 0 \in Nat
      OBVIOUS
    <3>. QED  BY <2>2, <3>1, LeastOfTwo
  <2>4. Left = {d}
    BY <1>2, <2>2, <2>3 DEF Left
  <2>5. Ticked = [signal |-> IF d = 0 THEN "KILL" ELSE "none", ticks |-> d]
    BY <2>1, <2>2 DEF Ticked
  <2>6. IsLeast(d, {d})
    BY DEF IsLeast
  <2>. QED  BY <2>4, <2>5, <2>6 DEF Does
<1>. QED  BY <1>1, <1>2

\* One request more.
LEMMA AddRequestDoes ==
  ASSUME WaitsTakePolls, NEW r \in KillRequests, NEW S \in SUBSET Nat, NEW todo, Does(todo, S)
  PROVE  /\ Does(AddRequest(todo, r), IF r.method = "TERM" THEN S ELSE S \cup {Asks(r)})
         /\ Asks(r) \in Nat
<1>0. r \in [method : Methods, ticks : Nat]
  BY DEF WaitsTakePolls, KillRequests, SuicideRequest, Methods
<1>1. CASE r.method = "KILL"
  <2>1. AddRequest(todo, r) = [signal |-> "KILL", ticks |-> 0] /\ Asks(r) = 0
    BY <1>1 DEF AddRequest, Asks
  <2>2. 0 \in S \cup {Asks(r)}
    BY <2>1
  <2>. QED  BY <1>1, <2>1, <2>2 DEF Does
<1>2. CASE r.method = "TERM"
  <2>1. AddRequest(todo, r) = [todo EXCEPT !.signal = IF @ = "none" THEN "TERM" ELSE @]
    BY <1>2 DEF AddRequest
  <2>2. Does(AddRequest(todo, r), S)
    BY <2>1 DEF Does
  <2>. QED  BY <1>0, <1>2, <2>2 DEF Asks
<1>3. CASE r.method = "TERM_WAIT_KILL"
  <2>1. AddRequest(todo, r)
          = [signal |-> IF todo.signal = "none" THEN "TERM" ELSE todo.signal,
             ticks |-> IF todo.ticks = 0 THEN r.ticks ELSE Min({r.ticks, todo.ticks})]
    BY <1>3 DEF AddRequest
  <2>2. r.ticks \in Nat /\ r.ticks # 0 /\ Asks(r) = r.ticks /\ todo.ticks \in Nat
    BY <1>0, <1>3 DEF WaitsTakePolls, Asks, Does
  <2>3. Min({r.ticks, todo.ticks}) = IF r.ticks <= todo.ticks THEN r.ticks ELSE todo.ticks
    BY <2>2, LeastOfTwo
  <2>. DEFINE T == S \cup {r.ticks}
              new == AddRequest(todo, r)
  <2>4. new.ticks \in Nat /\ new = [signal |-> new.signal, ticks |-> new.ticks]
    BY <2>1, <2>2, <2>3
  <2>5. 0 \in T => new.signal = "KILL"
    BY <2>1, <2>2 DEF Does
  <2>6. ASSUME 0 \notin T  PROVE IsLeast(new.ticks, T)
    <3>1. 0 \notin S
      BY <2>6
    <3>2. CASE S = {}
      BY <2>1, <2>2, <3>1, <3>2 DEF Does, IsLeast
    <3>3. CASE S # {}
      <4>1. IsLeast(todo.ticks, S)
        BY <3>1, <3>3 DEF Does
      <4>2. todo.ticks # 0
        BY <3>1, <4>1 DEF IsLeast
      <4>3. new.ticks = IF r.ticks <= todo.ticks THEN r.ticks ELSE todo.ticks
        BY <2>1, <2>3, <4>2
      <4>4. \A x \in S : x \in Nat /\ todo.ticks <= x
        BY <4>1 DEF IsLeast
      <4>5. \A x \in T : new.ticks <= x
        BY <2>2, <4>3, <4>4
      <4>6. new.ticks \in T
        BY <4>1, <4>3 DEF IsLeast
      <4>. QED  BY <4>5, <4>6 DEF IsLeast
    <3>. QED  BY <3>2, <3>3
  <2>7. T # {}
    OBVIOUS
  <2>8. Does(new, T)
    BY <2>4, <2>5, <2>6, <2>7 DEF Does
  <2>. QED  BY <1>3, <2>2, <2>8
<1>. QED  BY <1>0, <1>1, <1>2, <1>3 DEF Methods

\* The equation of what is to be done after every request
ToDoSteps(m, f) ==
  f = [n \in 0..m |-> IF n = 0 THEN Ticked ELSE AddRequest(f[n - 1], task.queue[n])]

\* The recursion over the queue has a solution for every length of it.
LEMMA ToDoStepsExist == ASSUME NEW k \in Nat  PROVE \E f : ToDoSteps(k, f)
<1>. DEFINE Bad == {m \in Nat : ~ \E f : ToDoSteps(m, f)}
<1>. SUFFICES ASSUME Bad # {}  PROVE FALSE
  OBVIOUS
<1>1. PICK m \in Bad : m \in Nat /\ m - 1 \notin Bad
  <2>1. Bad \in SUBSET Nat
    OBVIOUS
  <2>. HIDE DEF Bad
  <2>. QED  BY <2>1, LeastFailure
<1>2. CASE m = 0
  <2>1. \A n \in 0..0 : n = 0
    OBVIOUS
  <2>2. ToDoSteps(0, [n \in 0..0 |-> Ticked])
    BY <2>1 DEF ToDoSteps
  <2>. QED  BY <1>1, <1>2, <2>2
<1>3. CASE m # 0
  <2>1. m \in Nat /\ m - 1 \in Nat
    BY <1>1, <1>3
  <2>2. PICK g : ToDoSteps(m - 1, g)
    BY <1>1, <2>1
  <2>. DEFINE step(f, n) == IF n = 0 THEN Ticked ELSE AddRequest(f[n - 1], task.queue[n])
              h == [n \in 0..m |-> step(g, n)]
  <2>3. \A n \in 0..(m - 1) : n \in 0..m /\ g[n] = step(g, n)
    <3>1. \A n \in 0..(m - 1) : n \in 0..m
      BY <2>1
    <3>2. \A n \in 0..(m - 1) : g[n] = step(g, n)
      BY <2>2 DEF ToDoSteps
    <3>. QED  BY <3>1, <3>2
  <2>4. \A n \in 0..(m - 1) : h[n] = g[n]
    BY <2>3
  <2>5. \A n \in 0..m : n # 0 => n - 1 \in 0..(m - 1)
    BY <2>1
  <2>6. \A n \in 0..m : step(h, n) = step(g, n)
    <3>. HIDE DEF h
    <3>. QED  BY <2>4, <2>5
  <2>7. h = [n \in 0..m |-> step(h, n)]
    <3>1. h = [n \in 0..m |-> step(g, n)]
      OBVIOUS
    <3>. HIDE DEF h, step
    <3>. QED  BY <2>6, <3>1, Zenon
  <2>8. ToDoSteps(m, h)
    <3>. HIDE DEF h
    <3>. QED  BY <2>7 DEF ToDoSteps
  <2>. QED
    BY <1>1, <2>8
<1>. QED
  BY <1>2, <1>3

(* However many requests were queued, what the poll does is what they and the *)
(* timer ask for.                                                             *)
LEMMA ToDoDoes ==
  ASSUME KillInv, WaitsTakePolls, Alive, "KILL" \notin child.sigs
  PROVE  /\ Does(ToDo, AskedFor(Len(task.queue)))
         /\ AskedFor(Len(task.queue)) \in SUBSET Nat
<1>. DEFINE L == Len(task.queue)
<1>0. /\ L \in Nat
      /\ \A n \in 1..L : task.queue[n] \in KillRequests
  BY DEF KillInv
<1>1. ToDo = (CHOOSE f : ToDoSteps(L, f))[L]
  BY DEF ToDo, ToDoSteps
<1>2. PICK f : ToDoSteps(L, f) /\ ToDo = f[L]
  BY <1>0, <1>1, ToDoStepsExist
<1>3. \A n \in 0..L : f[n] = IF n = 0 THEN Ticked ELSE AddRequest(f[n - 1], task.queue[n])
  BY <1>2 DEF ToDoSteps
<1>. DEFINE Good(n) == Does(f[n], AskedFor(n)) /\ AskedFor(n) \in SUBSET Nat
            Bad == {n \in 0..L : ~ Good(n)}
<1>4. Bad = {}
  <2>. SUFFICES ASSUME Bad # {}  PROVE FALSE
    OBVIOUS
  <2>1. PICK m \in Bad : m \in Nat /\ m - 1 \notin Bad
    <3>1. Bad \in SUBSET Nat
      OBVIOUS
    <3>. HIDE DEF Bad
    <3>. QED  BY <3>1, LeastFailure
  <2>2. m \in 0..L /\ ~ Good(m)
    OBVIOUS
  <2>3. CASE m = 0
    <3>1. f[m] = Ticked
      BY <1>3, <2>2, <2>3
    <3>2. AskedFor(0) = Left
      BY DEF AskedFor
    <3>. QED  BY <2>2, <2>3, <3>1, <3>2, TickedDoes
  <2>4. CASE m # 0
    <3>0. m - 1 \in 0..L /\ m \in 1..L
      BY <2>2, <2>4
    <3>. DEFINE r == task.queue[m]
                S == AskedFor(m - 1)
    <3>1. f[m] = AddRequest(f[m - 1], r) /\ Good(m - 1) /\ r \in KillRequests
      BY <1>0, <1>3, <2>1, <2>2, <2>4, <3>0
    <3>2. \A k : k \in 1..m <=> k = m \/ k \in 1..(m - 1)
      BY <2>1, <3>0
    <3>3. AskedFor(m) = IF r.method = "TERM" THEN S ELSE S \cup {Asks(r)}
      BY <3>2, Zenon DEF AskedFor
    <3>4. Does(AddRequest(f[m - 1], r), IF r.method = "TERM" THEN S ELSE S \cup {Asks(r)})
          /\ Asks(r) \in Nat
      <4>. HIDE DEF r, S
      <4>1. Does(f[m - 1], S) /\ S \in SUBSET Nat
        BY <3>1 DEF S
      <4>. QED  BY <3>1, <4>1, AddRequestDoes
    <3>. HIDE DEF r, S
    <3>5. AskedFor(m) \in SUBSET Nat
      BY <3>1, <3>3, <3>4 DEF S
    <3>. QED  BY <2>2, <3>1, <3>3, <3>4, <3>5
  <2>. QED  BY <2>3, <2>4
<1>5. Good(L)
  BY <1>0, <1>4
<1>. QED  BY <1>2, <1>5

\* What was asked for is when the kill is due.
LEMMA DueIsAskedFor ==
  ASSUME KillInv
  PROVE  LET S == AskedFor(Len(task.queue))
         IN  DueAfterPoll = IF S = {} THEN Never ELSE Min(S)
<1>. DEFINE asked == {IF r.method = "KILL" THEN 0 ELSE r.ticks :
                      r \in {q \in Range(task.queue) : q.method # "TERM"}}
            S == AskedFor(Len(task.queue))
<1>1. DOMAIN task.queue = 1..Len(task.queue)
  BY DEF KillInv
<1>2. asked \cup Left = S
  <2>1. Range(task.queue) = {task.queue[k] : k \in 1..Len(task.queue)}
    BY <1>1 DEF Range
  <2>. QED  BY <2>1, Zenon DEF AskedFor, Asks
<1>3. DueAfterPoll = IF asked \cup Left = {} THEN Never ELSE Min(asked \cup Left)
  BY DEF DueAfterPoll, Left
<1>. HIDE DEF asked, S
<1>. QED  BY <1>2, <1>3 DEF S

\* A poll sends the SIGKILL that is due, or goes on counting to the earliest one.
LEMMA PollKeepsKill == ASSUME QueueInv, KillInv, WaitsTakePolls, PollRunning  PROVE KillInv'
<1>. DEFINE S == AskedFor(Len(task.queue))
<1>1. /\ task'.queue = <<>> /\ task'.killAfterTicks = ToDo.ticks
      /\ child'.state = child.state /\ child.state = "alive"
      /\ child'.sigs = IF ToDo.signal # "none" THEN child.sigs \cup {ToDo.signal} ELSE child.sigs
      /\ hist'.due = DueAfterPoll
  BY DEF PollRunning, QueueInv, Shape, Alive
<1>2. DueAfterPoll = IF S = {} THEN Never ELSE Min(S)
  BY DueIsAskedFor
<1>3. task'.queue \in Seq(KillRequests)
  BY <1>1
<1>4. ASSUME "KILL" \notin child'.sigs
      PROVE  \/ hist'.due = Never /\ task'.killAfterTicks = 0
             \/ hist'.due \in Nat \ {0} /\ task'.killAfterTicks = hist'.due
  <2>1. "KILL" \notin child.sigs /\ ToDo.signal # "KILL"
    BY <1>1, <1>4
  <2>2. Does(ToDo, S) /\ S \in SUBSET Nat
    BY <1>1, <2>1, ToDoDoes DEF Alive
  <2>. HIDE DEF S
  <2>3. 0 \notin S
    BY <2>1, <2>2 DEF Does
  <2>4. CASE S = {}
    BY <1>1, <1>2, <2>2, <2>3, <2>4 DEF Does
  <2>5. CASE S # {}
    <3>1. IsLeast(ToDo.ticks, S)
      BY <2>2, <2>3, <2>5 DEF Does
    <3>2. Min(S) = ToDo.ticks
      BY <2>2, <3>1, LeastIsMin
    <3>3. ToDo.ticks \in Nat \ {0}
      BY <2>2, <2>3, <3>1 DEF IsLeast
    <3>. QED  BY <1>1, <1>2, <2>5, <3>2, <3>3
  <2>. QED  BY <2>4, <2>5
<1>5. child'.state # "none"
  BY <1>1
<1>. QED  BY <1>3, <1>4, <1>5 DEF KillInv

\* A step that leaves the kill requests, the timer and the signals alone.
LEMMA KillUntouched ==
  ASSUME KillInv, task'.queue = task.queue, task'.killAfterTicks = task.killAfterTicks,
         child'.sigs = child.sigs, hist'.due = hist.due,
         child'.state = child.state \/ (child'.state # "none" /\ child'.state # "alive")
  PROVE  KillInv'
BY DEF KillInv, Alive

\* No kill was asked for yet.
LEMMA KillInit == Init => KillInv
BY DEF Init, KillInv, NoTask, Alive

\* Every step keeps KillInv.
LEMMA KillNext == ASSUME WaitsTakePolls, QueueInv, KillInv, [Next]_vars  PROVE KillInv'
<1>. USE DEF Shape
<1>0. Shape
  BY DEF QueueInv
<1>1. CASE UNCHANGED vars
  BY <1>1 DEF vars, KillInv, Alive
<1>2. CASE Call
  BY <1>0, <1>2, KillUntouched DEF Call, CheckNotSuicidal, ListTask, QueueTask
<1>3. ASSUME NEW req \in KillRequests, task' = WithKill(req), UNCHANGED <<child, hist.due>>
      PROVE KillInv'
  <2>1. task'.queue = Append(task.queue, req) /\ task'.killAfterTicks = task.killAfterTicks
    BY <1>0, <1>3 DEF WithKill
  <2>2. task'.queue \in Seq(KillRequests)
    BY <1>3, <2>1 DEF KillInv
  <2>. QED  BY <1>3, <2>1, <2>2 DEF KillInv, Alive
<1>4. CASE \E req \in Requests : KillTask(req)
  <2>1. PICK req \in Requests : KillTask(req)
    BY <1>4
  <2>2. task' = WithKill(req) /\ UNCHANGED <<child, hist.due>> /\ req \in KillRequests
    BY <1>0, <2>1 DEF KillTask, KillRequests
  <2>. QED  BY <1>3, <2>2
<1>5. CASE Suicide
  <2>1. CASE WaitForTasks
    BY <1>0, <2>1, KillUntouched DEF WaitForTasks
  <2>2. CASE task' = task /\ UNCHANGED <<child, hist>>
    BY <2>2, KillUntouched
  <2>3. CASE task' = WithKill(SuicideRequest) /\ UNCHANGED <<child, hist>>
    BY <1>3, <2>3 DEF KillRequests
  <2>. QED  BY <1>5, <2>1, <2>2, <2>3 DEF Suicide, KillTasksAndStop, Destroy, KillRound
<1>6. CASE Start
  <2>1. child.state = "none"
    BY <1>6 DEF QueueInv, ChildProgress, Start
  <2>. QED  BY <1>0, <1>6, <2>1 DEF Start, KillInv, Alive
<1>7. CASE FailToStart \/ Erase
  <2>1. task'.queue = <<>> /\ task'.killAfterTicks = 0 /\ UNCHANGED <<child, hist>>
    BY <1>7 DEF FailToStart, Erase, NoTask
  <2>2. child.state # "alive"
    BY <1>7 DEF QueueInv, ChildProgress, Progress, FailToStart, Erase
  <2>3. task'.queue \in Seq(KillRequests)
    BY <2>1
  <2>. QED  BY <2>1, <2>2, <2>3 DEF KillInv, Alive
<1>8. CASE ReportFailure \/ Report
  BY <1>0, <1>8, KillUntouched DEF ReportFailure, Report
<1>9. CASE Read
  <2>1. CASE ReadLog
    BY <1>0, <2>1, KillUntouched DEF ReadLog
  <2>2. CASE \E p \in AllPipes : ReadOther(p)
    BY <1>0, <2>2, KillUntouched DEF ReadOther
  <2>. QED  BY <1>9, <2>1, <2>2 DEF Read
<1>10. CASE GrowQuota
  BY <1>0, <1>10, KillUntouched DEF GrowQuota
<1>11. CASE PollExited
  BY <1>0, <1>11, KillUntouched DEF PollExited, LookAtCGroups
<1>12. CASE Reap
  BY <1>0, <1>12, KillUntouched DEF Reap, LookAtCGroups
<1>13. CASE Acknowledge \/ RequestSuicide \/ KidExits \/ Freeze
  BY <1>0, <1>13, KillUntouched DEF Acknowledge, RequestSuicide, KidExits, Freeze
<1>14. CASE WriteLine \/ \E s \in Statuses : WriteStatus(s)
  BY <1>0, <1>14, KillUntouched DEF WriteLine, WriteStatus
<1>15. CASE \E inGroup, daemon \in BOOLEAN : Fork(inGroup, daemon)
  BY <1>0, <1>15, KillUntouched DEF Fork
<1>16. CASE Exit
  BY <1>0, <1>16, KillUntouched DEF Exit
<1>. QED
  BY <1>1, <1>2, <1>4, <1>5, <1>6, <1>7, <1>8, <1>9, <1>10, <1>11, <1>12, <1>13, <1>14,
     <1>15, <1>16, PollKeepsKill DEF Next, Proceed, Supervise

(* However many kill requests arrive, from however many threads and however   *)
(* they are spread over the polls, asyncSubprocessCallback sends the SIGKILL  *)
(* at the poll that the earliest of them calls for: a later TERM or           *)
(* TERM_WAIT_KILL neither delays nor cancels it.                              *)
THEOREM FirstKillCounts == ASSUME WaitsTakePolls  PROVE Spec => []EarliestKillWins
<1>1. Init => KillInv
  BY KillInit
<1>2. QueueInv /\ KillInv /\ [Next]_vars => KillInv'
  BY KillNext
<1>3. KillInv => EarliestKillWins
  <2>1. Never = 0 => 0 \notin Nat
    BY DEF WaitsTakePolls
  <2>. QED  BY <2>1 DEF KillInv, EarliestKillWins
<1>. QED
  BY <1>1, <1>2, <1>3, QueueInvHolds, PTL DEF Spec
=============================================================================
