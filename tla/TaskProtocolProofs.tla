------------------------- MODULE TaskProtocolProofs -------------------------
(***************************************************************************)
(* The tasks of a worker are known to its scheduler: an inductive invariant *)
(* for TracksWorker of TaskProtocol.                                        *)
(***************************************************************************)
EXTENDS TaskProtocol, TLAPS

Here == shard # NoWorker /\ shard.id = worker.id
Sent(c) == c.at \in {"network", "admitted"}

(* While the shard has no RemoteWorker, no callback of this scheduler is    *)
(* due.                                                                     *)
Owner ==
    /\ \A n \in notifies : n.scheduler <= scheduler
    /\ \A l \in lists : l.scheduler <= scheduler
    /\ \A c \in calls : c.at \in {"ok", "refused"} => c.waiting
    /\ shard = NoWorker =>
          /\ \A c \in calls : ~c.waiting
          /\ polls = {}
          /\ \A n \in notifies : n.scheduler # scheduler
          /\ \A l \in lists : l.scheduler # scheduler

(* Instances only grow, and a RemoteWorker is never ahead of the worker. *)
Instances ==
    /\ shard # NoWorker => shard.id <= worker.id
    /\ \A c \in calls : shard # NoWorker /\ c.rt.worker <= shard.id
    /\ \A p \in polls : shard # NoWorker /\ p.worker <= shard.id
    /\ \A n \in notifies : shard # NoWorker /\ n.worker <= shard.id
    /\ \A u \in updates : u.worker <= worker.id
    /\ \A c \in calls : c.at = "admitted" => c.rt.worker = worker.id

(* An instance has no tasks before the scheduler has initialised it. *)
Fresh ==
    ~Here \/ shard.state = "NEW" =>
        worker.tasks = {} /\ \A c \in calls : c.rt.worker # worker.id

(* Every invocation ID in use was given out, and to one call only. *)
Invocations ==
    /\ \A c \in calls : c.rt.inv <= invocations
    /\ \A x \in worker.tasks : x.rt.inv <= invocations
    /\ \A rt \in worker.notRunning : rt.inv <= invocations
    /\ \A u \in updates : u.rt.inv <= invocations
    /\ shard # NoWorker => \A rt \in shard.unsure : rt.inv <= invocations
    /\ \A p \in polls : \A rt \in p.tasks : rt.inv <= invocations
    /\ \A n \in notifies : \A rt \in n.tasks : rt.inv <= invocations

Unique ==
    /\ \A c, d \in calls : c.rt.inv = d.rt.inv => c = d
    /\ \A x, y \in worker.tasks : x.rt.task = y.rt.task => x = y
    /\ \A c \in calls : c.at # "ok" => \A x \in worker.tasks : x.rt # c.rt

(* Sequence numbers grow, and a heartbeat never resets one in use. *)
Sequence ==
    /\ beat # NoReply => beat.scheduler = 1
    /\ worker.scheduler \in {0, 1}
    /\ worker.scheduler = 0 \/ ~Here => worker.seq = 0
    /\ \A n \in notifies : n.scheduler = 1
    /\ Here => /\ worker.seq <= shard.seq
               /\ \A c \in calls : c.rt.worker = worker.id => c.seq <= shard.seq
               /\ \A n \in notifies : n.worker = worker.id => n.seq <= shard.seq

(* A notifyIfTasksNotRunning has a greater number than the calls it asks    *)
(* about.                                                                   *)
Asked ==
    \A n \in notifies, c \in calls :
        c.rt \in n.tasks /\ c.rt.worker = worker.id /\ n.worker = worker.id =>
            c.seq < n.seq

(* What the worker says is not running does not run and will not start. *)
Settled(rt) ==
    /\ \A x \in worker.tasks : x.rt = rt => x.phase # "running"
    /\ \A c \in calls : Sent(c) /\ c.rt = rt /\ rt.worker = worker.id =>
          c.seq < worker.seq
Truthful ==
    /\ \A rt \in worker.notRunning : Settled(rt)
    /\ \A u \in updates : u.worker = worker.id => Settled(u.rt)

(* A call that could still start a task is accounted for. *)
CallsTracked ==
    Here /\ shard.state = "UP" =>
        \A c \in calls : Sent(c) /\ c.rt.worker = worker.id =>
            c.rt \in shard.running \/ c.seq < worker.seq

Core ==
    /\ Instances /\ Fresh /\ Invocations /\ Unique /\ Sequence /\ Asked
    /\ Truthful /\ CallsTracked /\ Tracked

IInv == TypeOK /\ Owner /\ (scheduler = 1 => Core)

-----------------------------------------------------------------------------
USE BoundsAssumption, NoneAssumption

(* The provers, in this order: most leaves are about sets and functions, which *)
(* is what Zenon does, and the rest needs arithmetic.                          *)
USE ZenonT(3), SMTT(20), ZenonT(20)

(* The bounds of the instance numbers and of the invocations are naturals. *)
LEMMA Types ==
  TypeOK => scheduler \in Nat \ {0} /\ worker.id \in Nat \ {0} /\ invocations \in Nat
  <1> SUFFICES ASSUME TypeOK
               PROVE  scheduler \in Nat \ {0} /\ worker.id \in Nat \ {0} /\ invocations \in Nat
    OBVIOUS
  <1>1. /\ scheduler \in 1 .. MaxSchedulers
        /\ worker.id \in 1 .. MaxWorkers
        /\ invocations \in 0 .. MaxInvocations
    BY DEF TypeOK
  <1> QED
    BY <1>1

(* The initial state is well typed. *)
LEMMA TypeInit == Init => TypeOK
  <1> SUFFICES ASSUME Init PROVE TypeOK
    OBVIOUS
  <1>1. worker \in Workers /\ worker.id = 1
    BY DEF Init, NewWorker, Workers, States
  <1> QED
    BY <1>1 DEF Init, TypeOK, BoundsAssumption

(* ProcessHeartbeat keeps the types. *)
LEMMA TypeProcessHeartbeat == ASSUME TypeOK, ProcessHeartbeat PROVE TypeOK'
  <1>1. NewRemoteWorker(worker.id) \in RemoteWorkers
    BY Types DEF NewRemoteWorker, RemoteWorkers, States
  <1>2. shard' \in RemoteWorkers
    BY <1>1 DEF TypeOK, ProcessHeartbeat
  <1>3. beat' \in Beats \cup {NoReply}
    <2>1. shard'.state \in States
      BY <1>2 DEF RemoteWorkers
    <2>2. [scheduler |-> scheduler, state |-> shard'.state] \in Beats
      BY <2>1, Types DEF Beats
    <2> QED
      BY <2>2 DEF TypeOK, ProcessHeartbeat
  <1>4. statuses' \subseteq RunningTasks
    BY DEF TypeOK, ProcessHeartbeat
  <1> QED
    BY <1>2, <1>3, <1>4 DEF TypeOK, ProcessHeartbeat

(* ReceiveHeartbeat keeps the types. *)
LEMMA TypeReceiveHeartbeat == ASSUME TypeOK, ReceiveHeartbeat PROVE TypeOK'
  <1>1. beat \in Beats
    BY DEF TypeOK, ReceiveHeartbeat
  <1>2. worker' \in Workers /\ worker'.id = worker.id
    BY <1>1 DEF TypeOK, ReceiveHeartbeat, Workers, Beats
  <1> QED
    BY <1>2 DEF TypeOK, ReceiveHeartbeat, schedulerVars

(* FetchRunningTasks keeps the types. *)
LEMMA TypeFetchRunningTasks == ASSUME TypeOK, FetchRunningTasks PROVE TypeOK'
  <1>1. shard.id \in Nat /\ scheduler \in Nat
    BY Types DEF TypeOK, FetchRunningTasks, RemoteWorkers
  <1>2. [scheduler |-> scheduler, worker |-> shard.id, answered |-> FALSE, tasks |-> {}]
            \in Lists
    BY <1>1 DEF Lists
  <1> QED
    BY <1>2 DEF TypeOK, FetchRunningTasks, schedulerVars

(* GetRunningTasks keeps the types. *)
LEMMA TypeGetRunningTasks ==
  ASSUME TypeOK, NEW l \in lists, GetRunningTasks(l) PROVE TypeOK'
  <1>1. {x.rt : x \in worker.tasks} \subseteq RunningTasks
    BY DEF TypeOK, Workers, WorkerTasks
  <1>2. [l EXCEPT !.answered = TRUE, !.tasks = {x.rt : x \in worker.tasks}] \in Lists
    BY <1>1 DEF TypeOK, Lists
  <1>3. lists' \subseteq Lists
    BY <1>2 DEF TypeOK, GetRunningTasks
  <1> QED
    BY <1>3 DEF TypeOK, GetRunningTasks, schedulerVars

(* InitializeRunningTasks keeps the types. *)
LEMMA TypeInitializeRunningTasks ==
  ASSUME TypeOK, Owner, NEW l \in lists, InitializeRunningTasks(l) PROVE TypeOK'
  <1>1. l.tasks \subseteq RunningTasks
    BY DEF TypeOK, Lists
  <1>2. shard' \in RemoteWorkers \cup {NoWorker} /\ statuses' \subseteq RunningTasks
    <2>1. CASE l.scheduler # scheduler
      BY <2>1 DEF TypeOK, InitializeRunningTasks
    <2>2. CASE l.scheduler = scheduler
      <3>1. shard \in RemoteWorkers
        BY <2>2 DEF TypeOK, Owner
      <3>2. [shard EXCEPT !.state = "UP", !.running = l.tasks] \in RemoteWorkers
        BY <1>1, <3>1 DEF RemoteWorkers, States
      <3> QED
        BY <1>1, <2>2, <3>1, <3>2 DEF TypeOK, InitializeRunningTasks, Fail
    <2> QED
      BY <2>1, <2>2
  <1>3. abort' \in {"none", "unsure task is run", "already unsure", "superseded",
                  "unsure in NEW", "runs already", "invocation mismatch"}
    BY DEF TypeOK, InitializeRunningTasks, Fail
  <1> QED
    BY <1>2, <1>3 DEF TypeOK, InitializeRunningTasks

(* The fields of the RemoteWorker that only its own operations change *)
LEMMA TypeRecordNotRunning ==
  ASSUME TypeOK, shard \in RemoteWorkers, NEW rt, RecordNotRunning(rt)
  PROVE  /\ shard' \in RemoteWorkers
         /\ shard'.id = shard.id /\ shard'.state = shard.state /\ shard'.seq = shard.seq
         /\ shard.running \ {rt} \subseteq shard'.running
         /\ shard'.unsure \subseteq shard.unsure
         /\ statuses' \subseteq RunningTasks
         /\ abort' \in {abort, "invocation mismatch"}
  <1> DEFINE running == shard.running \ {rt}
             unsure == shard.unsure \ Of(rt.task, shard.unsure)
             new == [shard EXCEPT !.running = running, !.unsure = unsure]
  <1>1. running \subseteq RunningTasks /\ unsure \subseteq RunningTasks
    BY DEF RemoteWorkers
  <1>2. \/ shard' = shard
        \/ shard' = new
    BY DEF RecordNotRunning, Fail, RemoteWorkers
  <1>3. unsure \subseteq shard.unsure /\ running \subseteq shard.running
    OBVIOUS
  <1>4. /\ statuses' \subseteq RunningTasks
        /\ abort' \in {abort, "invocation mismatch"}
    BY DEF TypeOK, RecordNotRunning, Fail
  <1>5. /\ new \in RemoteWorkers /\ new.id = shard.id /\ new.state = shard.state
        /\ new.seq = shard.seq /\ new.running = running /\ new.unsure = unsure
    <2> HIDE DEF running, unsure
    <2> QED
      BY <1>1 DEF RemoteWorkers
  <1> HIDE DEF unsure, new
  <1> QED
    BY <1>2, <1>3, <1>4, <1>5

(* recordFailedTask changes no more than that. *)
LEMMA TypeRecordFailedTask ==
  ASSUME TypeOK, shard \in RemoteWorkers, NEW rt, RecordFailedTask(rt)
  PROVE  /\ shard' \in RemoteWorkers
         /\ shard'.id = shard.id /\ shard'.state = shard.state /\ shard'.seq = shard.seq
         /\ shard.running \ {rt} \subseteq shard'.running
         /\ shard'.unsure \subseteq shard.unsure
         /\ statuses' \subseteq RunningTasks
         /\ abort' \in {abort, "superseded", "invocation mismatch"}
  BY TypeRecordNotRunning DEF TypeOK, RecordFailedTask, Fail

(* A call that the scheduler waits for is a call of its RemoteWorker. *)
LEMMA WaitingHasShard ==
  ASSUME TypeOK, Owner, NEW c \in calls, c.waiting PROVE shard \in RemoteWorkers
  BY DEF TypeOK, Owner

(* What RunTask does to the RemoteWorker and to the calls *)
LEMMA RunTaskEffect ==
  ASSUME TypeOK, NEW t \in Tasks, RunTask(t)
  PROVE  /\ shard \in RemoteWorkers /\ shard' \in RemoteWorkers
         /\ shard.state = "UP"
         /\ shard'.id = shard.id /\ shard'.state = shard.state /\ shard'.seq = shard.seq
         /\ shard'.unsure = shard.unsure /\ shard.running \subseteq shard'.running
         /\ \/ calls' = calls /\ statuses' = statuses
            \/ \E new \in Calls :
                  /\ calls' = calls \cup {new}
                  /\ statuses' = statuses \cup {new.rt}
                  /\ new.rt.inv = invocations + 1 /\ new.rt.worker = shard.id
                  /\ new.rt \in shard'.running
                  /\ new.seq = shard.seq /\ new.at = "network" /\ new.waiting
         /\ abort' \in {abort, "unsure task is run", "runs already"}
  <1> DEFINE rt == [task |-> t, inv |-> invocations + 1, worker |-> shard.id]
             new == [rt |-> rt, seq |-> shard.seq, scheduler |-> scheduler,
                     waiting |-> TRUE, at |-> "network"]
             next == [shard EXCEPT !.running = @ \cup {rt}]
  <1>1. shard \in RemoteWorkers /\ shard.state = "UP"
    BY DEF TypeOK, RunTask
  <1>2. rt \in RunningTasks /\ rt.inv = invocations + 1 /\ rt.worker = shard.id
    BY <1>1, Types DEF RunningTasks, RemoteWorkers
  <1>3. /\ new \in Calls /\ new.rt = rt /\ new.seq = shard.seq
        /\ new.at = "network" /\ new.waiting
    <2> HIDE DEF rt
    <2> QED
      BY <1>1, <1>2, Types DEF Calls, RemoteWorkers
  <1>4. /\ next \in RemoteWorkers /\ next.id = shard.id /\ next.state = shard.state
        /\ next.seq = shard.seq /\ next.unsure = shard.unsure
        /\ next.running = shard.running \cup {rt}
    <2> HIDE DEF rt
    <2> QED
      BY <1>1, <1>2 DEF RemoteWorkers
  <1>5. /\ \/ shard' = shard /\ calls' = calls /\ statuses' = statuses
           \/ /\ shard' = next /\ calls' = calls \cup {new}
              /\ statuses' = statuses \cup {rt}
        /\ abort' \in {abort, "unsure task is run", "runs already"}
    BY DEF RunTask, Fail
  <1> HIDE DEF rt, new, next
  <1> QED
    BY <1>1, <1>2, <1>3, <1>4, <1>5

(* RunTask keeps the types. *)
LEMMA TypeRunTask == ASSUME TypeOK, NEW t \in Tasks, RunTask(t) PROVE TypeOK'
  <1>1. invocations' \in 0 .. MaxInvocations
    <2>1. invocations < MaxInvocations /\ invocations' = invocations + 1
      BY DEF RunTask
    <2> QED
      BY <2>1, Types
  <1>2. calls' \subseteq Calls /\ statuses' \subseteq RunningTasks
    BY RunTaskEffect DEF TypeOK, Calls
  <1> QED
    BY <1>1, <1>2, RunTaskEffect DEF TypeOK, RunTask

(* CannotSend keeps the types. *)
LEMMA TypeCannotSend ==
  ASSUME TypeOK, Owner, NEW c \in calls, CannotSend(c) PROVE TypeOK'
  BY WaitingHasShard, TypeRecordFailedTask DEF TypeOK, CannotSend

(* A call changes its place, or is forgotten when nobody waits for it. *)
Replaces(c, new) ==
    /\ new \in Calls /\ new.rt = c.rt /\ new.seq = c.seq
    /\ calls' \subseteq (calls \ {c}) \cup {new}
    /\ new.at \in {"ok", "refused"} /\ new \in calls' => new.waiting
    /\ new.waiting => c.waiting

\* A call that is served gets its result and stays what it is otherwise.
LEMMA BecomeEffect ==
  ASSUME TypeOK, Owner, NEW c \in calls, NEW at \in {"ok", "refused"}, Become(c, at)
  PROVE  calls' \subseteq Calls /\ \E new : Replaces(c, new) /\ new.at = at
  <1> DEFINE new == [c EXCEPT !.at = at]
  <1>1. c \in Calls
    BY DEF TypeOK
  <1>2. /\ new \in Calls /\ new.rt = c.rt /\ new.seq = c.seq /\ new.at = at
        /\ new.waiting = c.waiting
    BY <1>1 DEF Calls
  <1>3. /\ calls' \subseteq (calls \ {c}) \cup {new}
        /\ new \in calls' => new \in calls \ {c} \/ c.waiting
    BY DEF Become
  <1>4. new \in calls' => new.waiting
    BY <1>2, <1>3 DEF Owner
  <1> HIDE DEF new
  <1> QED
    BY <1>2, <1>3, <1>4 DEF TypeOK, Replaces

(* AdmitTask keeps the types. *)
LEMMA TypeAdmitTask == ASSUME TypeOK, Owner, NEW c \in calls, AdmitTask(c) PROVE TypeOK'
  <1>1. [c EXCEPT !.at = "admitted"] \in Calls
    BY DEF TypeOK, Calls
  <1>2. calls' \subseteq Calls
    BY <1>1, BecomeEffect DEF TypeOK, AdmitTask
  <1> QED
    BY <1>2 DEF TypeOK, AdmitTask, schedulerVars

(* StartTask keeps the types. *)
LEMMA TypeStartTask == ASSUME TypeOK, Owner, NEW c \in calls, StartTask(c) PROVE TypeOK'
  <1>1. calls' \subseteq Calls
    BY BecomeEffect DEF StartTask
  <1>2. c.rt \in RunningTasks
    BY DEF TypeOK, Calls
  <1>3. [rt |-> c.rt, phase |-> "running"] \in WorkerTasks
    BY <1>2 DEF WorkerTasks
  <1>4. worker' \in Workers /\ worker'.id = worker.id
    <2>1. \/ worker' = worker
          \/ worker' = [worker EXCEPT !.tasks = @ \cup {[rt |-> c.rt, phase |-> "running"]}]
      BY DEF StartTask
    <2>2. worker \in Workers
      BY DEF TypeOK
    <2> QED
      BY <1>3, <2>1, <2>2 DEF Workers
  <1> QED
    BY <1>1, <1>4 DEF TypeOK, StartTask, schedulerVars

(* CallSucceeds keeps the types. *)
LEMMA TypeCallSucceeds == ASSUME TypeOK, NEW c \in calls, CallSucceeds(c) PROVE TypeOK'
  BY DEF TypeOK, CallSucceeds, schedulerVars

(* CallIsRefused keeps the types. *)
LEMMA TypeCallIsRefused ==
  ASSUME TypeOK, Owner, NEW c \in calls, CallIsRefused(c) PROVE TypeOK'
  <1>1. shard \in RemoteWorkers
    BY WaitingHasShard DEF Owner, CallIsRefused
  <1> QED
    BY <1>1, TypeRecordFailedTask DEF TypeOK, CallIsRefused

(* A call that fails only makes its task unsure, and may still arrive. *)
LEMMA CallFailsEffect ==
  ASSUME TypeOK, Owner, NEW c \in calls, CallFails(c)
  PROVE  /\ shard \in RemoteWorkers /\ shard' \in RemoteWorkers
         /\ shard'.id = shard.id /\ shard'.state = shard.state /\ shard'.seq = shard.seq
         /\ shard'.running = shard.running /\ shard'.unsure \subseteq shard.unsure \cup {c.rt}
         /\ calls' \subseteq Calls
         /\ \E new : Replaces(c, new) /\ new.at = c.at
  <1> DEFINE new == [c EXCEPT !.waiting = FALSE]
             next == [shard EXCEPT !.unsure = @ \cup {c.rt}]
  <1>1. shard \in RemoteWorkers /\ c \in Calls
    BY WaitingHasShard DEF CallFails, TypeOK
  <1>2. /\ c.rt \in RunningTasks
        /\ new \in Calls /\ new.rt = c.rt /\ new.seq = c.seq /\ new.at = c.at /\ ~new.waiting
    BY <1>1 DEF Calls
  <1>3. /\ next \in RemoteWorkers /\ next.id = shard.id /\ next.state = shard.state
        /\ next.seq = shard.seq /\ next.running = shard.running
        /\ next.unsure = shard.unsure \cup {c.rt}
    BY <1>1, <1>2 DEF RemoteWorkers
  <1>4. /\ shard' = shard \/ shard' = next
        /\ calls' \subseteq (calls \ {c}) \cup {new}
        /\ new \in calls' => new \in calls \/ c.at \in {"network", "admitted"}
    BY DEF CallFails, Fail
  <1>5. new.at \in {"ok", "refused"} /\ new \in calls' => new.waiting
    BY <1>2, <1>4 DEF Owner
  <1> HIDE DEF new, next
  <1> QED
    BY <1>1, <1>2, <1>3, <1>4, <1>5 DEF TypeOK, Replaces

(* CallFails keeps the types. *)
LEMMA TypeCallFails ==
  ASSUME TypeOK, Owner, NEW c \in calls, CallFails(c) PROVE TypeOK'
  BY CallFailsEffect DEF TypeOK, CallFails, Fail

(* CheckUnsure keeps the types. *)
LEMMA TypeCheckUnsure == ASSUME TypeOK, CheckUnsure PROVE TypeOK'
  <1>1. polls' \subseteq Polls
    <2>1. shard \in RemoteWorkers
      BY DEF TypeOK, CheckUnsure
    <2>2. [tasks |-> shard.unsure, worker |-> shard.id] \in Polls
      BY <2>1 DEF Polls, RemoteWorkers
    <2> QED
      BY <2>2 DEF CheckUnsure
  <1> QED
    BY <1>1 DEF TypeOK, CheckUnsure, schedulerVars

(* checkUnsureIfRunningTasks takes the next sequence number. *)
LEMMA SendNotifyEffect ==
  ASSUME TypeOK, Owner, NEW p \in polls, SendNotify(p)
  PROVE  /\ shard \in RemoteWorkers /\ shard' \in RemoteWorkers
         /\ shard'.id = shard.id /\ shard'.state = shard.state
         /\ shard'.running = shard.running /\ shard'.unsure = shard.unsure
         /\ shard'.seq = shard.seq + 1 /\ shard.seq \in Nat
         /\ \E new \in Notifies :
               /\ notifies' = notifies \cup {new}
               /\ new.tasks = p.tasks /\ new.worker = p.worker
               /\ new.seq = shard.seq + 1 /\ new.scheduler = scheduler
  <1> DEFINE new == [tasks |-> p.tasks, worker |-> p.worker, seq |-> shard.seq + 1,
                     scheduler |-> scheduler, accepted |-> FALSE]
  <1>1. shard \in RemoteWorkers /\ p \in Polls
    BY DEF TypeOK, Owner
  <1>2. /\ shard' \in RemoteWorkers
        /\ shard'.id = shard.id /\ shard'.state = shard.state
        /\ shard'.running = shard.running /\ shard'.unsure = shard.unsure
        /\ shard'.seq = shard.seq + 1 /\ shard.seq \in Nat
    BY <1>1 DEF SendNotify, RemoteWorkers
  <1>3. p.tasks \in SUBSET RunningTasks /\ p.worker \in Nat /\ shard.seq + 1 \in Nat
    BY <1>1, <1>2 DEF Polls
  <1>4. /\ new \in Notifies /\ new.tasks = p.tasks /\ new.worker = p.worker
        /\ new.seq = shard.seq + 1 /\ new.scheduler = scheduler
    BY <1>3, Types DEF Notifies
  <1>5. notifies' = notifies \cup {new}
    BY DEF SendNotify
  <1> HIDE DEF new
  <1> QED
    BY <1>1, <1>2, <1>4, <1>5

(* SendNotify keeps the types. *)
LEMMA TypeSendNotify ==
  ASSUME TypeOK, Owner, NEW p \in polls, SendNotify(p) PROVE TypeOK'
  BY ZenonT(60), SendNotifyEffect DEF TypeOK, SendNotify

(* What the worker does with notifyIfTasksNotRunning *)
LEMMA ReceiveNotifyEffect ==
  ASSUME TypeOK, NEW n \in notifies, ReceiveNotify(n)
  PROVE  /\ worker' \in Workers /\ worker'.id = worker.id
         /\ worker'.scheduler = worker.scheduler /\ worker'.tasks = worker.tasks
         /\ \E new \in Notifies :
               /\ notifies' \subseteq (notifies \ {n}) \cup {new}
               /\ new.tasks = n.tasks /\ new.worker = n.worker /\ new.seq = n.seq
               /\ new.scheduler = n.scheduler
         /\ \/ worker' = worker
            \/ /\ n.scheduler = worker.scheduler /\ n.worker = worker.id
               /\ worker.seq < n.seq /\ worker'.seq = n.seq
               /\ \A rt \in worker'.notRunning :
                     \/ rt \in worker.notRunning
                     \/ rt \in n.tasks /\ ~\E x \in worker.tasks : x.rt.task = rt.task
  <1> DEFINE new == [n EXCEPT !.accepted = TRUE]
             fresh == {rt \in n.tasks : ~\E x \in worker.tasks : x.rt.task = rt.task}
             next == [worker EXCEPT !.seq = n.seq, !.notRunning = @ \cup fresh]
  <1>1. worker \in Workers /\ n \in Notifies
    BY DEF TypeOK
  <1>2. /\ new \in Notifies /\ new.tasks = n.tasks /\ new.worker = n.worker
        /\ new.seq = n.seq /\ new.scheduler = n.scheduler
    BY <1>1 DEF Notifies
  <1>3. n.seq \in Nat /\ n.tasks \subseteq RunningTasks /\ worker.seq \in Nat
    BY <1>1 DEF Notifies, Workers
  <1>4. fresh \subseteq RunningTasks
    BY <1>3
  <1>5. /\ notifies' \subseteq (notifies \ {n}) \cup {new}
        /\ \/ worker' = worker
           \/ /\ worker' = next /\ n.scheduler = worker.scheduler /\ n.worker = worker.id
              /\ ~(n.seq <= worker.seq)
    BY DEF ReceiveNotify
  <1>6. /\ next \in Workers /\ next.id = worker.id /\ next.scheduler = worker.scheduler
        /\ next.tasks = worker.tasks /\ next.seq = n.seq
        /\ next.notRunning = worker.notRunning \cup fresh
    <2> HIDE DEF fresh
    <2> QED
      BY <1>1, <1>3, <1>4 DEF Workers
  <1> HIDE DEF new, next
  <1> QED
    BY <1>1, <1>2, <1>3, <1>5, <1>6

(* ReceiveNotify keeps the types. *)
LEMMA TypeReceiveNotify == ASSUME TypeOK, NEW n \in notifies, ReceiveNotify(n) PROVE TypeOK'
  <1>1. UNCHANGED <<scheduler, shard, statuses, invocations, abort, calls, polls, updates,
                    beat, lists>>
    BY DEF ReceiveNotify, schedulerVars
  <1>2. notifies' \subseteq Notifies /\ worker' \in Workers /\ worker'.id = worker.id
    <2>1. PICK new \in Notifies : notifies' \subseteq (notifies \ {n}) \cup {new}
      BY ReceiveNotifyEffect
    <2>2. notifies \subseteq Notifies
      BY DEF TypeOK
    <2> QED
      BY <2>1, <2>2, ReceiveNotifyEffect
  <1> QED
    BY <1>1, <1>2 DEF TypeOK

(* eraseUnsureIfRunningTasks touches nothing but the unsure tasks. *)
LEMMA NotifySucceedsEffect ==
  ASSUME TypeOK, Owner, NEW n \in notifies, NotifySucceeds(n)
  PROVE  \/ shard' = shard
         \/ /\ shard \in RemoteWorkers /\ shard' \in RemoteWorkers
            /\ shard'.id = shard.id /\ shard'.state = shard.state /\ shard'.seq = shard.seq
            /\ shard'.running = shard.running /\ shard'.unsure \subseteq shard.unsure
  <1> SUFFICES ASSUME n.scheduler = scheduler,
                      shard' = [shard EXCEPT !.unsure = @ \ n.tasks]
               PROVE  /\ shard \in RemoteWorkers /\ shard' \in RemoteWorkers
                      /\ shard'.id = shard.id /\ shard'.state = shard.state
                      /\ shard'.seq = shard.seq /\ shard'.running = shard.running
                      /\ shard'.unsure \subseteq shard.unsure
    BY DEF NotifySucceeds
  <1>1. shard \in RemoteWorkers
    BY DEF TypeOK, Owner
  <1> QED
    BY <1>1 DEF RemoteWorkers

(* NotifySucceeds keeps the types. *)
LEMMA TypeNotifySucceeds ==
  ASSUME TypeOK, Owner, NEW n \in notifies, NotifySucceeds(n) PROVE TypeOK'
  BY NotifySucceedsEffect DEF TypeOK, NotifySucceeds

(* EndTask keeps the types. *)
LEMMA TypeEndTask == ASSUME TypeOK, NEW x \in worker.tasks, EndTask(x) PROVE TypeOK'
  <1>1. [x EXCEPT !.phase = "exited"] \in WorkerTasks
    BY DEF TypeOK, Workers, WorkerTasks
  <1>2. worker' \in Workers /\ worker'.id = worker.id
    BY <1>1 DEF TypeOK, EndTask, Workers
  <1> QED
    BY <1>2 DEF TypeOK, EndTask, schedulerVars, messages

(* SendUpdate keeps the types. *)
LEMMA TypeSendUpdate == ASSUME TypeOK, NEW u \in Pending, SendUpdate(u) PROVE TypeOK'
  <1>1. worker.scheduler \in Nat /\ worker.notRunning \subseteq RunningTasks
    BY DEF TypeOK, Workers
  <1>2. \A x \in worker.tasks : x.rt \in RunningTasks
    BY DEF TypeOK, Workers, WorkerTasks
  <1>3. \A rt \in RunningTasks : Update(rt, TRUE) \in Updates /\ Update(rt, FALSE) \in Updates
    BY <1>1, Types DEF Update, Updates
  <1>4. u \in Updates
    BY <1>1, <1>2, <1>3 DEF Pending
  <1> QED
    BY <1>4 DEF TypeOK, SendUpdate, schedulerVars

(* The worker as an acknowledged update leaves it is well typed. *)
LEMMA TypeRecorded ==
  ASSUME TypeOK, NEW u PROVE Recorded(u) \in Workers /\ Recorded(u).id = worker.id
  <1>1. \A x \in worker.tasks : [x EXCEPT !.phase = "recorded"] \in WorkerTasks
    BY DEF TypeOK, Workers, WorkerTasks
  <1>2. worker \in Workers
    BY DEF TypeOK
  <1> DEFINE tasks == {IF x.rt = u.rt /\ u.ended THEN [x EXCEPT !.phase = "recorded"] ELSE x :
                       x \in worker.tasks}
             rest == IF u.ended THEN worker.notRunning ELSE worker.notRunning \ {u.rt}
  <1>3. tasks \subseteq WorkerTasks /\ rest \subseteq RunningTasks
    BY <1>1, <1>2 DEF Workers
  <1>4. Recorded(u) = [worker EXCEPT !.tasks = tasks, !.notRunning = rest]
    BY <1>2 DEF Recorded, Workers
  <1> HIDE DEF tasks, rest
  <1> QED
    BY <1>2, <1>3, <1>4 DEF Workers

(* ReceiveUpdate keeps the types. *)
LEMMA TypeReceiveUpdate ==
  ASSUME TypeOK, NEW u \in updates, ReceiveUpdate(u) PROVE TypeOK'
  <1>1. worker' \in Workers /\ worker'.id = worker.id
    BY TypeRecorded DEF TypeOK, ReceiveUpdate
  <1>2. /\ shard' \in RemoteWorkers \cup {NoWorker}
        /\ statuses' \subseteq RunningTasks
        /\ abort' \in {abort, "invocation mismatch"}
    BY TypeRecordNotRunning DEF TypeOK, ReceiveUpdate, RecordUpdate
  <1> QED
    BY <1>1, <1>2 DEF TypeOK, ReceiveUpdate

(* Acknowledge keeps the types. *)
LEMMA TypeAcknowledge == ASSUME TypeOK, NEW x \in worker.tasks, Acknowledge(x) PROVE TypeOK'
  <1>1. worker' \in Workers /\ worker'.id = worker.id
    BY DEF TypeOK, Acknowledge, Workers
  <1> QED
    BY <1>1 DEF TypeOK, Acknowledge, schedulerVars, messages

(* LoseWorker keeps the types. *)
LEMMA TypeLoseWorker == ASSUME TypeOK, LoseWorker PROVE TypeOK'
  <1>1. shard' \in RemoteWorkers
    BY DEF TypeOK, LoseWorker, RemoteWorkers, States
  <1> QED
    BY <1>1 DEF TypeOK, LoseWorker, messages

(* RestartWorker keeps the types. *)
LEMMA TypeRestartWorker == ASSUME TypeOK, RestartWorker PROVE TypeOK'
  <1>1. worker' \in Workers /\ worker'.id \in 1 .. MaxWorkers
    <2>1. worker.id < MaxWorkers /\ worker' = NewWorker(worker.id + 1)
      BY DEF RestartWorker
    <2> QED
      BY <2>1, Types DEF NewWorker, Workers, States
  <1>2. \A c \in calls : [c EXCEPT !.at = "lost"] \in Calls
    BY DEF TypeOK, Calls
  <1> QED
    BY <1>1, <1>2 DEF TypeOK, RestartWorker, schedulerVars

(* RestartScheduler keeps the types. *)
LEMMA TypeRestartScheduler == ASSUME TypeOK, RestartScheduler PROVE TypeOK'
  <1>1. scheduler' \in 1 .. MaxSchedulers
    <2>1. scheduler < MaxSchedulers /\ scheduler' = scheduler + 1
      BY DEF RestartScheduler
    <2> QED
      BY <2>1, Types
  <1>2. \A c \in calls : [c EXCEPT !.waiting = FALSE] \in Calls
    BY DEF TypeOK, Calls
  <1> QED
    BY <1>1, <1>2 DEF TypeOK, RestartScheduler

(* Every step keeps the types. *)
LEMMA TypeNext == ASSUME TypeOK, Owner, [Next]_vars PROVE TypeOK'
  <1>1. CASE SchedulerStep
    BY <1>1, TypeProcessHeartbeat, TypeFetchRunningTasks, TypeLoseWorker, TypeCheckUnsure,
       TypeInitializeRunningTasks, TypeRunTask, TypeCannotSend, TypeCallSucceeds,
       TypeCallIsRefused, TypeCallFails, TypeSendNotify, TypeNotifySucceeds,
       TypeReceiveUpdate DEF SchedulerStep
  <1>2. CASE WorkerStep
    BY <1>2, TypeReceiveHeartbeat, TypeSendUpdate, TypeGetRunningTasks, TypeAdmitTask,
       TypeStartTask, TypeReceiveNotify, TypeEndTask, TypeAcknowledge DEF WorkerStep
  <1>3. CASE UNCHANGED vars
    BY <1>3 DEF TypeOK, vars
  <1> QED
    BY <1>1, <1>2, <1>3, TypeRestartWorker, TypeRestartScheduler DEF Next

(* A callback always finds the RemoteWorker it is for. *)
LEMMA OwnerNext == ASSUME TypeOK, Owner, [Next]_vars PROVE Owner'
  <1> USE Types DEF Owner
  <1>1. CASE ProcessHeartbeat
    <2>1. shard' # NoWorker
      <3>1. NewRemoteWorker(worker.id) \in RemoteWorkers
        BY DEF NewRemoteWorker, RemoteWorkers, States
      <3> QED
        BY <1>1, <3>1 DEF ProcessHeartbeat
    <2> QED
      BY <1>1, <2>1 DEF ProcessHeartbeat
  <1>2. CASE FetchRunningTasks \/ CheckUnsure
    BY <1>2 DEF FetchRunningTasks, CheckUnsure, schedulerVars
  <1>3. CASE LoseWorker
    <2>1. shard' \in RemoteWorkers
      BY <1>3 DEF TypeOK, LoseWorker, RemoteWorkers, States
    <2> QED
      BY <1>3, <2>1 DEF LoseWorker, messages
  <1>4. ASSUME NEW l \in lists, InitializeRunningTasks(l) PROVE Owner'
    <2>1. l.scheduler # scheduler => shard' = shard
      BY <1>4 DEF InitializeRunningTasks
    <2>2. l.scheduler = scheduler => shard' # NoWorker
      <3> SUFFICES ASSUME l.scheduler = scheduler PROVE shard' # NoWorker
        OBVIOUS
      <3>1. shard \in RemoteWorkers
        BY DEF TypeOK
      <3>2. l.tasks \subseteq RunningTasks
        BY DEF TypeOK, Lists
      <3>3. [shard EXCEPT !.state = "UP", !.running = l.tasks] \in RemoteWorkers
        BY <3>1, <3>2 DEF RemoteWorkers, States
      <3> QED
        BY <1>4, <3>1, <3>3 DEF InitializeRunningTasks, Fail
    <2> QED
      BY <1>4, <2>1, <2>2 DEF InitializeRunningTasks
  <1>5. ASSUME NEW t \in Tasks, RunTask(t) PROVE Owner'
    BY <1>5, RunTaskEffect DEF RunTask
  <1>6. ASSUME NEW c \in calls, CannotSend(c) PROVE Owner'
    BY <1>6, WaitingHasShard, TypeRecordFailedTask DEF CannotSend
  <1>7. ASSUME NEW c \in calls, CallSucceeds(c) PROVE Owner'
    BY <1>7 DEF CallSucceeds, schedulerVars
  <1>8. ASSUME NEW c \in calls, CallIsRefused(c) PROVE Owner'
    BY <1>8, WaitingHasShard, TypeRecordFailedTask DEF CallIsRefused
  <1>9. ASSUME NEW c \in calls, CallFails(c) PROVE Owner'
    <2>1. UNCHANGED <<scheduler, polls, notifies, lists>> /\ shard' # NoWorker
      BY <1>9, CallFailsEffect DEF CallFails
    <2>2. \A d \in calls' : d.at \in {"ok", "refused"} => d.waiting
      <3>1. PICK new : Replaces(c, new)
        BY <1>9, CallFailsEffect
      <3> QED
        BY <3>1 DEF Replaces
    <2> QED
      BY <2>1, <2>2
  <1>10. ASSUME NEW p \in polls, SendNotify(p) PROVE Owner'
    BY <1>10, SendNotifyEffect DEF SendNotify
  <1>11. ASSUME NEW n \in notifies, NotifySucceeds(n) PROVE Owner'
    BY <1>11, NotifySucceedsEffect DEF NotifySucceeds
  <1>12. ASSUME NEW u \in updates, ReceiveUpdate(u) PROVE Owner'
    BY <1>12, TypeRecordNotRunning DEF TypeOK, ReceiveUpdate, RecordUpdate
  <1>13. CASE ReceiveHeartbeat
    BY <1>13 DEF ReceiveHeartbeat, schedulerVars
  <1>14. ASSUME NEW u, SendUpdate(u) PROVE Owner'
    BY <1>14 DEF SendUpdate, schedulerVars
  <1>15. ASSUME NEW l \in lists, GetRunningTasks(l) PROVE Owner'
    BY <1>15 DEF GetRunningTasks, schedulerVars, TypeOK, Lists
  <1>16. ASSUME NEW c \in calls, AdmitTask(c) PROVE Owner'
    BY <1>16 DEF AdmitTask, Become, schedulerVars, TypeOK, Calls
  <1>17. ASSUME NEW c \in calls, StartTask(c) PROVE Owner'
    BY <1>17, BecomeEffect DEF StartTask, Replaces, schedulerVars
  <1>18. ASSUME NEW n \in notifies, ReceiveNotify(n) PROVE Owner'
    <2>1. UNCHANGED <<scheduler, shard, calls, polls, lists>>
      BY <1>18 DEF ReceiveNotify, schedulerVars
    <2>2. \A m \in notifies' : \E k \in notifies : m.scheduler = k.scheduler
      BY <1>18, ReceiveNotifyEffect
    <2> QED
      BY <2>1, <2>2
  <1>19. ASSUME NEW x, EndTask(x) \/ Acknowledge(x) PROVE Owner'
    BY <1>19 DEF EndTask, Acknowledge, schedulerVars, messages
  <1>20. CASE RestartWorker
    BY <1>20 DEF RestartWorker, schedulerVars, TypeOK, Calls
  <1>21. CASE RestartScheduler
    <2>1. /\ scheduler' = scheduler + 1 /\ polls' = {}
          /\ notifies' = notifies /\ lists' = lists
      BY <1>21 DEF RestartScheduler
    <2>2. /\ \A n \in notifies : n.scheduler \in Nat
          /\ \A l \in lists : l.scheduler \in Nat
      BY DEF TypeOK, Notifies, Lists
    <2>3. \A c \in calls' : ~c.waiting /\ c.at \in {"network", "admitted"}
      BY <1>21 DEF RestartScheduler, TypeOK, Calls
    <2> QED
      BY <2>1, <2>2, <2>3
  <1>22. CASE UNCHANGED vars
    BY <1>22 DEF vars
  <1> QED
    BY <1>1, <1>2, <1>3, <1>4, <1>5, <1>6, <1>7, <1>8, <1>9, <1>10, <1>11, <1>12, <1>13,
       <1>14, <1>15, <1>16, <1>17, <1>18, <1>19, <1>20, <1>21, <1>22
    DEF Next, SchedulerStep, WorkerStep

-----------------------------------------------------------------------------
(* ProcessHeartbeat keeps the core of the invariant. *)
LEMMA CoreProcessHeartbeat ==
  ASSUME TypeOK, Owner, scheduler = 1, Core, ProcessHeartbeat PROVE Core'
  <1>1. UNCHANGED <<scheduler, worker, calls, polls, notifies, updates, lists, invocations>>
    BY DEF ProcessHeartbeat
  <1>2. CASE shard' = shard
    <2>1. beat' # NoReply => beat'.scheduler = 1
      BY DEF ProcessHeartbeat
    <2> QED
      BY <1>1, <1>2, <2>1 DEF Core, Instances, Fresh, Invocations, Unique, Sequence, Asked,
         Truthful, Settled, CallsTracked, Tracked, Here, Sent
  <1>3. CASE shard' # shard
    <2>1. /\ ~Here
          /\ shard' = NewRemoteWorker(worker.id)
      BY <1>3 DEF ProcessHeartbeat, Here
    <2>2. /\ shard' \in RemoteWorkers /\ shard'.id = worker.id /\ shard'.state = "NEW"
          /\ shard'.unsure = {} /\ shard'.seq = 0 /\ shard'.running = {}
      BY <2>1, Types DEF NewRemoteWorker, RemoteWorkers, States
    <2>3. beat' # NoReply => beat'.scheduler = 1
      BY DEF ProcessHeartbeat
    <2>4. shard # NoWorker => shard.id \in Nat /\ shard.id <= worker.id
      BY DEF TypeOK, RemoteWorkers, Core, Instances
    <2>5. worker.id \in Nat
      BY Types
    <2>6. /\ \A c \in calls : c.rt.worker \in Nat
          /\ \A n \in notifies : n.worker \in Nat
          /\ \A p \in polls : p.worker \in Nat
      BY DEF TypeOK, Calls, RunningTasks, Notifies, Polls
    <2>7. Instances'
      BY <1>1, <2>2, <2>4, <2>5, <2>6 DEF Core, Instances
    <2>8. Fresh'
      BY <1>1, <2>1 DEF Core, Fresh
    <2>9. Invocations'
      BY <1>1, <2>2 DEF Core, Invocations
    <2>10. Sequence'
      <3>1. \A n \in notifies : n.worker # worker.id
        BY <2>1, <2>4, <2>5, <2>6 DEF Core, Instances, Here
      <3>2. \A c \in calls : c.rt.worker # worker.id
        BY <2>1 DEF Core, Fresh
      <3>3. worker.seq = 0
        BY <2>1 DEF Core, Sequence
      <3> QED
        BY <1>1, <2>2, <2>3, <3>1, <3>2, <3>3 DEF Core, Sequence, Here
    <2>11. Unique' /\ Asked' /\ Truthful'
      BY <1>1 DEF Core, Unique, Asked, Truthful, Settled, Sent
    <2>12. CallsTracked' /\ Tracked'
      BY <2>2 DEF CallsTracked, Tracked
    <2> QED
      BY <2>7, <2>8, <2>9, <2>10, <2>11, <2>12 DEF Core
  <1> QED
    BY <1>2, <1>3

(* ReceiveHeartbeat keeps the core of the invariant. *)
LEMMA CoreReceiveHeartbeat ==
  ASSUME TypeOK, Owner, scheduler = 1, Core, ReceiveHeartbeat PROVE Core'
  <1>1. UNCHANGED <<scheduler, shard, calls, polls, notifies, updates, lists, invocations>>
    BY DEF ReceiveHeartbeat, schedulerVars
  <1>2. /\ worker \in Workers /\ worker.seq \in Nat
        /\ beat.scheduler = 1 /\ beat' = NoReply
    BY DEF TypeOK, Workers, ReceiveHeartbeat, Core, Sequence
  <1>3. /\ worker'.id = worker.id /\ worker'.scheduler = 1
        /\ worker'.tasks = worker.tasks /\ worker'.notRunning = worker.notRunning
        /\ worker'.seq = IF worker.scheduler = 1 THEN worker.seq ELSE 0
    BY <1>2 DEF ReceiveHeartbeat, Workers
  <1>4. worker'.seq = worker.seq
    BY <1>3 DEF Core, Sequence
  <1>5. Sequence'
    BY <1>1, <1>2, <1>3, <1>4 DEF Core, Sequence, Here
  <1>6. Instances' /\ Fresh' /\ Invocations' /\ Unique' /\ Asked'
    BY <1>1, <1>3 DEF Core, Instances, Fresh, Invocations, Unique, Asked, Here
  <1>7. Truthful' /\ CallsTracked' /\ Tracked'
    BY <1>1, <1>3, <1>4 DEF Core, Truthful, Settled, CallsTracked, Tracked, Here, Sent
  <1> QED
    BY <1>5, <1>6, <1>7 DEF Core

(* Steps that leave both sides and their runTask calls alone *)
LEMMA CoreSameState ==
  ASSUME scheduler = 1, Core, UNCHANGED <<scheduler, shard, worker, calls, invocations, beat>>,
         \A p \in polls' : \/ p \in polls
                           \/ /\ shard # NoWorker /\ p.worker <= shard.id
                              /\ \A rt \in p.tasks : rt.inv <= invocations,
         notifies' \subseteq notifies,
         \A u \in updates' : \/ u \in updates
                             \/ /\ u.worker <= worker.id /\ u.rt.inv <= invocations
                                /\ Settled(u.rt)
  PROVE  Core'
  <1>1. Instances' /\ Fresh' /\ Invocations'
    BY DEF Core, Instances, Fresh, Invocations, Here
  <1>2. Unique' /\ Sequence' /\ Asked'
    BY DEF Core, Unique, Sequence, Asked, Here
  <1>3. Truthful' /\ CallsTracked' /\ Tracked'
    BY DEF Core, Truthful, Settled, CallsTracked, Tracked, Here, Sent
  <1> QED
    BY <1>1, <1>2, <1>3 DEF Core

(* FetchRunningTasks keeps the core of the invariant. *)
LEMMA CoreFetchRunningTasks ==
  ASSUME scheduler = 1, Core, FetchRunningTasks PROVE Core'
  BY CoreSameState DEF FetchRunningTasks, schedulerVars

(* GetRunningTasks keeps the core of the invariant. *)
LEMMA CoreGetRunningTasks ==
  ASSUME scheduler = 1, Core, NEW l, GetRunningTasks(l) PROVE Core'
  BY CoreSameState DEF GetRunningTasks, schedulerVars

(* CheckUnsure keeps the core of the invariant. *)
LEMMA CoreCheckUnsure ==
  ASSUME TypeOK, scheduler = 1, Core, CheckUnsure PROVE Core'
  <1>1. UNCHANGED <<scheduler, shard, worker, calls, invocations, beat, notifies, updates>>
    BY DEF CheckUnsure, schedulerVars
  <1>2. shard \in RemoteWorkers /\ shard # NoWorker
    BY DEF TypeOK, CheckUnsure
  <1>3. \A p \in polls' : p.tasks = shard.unsure /\ p.worker = shard.id /\ shard.id \in Nat
    BY <1>2 DEF CheckUnsure, RemoteWorkers
  <1> QED
    BY <1>1, <1>2, <1>3, CoreSameState DEF Core, Invocations

(* SendUpdate keeps the core of the invariant. *)
LEMMA CoreSendUpdate ==
  ASSUME TypeOK, scheduler = 1, Core, NEW u \in Pending, SendUpdate(u) PROVE Core'
  <1>1. UNCHANGED <<scheduler, shard, worker, calls, invocations, beat, notifies, polls>>
    BY DEF SendUpdate, schedulerVars
  <1>2. u.worker = worker.id /\ worker.id \in Nat
    BY Types DEF Pending, Update
  <1>3. u.rt.inv <= invocations /\ Settled(u.rt)
    <2>1. CASE u.rt \in worker.notRunning
      BY <2>1 DEF Core, Invocations, Truthful
    <2>2. ASSUME NEW x \in worker.tasks, x.phase # "running", u.rt = x.rt
          PROVE  u.rt.inv <= invocations /\ Settled(u.rt)
      BY <2>2 DEF Core, Invocations, Unique, Settled, Sent
    <2>3. \/ u.rt \in worker.notRunning
          \/ \E x \in worker.tasks : x.phase # "running" /\ u.rt = x.rt
      BY DEF Pending, Update
    <2> QED
      BY <2>1, <2>2, <2>3
  <1> QED
    BY <1>1, <1>2, <1>3, CoreSameState DEF SendUpdate

(* InitializeRunningTasks keeps the core of the invariant. *)
LEMMA CoreInitializeRunningTasks ==
  ASSUME TypeOK, Owner, scheduler = 1, Core, NEW l \in lists, InitializeRunningTasks(l)
  PROVE  Core'
  <1>1. UNCHANGED <<scheduler, worker, calls, invocations, beat, polls, notifies, updates>>
    BY DEF InitializeRunningTasks
  <1>2. CASE shard' = shard
    BY <1>1, <1>2, CoreSameState
  <1>3. CASE shard' # shard
    <2>1. /\ l.scheduler = scheduler /\ shard.state = "NEW"
          /\ shard' = [shard EXCEPT !.state = "UP", !.running = l.tasks]
      BY <1>3 DEF InitializeRunningTasks, Fail
    <2>2. shard \in RemoteWorkers /\ l.tasks \subseteq RunningTasks
      BY <2>1 DEF TypeOK, Owner, Lists
    <2>3. /\ shard' \in RemoteWorkers /\ shard'.id = shard.id
          /\ shard'.unsure = shard.unsure /\ shard'.seq = shard.seq
      BY <2>1, <2>2 DEF RemoteWorkers, States
    <2>4. worker.tasks = {} /\ \A c \in calls : c.rt.worker # worker.id
      BY <2>1 DEF Core, Fresh
    <2>5. Instances' /\ Invocations'
      BY <1>1, <2>2, <2>3 DEF Core, Instances, Invocations
    <2>6. Fresh' /\ Unique' /\ Asked'
      BY <1>1, <2>4 DEF Core, Fresh, Unique, Asked
    <2>7. Sequence'
      BY <1>1, <2>2, <2>3 DEF Core, Sequence, Here
    <2>8. Truthful' /\ CallsTracked' /\ Tracked'
      BY <1>1, <2>4 DEF Core, Truthful, Settled, CallsTracked, Tracked
    <2> QED
      BY <2>5, <2>6, <2>7, <2>8 DEF Core
  <1> QED
    BY <1>2, <1>3

(* RunTask keeps the core of the invariant. *)
LEMMA CoreRunTask ==
  ASSUME TypeOK, scheduler = 1, Core, NEW t \in Tasks, RunTask(t) PROVE Core'
  <1>1. /\ UNCHANGED <<scheduler, worker, polls, notifies, updates, beat, lists>>
        /\ invocations' = invocations + 1
    BY DEF RunTask
  <1>2. /\ shard \in RemoteWorkers /\ shard' \in RemoteWorkers /\ shard.state = "UP"
        /\ shard'.id = shard.id /\ shard'.state = shard.state /\ shard'.seq = shard.seq
        /\ shard'.unsure = shard.unsure /\ shard.running \subseteq shard'.running
    BY RunTaskEffect
  <1>3. /\ invocations \in Nat /\ shard.id \in Nat /\ worker.id \in Nat /\ shard.seq \in Nat
    BY <1>2, Types DEF RemoteWorkers
  <1>4. /\ \A c \in calls : c.rt.inv \in Nat
        /\ \A x \in worker.tasks : x.rt.inv \in Nat
        /\ \A rt \in worker.notRunning : rt.inv \in Nat
        /\ \A u \in updates : u.rt.inv \in Nat
        /\ \A rt \in shard.unsure : rt.inv \in Nat
        /\ \A p \in polls : \A rt \in p.tasks : rt.inv \in Nat
        /\ \A n \in notifies : \A rt \in n.tasks : rt.inv \in Nat
    <2>1. \A rt \in RunningTasks : rt.inv \in Nat
      BY DEF RunningTasks
    <2>2. \A c \in calls : c.rt \in RunningTasks
      BY DEF TypeOK, Calls
    <2>3. worker.notRunning \subseteq RunningTasks /\ \A x \in worker.tasks : x.rt \in RunningTasks
      BY DEF TypeOK, Workers, WorkerTasks
    <2>4. \A u \in updates : u.rt \in RunningTasks
      BY DEF TypeOK, Updates
    <2>5. shard.unsure \subseteq RunningTasks
      BY <1>2 DEF RemoteWorkers
    <2>6. /\ \A p \in polls : p.tasks \subseteq RunningTasks
          /\ \A n \in notifies : n.tasks \subseteq RunningTasks
      BY DEF TypeOK, Polls, Notifies
    <2> QED
      BY <2>1, <2>2, <2>3, <2>4, <2>5, <2>6
  <1>5. ASSUME NEW new \in Calls, calls' = calls \cup {new},
               new.rt.inv = invocations + 1, new.rt.worker = shard.id,
               new.rt \in shard'.running,
               new.seq = shard.seq, new.at = "network"
        PROVE  Core'
    <2>1. Instances'
      BY <1>1, <1>2, <1>3, <1>5 DEF Core, Instances
    <2>2. Fresh'
      BY <1>1, <1>2, <1>3, <1>5 DEF Core, Fresh, Here
    <2>3. Invocations'
      BY <1>1, <1>2, <1>3, <1>4, <1>5 DEF Core, Invocations
    <2>4. Unique'
      BY <1>1, <1>3, <1>4, <1>5 DEF Core, Unique, Invocations
    <2>5. Sequence'
      BY <1>1, <1>2, <1>3, <1>5 DEF Core, Sequence, Here
    <2>6. Asked'
      BY <1>1, <1>3, <1>4, <1>5 DEF Core, Asked, Invocations
    <2>7. Truthful'
      BY <1>1, <1>3, <1>4, <1>5 DEF Core, Truthful, Settled, Invocations, Sent
    <2>8. CallsTracked' /\ Tracked'
      BY <1>1, <1>2, <1>5 DEF Core, CallsTracked, Tracked, Here, Sent
    <2> QED
      BY <2>1, <2>2, <2>3, <2>4, <2>5, <2>6, <2>7, <2>8 DEF Core
  <1>6. CASE calls' = calls
    <2>1. Instances' /\ Fresh'
      BY <1>1, <1>2, <1>6 DEF Core, Instances, Fresh, Here
    <2>2. Invocations'
      BY <1>1, <1>2, <1>3, <1>4, <1>6 DEF Core, Invocations
    <2>3. Unique' /\ Sequence' /\ Asked'
      BY <1>1, <1>2, <1>6 DEF Core, Unique, Sequence, Asked, Here
    <2>4. Truthful' /\ CallsTracked' /\ Tracked'
      BY <1>1, <1>2, <1>6 DEF Core, Truthful, Settled, CallsTracked, Tracked, Here, Sent
    <2> QED
      BY <2>1, <2>2, <2>3, <2>4 DEF Core
  <1> QED
    BY <1>5, <1>6, RunTaskEffect

(* A runTask call moves on, fails or is done with.  A task that is no       *)
(* longer counted has not started, and its call is gone.                    *)
LEMMA CoreCalls ==
  ASSUME TypeOK, Core, NEW c \in calls, NEW new,
         UNCHANGED <<scheduler, worker, polls, notifies, updates, beat, invocations>>,
         shard \in RemoteWorkers, shard' \in RemoteWorkers,
         shard'.id = shard.id, shard'.state = shard.state, shard'.seq = shard.seq,
         shard.running \ {c.rt} \subseteq shard'.running,
         shard'.unsure \subseteq shard.unsure \cup {c.rt},
         new.rt = c.rt, new.seq = c.seq, calls' \subseteq (calls \ {c}) \cup {new},
         Sent(new) => Sent(c), new.at = "admitted" => c.rt.worker = worker.id,
         new.at # "ok" => c.at # "ok",
         shard.running \subseteq shard'.running \/ (new \notin calls' /\ c.at # "ok")
  PROVE  Core'
  <1>1. Instances' /\ Fresh'
    BY DEF Core, Instances, Fresh, Here
  <1>2. Invocations'
    BY DEF Core, Invocations
  <1>3. Unique'
    BY DEF Core, Unique
  <1>4. Sequence' /\ Asked'
    BY DEF Core, Sequence, Asked, Here
  <1>5. Truthful'
    BY DEF Core, Truthful, Settled, Sent
  <1>6. CallsTracked'
    BY DEF Core, CallsTracked, Unique, Here, Sent
  <1>7. Tracked'
    BY DEF Core, Tracked, Unique, Here
  <1> QED
    BY <1>1, <1>2, <1>3, <1>4, <1>5, <1>6, <1>7 DEF Core

(* While the first scheduler lives, a call has its RemoteWorker. *)
LEMMA CallsHaveShard == ASSUME TypeOK, Core, NEW c \in calls PROVE shard \in RemoteWorkers
  BY DEF TypeOK, Core, Instances

(* CannotSend keeps the core of the invariant. *)
LEMMA CoreCannotSend ==
  ASSUME TypeOK, Core, NEW c \in calls, CannotSend(c) PROVE Core'
  <1>1. /\ UNCHANGED <<scheduler, worker, polls, notifies, updates, beat, invocations>>
        /\ calls' = calls \ {c} /\ c.at = "network" /\ RecordFailedTask(c.rt)
    BY DEF CannotSend
  <1> QED
    BY <1>1, CallsHaveShard, TypeRecordFailedTask, CoreCalls

(* CallIsRefused keeps the core of the invariant. *)
LEMMA CoreCallIsRefused ==
  ASSUME TypeOK, Core, NEW c \in calls, CallIsRefused(c) PROVE Core'
  <1>1. /\ UNCHANGED <<scheduler, worker, polls, notifies, updates, beat, invocations>>
        /\ calls' = calls \ {c} /\ c.at = "refused" /\ RecordFailedTask(c.rt)
    BY DEF CallIsRefused
  <1> QED
    BY <1>1, CallsHaveShard, TypeRecordFailedTask, CoreCalls

(* CallSucceeds keeps the core of the invariant. *)
LEMMA CoreCallSucceeds ==
  ASSUME TypeOK, Core, NEW c \in calls, CallSucceeds(c) PROVE Core'
  <1>1. /\ UNCHANGED <<scheduler, shard, worker, polls, notifies, updates, beat, invocations>>
        /\ calls' = calls \ {c} /\ c.at = "ok"
    BY DEF CallSucceeds, schedulerVars
  <1> QED
    BY <1>1, CallsHaveShard, CoreCalls

(* CallFails keeps the core of the invariant. *)
LEMMA CoreCallFails ==
  ASSUME TypeOK, Owner, Core, NEW c \in calls, CallFails(c) PROVE Core'
  <1>1. UNCHANGED <<scheduler, worker, polls, notifies, updates, beat, invocations>>
    BY DEF CallFails
  <1>2. PICK new : Replaces(c, new) /\ new.at = c.at
    BY CallFailsEffect
  <1>3. /\ shard \in RemoteWorkers /\ shard' \in RemoteWorkers
        /\ shard'.id = shard.id /\ shard'.state = shard.state /\ shard'.seq = shard.seq
        /\ shard'.running = shard.running /\ shard'.unsure \subseteq shard.unsure \cup {c.rt}
    BY CallFailsEffect
  <1>4. c.at = "admitted" => c.rt.worker = worker.id
    BY DEF Core, Instances
  <1> QED
    BY <1>1, <1>2, <1>3, <1>4, CoreCalls DEF Replaces, Sent

(* AdmitTask keeps the core of the invariant. *)
LEMMA CoreAdmitTask ==
  ASSUME TypeOK, Owner, Core, NEW c \in calls, AdmitTask(c) PROVE Core'
  <1>1. /\ UNCHANGED <<scheduler, shard, worker, polls, notifies, updates, beat, invocations>>
        /\ c.at = "network"
    BY DEF AdmitTask, schedulerVars
  <1>2. CASE Become(c, "refused")
    <2>1. PICK new : Replaces(c, new) /\ new.at = "refused"
      BY <1>2, BecomeEffect
    <2> QED
      BY <1>1, <2>1, CallsHaveShard, CoreCalls DEF Replaces, Sent
  <1>3. CASE ~Become(c, "refused")
    <2> DEFINE new == [c EXCEPT !.at = "admitted"]
    <2>1. new.rt = c.rt /\ new.seq = c.seq /\ new.at = "admitted"
      BY DEF TypeOK, Calls
    <2>2. c.rt.worker = worker.id /\ calls' = (calls \ {c}) \cup {new}
      BY <1>3 DEF AdmitTask
    <2> HIDE DEF new
    <2> QED
      BY <1>1, <2>1, <2>2, CallsHaveShard, CoreCalls DEF Sent
  <1> QED
    BY <1>2, <1>3

(* StartTask keeps the core of the invariant. *)
LEMMA CoreStartTask ==
  ASSUME TypeOK, Owner, Core, NEW c \in calls, StartTask(c) PROVE Core'
  <1>1. /\ UNCHANGED <<scheduler, shard, polls, notifies, updates, beat, invocations>>
        /\ c.at = "admitted" /\ shard \in RemoteWorkers
    BY CallsHaveShard DEF StartTask, schedulerVars
  <1>2. CASE c.seq < worker.seq \/ \E x \in worker.tasks : x.rt.task = c.rt.task
    <2>1. UNCHANGED worker
      BY <1>2 DEF StartTask
    <2>2. PICK new : Replaces(c, new) /\ new.at = "refused"
      BY <1>2, BecomeEffect DEF StartTask
    <2> QED
      BY <1>1, <2>1, <2>2, CoreCalls DEF Replaces, Sent
  <1>3. CASE ~(c.seq < worker.seq \/ \E x \in worker.tasks : x.rt.task = c.rt.task)
    <2> DEFINE y == [rt |-> c.rt, phase |-> "running"]
    <2>1. PICK new : Replaces(c, new) /\ new.at = "ok"
      BY <1>3, BecomeEffect DEF StartTask
    <2>2. y.rt = c.rt
      OBVIOUS
    <2>3. /\ worker'.id = worker.id /\ worker'.scheduler = worker.scheduler
          /\ worker'.seq = worker.seq /\ worker'.notRunning = worker.notRunning
          /\ worker'.tasks = worker.tasks \cup {y}
      BY <1>3 DEF StartTask, TypeOK, Workers
    <2>4. c.rt.worker = worker.id
      BY <1>1 DEF Core, Instances
    <2>5. Sent(c)
      BY <1>1 DEF Sent
    <2> HIDE DEF y
    <2>6. Instances' /\ Invocations'
      BY <1>1, <2>1, <2>2, <2>3 DEF Core, Instances, Invocations, Replaces
    <2>7. Fresh'
      BY <1>1, <2>1, <2>3, <2>4 DEF Core, Fresh, Here, Replaces
    <2>8. Unique'
      BY <1>1, <1>3, <2>1, <2>2, <2>3 DEF Core, Unique, Replaces
    <2>9. Sequence' /\ Asked'
      BY <1>1, <2>1, <2>3 DEF Core, Sequence, Asked, Here, Replaces
    <2>10. Truthful'
      BY <1>1, <1>3, <2>1, <2>2, <2>3, <2>4, <2>5 DEF Core, Truthful, Settled, Sent, Replaces
    <2>11. CallsTracked' /\ Tracked'
      BY <1>1, <1>3, <2>1, <2>2, <2>3, <2>4, <2>5
         DEF Core, CallsTracked, Tracked, Here, Sent, Replaces
    <2> QED
      BY <2>6, <2>7, <2>8, <2>9, <2>10, <2>11 DEF Core
  <1> QED
    BY <1>2, <1>3

(* SendNotify keeps the core of the invariant. *)
LEMMA CoreSendNotify ==
  ASSUME TypeOK, Owner, scheduler = 1, Core, NEW p \in polls, SendNotify(p) PROVE Core'
  <1>1. /\ UNCHANGED <<scheduler, worker, calls, updates, beat, invocations>>
        /\ polls' \subseteq polls
    BY DEF SendNotify
  <1>2. /\ shard \in RemoteWorkers /\ shard' \in RemoteWorkers
        /\ shard'.id = shard.id /\ shard'.state = shard.state
        /\ shard'.running = shard.running /\ shard'.unsure = shard.unsure
        /\ shard'.seq = shard.seq + 1 /\ shard.seq \in Nat
    BY SendNotifyEffect
  <1>3. PICK new \in Notifies :
               /\ notifies' = notifies \cup {new}
               /\ new.tasks = p.tasks /\ new.worker = p.worker
               /\ new.seq = shard.seq + 1 /\ new.scheduler = scheduler
    BY SendNotifyEffect
  <1>4. /\ \A c \in calls : c.seq \in Nat
        /\ \A n \in notifies : n.seq \in Nat
        /\ worker.seq \in Nat
        /\ p.worker \in Nat /\ shard.id \in Nat /\ worker.id \in Nat
    BY <1>2, Types DEF TypeOK, Calls, Notifies, Workers, Polls, RemoteWorkers
  <1>5. p.worker = worker.id => Here
    BY <1>2, <1>4 DEF Core, Instances, Here
  <1>6. Instances' /\ Fresh' /\ Invocations'
    BY <1>1, <1>2, <1>3 DEF Core, Instances, Fresh, Invocations, Here
  <1>7. Sequence'
    BY <1>1, <1>2, <1>3, <1>4 DEF Core, Sequence, Here
  <1>8. Asked'
    BY <1>1, <1>2, <1>3, <1>4, <1>5 DEF Core, Sequence, Asked
  <1>9. Unique' /\ Truthful' /\ CallsTracked' /\ Tracked'
    BY <1>1, <1>2 DEF Core, Unique, Truthful, Settled, CallsTracked, Tracked, Here, Sent
  <1> QED
    BY <1>6, <1>7, <1>8, <1>9 DEF Core

(* ReceiveNotify keeps the core of the invariant. *)
LEMMA CoreReceiveNotify ==
  ASSUME TypeOK, scheduler = 1, Core, NEW n \in notifies, ReceiveNotify(n) PROVE Core'
  <1>1. UNCHANGED <<scheduler, shard, calls, polls, updates, beat, invocations>>
    BY DEF ReceiveNotify, schedulerVars
  <1>2. /\ worker'.id = worker.id
        /\ worker'.scheduler = worker.scheduler /\ worker'.tasks = worker.tasks
    BY ReceiveNotifyEffect
  <1>3. PICK new : /\ notifies' \subseteq (notifies \ {n}) \cup {new}
                   /\ new.tasks = n.tasks /\ new.worker = n.worker /\ new.seq = n.seq
                   /\ new.scheduler = n.scheduler
    BY ReceiveNotifyEffect
  <1>4. Instances' /\ Fresh' /\ Unique'
    BY <1>1, <1>2, <1>3 DEF Core, Instances, Fresh, Unique, Here
  <1>5. Asked'
    BY <1>1, <1>2, <1>3 DEF Core, Asked
  <1>6. CASE worker' = worker
    <2>1. Invocations' /\ Sequence'
      BY <1>1, <1>3, <1>6 DEF Core, Invocations, Sequence, Here
    <2>2. Truthful' /\ CallsTracked' /\ Tracked'
      BY <1>1, <1>6 DEF Core, Truthful, Settled, CallsTracked, Tracked, Here, Sent
    <2> QED
      BY <1>4, <1>5, <2>1, <2>2 DEF Core
  <1>7. CASE /\ n.scheduler = worker.scheduler /\ n.worker = worker.id
             /\ worker.seq < n.seq /\ worker'.seq = n.seq
             /\ \A rt \in worker'.notRunning :
                   \/ rt \in worker.notRunning
                   \/ rt \in n.tasks /\ ~\E x \in worker.tasks : x.rt.task = rt.task
    <2>1. /\ \A c \in calls : c.seq \in Nat
          /\ n.seq \in Nat /\ worker.seq \in Nat
          /\ n.worker \in Nat /\ worker.id \in Nat
          /\ shard # NoWorker => shard.id \in Nat
      BY Types DEF TypeOK, Calls, Notifies, Workers, RemoteWorkers
    <2>2. Here /\ worker.scheduler = 1
      BY <1>7, <2>1 DEF Core, Instances, Sequence, Here
    <2>3. Invocations'
      BY <1>1, <1>2, <1>3, <1>7 DEF Core, Invocations
    <2>4. Sequence'
      BY <1>1, <1>2, <1>3, <1>7, <2>1, <2>2 DEF Core, Sequence, Here
    <2>5. \A rt : Settled(rt) => Settled(rt)'
      BY <1>1, <1>2, <1>7, <2>1 DEF Settled, Sent
    <2>6. ASSUME NEW rt \in n.tasks, ~\E x \in worker.tasks : x.rt.task = rt.task
          PROVE  Settled(rt)'
      BY <1>1, <1>2, <1>7, <2>6 DEF Settled, Sent, Core, Asked
    <2>7. Truthful'
      BY <1>1, <1>2, <1>7, <2>5, <2>6 DEF Core, Truthful
    <2>8. CallsTracked' /\ Tracked'
      BY <1>1, <1>2, <1>7, <2>1 DEF Core, CallsTracked, Tracked, Here, Sent
    <2> QED
      BY <1>4, <1>5, <2>3, <2>4, <2>7, <2>8 DEF Core
  <1> QED
    BY <1>6, <1>7, ReceiveNotifyEffect

(* NotifySucceeds keeps the core of the invariant. *)
LEMMA CoreNotifySucceeds ==
  ASSUME TypeOK, Owner, scheduler = 1, Core, NEW n \in notifies, NotifySucceeds(n)
  PROVE  Core'
  <1>1. /\ UNCHANGED <<scheduler, worker, calls, polls, updates, beat, invocations>>
        /\ notifies' \subseteq notifies
    BY DEF NotifySucceeds
  <1>2. CASE shard' = shard
    BY <1>1, <1>2, CoreSameState
  <1>3. CASE /\ shard \in RemoteWorkers /\ shard' \in RemoteWorkers
             /\ shard'.id = shard.id /\ shard'.state = shard.state /\ shard'.seq = shard.seq
             /\ shard'.running = shard.running /\ shard'.unsure \subseteq shard.unsure
    <2>1. Instances' /\ Fresh' /\ Invocations'
      BY <1>1, <1>3 DEF Core, Instances, Fresh, Invocations, Here
    <2>2. Unique' /\ Sequence' /\ Asked'
      BY <1>1, <1>3 DEF Core, Unique, Sequence, Asked, Here
    <2>3. Truthful' /\ CallsTracked' /\ Tracked'
      BY <1>1, <1>3 DEF Core, Truthful, Settled, CallsTracked, Tracked, Here, Sent
    <2> QED
      BY <2>1, <2>2, <2>3 DEF Core
  <1> QED
    BY <1>2, <1>3, NotifySucceedsEffect

(* The worker's tasks only end, and rt, if it is no longer counted, neither *)
(* runs nor will start.                                                     *)
LEMMA CoreTasks ==
  ASSUME Core, NEW rt,
         UNCHANGED <<scheduler, calls, polls, notifies, beat, invocations>>,
         updates' \subseteq updates,
         worker'.id = worker.id, worker'.scheduler = worker.scheduler,
         worker'.seq = worker.seq, worker'.notRunning \subseteq worker.notRunning,
         \A y \in worker'.tasks : \E x \in worker.tasks :
             y.rt = x.rt /\ (y.phase = "running" => x.phase = "running"),
         \A y, z \in worker'.tasks : y.rt.task = z.rt.task => y = z,
         \/ shard' = shard
         \/ /\ shard \in RemoteWorkers /\ shard' \in RemoteWorkers
            /\ shard'.id = shard.id /\ shard'.state = shard.state /\ shard'.seq = shard.seq
            /\ shard.running \ {rt} \subseteq shard'.running
            /\ shard'.unsure \subseteq shard.unsure
            /\ Here => Settled(rt)
  PROVE  Core'
  <1>1. /\ shard' = NoWorker <=> shard = NoWorker
        /\ shard # NoWorker =>
             /\ shard'.id = shard.id /\ shard'.state = shard.state /\ shard'.seq = shard.seq
             /\ shard'.unsure \subseteq shard.unsure
    OBVIOUS
  <1>2. Here' <=> Here
    BY <1>1 DEF Here
  <1>3. Instances' /\ Fresh'
    BY <1>1, <1>2 DEF Core, Instances, Fresh, Here
  <1>4. Invocations'
    BY <1>1 DEF Core, Invocations
  <1>5. Unique'
    BY DEF Core, Unique
  <1>6. Sequence' /\ Asked'
    BY <1>1, <1>2 DEF Core, Sequence, Asked, Here
  <1>7. \A r : Settled(r) => Settled(r)'
    BY DEF Settled, Sent
  <1>8. Truthful'
    BY <1>7 DEF Core, Truthful
  <1>9. CallsTracked' /\ Tracked'
    BY DEF Core, CallsTracked, Tracked, Settled, Here, Sent
  <1> QED
    BY <1>3, <1>4, <1>5, <1>6, <1>8, <1>9 DEF Core

(* EndTask keeps the core of the invariant. *)
LEMMA CoreEndTask ==
  ASSUME TypeOK, Core, NEW x \in worker.tasks, EndTask(x) PROVE Core'
  <1> DEFINE y == [x EXCEPT !.phase = "exited"]
  <1>1. UNCHANGED <<scheduler, shard, calls, polls, notifies, updates, beat, invocations>>
    BY DEF EndTask, schedulerVars, messages
  <1>2. worker \in Workers /\ x \in WorkerTasks
    BY DEF TypeOK, Workers
  <1>3. y.rt = x.rt /\ y.phase = "exited"
    BY <1>2 DEF WorkerTasks
  <1>4. /\ worker'.id = worker.id /\ worker'.scheduler = worker.scheduler
        /\ worker'.seq = worker.seq /\ worker'.notRunning = worker.notRunning
        /\ worker'.tasks = (worker.tasks \ {x}) \cup {y}
    BY <1>2 DEF EndTask, Workers
  <1> HIDE DEF y
  <1>5. \A v, z \in worker'.tasks : v.rt.task = z.rt.task => v = z
    BY <1>3, <1>4 DEF Core, Unique
  <1>6. \A v \in worker'.tasks : \E z \in worker.tasks :
             v.rt = z.rt /\ (v.phase = "running" => z.phase = "running")
    BY <1>3, <1>4
  <1> QED
    BY <1>1, <1>4, <1>5, <1>6, CoreTasks

(* Acknowledge keeps the core of the invariant. *)
LEMMA CoreAcknowledge ==
  ASSUME TypeOK, Core, NEW x \in worker.tasks, Acknowledge(x) PROVE Core'
  <1>1. UNCHANGED <<scheduler, shard, calls, polls, notifies, updates, beat, invocations>>
    BY DEF Acknowledge, schedulerVars, messages
  <1>2. /\ worker'.id = worker.id /\ worker'.scheduler = worker.scheduler
        /\ worker'.seq = worker.seq /\ worker'.notRunning = worker.notRunning
        /\ worker'.tasks = worker.tasks \ {x}
    BY DEF Acknowledge, TypeOK, Workers
  <1>3. \A v, z \in worker'.tasks : v.rt.task = z.rt.task => v = z
    BY <1>2 DEF Core, Unique
  <1> QED
    BY <1>1, <1>2, <1>3, CoreTasks

(* ReceiveUpdate keeps the core of the invariant. *)
LEMMA CoreReceiveUpdate ==
  ASSUME TypeOK, scheduler = 1, Core, NEW u \in updates, ReceiveUpdate(u) PROVE Core'
  <1>1. /\ UNCHANGED <<scheduler, calls, polls, notifies, beat, invocations>>
        /\ updates' \subseteq updates
    BY DEF ReceiveUpdate
  <1>2. worker' = worker \/ worker' = Recorded(u)
    BY DEF ReceiveUpdate
  <1>3. /\ worker'.id = worker.id /\ worker'.scheduler = worker.scheduler
        /\ worker'.seq = worker.seq /\ worker'.notRunning \subseteq worker.notRunning
    BY <1>2 DEF Recorded, TypeOK, Workers
  <1>4. \A y \in worker'.tasks : \E x \in worker.tasks :
            /\ y.rt = x.rt
            /\ y = x \/ (x.rt = u.rt /\ u.ended /\ y = [x EXCEPT !.phase = "recorded"])
    <2>1. \A x \in worker.tasks : [x EXCEPT !.phase = "recorded"].rt = x.rt
      BY DEF TypeOK, Workers, WorkerTasks
    <2>2. worker \in Workers
      BY DEF TypeOK
    <2>3. CASE worker' = Recorded(u)
      <3>1. worker'.tasks =
              {IF x.rt = u.rt /\ u.ended THEN [x EXCEPT !.phase = "recorded"] ELSE x :
               x \in worker.tasks}
        BY <2>2, <2>3 DEF Recorded, Workers
      <3> QED
        BY <2>1, <3>1
    <2> QED
      BY <1>2, <2>3
  <1>5. \A y, z \in worker'.tasks : y.rt.task = z.rt.task => y = z
    <2> SUFFICES ASSUME NEW y \in worker'.tasks, NEW z \in worker'.tasks,
                        y.rt.task = z.rt.task
                 PROVE  y = z
      OBVIOUS
    <2>1. CASE worker' = worker
      BY <2>1 DEF Core, Unique
    <2>2. CASE worker' = Recorded(u)
      <3> DEFINE f(x) == IF x.rt = u.rt /\ u.ended THEN [x EXCEPT !.phase = "recorded"] ELSE x
      <3>1. worker'.tasks = {f(x) : x \in worker.tasks}
        BY <2>2 DEF Recorded, Workers, TypeOK
      <3>2. \A x \in worker.tasks : f(x).rt = x.rt
        BY DEF TypeOK, Workers, WorkerTasks
      <3> HIDE DEF f
      <3> QED
        BY <3>1, <3>2 DEF Core, Unique
    <2> QED
      BY <1>2, <2>1, <2>2
  <1>6. \A y \in worker'.tasks : \E x \in worker.tasks :
             y.rt = x.rt /\ (y.phase = "running" => x.phase = "running")
    <2>1. \A x \in worker.tasks : [x EXCEPT !.phase = "recorded"].phase = "recorded"
      BY DEF TypeOK, Workers, WorkerTasks
    <2> QED
      BY <1>4, <2>1
  <1>7. \/ shard' = shard
        \/ /\ shard \in RemoteWorkers /\ shard' \in RemoteWorkers
           /\ shard'.id = shard.id /\ shard'.state = shard.state /\ shard'.seq = shard.seq
           /\ shard.running \ {u.rt} \subseteq shard'.running
           /\ shard'.unsure \subseteq shard.unsure
           /\ Here => Settled(u.rt)
    <2>1. CASE shard' # shard
      <3>1. shard # NoWorker /\ u.worker = shard.id /\ RecordNotRunning(u.rt)
        BY <2>1 DEF ReceiveUpdate, RecordUpdate
      <3>2. Here => Settled(u.rt)
        BY <3>1 DEF Core, Truthful, Here
      <3> QED
        BY <3>1, <3>2, TypeRecordNotRunning DEF TypeOK
    <2> QED
      BY <2>1
  <1> QED
    BY <1>1, <1>3, <1>5, <1>6, <1>7, CoreTasks

(* LoseWorker keeps the core of the invariant. *)
LEMMA CoreLoseWorker == ASSUME TypeOK, scheduler = 1, Core, LoseWorker PROVE Core'
  <1>1. UNCHANGED <<scheduler, worker, calls, polls, notifies, updates, beat, invocations>>
    BY DEF LoseWorker, messages
  <1>2. shard \in RemoteWorkers
    BY DEF TypeOK, LoseWorker
  <1>3. /\ shard' \in RemoteWorkers /\ shard'.id = shard.id /\ shard'.seq = shard.seq
        /\ shard'.state = "MUST_DIE" /\ shard'.unsure = {}
    BY <1>2 DEF LoseWorker, RemoteWorkers, States
  <1>4. Instances' /\ Fresh' /\ Invocations'
    BY <1>1, <1>2, <1>3 DEF Core, Instances, Fresh, Invocations, Here
  <1>5. Unique' /\ Sequence' /\ Asked'
    BY <1>1, <1>2, <1>3 DEF Core, Unique, Sequence, Asked, Here
  <1>6. Truthful' /\ CallsTracked' /\ Tracked'
    BY <1>1, <1>3 DEF Core, Truthful, Settled, CallsTracked, Tracked, Sent
  <1> QED
    BY <1>4, <1>5, <1>6 DEF Core

(* RestartWorker keeps the core of the invariant. *)
LEMMA CoreRestartWorker == ASSUME TypeOK, scheduler = 1, Core, RestartWorker PROVE Core'
  <1>1. UNCHANGED <<scheduler, shard, polls, notifies, updates, invocations>> /\ beat' = NoReply
    BY DEF RestartWorker, schedulerVars
  <1>2. /\ worker'.id = worker.id + 1 /\ worker'.scheduler = 0 /\ worker'.seq = 0
        /\ worker'.tasks = {} /\ worker'.notRunning = {}
    BY DEF RestartWorker, NewWorker
  <1>3. \A c \in calls' : /\ c.at # "admitted"
                          /\ \E d \in calls : c.rt = d.rt /\ c.seq = d.seq
    BY DEF RestartWorker, TypeOK, Calls
  <1>4. \A c \in calls', d \in calls' : c.rt.inv = d.rt.inv => c = d
    <2> DEFINE f(c) == IF c.at = "admitted" THEN [c EXCEPT !.at = "lost"] ELSE c
    <2>1. calls' = {f(c) : c \in calls}
      BY DEF RestartWorker
    <2>2. \A c \in calls : f(c).rt = c.rt
      BY DEF TypeOK, Calls
    <2> HIDE DEF f
    <2> QED
      BY <2>1, <2>2 DEF Core, Unique
  <1>5. /\ worker.id \in Nat
        /\ shard # NoWorker => shard.id \in Nat
        /\ \A c \in calls : c.rt.worker \in Nat
        /\ \A n \in notifies : n.worker \in Nat
        /\ \A u \in updates : u.worker \in Nat
    BY Types DEF TypeOK, RemoteWorkers, Calls, RunningTasks, Notifies, Updates
  <1>6. ~Here'
    <2>1. shard # NoWorker => shard.id <= worker.id
      BY DEF Core, Instances
    <2>2. shard' = shard /\ worker'.id = worker.id + 1
      BY <1>1, <1>2
    <2> QED
      BY <1>5, <2>1, <2>2 DEF Here
  <1>7. Instances'
    BY <1>1, <1>2, <1>3, <1>5 DEF Core, Instances
  <1>8. \A c \in calls' : c.rt.worker # worker'.id
    BY <1>2, <1>3, <1>5 DEF Core, Instances
  <1>9. Fresh' /\ Invocations'
    BY <1>1, <1>2, <1>3, <1>8 DEF Core, Fresh, Invocations
  <1>10. Unique'
    BY <1>2, <1>4 DEF Unique
  <1>11. Sequence' /\ Asked'
    BY <1>1, <1>2, <1>6, <1>8 DEF Core, Sequence, Asked
  <1>12. Truthful'
    BY <1>1, <1>2, <1>8 DEF Truthful, Settled
  <1>13. CallsTracked' /\ Tracked'
    BY <1>6 DEF CallsTracked, Tracked, Here
  <1> QED
    BY <1>7, <1>9, <1>10, <1>11, <1>12, <1>13 DEF Core

(* Every step of the first scheduler's life keeps the core of the invariant. *)
LEMMA CoreNext ==
  ASSUME TypeOK, Owner, scheduler = 1 => Core, [Next]_vars PROVE scheduler' = 1 => Core'
  <1> SUFFICES ASSUME scheduler' = 1 PROVE Core'
    OBVIOUS
  <1>1. CASE RestartScheduler
    BY <1>1, Types DEF RestartScheduler
  <1>2. CASE SchedulerStep
    <2>1. scheduler' = scheduler
      BY <1>2 DEF SchedulerStep, ProcessHeartbeat, FetchRunningTasks, LoseWorker, CheckUnsure,
         InitializeRunningTasks, RunTask, CannotSend, CallSucceeds, CallIsRefused, CallFails,
         SendNotify, NotifySucceeds, ReceiveUpdate, schedulerVars
    <2> QED
      BY <1>2, <2>1, CoreProcessHeartbeat, CoreFetchRunningTasks, CoreLoseWorker,
         CoreCheckUnsure, CoreInitializeRunningTasks, CoreRunTask, CoreCannotSend,
         CoreCallSucceeds, CoreCallIsRefused, CoreCallFails, CoreSendNotify,
         CoreNotifySucceeds, CoreReceiveUpdate DEF SchedulerStep
  <1>3. CASE WorkerStep
    <2>1. scheduler' = scheduler
      BY <1>3 DEF WorkerStep, ReceiveHeartbeat, SendUpdate, GetRunningTasks, AdmitTask,
         StartTask, ReceiveNotify, EndTask, Acknowledge, schedulerVars
    <2> QED
      BY <1>3, <2>1, CoreReceiveHeartbeat, CoreSendUpdate, CoreGetRunningTasks, CoreAdmitTask,
         CoreStartTask, CoreReceiveNotify, CoreEndTask, CoreAcknowledge DEF WorkerStep
  <1>4. CASE RestartWorker
    BY <1>4, CoreRestartWorker DEF RestartWorker, schedulerVars
  <1>5. CASE UNCHANGED vars
    BY <1>5, CoreSameState DEF vars
  <1> QED
    BY <1>1, <1>2, <1>3, <1>4, <1>5 DEF Next

(* Initially nothing runs and nothing is under way. *)
LEMMA InitIInv == Init => IInv
  <1> SUFFICES ASSUME Init PROVE IInv
    OBVIOUS
  <1>1. TypeOK
    BY TypeInit
  <1>2. /\ shard = NoWorker /\ calls = {} /\ polls = {} /\ notifies = {} /\ updates = {}
        /\ lists = {} /\ beat = NoReply
        /\ worker.id = 1 /\ worker.scheduler = 0 /\ worker.seq = 0
        /\ worker.tasks = {} /\ worker.notRunning = {}
    BY DEF Init, NewWorker
  <1>3. Owner
    BY <1>2 DEF Owner
  <1>4. Instances /\ Fresh /\ Invocations /\ Unique /\ Sequence /\ Asked /\ Truthful
    BY <1>2 DEF Instances, Fresh, Invocations, Unique, Sequence, Asked, Truthful, Here
  <1>5. CallsTracked /\ Tracked
    BY <1>2 DEF CallsTracked, Tracked, Here
  <1> QED
    BY <1>1, <1>3, <1>4, <1>5 DEF IInv, Core

(* The invariant is inductive. *)
LEMMA NextIInv == IInv /\ [Next]_vars => IInv'
  BY TypeNext, OwnerNext, CoreNext DEF IInv

(* The state of both sides and every message keep their types. *)
THEOREM TypesAreKept == Spec => []TypeOK
  <1>1. IInv => TypeOK
    BY DEF IInv
  <1> QED
    BY <1>1, InitIInv, NextIInv, PTL DEF Spec

(* However calls are delayed, reordered, lost or given up, and however often *)
(* the worker restarts, the first scheduler's RemoteWorker knows every task  *)
(* that its worker is running: the sequence numbers of                       *)
(* notifyIfTasksNotRunning keep a late runTask from starting one.            *)
THEOREM WorkerIsTracked == Spec => []TracksWorker
  <1>1. IInv => TracksWorker
    BY DEF IInv, Core, TracksWorker
  <1> QED
    BY <1>1, InitIInv, NextIInv, PTL DEF Spec

-----------------------------------------------------------------------------
(* The two lists of the scheduler change together. *)
LEMMA CoverRecordNotRunning ==
  ASSUME StatusesCoverWorker, shard \in RemoteWorkers, NEW rt, RecordNotRunning(rt)
  PROVE  StatusesCoverWorker'
  <1>1. CASE shard' = shard /\ statuses' = statuses
    BY <1>1 DEF StatusesCoverWorker
  <1>2. CASE /\ shard' = [shard EXCEPT !.running = @ \ {rt}, !.unsure = @ \ Of(rt.task, @)]
             /\ statuses' = statuses \ {rt}
    <2>1. shard'.running = shard.running \ {rt}
      BY <1>2 DEF RemoteWorkers
    <2> QED
      BY <1>2, <2>1 DEF StatusesCoverWorker
  <1> QED
    BY <1>1, <1>2 DEF RecordNotRunning, Fail

(* recordFailedTask likewise. *)
LEMMA CoverRecordFailedTask ==
  ASSUME StatusesCoverWorker, shard \in RemoteWorkers, NEW rt, RecordFailedTask(rt)
  PROVE  StatusesCoverWorker'
  BY CoverRecordNotRunning DEF RecordFailedTask, Fail, StatusesCoverWorker

(* Every step keeps TaskStatuses ahead of the RemoteWorker. *)
LEMMA CoverNext ==
  ASSUME TypeOK, Owner, StatusesCoverWorker, [Next]_vars PROVE StatusesCoverWorker'
  <1> USE DEF StatusesCoverWorker
  <1>1. CASE ProcessHeartbeat
    BY <1>1 DEF ProcessHeartbeat, NewRemoteWorker
  <1>2. CASE FetchRunningTasks \/ CheckUnsure
    BY <1>2 DEF FetchRunningTasks, CheckUnsure, schedulerVars
  <1>3. CASE LoseWorker
    <2>1. shard'.running = {}
      BY <1>3 DEF LoseWorker, TypeOK, RemoteWorkers
    <2> QED
      BY <2>1
  <1>4. ASSUME NEW l \in lists, InitializeRunningTasks(l) PROVE StatusesCoverWorker'
    <2>1. CASE shard' = shard
      BY <1>4, <2>1 DEF InitializeRunningTasks, Fail
    <2>2. CASE shard' # shard
      <3>1. /\ l.scheduler = scheduler
            /\ shard' = [shard EXCEPT !.state = "UP", !.running = l.tasks]
            /\ statuses' = statuses \cup l.tasks
        BY <1>4, <2>2 DEF InitializeRunningTasks, Fail
      <3>2. shard \in RemoteWorkers
        BY <3>1 DEF TypeOK, Owner
      <3>3. shard'.running = l.tasks
        BY <3>1, <3>2 DEF RemoteWorkers
      <3> QED
        BY <3>1, <3>3
    <2> QED
      BY <2>1, <2>2
  <1>5. ASSUME NEW t \in Tasks, RunTask(t) PROVE StatusesCoverWorker'
    <2> DEFINE rt == [task |-> t, inv |-> invocations + 1, worker |-> shard.id]
    <2>1. CASE shard' = shard /\ statuses' = statuses
      BY <2>1
    <2>2. CASE /\ shard' = [shard EXCEPT !.running = @ \cup {rt}]
               /\ statuses' = statuses \cup {rt}
      <3>1. shard \in RemoteWorkers /\ shard # NoWorker
        BY <1>5 DEF RunTask, TypeOK
      <3> HIDE DEF rt
      <3>2. shard'.running = shard.running \cup {rt}
        BY <2>2, <3>1 DEF RemoteWorkers
      <3> QED
        BY <2>2, <3>1, <3>2
    <2> QED
      BY <1>5, <2>1, <2>2 DEF RunTask, Fail
  <1>6. ASSUME NEW c \in calls, CannotSend(c) PROVE StatusesCoverWorker'
    BY <1>6, WaitingHasShard, CoverRecordFailedTask DEF CannotSend
  <1>7. ASSUME NEW c \in calls, CallIsRefused(c) PROVE StatusesCoverWorker'
    BY <1>7, WaitingHasShard, CoverRecordFailedTask DEF CallIsRefused, Owner
  <1>8. ASSUME NEW c \in calls, CallFails(c) PROVE StatusesCoverWorker'
    BY <1>8, CallFailsEffect DEF CallFails, Fail
  <1>9. ASSUME NEW p \in polls, SendNotify(p) PROVE StatusesCoverWorker'
    BY <1>9, SendNotifyEffect DEF SendNotify
  <1>10. ASSUME NEW n \in notifies, NotifySucceeds(n) PROVE StatusesCoverWorker'
    BY <1>10, NotifySucceedsEffect DEF NotifySucceeds
  <1>11. ASSUME NEW u \in updates, ReceiveUpdate(u) PROVE StatusesCoverWorker'
    BY <1>11, CoverRecordNotRunning DEF ReceiveUpdate, RecordUpdate, TypeOK
  <1>12. CASE RestartScheduler
    BY <1>12 DEF RestartScheduler
  <1>13. CASE (\E c \in calls : CallSucceeds(c)) \/ WorkerStep \/ RestartWorker
    BY <1>13 DEF CallSucceeds, WorkerStep, ReceiveHeartbeat, SendUpdate, GetRunningTasks,
       AdmitTask, StartTask, ReceiveNotify, EndTask, Acknowledge, RestartWorker, schedulerVars
  <1>14. CASE UNCHANGED vars
    BY <1>14 DEF vars
  <1> QED
    BY <1>1, <1>2, <1>3, <1>4, <1>5, <1>6, <1>7, <1>8, <1>9, <1>10, <1>11, <1>12, <1>13,
       <1>14 DEF Next, SchedulerStep

(* Every running task of a RemoteWorker is a running task of TaskStatuses,  *)
(* so that the scheduling loop does not start it again.                     *)
THEOREM StatusesCoverTheWorker == Spec => []StatusesCoverWorker
  <1>1. Init => StatusesCoverWorker
    BY DEF Init, StatusesCoverWorker
  <1>2. IInv /\ StatusesCoverWorker /\ [Next]_vars => StatusesCoverWorker'
    BY CoverNext DEF IInv
  <1> QED
    BY <1>1, <1>2, InitIInv, NextIInv, PTL DEF Spec
=============================================================================
