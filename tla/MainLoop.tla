------------------------------- MODULE MainLoop -------------------------------
(***************************************************************************)
(* Bistro::scheduleOnce, over and over: it takes the configuration and the   *)
(* nodes from their pollers, updates the workers' resources, computes a pass *)
(* from a snapshot of the statuses, lets the policy try tasks one by one     *)
(* (each try finds a worker and marks the task as running under the locks of *)
(* RemoteWorkerRunner), and kills tasks that have been orphans too long.     *)
(* Meanwhile tasks end, and workers join and change their health.  The       *)
(* pollers (Loaders) may serve any configuration, and the nodes of any, at   *)
(* any time.  Statuses are reduced to what the pass reads, and the workers to *)
(* their health; TaskStatuses and WorkerHealth have the rest.  The scheduler *)
(* is past its initial wait.                                                *)
(***************************************************************************)
EXTENDS WorkerSelection

CONSTANTS
  Workers,      \* shard -> BistroWorker
  LateWorkers,  \* the shards whose workers have yet to join
  AllJobs,      \* the jobs some configuration has
  Outcomes,     \* how tasks end, some of: done, failed, backoff
  MaxTime, MaxStarts, MaxFlaps   \* bounds

VARIABLES
  now,
  loop,       \* [pc, time, config, nodes] of the running scheduleOnce
  status,     \* <<job, node name>> -> what the cross product reads of it
  running,    \* the running tasks, as in TaskStatusSnapshot::runningTasks_
  pools,      \* workerPool_ and hostToWorkerPool_
  healthy,    \* the shards that are HEALTHY
  left,       \* NodeGroupToPackedResources of the pass
  workerLeft, \* workerResources_
  pass,       \* [order, todo, job, ran, orphans], and its history: todo at
              \* first (cands), the tasks started, and the tasks that no
              \* worker took, with the workers that were healthy (refused)
  killTimes,  \* orphanTaskIDToKillTime_, with the invocation it was set for
  killed,     \* the invocations that the last pass sent kill requests for
  crashed,    \* what ended the scheduler: an exception, a CHECK, or "no"
  starts, flaps

vars == <<now, loop, status, running, pools, healthy, left, workerLeft, pass,
          killTimes, killed, crashed, starts, flaps>>

ASSUME MainAssumption ==
  /\ IsFiniteSet(DOMAIN Workers)
  /\ \A s \in DOMAIN Workers :
       /\ Workers[s].shard = s
       /\ Workers[s].ram \in Int /\ Workers[s].cpus \in Int
       /\ Workers[s].gpus \in Seq(Range(Workers[s].gpus))
  /\ NoHost \notin AllJobs
  /\ Outcomes \subseteq {"done", "failed", "backoff"}

\* What Config and Job make sure of when they parse: a job is at a level, and
\* has an amount, if 0, of every resource.  Amounts are integers, and the
\* factor that multiplies logical resources is a positive one.
PhysicalResourceConfig(config) ==
  [physical : {"ram_mb", "cpu_core", "gpu_card"}, logical : WorkerResources(config),
   multiply : Nat \ {0}, reserve : Int]

ASSUME ConfigAssumption ==
  \A c \in Contents :
    LET config == ConfigOf[c]
    IN /\ config.numLevels \in Nat
       /\ config.sources \in Seq(Range(config.sources))
       /\ DOMAIN config.jobs \subseteq AllJobs /\ IsFiniteSet(DOMAIN config.jobs)
       /\ \A j \in DOMAIN config.jobs : config.jobs[j].level \in 0..config.numLevels
       /\ \A l \in LevelsOf(config) :
            /\ IsFiniteSet(ResourcesAt(config, l))
            /\ \A r \in ResourcesAt(config, l) :
                 /\ config.limits[l][r] \in Int
                 /\ \A j \in DOMAIN config.jobs : config.jobs[j].needs[r] \in Int
       /\ config.physical \in Seq(PhysicalResourceConfig(config))
       /\ \A w \in DOMAIN config.overrides : \A r \in DOMAIN config.overrides[w] :
            config.overrides[w][r] \in Int

Idle == [pc |-> "config", time |-> 0, config |-> NoHost, nodes |-> {}]
Config == ConfigOf[loop.config]
AllNodes == UNION {MayBeFetchedFrom(c) : c \in Contents}
NodeNames == {NameOf(n) : n \in UNION (AllNodes \ {FetchError})}
Tasks == AllJobs \X NodeNames
NoPass == [order |-> <<>>, todo |-> <<>>, job |-> NoHost, ran |-> FALSE, orphans |-> {},
           cands |-> <<>>, started |-> {}, refused |-> {}]

\* Pools of some order with these shards
PoolsOf(shards) ==
  LET hosts == {Workers[s].host : s \in shards}
      pool(order) == [order |-> order, next |-> NoHost]
      on(host) == {s \in shards : host = AllWorkers \/ Workers[s].host = host}
  IN {f \in [{AllWorkers} \cup hosts -> {pool(o) : o \in UNION {OrdersOf(x) : x \in SUBSET shards}}] :
        \A p \in DOMAIN f : Range(f[p].order) = on(p)}

Init ==
  /\ now = 0
  /\ loop = Idle
  /\ status = [t \in Tasks |-> "none"]
  /\ running = {}
  /\ pools \in PoolsOf(DOMAIN Workers \ LateWorkers)
  /\ healthy = DOMAIN Workers \ LateWorkers
  /\ left = <<>> /\ workerLeft = <<>> /\ pass = NoPass
  /\ killTimes = <<>> /\ killed = {} /\ crashed = "no"
  /\ starts = 0 /\ flaps = 0

At(pc) == crashed = "no" /\ loop.pc = pc

-----------------------------------------------------------------------------
(* scheduleOnce *)

\* A configuration that failed to load or is not enabled, and nodes that
\* failed to load, end the iteration.  The pollers serve anything, so that it
\* does not matter that nodes and configuration are read in two steps.
GetConfigAndNodes ==
  /\ At("config")
  /\ \E c \in Contents, nodes \in AllNodes \ {FetchError} :
       /\ ConfigOf[c].enabled
       /\ loop' = [pc |-> "update", time |-> now, config |-> c, nodes |-> nodes]
  /\ killed' = {}
  /\ UNCHANGED <<now, status, running, pools, healthy, left, workerLeft, pass,
                 killTimes, crashed, starts, flaps>>

KnownWorkers == [s \in Range(pools[AllWorkers].order) |-> Workers[s]]

UpdateConfig ==
  /\ At("update")
  /\ workerLeft' = UpdateWorkerResources(Config, KnownWorkers, running)
  /\ loop' = [loop EXCEPT !.pc = "schedule"]
  /\ UNCHANGED <<now, status, running, pools, healthy, left, pass,
                 killTimes, killed, crashed, starts, flaps>>

\* copySnapshot, and Scheduler::schedule up to the policy.  Any of the tasks
\* in backoff may be out of it by now (isInBackoff).
StartPass ==
  /\ At("schedule")
  /\ IF ~ NodesAreGrouped(Config, loop.nodes)
     THEN crashed' = "node level" /\ UNCHANGED <<loop, left, pass>>
     ELSE LET packed == PackResources(Config, loop.nodes)
          IN /\ \E first \in FirstGroups(loop.nodes) :
                  left' = ChargeRunning(packed, running, first)
             /\ \E over \in SUBSET {t \in Tasks : status[t] = "backoff"} :
                LET todo == JobWithNodes(Config, loop.nodes,
                              [t \in Tasks |-> IF t \in over THEN "none" ELSE status[t]])
                IN \E order \in JobOrders(Config, todo) :
                  pass' = [NoPass EXCEPT
                             !.order = order, !.todo = todo,
                             !.orphans = Orphans(Config, loop.nodes, running),
                             !.cands = todo]
             /\ loop' = [loop EXCEPT !.pc = "try"]
             /\ UNCHANGED crashed
  /\ UNCHANGED <<now, status, running, pools, healthy, workerLeft,
                 killTimes, killed, starts, flaps>>

\* What the policy does with the answer for node n of job j
Tried(j, n, ran, refused) ==
  [pass EXCEPT !.todo[j] = @ \ {n}, !.job = j, !.ran = ran,
               !.started = IF ran THEN @ \cup {<<j, n>>} ELSE @,
               !.refused = @ \cup refused]

DoesNotFit(j, n) ==
  /\ ~ Fits(left, SlotsFor(Config, Config.jobs[j], n))
  /\ pass' = Tried(j, n, FALSE, {})
  /\ UNCHANGED <<loop, status, running, pools, left, workerLeft, crashed, starts>>

\* The selector found no worker: the next task, or the end of the pass.
IsRefused(j, n, answer) ==
  /\ answer.response # "RanTask"
  /\ pass' = Tried(j, n, FALSE, {<<j, n, healthy>>})
  /\ loop' = IF answer.response = "DoNotRunMoreTasks" THEN [loop EXCEPT !.pc = "cut"] ELSE loop
  /\ UNCHANGED <<status, running, left, workerLeft, crashed, starts>>

\* The task is marked as running before the locks are released; a second
\* invocation of a running task fails a CHECK of TaskStatusSnapshot.
IsStarted(j, n, answer) ==
  LET job == Config.jobs[j]
      rt == [job |-> j, node |-> NameOf(n), shard |-> answer.shard, inv |-> starts,
             uses |-> TaskResources(Config, job, n)
                        \cup NodeResources(Config, job, WorkerLevel(Config), answer.shard)]
  IN /\ answer.response = "RanTask"
     /\ starts < MaxStarts
     /\ starts' = starts + 1
     /\ crashed' = IF status[j, NameOf(n)] = "running" THEN "second invocation" ELSE "no"
     /\ running' = running \cup {rt}
     /\ status' = [status EXCEPT ![<<j, NameOf(n)>>] = "running"]
     /\ left' = Charge(left, SlotsFor(Config, job, n))
     /\ workerLeft' = ChargeWorker(Config, job, workerLeft, answer.shard)
     /\ pass' = Tried(j, n, TRUE, {})
     /\ UNCHANGED loop

\* try_to_schedule on the job that the policy picks and one of its nodes
TryTask ==
  /\ At("try")
  /\ \E j \in NextJobs(Config, pass.order, pass.todo, pass.job, pass.ran) :
     \E n \in pass.todo[j] :
       \/ DoesNotFit(j, n)
       \/ /\ Fits(left, SlotsFor(Config, Config.jobs[j], n))
          /\ LET job == Config.jobs[j]
                 host == RequiredHostForTask(job, n)
             IN \E answer \in FindWorker(Config, job, n, KnownWorkers, healthy, workerLeft, pools) :
                  /\ \/ IsRefused(j, n, answer)
                     \/ IsStarted(j, n, answer)
                  /\ pools' = WithPool(pools, IF host = NoHost THEN AllWorkers ELSE host,
                                       [PoolFor(pools, host) EXCEPT !.next = answer.next])
  /\ UNCHANGED <<now, healthy, killTimes, killed, flaps>>

PassIsOver == At("try") /\ \A j \in DOMAIN pass.todo : pass.todo[j] = {}

\* The grace period and the kill time of an orphan
TaskOf(t) == <<t.job, t.node>>

KillAfter(t) ==
  IF t.job \in DOMAIN Config.jobs THEN Config.jobs[t.job].killAfter ELSE Config.killAfter

KillTime(t) ==
  IF TaskOf(t) \in DOMAIN killTimes THEN killTimes[TaskOf(t)]
  ELSE [time |-> loop.time + KillAfter(t), inv |-> t.inv]

\* Mutant of KillLater: kill times of tasks that are orphans no more stay.
KillLaterAndKeep(orphans) ==
  LET ids == {TaskOf(t) : t \in orphans}
  IN [id \in ids \cup DOMAIN killTimes |->
        IF id \in ids THEN KillTime(CHOOSE t \in orphans : TaskOf(t) = id) ELSE killTimes[id]]

KillLater(orphans) ==
  [id \in {TaskOf(t) : t \in orphans} |-> KillTime(CHOOSE t \in orphans : TaskOf(t) = id)]

\* The orphans of the pass's snapshot: those with a grace period get a kill
\* time, and keep it until they are orphans no more or the time has come.
KillOrphans ==
  LET orphans == {t \in pass.orphans : KillAfter(t) # Never}
      later == {t \in orphans : KillTime(t).time > loop.time}
  IN /\ PassIsOver \/ At("cut")
     /\ killTimes' = KillLater(later)
     /\ killed' = {t.inv : t \in orphans \ later}
     /\ loop' = Idle
     /\ left' = <<>> /\ pass' = NoPass
     /\ workerLeft' = <<>>     \* nothing reads it before the next UpdateConfig
     /\ UNCHANGED <<now, status, running, pools, healthy, crashed, starts, flaps>>

-----------------------------------------------------------------------------
(* Everyone else *)

EndTask(t, outcome) ==
  /\ crashed = "no"
  /\ running' = running \ {t}
  /\ status' = [status EXCEPT ![<<t.job, t.node>>] = outcome]
  /\ UNCHANGED <<now, loop, pools, healthy, left, workerLeft, pass,
                 killTimes, killed, crashed, starts, flaps>>

\* A worker's first heartbeat adds it to the pools, which may reorder them.
JoinWorker(s) ==
  LET host == Workers[s].host
  IN /\ crashed = "no"
     /\ s \notin Range(pools[AllWorkers].order)
     /\ \E all \in OrdersOf(Range(pools[AllWorkers].order) \cup {s}),
           local \in OrdersOf(Range(PoolFor(pools, host).order) \cup {s}) :
          pools' = WithPool(WithPool(pools, host, [PoolFor(pools, host) EXCEPT !.order = local]),
                            AllWorkers, [pools[AllWorkers] EXCEPT !.order = all])
     /\ UNCHANGED <<now, loop, status, running, healthy, left, workerLeft, pass,
                    killTimes, killed, crashed, starts, flaps>>

ChangeHealth(s) ==
  /\ crashed = "no"
  /\ flaps < MaxFlaps
  /\ s \in Range(pools[AllWorkers].order)
  /\ flaps' = flaps + 1
  /\ healthy' = IF s \in healthy THEN healthy \ {s} ELSE healthy \cup {s}
  /\ UNCHANGED <<now, loop, status, running, pools, left, workerLeft, pass,
                 killTimes, killed, crashed, starts>>

Tick ==
  /\ now < MaxTime
  /\ now' = now + 1
  /\ UNCHANGED <<loop, status, running, pools, healthy, left, workerLeft, pass,
                 killTimes, killed, crashed, starts, flaps>>

Next ==
  \/ Tick
  \/ GetConfigAndNodes \/ UpdateConfig \/ StartPass \/ TryTask \/ KillOrphans
  \/ \E t \in running, outcome \in Outcomes : EndTask(t, outcome)
  \/ \E s \in DOMAIN Workers : JoinWorker(s) \/ ChangeHealth(s)

Spec == Init /\ [][Next]_vars

-----------------------------------------------------------------------------
(* What some of the properties below ask of the configurations, the nodes and *)
(* the workers.  The code checks none of this.                               *)

\* No job frees resources by running.
NaturalNeeds ==
  \A c \in Contents : \A j \in DOMAIN ConfigOf[c].jobs :
    \A l \in LevelsOf(ConfigOf[c]) : \A r \in ResourcesAt(ConfigOf[c], l) :
      ConfigOf[c].jobs[j].needs[r] >= 0

\* A name is that of nodes of one level, or of a worker.
DistinctNames ==
  /\ \A nodes \in AllNodes \ {FetchError} : \A n, m \in nodes :
       NameOf(n) = NameOf(m) => LevelOf(n) = LevelOf(m)
  /\ NodeNames \cap DOMAIN Workers = {}

\* No two tasks of a job fit replicas of one node.
ReplicasExclude ==
  \A c \in Contents, nodes \in AllNodes \ {FetchError} : \A j \in JobsThatRun(ConfigOf[c]) :
    LET config == ConfigOf[c]
        level == config.jobs[j].level
    IN \A n, m \in AtLevel(nodes, level) : n # m /\ NameOf(n) = NameOf(m) =>
         \E r \in ResourcesAt(config, level) :
           config.limits[level][r] < 2 * config.jobs[j].needs[r]

-----------------------------------------------------------------------------
(* A task that is started overcommits no node above it and no worker         *)
(* (try_to_schedule, findWorker): with what all tasks use that run at that   *)
(* time, whatever configuration they were started under, every resource it   *)
(* draws on is within the limit of the configuration of the pass.            *)
StartedTasksFit ==
  [][\A t \in running' \ running : \A u \in t.uses :
       UsedOf(running', u.node, u.resource)
         <= IF u.level = WorkerLevel(Config)
            THEN WorkerCapacity(Config, Workers[t.shard])[u.resource]
            ELSE Config.limits[u.level][u.resource]]_vars

(* Replica nodes, which have one name and so one status, are tried one after *)
(* the other in a pass whose snapshot has neither running; where their       *)
(* shared resources leave room for one task only, the second is not started  *)
(* and updateStatus does not meet a second invocation.                       *)
ReplicasStartOnce == crashed # "second invocation"

(* When a pass is over and was not cut short, every task it might have       *)
(* started was started, or does not fit its nodes, or fits none of the       *)
(* workers that were healthy when it was tried.                              *)
PassIsMaximal ==
  PassIsOver =>
    \A j \in DOMAIN pass.cands : \A n \in pass.cands[j] :
      \/ <<j, n>> \in pass.started
      \/ ~ Fits(left, SlotsFor(Config, Config.jobs[j], n))
      \/ \E r \in pass.refused :
           /\ r[1] = j /\ r[2] = n
           /\ \A w \in r[3] \cap Range(PoolFor(pools, RequiredHostForTask(Config.jobs[j], n)).order) :
                ~ TaskFitsWorker(Config, Config.jobs[j], Workers[w], workerLeft)

(* What the policies promise of the order of starts: under roundrobin no job *)
(* gets two tasks ahead of a job that still has nodes to try; under          *)
(* ranked_priority and long_tail no job is tried while one that ranks higher *)
(* has nodes to try.                                                        *)
PolicyIsObeyed ==
  LET startsOf(j) == Cardinality({n \in pass.cands[j] : <<j, n>> \in pass.started})
      tried(j) == pass.todo[j] # pass.cands[j]
  IN \A a, b \in DOMAIN pass.todo : a # b /\ pass.todo[a] # {} =>
       /\ Config.policy = "roundrobin" => startsOf(b) <= startsOf(a) + 1
       /\ (Config.policy = "ranked_priority"
            /\ Config.jobs[a].priority > Config.jobs[b].priority) => ~ tried(b)
       /\ (Config.policy = "long_tail"
            /\ Cardinality(pass.cands[a]) < Cardinality(pass.cands[b])) => ~ tried(b)

(* orphanTaskIDToKillTime_ is keyed by job and node; a kill time that an     *)
(* orphan meets there was always set for the same invocation of the task, so *)
(* that an orphan is killed after its own grace period and no other's.       *)
OrphansGetTheirGrace ==
  \A t \in pass.orphans :
    <<t.job, t.node>> \in DOMAIN killTimes => killTimes[t.job, t.node].inv = t.inv
=============================================================================
