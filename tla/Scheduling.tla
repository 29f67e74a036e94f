------------------------------ MODULE Scheduling ------------------------------
(***************************************************************************)
(* The computation of one scheduling pass (scheduler/): which tasks may      *)
(* start, what is left of every node's resources, which running tasks are    *)
(* orphans, and in which order a policy tries the tasks.                     *)
(*                                                                          *)
(* A configuration (config/Config.h) is a record:                           *)
(*   enabled, numLevels, sources                                            *)
(*   limits      level -> resource -> amount, level numLevels + 1 = worker   *)
(*   jobs        name -> job                                                *)
(*   policy, killAfter (kill_orphan_tasks_after, or Never)                  *)
(* and a job (config/Job.h) is                                              *)
(*   canRun, level, needs (resource -> amount), priority, dependsOn,        *)
(*   filters (level -> filter), host, hostLevel, killAfter                  *)
(* A running task has job, node, shard, an invocation, and uses: its         *)
(* nodeResources, as entries [level, node, resource, amount] whose level     *)
(* nothing reads.                                                           *)
(***************************************************************************)
EXTENDS NodeFetching

CONSTANTS
  NoHost,     \* no host_placement
  NoLevel,    \* StringTable::NotFound for level_for_host_placement
  Never       \* an unset kill_orphan_tasks_after

WorkerLevel(config) == config.numLevels + 1
LevelsOf(config) == 0..WorkerLevel(config)

-----------------------------------------------------------------------------
(* Jobs and nodes (config/) *)

\* JobFilters::doesPass.  The hash of fraction_of_nodes, the regular
\* expressions and the tags come down to the set that a filter lets through.
DoesPass(filter, name) ==
  /\ filter.whitelist # {} => name \in filter.whitelist
  /\ name \notin filter.blacklist

ShouldRunOn(job, node) ==
  \A n \in TraverseUp(node) : n.enabled /\ DoesPass(job.filters[n.level], n.name)

RequiredHostForTask(job, node) ==
  LET above == {n \in TraverseUp(node) : n.level = job.hostLevel}
  IN IF job.host # NoHost THEN job.host
     ELSE IF above = {} THEN NoHost
     ELSE (CHOOSE n \in above : TRUE).name

-----------------------------------------------------------------------------
(* Resources.  A slot is a <<level, node name, resource>>; replicas, nodes   *)
(* of one name with different parents, share their slots.                   *)

ResourcesAt(config, level) == DOMAIN config.limits[level]

\* The levels that the configuration lacks make NodeGroups' at() throw.
NodesAreGrouped(config, nodes) == \A n \in nodes : LevelOf(n) \in LevelsOf(config)

PackResources(config, nodes) ==
  LET slots == UNION {{<<LevelOf(n), NameOf(n), r>> : r \in ResourcesAt(config, LevelOf(n))}
                      : n \in nodes}
  IN [s \in slots |-> config.limits[s[1]][s[3]]]

\* The slots a task on this node needs, and how much of each
SlotsFor(config, job, node) ==
  LET slots == UNION {{<<n.level, n.name, r>> : r \in ResourcesAt(config, n.level)}
                      : n \in TraverseUp(node)}
  IN [s \in slots |-> job.needs[s[3]]]

\* addNodeResourcesToRunningTask
NodeResources(config, job, level, name) ==
  {[level |-> level, node |-> name, resource |-> r, amount |-> job.needs[r]] :
     r \in ResourcesAt(config, level)}

\* TaskRunner::runTask, for the nodes of the task
TaskResources(config, job, node) ==
  UNION {NodeResources(config, job, n.level, n.name) : n \in TraverseUp(node)}

\* What the running tasks use of one resource of the nodes with this name
UsedOf(running, name, resource) ==
  SumFunction([t \in running |->
     SumFunction([u \in {v \in t.uses : v.node = name /\ v.resource = resource} |-> u.amount])])

\* processRunningTasks charges a name at the first node group that has it.
\* The order of the groups is that of an unordered_map: first chooses.
LevelsWith(nodes, name) == {LevelOf(n) : n \in {m \in nodes : NameOf(m) = name}}

FirstGroups(nodes) ==
  {first \in [{NameOf(n) : n \in nodes} -> {LevelOf(n) : n \in nodes}] :
     \A name \in DOMAIN first : first[name] \in LevelsWith(nodes, name)}

\* Mutant of ChargeRunning: running tasks use nothing.
ChargeRunningOfNone(packed, running, first) == packed

ChargeRunning(packed, running, first) ==
  [s \in DOMAIN packed |->
     IF first[s[2]] = s[1] THEN packed[s] - UsedOf(running, s[2], s[3]) ELSE packed[s]]

Orphans(config, nodes, running) ==
  {t \in running :
     ~ /\ \E n \in nodes : NameOf(n) = t.node /\ n[1].enabled
       /\ t.job \in DOMAIN config.jobs /\ config.jobs[t.job].canRun}

-----------------------------------------------------------------------------
(* The cross product of Scheduler::schedule: the nodes every job may try.    *)
(* status[job, node name] is the task's status.                              *)

IsEligible(config, status, j, node) ==
  /\ status[j, NameOf(node)] \notin {"running", "done", "failed", "backoff"}
  /\ ShouldRunOn(config.jobs[j], node)
  /\ \A d \in config.jobs[j].dependsOn : status[d, NameOf(node)] = "done"

JobsThatRun(config) == {j \in DOMAIN config.jobs : config.jobs[j].canRun}

JobWithNodes(config, nodes, status) ==
  [j \in JobsThatRun(config) |->
     {n \in AtLevel(nodes, config.jobs[j].level) : IsEligible(config, status, j, n)}]

-----------------------------------------------------------------------------
(* try_to_schedule, around the call of the task runner                       *)

Fits(left, need) == \A s \in DOMAIN need : need[s] <= left[s]

\* Mutant of Charge: what a task of this pass uses is not subtracted.
ChargeNothing(left, need) == left

Charge(left, need) ==
  [s \in DOMAIN left |-> IF s \in DOMAIN need THEN left[s] - need[s] ELSE left[s]]

-----------------------------------------------------------------------------
(* The policies.  A policy walks over the jobs in an order; it stays with a   *)
(* job until the job has no nodes left, and roundrobin and                   *)
(* randomized_priority also leave it when a task ran.  The node it tries is   *)
(* the last of the job's nodes, in whatever order the nodes came.            *)

Policies == {"roundrobin", "ranked_priority", "randomized_priority", "long_tail"}

\* The orders a shuffle may leave a set in
OrdersOf(S) == Bijection(1..Cardinality(S), S)

\* The jobs are shuffled, and then sorted by the policies that rank them.
JobOrders(config, todo) ==
  LET precedes(a, b) ==
        CASE config.policy = "ranked_priority" ->
               config.jobs[a].priority > config.jobs[b].priority
          [] config.policy = "long_tail" -> Cardinality(todo[a]) < Cardinality(todo[b])
          [] OTHER -> FALSE
  IN {o \in OrdersOf(DOMAIN todo) :
        \A i, k \in DOMAIN o : i < k => ~ precedes(o[k], o[i])}

\* discrete_distribution picks a job of priority 0 only when there is no other.
RandomPicks(config, todo) ==
  LET waiting == {j \in DOMAIN todo : todo[j] # {}}
      likely == {j \in waiting : config.jobs[j].priority > 0}
  IN IF likely # {} THEN likely ELSE waiting

\* The first job of the order, from position i and cyclically, that has nodes
Cyclically(order, todo, i) ==
  LET at(k) == order[((i - 1 + k) % Len(order)) + 1]
      k == Min({d \in 0..(Len(order) - 1) : todo[at(d)] # {}})
  IN at(k)

\* Mutant of NextJobs: roundrobin stays with a job after a start.
NextJobsOfOne(config, order, todo, j, ran) ==
  IF \A b \in DOMAIN todo : todo[b] = {} THEN {}
  ELSE IF j \in DOMAIN todo /\ todo[j] # {} THEN {j} ELSE {Cyclically(order, todo, 1)}

\* The jobs the policy may try next after a try of job j that ran, or did not.
\* j is NoHost before the first try.
NextJobs(config, order, todo, j, ran) ==
  LET pos == IF j \in DOMAIN todo THEN CHOOSE i \in DOMAIN order : order[i] = j ELSE 0
      stays == j \in DOMAIN todo /\ todo[j] # {}
               /\ (~ ran \/ config.policy \in {"ranked_priority", "long_tail"})
  IN IF \A b \in DOMAIN todo : todo[b] = {} THEN {}
     ELSE IF stays THEN {j}
     ELSE IF config.policy = "randomized_priority" THEN RandomPicks(config, todo)
     ELSE {Cyclically(order, todo, pos + 1)}
=============================================================================
