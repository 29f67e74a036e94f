--------------------------- MODULE WorkerSelection ---------------------------
(***************************************************************************)
(* Which worker runs a task: the resources RemoteWorkerRunner::updateConfig  *)
(* computes for every worker, and the two RemoteWorkerSelectors.             *)
(*                                                                          *)
(* A worker (BistroWorker) has shard, host, hostport, ram, cpus, and gpus:   *)
(* the worker resources its cards count for, the "GPU: <model>" of each.     *)
(* A configuration also has                                                 *)
(*   selector   "roundrobin" or "busiest", with a weight per resource        *)
(*   physical   sequence of [physical, logical, multiply, reserve]           *)
(*   overrides  hostport, host or shard -> resource -> amount                *)
(* A pool is [order, next]: the order of an unordered_map, and nextShard_.   *)
(***************************************************************************)
EXTENDS Scheduling

AllWorkers == "all"      \* workerPool_, beside the pools of every host

WorkerResources(config) == ResourcesAt(config, WorkerLevel(config))

PhysicalAmount(worker, physical) ==
  CASE physical = "ram_mb" -> worker.ram
    [] physical = "cpu_core" -> worker.cpus
    [] physical = "gpu_card" -> Len(worker.gpus)

\* physicalToLogicalResource: truncates, and nothing is ever negative.
PhysicalToLogical(prc, amount) ==
  IF amount < prc.reserve THEN 0 ELSE (amount - prc.reserve) \div prc.multiply

\* One entry of physical_resources: an amount of 0 is "not available" and
\* keeps the default; every card also counts for the resource of its model.
ApplyPhysical(config, worker, capacity, prc) ==
  LET amount == PhysicalAmount(worker, prc.physical)
      cards(r) == IF prc.physical = "gpu_card"
                  THEN Cardinality({i \in DOMAIN worker.gpus : worker.gpus[i] = r}) ELSE 0
      base == IF amount = 0 THEN capacity
              ELSE [capacity EXCEPT ![prc.logical] = PhysicalToLogical(prc, amount)]
  IN [r \in DOMAIN capacity |-> base[r] + cards(r)]

\* worker_resources_override: hostport, else host, else shard
OverrideOf(config, worker) ==
  LET keys == <<worker.hostport, worker.host, worker.shard>>
      known == {i \in DOMAIN keys : keys[i] \in DOMAIN config.overrides}
  IN IF known = {} THEN <<>> ELSE config.overrides[keys[Min(known)]]

WorkerCapacity(config, worker) ==
  LET after[i \in 0..Len(config.physical)] ==
        IF i = 0 THEN config.limits[WorkerLevel(config)]
        ELSE ApplyPhysical(config, worker, after[i - 1], config.physical[i])
      measured == after[Len(config.physical)]
      override == OverrideOf(config, worker)
  IN [r \in DOMAIN measured |-> IF r \in DOMAIN override THEN override[r] ELSE measured[r]]

\* RemoteWorkerRunner::updateConfig: what is left on every known worker
UpdateWorkerResources(config, workers, running) ==
  [w \in DOMAIN workers |->
     [r \in WorkerResources(config) |->
        WorkerCapacity(config, workers[w])[r]
          - UsedOf({t \in running : t.shard = w}, w, r)]]

-----------------------------------------------------------------------------
(* The selectors.  A worker that joined after updateConfig has no resources.  *)

\* jobCanRunOnWorker and the resource check
TaskFitsWorker(config, job, worker, left) ==
  /\ DoesPass(job.filters[WorkerLevel(config)], worker.host)
  /\ worker.shard \in DOMAIN left
  /\ \A r \in WorkerResources(config) : job.needs[r] <= left[worker.shard][r]

ChargeWorker(config, job, left, w) ==
  [left EXCEPT ![w] = [r \in DOMAIN @ |-> @[r] - job.needs[r]]]

\* Where getNextWorker starts, and nextShard_ after it was called k times
StartIndex(pool) ==
  IF \E i \in DOMAIN pool.order : pool.order[i] = pool.next
  THEN CHOOSE i \in DOMAIN pool.order : pool.order[i] = pool.next ELSE 1

\* Mutant of WorkerAfter: the search never gets to the last worker.
WorkerAfterStuck(pool, k) ==
  pool.order[((StartIndex(pool) - 1 + Min({k, Len(pool.order) - 2})) % Len(pool.order)) + 1]

WorkerAfter(pool, k) == pool.order[((StartIndex(pool) - 1 + k) % Len(pool.order)) + 1]

\* What findWorker may answer: the response, the worker, and the new nextShard_
Answer(response, shard, next) == [response |-> response, shard |-> shard, next |-> next]

RoundRobinFind(config, job, workers, healthy, left, pool) ==
  LET size == Len(pool.order)
      usable == {k \in 0..(size - 1) : WorkerAfter(pool, k) \in healthy
                   /\ TaskFitsWorker(config, job, workers[WorkerAfter(pool, k)], left)}
  IN IF size = 0 THEN {Answer("DoNotRunMoreTasks", NoHost, pool.next)}
     ELSE IF usable # {}
     THEN {Answer("RanTask", WorkerAfter(pool, Min(usable)), WorkerAfter(pool, Min(usable) + 1))}
     ELSE {Answer(IF Range(pool.order) \cap healthy = {}
                  THEN "DoNotRunMoreTasks" ELSE "DidNotRunTask",
                  NoHost, WorkerAfter(pool, 1))}

\* The worker that is left with the least weight, any of those
BusiestFind(config, job, workers, healthy, left, pool) ==
  LET seen == Range(pool.order) \cap healthy \cap DOMAIN left
      usable == {w \in seen : TaskFitsWorker(config, job, workers[w], left)}
      weight(w) == SumFunction([r \in WorkerResources(config) |->
                                  (left[w][r] - job.needs[r]) * config.weights[r]])
  IN IF usable # {}
     THEN {Answer("RanTask", w, pool.next) :
             w \in {v \in usable : \A x \in usable : weight(v) <= weight(x)}}
     ELSE {Answer(IF seen = {} THEN "DoNotRunMoreTasks" ELSE "DidNotRunTask",
                  NoHost, pool.next)}

\* A host without workers gets an empty pool.
PoolFor(pools, host) ==
  IF host = NoHost THEN pools[AllWorkers]
  ELSE IF host \in DOMAIN pools THEN pools[host] ELSE [order |-> <<>>, next |-> NoHost]

WithPool(pools, host, pool) ==
  [h \in DOMAIN pools \cup {host} |-> IF h = host THEN pool ELSE pools[h]]

FindWorker(config, job, node, workers, healthy, left, pools) ==
  LET pool == PoolFor(pools, RequiredHostForTask(job, node))
  IN IF config.selector = "busiest"
     THEN BusiestFind(config, job, workers, healthy, left, pool)
     ELSE RoundRobinFind(config, job, workers, healthy, left, pool)
=============================================================================
