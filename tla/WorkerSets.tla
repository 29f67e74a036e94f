------------------------------ MODULE WorkerSets ------------------------------
(***************************************************************************)
(* The worker set consensus (RemoteWorkers, README.worker_set_consensus).   *)
(* The scheduler versions the set of workers that are not lost, the workers *)
(* echo the last version they were sent, and after a restart the scheduler  *)
(* may leave its initial wait early when the echoes agree.                  *)
(*                                                                          *)
(* Time is abstracted: whether a worker looks fresh, stale or lost is a     *)
(* choice.  A WorkerSetHash is the set it hashes (no collisions).           *)
(***************************************************************************)
EXTENDS Integers, FiniteSets, SequencesExt, Functions, TLC

CONSTANTS
  Instances,       \* worker instances, each started once
  ShardOf,         \* the shard of an instance
  LockOf,          \* its machineLock: hostname and port
  StartTime,       \* its start time
  AllowBump,       \* --allow_bump_unhealthy_worker
  Partitions,      \* may a worker that runs look stale?
  AfterLoss,       \* may a lost worker live, and its heartbeats arrive?
  MaxSchedulers,   \* bound on the scheduler instances
  MaxDeaths,       \* bound on the workers that die
  MaxLate,         \* bound on the heartbeats delayed at one time
  MayBeLate        \* the instances whose heartbeats are delayed

VARIABLES
  rw,        \* the RemoteWorkers of the current scheduler
  process,   \* the worker processes: "off", "up" or "dead"
  known,     \* BistroWorkerHandler::schedulerState_.workerSetID of each
  late,      \* heartbeats that arrive after their caller gave up
  tasked     \* instances that were given tasks

vars == <<rw, process, known, late, tasked>>

States == {"NEW", "HEALTHY", "UNHEALTHY", "MUST_DIE"}
Shards == Range(ShardOf)
Versions == 0..(2 * Cardinality(Instances))
WorkerSetIDs == [schedulerID : 0..MaxSchedulers, version : Versions, set : SUBSET Instances]

\* The default WorkerSetID of a worker, which no scheduler sends; also folly::none.
NoID == [schedulerID |-> 0, version |-> 0, set |-> {}]
NoShard == "none"

RemoteWorkers ==
  [id : Instances, state : States, hasBeenHealthy : BOOLEAN,
   initial : WorkerSetIDs,    \* initialWorkerSetID_
   echoed : WorkerSetIDs,     \* workerSetID_
   first : WorkerSetIDs,      \* firstAssociatedWorkerSetID_
   indirect : WorkerSetIDs]   \* indirectWorkerSetID_

HistorySteps == [removed : Shards \cup {NoShard}, added : SUBSET Shards]

\* The type invariant.  Versions stay within their bound because every instance is
\* added to the worker set once and removed from it at most once.
TypeOK ==
  /\ rw.schedulerID \in 1..MaxSchedulers
  /\ rw.inInitialWait \in BOOLEAN /\ rw.ok \in BOOLEAN
  /\ rw.nonMustDie \in WorkerSetIDs
  /\ DOMAIN rw.pool \subseteq Shards
  /\ \A s \in DOMAIN rw.pool : rw.pool[s] \in RemoteWorkers
  /\ DOMAIN rw.history \subseteq Versions
  /\ \A v \in DOMAIN rw.history : rw.history[v] \in HistorySteps
  /\ rw.indirectVersions \subseteq Versions \X Shards
  /\ process \in [Instances -> {"off", "up", "dead"}]
  /\ known \in [Instances -> WorkerSetIDs]
  /\ late \subseteq Instances \X WorkerSetIDs
  /\ tasked \subseteq Instances

\* The constructor of RemoteWorkers.
NewScheduler(id) ==
  [schedulerID |-> id, inInitialWait |-> TRUE, ok |-> TRUE,
   nonMustDie |-> [NoID EXCEPT !.schedulerID = id],
   pool |-> <<>>, history |-> <<>>, indirectVersions |-> {}]

Init ==
  /\ rw = NewScheduler(1)
  /\ process = [i \in Instances |-> "off"]
  /\ known = [i \in Instances |-> NoID]
  /\ late = {} /\ tasked = {}

------------------------------------------------------------------------------
(* Operations of RemoteWorkers and RemoteWorker on the scheduler's state.  A  *)
(* CHECK that fails makes ok false: the scheduler aborts.                     *)

\* WorkerSetIDEarlierThan, for versions less than 2^63 apart.
EarlierThan(a, b) == a < b

NonMustDieShards(st) == {s \in DOMAIN st.pool : st.pool[s].state # "MUST_DIE"}

\* The worker set changes: a new version and its step of history.
NextVersion(st, set, step) ==
  LET version == st.nonMustDie.version + 1
  IN  [st EXCEPT !.nonMustDie.version = version, !.nonMustDie.set = set,
                 !.history = @ @@ (version :> step)]

\* The RemoteWorker constructor and its "new worker" callback.
NewWorker(st, i, id) ==
  LET s == ShardOf[i]
      w == [id |-> i, state |-> "NEW", hasBeenHealthy |-> FALSE, initial |-> id,
            echoed |-> NoID, first |-> NoID, indirect |-> NoID]
      added == NextVersion(st, st.nonMustDie.set \cup {i},
                           [removed |-> NoShard, added |-> {s}])
  IN  [added EXCEPT !.pool = (s :> w) @@ @]

\* The "dead worker" callback.
DeadWorker(st, s) ==
  LET w == st.pool[s]
      entry == <<w.indirect.version, s>>
      removed == NextVersion(st, st.nonMustDie.set \ {w.id},
                             [removed |-> s, added |-> {}])
  IN  IF w.indirect = NoID THEN removed
      ELSE [removed EXCEPT !.indirectVersions = @ \ {entry},
                           !.ok = @ /\ entry \in st.indirectVersions]

UpdateIndirectWorkerSetVersion(st, s, id) ==
  LET cur == st.pool[s].indirect
      old == IF cur = NoID THEN {} ELSE {<<cur.version, s>>}
      new == <<id.version, s>>
  IN  IF cur # NoID /\ ~EarlierThan(cur.version, id.version) THEN st
      ELSE [st EXCEPT !.pool[s].indirect = id,
                      !.indirectVersions = (@ \ old) \cup {new},
                      !.ok = /\ @
                             /\ old \subseteq st.indirectVersions
                             /\ new \notin st.indirectVersions \ old]

\* Mutant of ConsensusPermitsBecomingHealthy: the others need not require the worker.
ConsensusPermitsWhenAware(st, s) ==
  LET w == st.pool[s]
  IN  /\ w.echoed # NoID /\ w.echoed = st.nonMustDie
      /\ Cardinality(st.indirectVersions) = Cardinality(st.nonMustDie.set)
      /\ w.first # NoID

ConsensusPermitsBecomingHealthy(st, s) ==
  LET w == st.pool[s]
  IN  /\ w.echoed # NoID /\ w.echoed = st.nonMustDie
      /\ Cardinality(st.indirectVersions) = Cardinality(st.nonMustDie.set)
      /\ w.first # NoID
      /\ \A entry \in st.indirectVersions : ~EarlierThan(entry[1], w.first.version)

\* The CHECKs at its start.
ConsensusIsTracked(st) ==
  /\ Cardinality(st.nonMustDie.set) = Cardinality(NonMustDieShards(st))
  /\ Cardinality(st.nonMustDie.set) >= Cardinality(st.indirectVersions)

\* computeState of a worker that looks fresh, stale or lost.
ComputeState(w, permits, looks) ==
  CASE w.state = "MUST_DIE" \/ (looks = "lost" /\ w.state # "HEALTHY") -> "MUST_DIE"
    [] w.state = "NEW" /\ looks # "lost" -> "NEW"
    [] w.state \in {"HEALTHY", "UNHEALTHY"} /\ looks = "fresh"
       /\ (permits \/ w.hasBeenHealthy) -> "HEALTHY"
    [] OTHER -> "UNHEALTHY"

\* RemoteWorker::updateState.
UpdateWorker(st, s, permits, looks) ==
  LET w == st.pool[s]
      newState == ComputeState(w, permits, looks)
      base == IF newState = "MUST_DIE" /\ w.state # "MUST_DIE" THEN DeadWorker(st, s) ELSE st
  IN  [base EXCEPT !.pool[s].state = newState,
                   !.pool[s].hasBeenHealthy = @ \/ newState = "HEALTHY"]

\* RemoteWorker::updateCurrentWorker.
UpdateCurrentWorker(st, s, id, permits, looks) ==
  LET w == st.pool[s]
      ours == id.schedulerID = st.schedulerID
      old == w.initial.schedulerID = id.schedulerID /\ ~EarlierThan(w.initial.version, id.version)
      newer == w.echoed = NoID \/ EarlierThan(w.echoed.version, id.version)
      moved == UpdateIndirectWorkerSetVersion(st, s, id)
      echoed == [moved EXCEPT !.pool[s].echoed = id,
                              !.pool[s].first = IF @ = NoID THEN id ELSE @]
      same == [st EXCEPT !.ok = @ /\ (w.echoed.version = id.version => w.echoed = id)]
  IN  UpdateWorker(IF ~ours \/ old THEN st ELSE IF newer THEN echoed ELSE same,
                   s, permits, looks)

\* Does the heartbeat of instance i replace the current worker of its shard?
Replaces(st, i, permits, looks) ==
  LET w == st.pool[ShardOf[i]]
      state == ComputeState(w, permits, looks)
  IN  IF LockOf[w.id] # LockOf[i]
      THEN state = "MUST_DIE" \/ (AllowBump /\ state # "HEALTHY")
      ELSE StartTime[w.id] <= StartTime[i]

\* RemoteWorker::updateNewWorker.
UpdateNewWorker(st, i, id) ==
  LET s == ShardOf[i]
  IN  NewWorker(IF st.pool[s].state = "MUST_DIE" THEN st ELSE DeadWorker(st, s), i, id)

\* processHeartbeat of RemoteWorker answers unless it refuses the heartbeat.
Answers(st, i, looks) ==
  LET s == ShardOf[i]
  IN  s \in DOMAIN st.pool /\ st.pool[s].id # i =>
        Replaces(st, i, ConsensusPermitsBecomingHealthy(st, s), looks)

\* Mutant of ProcessHeartbeat: every heartbeat is taken for that of a new instance.
ProcessHeartbeatAsNew(st, i, id, looks) ==
  IF ShardOf[i] \in DOMAIN st.pool THEN UpdateNewWorker(st, i, id) ELSE NewWorker(st, i, id)

\* processHeartbeat of RemoteWorkers and RemoteWorker.
ProcessHeartbeat(st, i, id, looks) ==
  LET s == ShardOf[i]
      base == IF s \in DOMAIN st.pool THEN st ELSE NewWorker(st, i, id)
      checked == [base EXCEPT !.ok = @ /\ ConsensusIsTracked(base)]
      permits == ConsensusPermitsBecomingHealthy(base, s)
  IN  CASE base.pool[s].id = i -> UpdateCurrentWorker(checked, s, id, permits, looks)
        [] base.pool[s].id # i /\ Replaces(st, i, permits, looks) ->
             UpdateNewWorker(checked, i, id)
        [] OTHER -> checked

------------------------------------------------------------------------------
(* The periodic pass *)

\* The shards that the history puts in the worker set of version v.
SetAt(history, v) ==
  {s \in Shards :
     \E a \in DOMAIN history :
       /\ a <= v /\ s \in history[a].added
       /\ \A r \in DOMAIN history : a < r /\ r <= v => history[r].removed # s}

\* The CHECKs of mergeHistoryStep: steps cancel and never repeat.
StepsCancel(history, v) ==
  \A u \in DOMAIN history : u <= v =>
    LET before == SetAt(history, u - 1)
        step == history[u]
    IN  /\ step.removed # NoShard => step.removed \in before
        /\ step.added \cap (before \ {step.removed}) = {}

\* Mutant of PruneUnusedHistoryVersions: workers that echoed nothing are not waited for.
PruneWithWorkersInLimbo(st) ==
  LET referenced == {st.pool[s].echoed.version : s \in
                       {t \in NonMustDieShards(st) : st.pool[t].echoed # NoID}}
      first == Min(referenced)
      merged == [removed |-> NoShard, added |-> SetAt(st.history, first)]
      kept == {v \in DOMAIN st.history : ~EarlierThan(v, first)}
  IN  IF referenced = {} THEN [st EXCEPT !.history = <<>>]
      ELSE [st EXCEPT !.history = (first :> merged) @@ Restrict(@, kept)]

PruneUnusedHistoryVersions(st) ==
  LET limbo == Cardinality(st.nonMustDie.set) - Cardinality(st.indirectVersions)
      referenced == {st.pool[s].echoed.version : s \in
                       {t \in NonMustDieShards(st) : st.pool[t].echoed # NoID}}
      first == Min(referenced)
      merged == [removed |-> NoShard, added |-> SetAt(st.history, first)]
      kept == {v \in DOMAIN st.history : ~EarlierThan(v, first)}
  IN  CASE limbo > 0 -> st
        [] limbo <= 0 /\ referenced = {} ->
             [st EXCEPT !.history = <<>>, !.ok = @ /\ limbo = 0 /\ st.nonMustDie.set = {}]
        [] limbo <= 0 /\ referenced # {} ->
             [st EXCEPT !.history = (first :> merged) @@ Restrict(@, kept),
                        !.ok = /\ @ /\ limbo = 0
                               /\ first \in DOMAIN st.history
                               /\ StepsCancel(st.history, first)]

\* One step of history: the workers whose indirect version is v get the highest
\* one of the workers in that version's set.
PropagateVersion(st, v) ==
  LET members == {s \in SetAt(st.history, v) : st.pool[s].indirect # NoID}
      top == Max({st.pool[s].indirect.version : s \in members})
      newID == (CHOOSE s \in members : st.pool[s].indirect.version = top)
      updated == {s \in Shards : <<v, s>> \in st.indirectVersions}
      moved == FoldLeft(LAMBDA acc, s :
                          UpdateIndirectWorkerSetVersion(acc, s, st.pool[newID].indirect),
                        st, SetToSeq(updated))
  IN  IF updated = {} THEN st
      ELSE IF members = {} THEN [st EXCEPT !.ok = FALSE]
      ELSE [moved EXCEPT !.ok = @ /\ \A s \in updated : moved.pool[s].indirect.version = top]

PropagateIndirectWorkerSets(st) ==
  LET referenced == {entry[1] : entry \in st.indirectVersions}
      steps == SelectSeq([v \in 1..st.nonMustDie.version |-> v], LAMBDA v : v \in DOMAIN st.history)
  IN  [FoldLeft(PropagateVersion, st, steps) EXCEPT
         !.ok = @ /\ referenced \subseteq DOMAIN st.history
                  /\ (referenced # {} => StepsCancel(st.history, Max(referenced)))]

\* Mutant of UpdateInitialWait: the initial sets are not compared with the pool.
UpdateInitialWaitOnAgreement(st, expired) ==
  LET workers == NonMustDieShards(st)
      consensus == /\ workers # {}
                   /\ \A s, t \in workers : st.pool[s].initial = st.pool[t].initial
      newWorkers == {s \in DOMAIN st.pool : st.pool[s].state = "NEW"}
  IN  [st EXCEPT !.inInitialWait = @ /\ ~((expired \/ consensus) /\ newWorkers = {})]

\* expired: the initial wait is over.
UpdateInitialWait(st, expired) ==
  LET workers == NonMustDieShards(st)
      consensus == /\ workers # {}
                   /\ \A s \in workers : /\ \A t \in workers : st.pool[s].initial = st.pool[t].initial
                                         /\ st.pool[s].initial.set = st.nonMustDie.set
      newWorkers == {s \in DOMAIN st.pool : st.pool[s].state = "NEW"}
  IN  [st EXCEPT !.inInitialWait = @ /\ ~((expired \/ consensus) /\ newWorkers = {})]

\* updateState of each worker of the pool, in the order of the hash table.
UpdateWorkers(st, order, looks) ==
  LET Visit(acc, s) == [UpdateWorker(acc, s, ConsensusPermitsBecomingHealthy(acc, s), looks[s])
                          EXCEPT !.ok = @ /\ ConsensusIsTracked(acc)]
  IN  FoldLeft(Visit, st, order)

------------------------------------------------------------------------------
(* The scheduler's actions *)

\* The pool's worker for this shard is the instance i.
IsCurrent(i) == ShardOf[i] \in DOMAIN rw.pool /\ rw.pool[ShardOf[i]].id = i
IsLost(i) == IsCurrent(i) /\ rw.pool[ShardOf[i]].state = "MUST_DIE"

\* A worker that its scheduler saw healthy dies before that scheduler loses it
\* (WorkerHealth), and any worker before the initial wait of a scheduler that it did
\* not join is over (WorkerSelfHealth).  That a worker that was never healthy is dead
\* when it is lost is an assumption, which README.worker_set_consensus makes as well:
\* without it, see AfterLoss.
Looks(w) ==
  {"fresh"} \cup {l \in {"stale"} : /\ w.state \in {"HEALTHY", "UNHEALTHY"}
                                    /\ Partitions \/ process[w.id] # "up"}
            \cup {l \in {"lost"} : /\ w.state # "MUST_DIE"
                                   /\ \/ process[w.id] # "up"
                                      \/ AfterLoss /\ ~w.hasBeenHealthy}

WaitMayExpire ==
  \A i \in Instances :
    process[i] = "up" => known[i].schedulerID \in {0, rw.schedulerID}

\* updateState, which the RemoteWorkerRunner thread calls under the workers lock.
\* The order of the pool shows only when a worker is lost.
UpdateState(expired) ==
  /\ rw.ok
  /\ expired => rw.inInitialWait /\ WaitMayExpire
  /\ LET ready == PropagateIndirectWorkerSets(PruneUnusedHistoryVersions(rw))
         shards == DOMAIN rw.pool
     IN  \E looks \in {f \in [shards -> UNION {Looks(rw.pool[s]) : s \in shards}] :
                       \A s \in shards : f[s] \in Looks(rw.pool[s])} :
         \E order \in IF "lost" \in Range(looks) THEN SetToSeqs(shards) ELSE {SetToSeq(shards)} :
           rw' = UpdateInitialWait(UpdateWorkers(ready, order, looks), expired)
  /\ UNCHANGED <<process, known, late, tasked>>

\* fetchRunningTasksForNewWorkers gets an answer: initializeRunningTasks.
InitializeRunningTasks(i) ==
  LET s == ShardOf[i]
  IN  /\ rw.ok /\ process[i] = "up"
      /\ IsCurrent(i) /\ rw.pool[s].state = "NEW"
      /\ rw' = [rw EXCEPT !.pool[s].state = "UNHEALTHY"]
      /\ UNCHANGED <<process, known, late, tasked>>

\* runTaskImpl: a task starts on a healthy worker.
RunTask(i) ==
  LET s == ShardOf[i]
  IN  /\ rw.ok /\ ~rw.inInitialWait /\ process[i] = "up" /\ i \notin tasked
      /\ IsCurrent(i) /\ rw.pool[s].state = "HEALTHY"
      /\ tasked' = tasked \cup {i}
      /\ UNCHANGED <<rw, process, known, late>>

\* The scheduler crashes or aborts, and a new instance starts.  The calls to the
\* old one end with its connections.
Restart ==
  /\ rw.schedulerID < MaxSchedulers
  /\ rw' = NewScheduler(rw.schedulerID + 1)
  /\ late' = {}
  /\ UNCHANGED <<process, known, tasked>>

(* The workers' actions *)

\* Workers with one machine lock exclude each other.
Start(i) ==
  /\ process[i] = "off"
  /\ \A j \in Instances \ {i} : LockOf[j] = LockOf[i] =>
       process[j] # "up" /\ (process[j] = "off" => StartTime[i] < StartTime[j])
  /\ process' = [process EXCEPT ![i] = "up"]
  /\ UNCHANGED <<rw, known, late, tasked>>

Die(i) ==
  /\ process[i] = "up"
  /\ Cardinality({j \in Instances : process[j] = "dead"}) < MaxDeaths
  /\ process' = [process EXCEPT ![i] = "dead"]
  /\ known' = [known EXCEPT ![i] = NoID]
  /\ UNCHANGED <<rw, late, tasked>>

\* What the worker of the shard of i may look like when i sends a heartbeat.
LooksOnHeartbeat(i) ==
  IF ShardOf[i] \in DOMAIN rw.pool THEN Looks(rw.pool[ShardOf[i]]) ELSE {"fresh"}

\* The answer to a heartbeat: the version never goes back.
Learn(i, res) ==
  LET older == /\ known[i].schedulerID = res.schedulerID
               /\ EarlierThan(res.version, known[i].version)
  IN  known' = [known EXCEPT ![i] = IF older THEN @ ELSE res]

\* heartbeat().  The thread handles the answer before it sends again, so they are
\* one step; the answer may be lost.
Heartbeat(i, lost) ==
  /\ rw.ok /\ process[i] = "up"
  /\ IsLost(i) => AfterLoss
  /\ \E looks \in LooksOnHeartbeat(i) :
       /\ rw' = ProcessHeartbeat(rw, i, known[i], looks)
       /\ IF lost \/ ~Answers(rw, i, looks) THEN UNCHANGED known
          ELSE Learn(i, rw'.nonMustDie)
  /\ UNCHANGED <<process, late, tasked>>

\* heartbeat(): the call times out, and the scheduler gets it later.
DelayHeartbeat(i) ==
  /\ process[i] = "up" /\ i \in MayBeLate /\ Cardinality(late) < MaxLate
  /\ late' = late \cup {<<i, known[i]>>}
  /\ UNCHANGED <<rw, process, known, tasked>>

LateHeartbeat(i, id) ==
  /\ rw.ok /\ <<i, id>> \in late
  /\ IsLost(i) => AfterLoss
  /\ \E looks \in LooksOnHeartbeat(i) : rw' = ProcessHeartbeat(rw, i, id, looks)
  /\ late' = late \ {<<i, id>>}
  /\ UNCHANGED <<process, known, tasked>>

Next ==
  \/ \E expired \in BOOLEAN : UpdateState(expired)
  \/ Restart
  \/ \E i \in Instances :
       \/ InitializeRunningTasks(i) \/ RunTask(i) \/ Start(i) \/ Die(i)
       \/ \E lost \in BOOLEAN : Heartbeat(i, lost)
       \/ DelayHeartbeat(i)
  \/ \E beat \in late : LateHeartbeat(beat[1], beat[2])

Spec == Init /\ [][Next]_vars

------------------------------------------------------------------------------
\* No CHECK of RemoteWorkers fails: every version that a worker can still refer to
\* is in the history, its steps cancel out, and the denormalized sets agree with
\* the pool, although the history is pruned while heartbeats are late, and workers
\* get lost and are replaced (pruneUnusedHistoryVersions, propagateIndirectWorkerSets).
ChecksHold == rw.ok

\* consensusPermitsBecomingHealthy holds a worker back until no set of workers
\* without it could convince a restarted scheduler that it is complete: whenever
\* the live workers of a set know just that set, all live workers with tasks are
\* in it, although the scheduler only has old echoes and a lower bound of what
\* the workers require.
NoConsensusWithoutTasked ==
  LET up == {i \in Instances : process[i] = "up"}
  IN  \A i \in up : LET set == known[i].set IN
        set # {} /\ set \subseteq up /\ (\A j \in set : known[j] = known[i]) =>
          tasked \cap up \subseteq set

\* A scheduler that starts tasks knows every live worker that has some and has
\* fetched them, although it may have left its initial wait early on the word of
\* the workers (updateInitialWait), unless a shard was taken over: members of an
\* old set are looked up by shard, and a worker then seems to require an instance
\* that it never heard of.
TaskedWorkersAreKnown ==
  LET takenOver == \E i, j \in Instances : /\ i # j /\ ShardOf[i] = ShardOf[j]
                                           /\ process[i] # "off" /\ process[j] # "off"
  IN  ~rw.inInitialWait /\ ~takenOver =>
        \A i \in tasked : process[i] = "up" =>
          IsCurrent(i) /\ rw.pool[ShardOf[i]].state # "NEW"
=============================================================================
