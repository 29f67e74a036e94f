------------------------------- MODULE PassProofs -----------------------------
(***************************************************************************)
(* What a pass of the scheduler starts, for any configuration, nodes and     *)
(* workers: no second replica of a task, and nothing that overcommits a node *)
(* or a worker.                                                              *)
(***************************************************************************)
EXTENDS ResourceProofs

(* The provers, in this order: most leaves are about sets and functions, which *)
(* is what Zenon does, and the rest needs arithmetic.                          *)
USE ZenonT(3), SMTT(20), ZenonT(20)

-----------------------------------------------------------------------------
(* Replicas *)

\* The node's own slots
LEMMA OwnSlots ==
  ASSUME NaturalNeeds, BasicInv, LeftInv, InPass, NEW j \in JobsThatRun(Config), NEW n \in loop.nodes,
         LevelOf(n) = Config.jobs[j].level, NEW r \in ResourcesAt(Config, Config.jobs[j].level)
  PROVE  LET need == SlotsFor(Config, Config.jobs[j], n)
             s == <<LevelOf(n), NameOf(n), r>>
         IN /\ s \in DOMAIN need /\ s \in SlotsOf(Config, loop.nodes)
            /\ need[s] = Config.jobs[j].needs[r] /\ Config.jobs[j].needs[r] \in Nat
<1>. DEFINE need == SlotsFor(Config, Config.jobs[j], n)
            s == <<LevelOf(n), NameOf(n), r>>
<1>1. loop.pc # "config" /\ NodesAreGrouped(Config, loop.nodes)
  BY DEF InPass, LeftInv
<1>2. n[1] \in TraverseUp(n)
  <2>1. n \in Seq(Range(n)) /\ Len(n) > 0
    BY <1>1, NodesAreFetched DEF BasicInv, RootedIn, WellMade
  <2>2. 1 \in DOMAIN n
    BY <2>1
  <2>. QED  BY <2>2 DEF TraverseUp, Range
<1>3. /\ need = [x \in DOMAIN need |-> Config.jobs[j].needs[x[3]]]
      /\ DOMAIN need \subseteq SlotsOf(Config, loop.nodes) /\ \A x \in DOMAIN need : need[x] \in Nat
      /\ \A m \in TraverseUp(n) : \A q \in ResourcesAt(Config, m.level) : <<m.level, m.name, q>> \in DOMAIN need
  BY <1>1, TaskSlots DEF BasicInv
<1>4. s = <<n[1].level, n[1].name, r>> /\ s[3] = r /\ n[1].level = Config.jobs[j].level
  BY DEF LevelOf, NameOf
<1>. HIDE DEF need, s
<1>5. s \in DOMAIN need
  BY <1>2, <1>3, <1>4
<1>6. need[s] = Config.jobs[j].needs[r]
  BY <1>3, <1>4, <1>5
<1>. QED
  BY <1>3, <1>5, <1>6 DEF need, s

\* A start takes what its replicas would need.
LEMMA ReplicaInvStart ==
  ASSUME NaturalNeeds, ReplicasExclude, BasicInv, ResourceInv, ReplicaInv,
         NEW j, NEW n, NEW answer, Starts(j, n, answer)
  PROVE  ReplicaInv'
<1>. DEFINE level == Config.jobs[j].level
            Crowded(i, m) == \E r \in ResourcesAt(Config, Config.jobs[i].level) :
                               left'[<<LevelOf(m), NameOf(m), r>>] < Config.jobs[i].needs[r]
<1>1. /\ loop' = loop /\ Config' = Config /\ InPass /\ loop.pc # "config" /\ j \in JobsThatRun(Config)
      /\ n \in pass.todo[j] /\ n \in loop.nodes /\ LevelOf(n) = level /\ pass' = Tried(j, n, TRUE, {})
      /\ loop.nodes \in AllNodes \ {FetchError} /\ loop.config \in Contents
  BY StartedFrame DEF BasicInv, LoopShape
<1>2. /\ status' = [status EXCEPT ![<<j, NameOf(n)>>] = "running"] /\ crashed = "no"
      /\ crashed' = IF status[<<j, NameOf(n)>>] = "running" THEN "second invocation" ELSE "no"
  BY DEF Starts, IsStarted
<1>3. /\ pass'.todo[j] = pass.todo[j] \ {n}
      /\ \A i \in JobsThatRun(Config) : i # j => pass'.todo[i] = pass.todo[i]
  BY <1>1, TriedPass DEF BasicInv
<1>4. status[<<j, NameOf(n)>>] # "running"
  <2>. SUFFICES ASSUME status[<<j, NameOf(n)>>] = "running"  PROVE FALSE
    OBVIOUS
  <2>1. PICK r \in ResourcesAt(Config, level) :
          left[<<LevelOf(n), NameOf(n), r>>] < Config.jobs[j].needs[r]
    BY <1>1, <1>2 DEF ReplicaInv
  <2>. DEFINE need == SlotsFor(Config, Config.jobs[j], n)
              s == <<LevelOf(n), NameOf(n), r>>
  <2>2. /\ s \in DOMAIN need /\ s \in SlotsOf(Config, loop.nodes)
        /\ need[s] = Config.jobs[j].needs[r] /\ Config.jobs[j].needs[r] \in Nat
    BY <1>1, OwnSlots DEF ResourceInv
  <2>3. need[s] <= left[s]
    BY <2>2 DEF Starts, Fits
  <2>4. left[s] \in Int
    BY <1>1, <2>2 DEF ResourceInv, LeftInv
  <2>5. left[s] < Config.jobs[j].needs[r]
    BY <2>1
  <2>. HIDE DEF need, s
  <2>. QED  BY <2>2, <2>3, <2>4, <2>5
<1>5. ASSUME NEW i \in JobsThatRun(Config), NEW m \in pass'.todo[i], status'[<<i, NameOf(m)>>] = "running"
      PROVE  Crowded(i, m)
  <2>1. m \in pass.todo[i] /\ m \in loop.nodes /\ LevelOf(m) = Config.jobs[i].level /\ <<i, NameOf(m)>> \in Tasks
    <3>1. m \in pass.todo[i]
      BY <1>3
    <3>. QED  BY <1>1, <3>1, TriedIsTask
  <2>2. CASE i = j /\ NameOf(m) = NameOf(n)
    <3>1. m # n
      BY <1>3, <2>2
    <3>2. n \in AtLevel(loop.nodes, level) /\ m \in AtLevel(loop.nodes, level)
      BY <1>1, <2>1, <2>2 DEF AtLevel
    <3>3. PICK r \in ResourcesAt(Config, level) : Config.limits[level][r] < 2 * Config.jobs[j].needs[r]
      <4>1. \A x, y \in AtLevel(loop.nodes, Config.jobs[j].level) : x # y /\ NameOf(x) = NameOf(y) =>
              \E r \in ResourcesAt(Config, Config.jobs[j].level) :
                Config.limits[Config.jobs[j].level][r] < 2 * Config.jobs[j].needs[r]
        BY <1>1, Zenon DEF ReplicasExclude, Config
      <4>. QED  BY <2>2, <3>1, <3>2, <4>1, Zenon
    <3>. DEFINE need == SlotsFor(Config, Config.jobs[j], n)
                s == <<LevelOf(n), NameOf(n), r>>
    <3>4. /\ s \in DOMAIN need /\ s \in SlotsOf(Config, loop.nodes)
          /\ need[s] = Config.jobs[j].needs[r] /\ Config.jobs[j].needs[r] \in Nat
      BY <1>1, OwnSlots DEF ResourceInv
    <3>5. left'[s] = left[s] - need[s]
      BY <3>4, LeftCharged DEF ResourceInv
    <3>6. left[s] \in Int /\ left[s] <= Config.limits[level][r]
      <4>1. s[1] = level /\ s[3] = r
        BY <1>1
      <4>. QED  BY <1>1, <3>4, <4>1 DEF ResourceInv, LeftInv
    <3>7. s = <<LevelOf(m), NameOf(m), r>>
      BY <1>1, <2>1, <2>2
    <3>8. Config.limits[level][r] \in Int
      <4>1. level \in LevelsOf(Config)
        BY <1>1 DEF ResourceInv, LeftInv, NodesAreGrouped
      <4>. QED  BY <1>1, <4>1, LimitsAreIntegers DEF BasicInv
    <3>. HIDE DEF need, s, level
    <3>9. left'[s] < Config.jobs[j].needs[r]
      BY <3>3, <3>4, <3>5, <3>6, <3>8
    <3>. QED  BY <2>2, <3>7, <3>9 DEF level
  <2>3. CASE ~ (i = j /\ NameOf(m) = NameOf(n))
    <3>1. <<i, NameOf(m)>> # <<j, NameOf(n)>>
      BY <2>3
    <3>2. status[<<i, NameOf(m)>>] = "running"
      BY <1>2, <1>5, <2>1, <3>1 DEF BasicInv, TasksInv
    <3>3. PICK r \in ResourcesAt(Config, Config.jobs[i].level) :
            left[<<LevelOf(m), NameOf(m), r>>] < Config.jobs[i].needs[r]
      BY <1>1, <1>2, <2>1, <3>2 DEF ReplicaInv
    <3>. DEFINE s == <<LevelOf(m), NameOf(m), r>>
    <3>4. s \in SlotsOf(Config, loop.nodes) /\ Config.jobs[i].needs[r] \in Nat
      BY <1>1, <2>1, OwnSlots DEF ResourceInv
    <3>5. left[s] \in Int /\ left'[s] \in Int /\ left'[s] <= left[s]
      BY <3>4, LeftCharged DEF ResourceInv
    <3>6. left[s] < Config.jobs[i].needs[r]
      BY <3>3
    <3>. HIDE DEF s
    <3>7. left'[s] < Config.jobs[i].needs[r]
      BY <3>4, <3>5, <3>6
    <3>. QED  BY <3>7 DEF s
  <2>. QED  BY <2>2, <2>3
<1>. QED
  BY <1>1, <1>2, <1>4, <1>5 DEF ReplicaInv

\* Every step keeps ReplicaInv.
LEMMA ReplicaInvNext ==
  ASSUME NaturalNeeds, ReplicasExclude, BasicInv, ResourceInv, ReplicaInv, [Next]_vars
  PROVE  ReplicaInv'
<1>1. ASSUME NEW j, NEW n, NEW answer, Starts(j, n, answer)  PROVE ReplicaInv'
  BY <1>1, ReplicaInvStart
<1>2. CASE StartPass /\ loop' # loop
  <2>1. /\ Config' = Config /\ status' = status /\ crashed' = crashed
    BY <1>2, PassStarts
  <2>2. PICK over \in SUBSET {t \in Tasks : status[t] = "backoff"} :
          pass'.todo = JobWithNodes(Config, loop.nodes,
                         [t \in Tasks |-> IF t \in over THEN "none" ELSE status[t]])
    BY <1>2, PassStarts
  <2>3. ASSUME NEW j \in JobsThatRun(Config), NEW n \in pass'.todo[j]
        PROVE  status[<<j, NameOf(n)>>] # "running"
    <3>1. /\ n \in AtLevel(loop.nodes, Config.jobs[j].level)
          /\ IsEligible(Config, [t \in Tasks |-> IF t \in over THEN "none" ELSE status[t]], j, n)
      BY <2>2 DEF JobWithNodes
    <3>2. [t \in Tasks |-> IF t \in over THEN "none" ELSE status[t]][<<j, NameOf(n)>>] # "running"
      BY <3>1 DEF IsEligible
    <3>3. <<j, NameOf(n)>> \in Tasks
      <4>1. loop.pc # "config"
        BY <1>2, PassStarts
      <4>2. j \in AllJobs /\ NameOf(n) \in NodeNames
        BY <3>1, <4>1, JobsAreKnown DEF BasicInv, AtLevel
      <4>. QED  BY <4>2 DEF Tasks
    <3>4. <<j, NameOf(n)>> \in over => status[<<j, NameOf(n)>>] = "backoff"
      BY <2>2
    <3>. QED  BY <3>2, <3>3, <3>4
  <2>. QED  BY <2>1, <2>3 DEF ReplicaInv
<1>3. CASE ~ InPass' /\ crashed' # "second invocation"
  BY <1>3 DEF ReplicaInv
<1>4. crashed' # "second invocation" \/ \E j, n, answer : Starts(j, n, answer)
  <2>1. crashed' \in {crashed, "no", "node level"} \/ TryTask
    BY RunningChanges
  <2>2. TryTask => crashed' = crashed \/ \E j, n, answer : Starts(j, n, answer)
    <3>. SUFFICES ASSUME TryTask  PROVE crashed' = crashed \/ \E j, n, answer : Starts(j, n, answer)
      OBVIOUS
    <3>1. PICK j \in JobsThatRun(Config) : \E n \in pass.todo[j] : Trying(j, n)
      BY TriesOne
    <3>2. PICK n \in pass.todo[j] : Trying(j, n)
      BY <3>1
    <3>3. loop.pc = "try" /\ crashed = "no"
      BY TriesOne
    <3>. QED  BY <3>2, <3>3 DEF Trying, DoesNotFit, IsRefused, Starts
  <2>. QED  BY <2>1, <2>2 DEF ReplicaInv
<1>5. CASE ChargesNothing /\ ~ \E j, n, answer : Starts(j, n, answer)
  <2>. SUFFICES ASSUME InPass', crashed' = "no", NEW j \in JobsThatRun(Config'), NEW n \in pass'.todo[j],
                       status'[<<j, NameOf(n)>>] = "running"
                PROVE  \E r \in ResourcesAt(Config', Config'.jobs[j].level) :
                         left'[<<LevelOf(n), NameOf(n), r>>] < Config'.jobs[j].needs[r]
    BY <1>3, <1>4, <1>5 DEF ReplicaInv
  <2>1. InPass /\ Config' = Config /\ left' = left
    BY <1>5 DEF ChargesNothing, InPass, Config
  <2>2. n \in pass.todo[j]
    <3>1. CASE pass' = pass
      BY <3>1
    <3>2. CASE TryTask
      <4>1. PICK i \in JobsThatRun(Config) : \E m \in pass.todo[i] : Trying(i, m)
        BY <3>2, TriesOne
      <4>2. PICK m \in pass.todo[i] : Trying(i, m)
        BY <4>1
      <4>3. loop.pc = "try"
        BY <3>2, TriesOne
      <4>4. PICK ran \in BOOLEAN, refused \in {{}, {<<i, m, healthy>>}} : pass' = Tried(i, m, ran, refused)
        BY <4>2, <4>3, TryingFrame DEF BasicInv
      <4>5. /\ pass'.todo[i] = pass.todo[i] \ {m}
            /\ \A k \in JobsThatRun(Config) : k # i => pass'.todo[k] = pass.todo[k]
        BY <2>1, <4>4, TriedPass DEF BasicInv
      <4>. QED  BY <2>1, <4>5
    <3>3. ~ StartPass /\ ~ KillOrphans /\ ~ GetConfigAndNodes /\ ~ UpdateConfig
      BY <2>1, WithinAPass
    <3>. QED
      BY <3>1, <3>2, <3>3 DEF Next, vars, Tick, EndTask, JoinWorker, ChangeHealth
  <2>3. crashed = "no"
    <3>1. \/ crashed' = crashed
          \/ crashed' = "node level"
          \/ TryTask
      BY RunningChanges
    <3>. QED  BY <3>1, TriesOne
  <2>4. status[<<j, NameOf(n)>>] = "running"
    <3>1. <<j, NameOf(n)>> \in Tasks
      BY <2>1, <2>2, TriedIsTask
    <3>2. \/ status' = status
          \/ \E t \in running, outcome \in Outcomes : status' = [status EXCEPT ![TaskOf(t)] = outcome]
      <4>1. TryTask => status' = status
        <5>. SUFFICES ASSUME TryTask  PROVE status' = status
          OBVIOUS
        <5>1. PICK i \in JobsThatRun(Config) : \E m \in pass.todo[i] : Trying(i, m)
          BY TriesOne
        <5>2. PICK m \in pass.todo[i] : Trying(i, m)
          BY <5>1
        <5>3. loop.pc = "try" /\ crashed = "no"
          BY TriesOne
        <5>. QED  BY <1>5, <5>2, <5>3 DEF Trying, DoesNotFit, IsRefused, Starts
      <4>. QED  BY <4>1, RunningChanges
    <3>3. status = [t \in Tasks |-> status[t]] /\ "running" \notin Outcomes
      BY MainAssumption DEF BasicInv, TasksInv
    <3>. QED  BY <3>1, <3>2, <3>3
  <2>. QED
    BY <2>1, <2>2, <2>3, <2>4 DEF ReplicaInv
<1>6. UpdateConfig => ~ InPass'
  BY DEF UpdateConfig, At, BasicInv, LoopShape, InPass
<1>7. loop'.pc \in {"config", "update"} => ~ InPass'
  BY DEF InPass
<1>. QED
  BY <1>1, <1>2, <1>3, <1>4, <1>5, <1>6, <1>7, StepsOfAPass

(* Where the resources of replicas leave room for one task of a job only, no    *)
(* second one is started, however the pass interleaves with tasks that end: the *)
(* CHECK in TaskStatusSnapshot::updateStatus holds.                            *)
THEOREM ReplicasAreStartedOnce ==
  ASSUME NaturalNeeds, ReplicasExclude PROVE Spec => []ReplicasStartOnce
<1>1. Init => BasicInv /\ ResourceInv /\ ReplicaInv
  <2>1. Init => ReplicaInv
    BY DEF Init, Idle, ReplicaInv, InPass
  <2>. QED  BY <2>1, BasicInvInit, ResourceInvInit
<1>2. BasicInv /\ ResourceInv /\ ReplicaInv /\ [Next]_vars => (BasicInv /\ ResourceInv /\ ReplicaInv)'
  BY BasicInvNext, ResourceInvNext, ReplicaInvNext
<1>3. ReplicaInv => ReplicasStartOnce
  BY DEF ReplicaInv, ReplicasStartOnce
<1>. QED
  BY <1>1, <1>2, <1>3, PTL DEF Spec

-----------------------------------------------------------------------------
(* Limits *)

\* Names tell levels.
LEMMA NamesTellLevels ==
  ASSUME DistinctNames, BasicInv, loop.pc # "config"
  PROVE  /\ \A p, q \in loop.nodes : NameOf(p) = NameOf(q) => LevelOf(p) = LevelOf(q)
         /\ \A p \in loop.nodes : NameOf(p) \notin DOMAIN Workers
<1>1. loop.nodes \in AllNodes \ {FetchError}
  BY DEF BasicInv, LoopShape
<1>2. \A p \in loop.nodes : NameOf(p) \in NodeNames
  BY JobsAreKnown DEF BasicInv
<1>. QED
  BY <1>1, <1>2 DEF DistinctNames

\* What a new task uses of the nodes
LEMMA UseOfNodes ==
  ASSUME NaturalNeeds, DistinctNames, BasicInv, ResourceInv, NEW j, NEW n, NEW answer, Starts(j, n, answer),
         NEW s \in SlotsOf(Config, loop.nodes)
  PROVE  LET need == SlotsFor(Config, Config.jobs[j], n)
         IN UseOf(NewTask(j, n, answer), s[2], s[3]) = IF s \in DOMAIN need THEN need[s] ELSE 0
<1>. DEFINE need == SlotsFor(Config, Config.jobs[j], n)
            rt == NewTask(j, n, answer)
            job == Config.jobs[j]
            entry == [level |-> s[1], node |-> s[2], resource |-> s[3], amount |-> job.needs[s[3]]]
<1>1. /\ InPass /\ loop.pc # "config" /\ j \in JobsThatRun(Config) /\ n \in loop.nodes
  BY StartedFrame
<1>2. NodesAreGrouped(Config, loop.nodes)
  BY <1>1 DEF ResourceInv, LeftInv
<1>3. PICK q \in loop.nodes : \E r \in ResourcesAt(Config, LevelOf(q)) : s = <<LevelOf(q), NameOf(q), r>>
  BY DEF SlotsOf
<1>4. s[1] = LevelOf(q) /\ s[2] = NameOf(q) /\ s = <<s[1], s[2], s[3]>>
  BY <1>3
<1>5. ASSUME NEW u \in rt.uses, u.node = s[2], u.resource = s[3]
      PROVE  u = entry /\ s \in DOMAIN need
  <2>1. NodeEntry(Config, job, n, u) \/ WorkerEntry(Config, job, answer.shard, u)
    BY <1>5, TaskEntries
  <2>2. ~ WorkerEntry(Config, job, answer.shard, u)
    <3>1. s[2] \notin DOMAIN Workers /\ answer.shard \in DOMAIN Workers
      BY <1>1, <1>4, NamesTellLevels, StartedOn DEF ResourceInv
    <3>. QED  BY <1>5, <3>1 DEF WorkerEntry
  <2>3. PICK m \in TraverseUp(n) : \E r \in ResourcesAt(Config, m.level) :
          u = [level |-> m.level, node |-> m.name, resource |-> r, amount |-> job.needs[r]]
    BY <2>1, <2>2 DEF NodeEntry
  <2>4. PICK r \in ResourcesAt(Config, m.level) :
          u = [level |-> m.level, node |-> m.name, resource |-> r, amount |-> job.needs[r]]
    BY <2>3
  <2>5. m.name = s[2] /\ r = s[3]
    BY <1>5, <2>4
  <2>6. PICK p \in loop.nodes : p[1] = m
    BY <1>1, NodesAreFetched DEF BasicInv, RootedIn
  <2>7. m.level = s[1]
    BY <1>1, <1>4, <2>5, <2>6, NamesTellLevels DEF LevelOf, NameOf
  <2>8. u = entry
    BY <2>4, <2>5, <2>7
  <2>9. <<m.level, m.name, r>> \in DOMAIN need
    BY <1>1, <1>2, TaskSlots DEF BasicInv
  <2>. QED  BY <1>4, <2>5, <2>7, <2>8, <2>9
<1>6. CASE s \in DOMAIN need
  <2>1. need[s] = job.needs[s[3]] /\ need[s] \in Nat
    BY <1>6, LeftCharged DEF ResourceInv
  <2>2. entry \in rt.uses
    <3>1. DOMAIN need = UNION {{<<m.level, m.name, r>> : r \in ResourcesAt(Config, m.level)} : m \in TraverseUp(n)}
      BY DEF SlotsFor
    <3>2. PICK m \in TraverseUp(n) : \E r \in ResourcesAt(Config, m.level) : s = <<m.level, m.name, r>>
      <4>. HIDE DEF need
      <4>. QED  BY <1>6, <3>1
    <3>3. s[3] \in ResourcesAt(Config, m.level) /\ s[1] = m.level /\ s[2] = m.name
      BY <3>2
    <3>4. NodeEntry(Config, job, n, entry)
      BY <3>3 DEF NodeEntry
    <3>. QED  BY <3>4, TaskEntries
  <2>3. entry.node = s[2] /\ entry.resource = s[3] /\ entry.amount = job.needs[s[3]]
    OBVIOUS
  <2>. HIDE DEF entry, rt
  <2>4. {v \in rt.uses : v.node = s[2] /\ v.resource = s[3]} = {entry}
    BY <1>5, <2>2, <2>3
  <2>5. UseOf(rt, s[2], s[3]) = entry.amount
    BY <2>1, <2>3, <2>4, UseOfOne
  <2>. QED  BY <1>6, <2>1, <2>3, <2>5 DEF rt
<1>7. CASE s \notin DOMAIN need
  <2>1. \A u \in rt.uses : ~ (u.node = s[2] /\ u.resource = s[3])
    BY <1>5, <1>7
  <2>2. IsFiniteSet(rt.uses)
    BY <1>1, <1>2, TaskUsesAreFinite DEF BasicInv
  <2>. HIDE DEF rt
  <2>3. UseOf(rt, s[2], s[3]) = 0
    <3>. DEFINE f == [u \in {v \in rt.uses : v.node = s[2] /\ v.resource = s[3]} |-> u.amount]
    <3>1. {v \in rt.uses : v.node = s[2] /\ v.resource = s[3]} = {}
      BY <2>1
    <3>2. UseOf(rt, s[2], s[3]) = SumFunctionOnSet(f, {})
      <4>1. DOMAIN f = {}
        BY <3>1
      <4>2. UseOf(rt, s[2], s[3]) = SumFunctionOnSet(f, DOMAIN f)
        BY DEF UseOf, SumFunction
      <4>. QED  BY <4>1, <4>2
    <3>. HIDE DEF f
    <3>. QED  BY <3>2, SumOfNothing
  <2>. QED  BY <1>7, <2>3 DEF rt
<1>. QED
  BY <1>6, <1>7

\* What a new task uses of the workers
LEMMA UseOfWorkers ==
  ASSUME NaturalNeeds, DistinctNames, BasicInv, ResourceInv, NEW j, NEW n, NEW answer, Starts(j, n, answer),
         NEW w \in DOMAIN Workers, NEW r \in WorkerResources(Config)
  PROVE  UseOf(NewTask(j, n, answer), w, r) = IF w = answer.shard THEN Config.jobs[j].needs[r] ELSE 0
<1>. DEFINE rt == NewTask(j, n, answer)
            job == Config.jobs[j]
            entry == [level |-> WorkerLevel(Config), node |-> answer.shard, resource |-> r, amount |-> job.needs[r]]
<1>1. /\ InPass /\ loop.pc # "config" /\ j \in JobsThatRun(Config) /\ n \in loop.nodes
  BY StartedFrame
<1>2. NodesAreGrouped(Config, loop.nodes)
  BY <1>1 DEF ResourceInv, LeftInv
<1>5. ASSUME NEW u \in rt.uses, u.node = w, u.resource = r
      PROVE  u = entry /\ w = answer.shard
  <2>1. NodeEntry(Config, job, n, u) \/ WorkerEntry(Config, job, answer.shard, u)
    BY <1>5, TaskEntries
  <2>2. ~ NodeEntry(Config, job, n, u)
    <3>1. \A m \in TraverseUp(n) : m.name \in NodeNames
      BY <1>1, <1>2, SlotsAreKnown DEF BasicInv
    <3>2. NodeNames \cap DOMAIN Workers = {}
      BY DEF DistinctNames
    <3>. QED  BY <1>5, <3>1, <3>2 DEF NodeEntry
  <2>. QED  BY <1>5, <2>1, <2>2 DEF WorkerEntry
<1>6. CASE w = answer.shard
  <2>1. job.needs[r] \in Nat
    BY WorkerCharged DEF ResourceInv
  <2>2. entry \in rt.uses
    <3>1. WorkerEntry(Config, job, answer.shard, entry)
      BY DEF WorkerEntry
    <3>. QED  BY <3>1, TaskEntries
  <2>3. entry.node = w /\ entry.resource = r /\ entry.amount = job.needs[r]
    BY <1>6
  <2>. HIDE DEF entry, rt
  <2>4. {v \in rt.uses : v.node = w /\ v.resource = r} = {entry}
    BY <1>5, <2>2, <2>3
  <2>5. UseOf(rt, w, r) = entry.amount
    BY <2>1, <2>3, <2>4, UseOfOne
  <2>. QED  BY <1>6, <2>1, <2>3, <2>5 DEF rt
<1>7. CASE w # answer.shard
  <2>1. \A u \in rt.uses : ~ (u.node = w /\ u.resource = r)
    BY <1>5, <1>7
  <2>. HIDE DEF rt
  <2>3. UseOf(rt, w, r) = 0
    <3>. DEFINE f == [u \in {v \in rt.uses : v.node = w /\ v.resource = r} |-> u.amount]
    <3>1. {v \in rt.uses : v.node = w /\ v.resource = r} = {}
      BY <2>1
    <3>2. UseOf(rt, w, r) = SumFunctionOnSet(f, {})
      <4>1. DOMAIN f = {}
        BY <3>1
      <4>2. UseOf(rt, w, r) = SumFunctionOnSet(f, DOMAIN f)
        BY DEF UseOf, SumFunction
      <4>. QED  BY <4>1, <4>2
    <3>. HIDE DEF f
    <3>. QED  BY <3>2, SumOfNothing
  <2>. QED  BY <1>7, <2>3 DEF rt
<1>. QED
  BY <1>6, <1>7

\* A pass begins with no more on the nodes than what runs leaves of their limits.
LEMMA NodesFitAtFirst ==
  ASSUME DistinctNames, BasicInv, ResourceInv, StartPass, loop' # loop, NEW s \in SlotsOf(Config, loop.nodes)
  PROVE  left'[s] + UsedOf(running, s[2], s[3]) <= Config.limits[s[1]][s[3]]
<1>. DEFINE slots == SlotsOf(Config, loop.nodes)
            packed == PackResources(Config, loop.nodes)
<1>1. loop.pc # "config" /\ NodesAreGrouped(Config, loop.nodes)
  BY PassStarts
<1>2. PICK first \in FirstGroups(loop.nodes) : left' = ChargeRunning(packed, running, first)
  BY PassStarts
<1>3. packed = [x \in slots |-> Config.limits[x[1]][x[3]]]
  BY DEF PackResources, SlotsOf
<1>4. Config.limits[s[1]][s[3]] \in Int
  BY <1>1, SlotsAreKnown, LimitsAreIntegers DEF BasicInv
<1>5. first[s[2]] = s[1]
  <2>1. PICK q \in loop.nodes : \E r \in ResourcesAt(Config, LevelOf(q)) : s = <<LevelOf(q), NameOf(q), r>>
    BY DEF SlotsOf
  <2>2. s[1] = LevelOf(q) /\ s[2] = NameOf(q)
    BY <2>1
  <2>3. first[s[2]] \in LevelsWith(loop.nodes, s[2])
    BY <2>2 DEF FirstGroups
  <2>4. PICK p \in loop.nodes : NameOf(p) = s[2] /\ first[s[2]] = LevelOf(p)
    BY <2>3 DEF LevelsWith
  <2>. QED  BY <1>1, <2>2, <2>4, NamesTellLevels
<1>6. DOMAIN packed = slots /\ packed[s] = Config.limits[s[1]][s[3]]
  BY <1>3
<1>. HIDE DEF packed
<1>7. left'[s] = packed[s] - UsedOf(running, s[2], s[3])
  BY <1>2, <1>5, <1>6 DEF ChargeRunning
<1>8. UsedOf(running, s[2], s[3]) \in Nat
  BY RunningHaveUses, UsedIsNatural DEF ResourceInv
<1>. QED
  BY <1>4, <1>6, <1>7, <1>8

\* updateConfig leaves no more on a worker than what runs leaves of its capacity.
LEMMA WorkersFitAtFirst ==
  ASSUME DistinctNames, BasicInv, ResourceInv, UpdateConfig, NEW w \in Known, NEW r \in WorkerResources(Config)
  PROVE  workerLeft'[w][r] + UsedOf(running, w, r) <= WorkerCapacity(Config, Workers[w])[r]
<1>. DEFINE mine == {t \in running : t.shard = w}
            cap == WorkerCapacity(Config, Workers[w])[r]
<1>1. cap \in Int /\ UsedOf(mine, w, r) \in Nat /\ workerLeft'[w][r] = cap - UsedOf(mine, w, r)
  BY WorkersAtFirst
<1>2. w \in DOMAIN Workers
  BY DEF ResourceInv, PoolsInv
<1>3. ASSUME NEW t \in running, t.shard # w  PROVE UseOf(t, w, r) = 0
  <2>1. /\ IsFiniteSet(t.uses) /\ \A u \in t.uses : u.amount \in Nat
        /\ \A u \in t.uses : u.node = t.shard \/ u.node \in NodeNames
    BY DEF ResourceInv, UsesInv
  <2>2. \A u \in t.uses : ~ (u.node = w /\ u.resource = r)
    BY <1>2, <1>3, <2>1 DEF DistinctNames
  <2>. QED  BY <2>1, <2>2, UseIsNatural
<1>4. UsedOf(running, w, r) = UsedOf(mine, w, r)
  BY <1>3, RunningHaveUses, UsedByUsers DEF ResourceInv
<1>. HIDE DEF mine, cap
<1>5. workerLeft'[w][r] + UsedOf(running, w, r) <= cap
  BY <1>1, <1>4
<1>. QED
  BY <1>5 DEF cap

\* Tasks that end use nothing any more.
LEMMA UsedGetsLess ==
  ASSUME BasicInv, ResourceInv, [Next]_vars, ChargesNothing, NEW name, NEW resource
  PROVE  /\ UsedOf(running, name, resource) \in Nat /\ UsedOf(running', name, resource) \in Nat
         /\ UsedOf(running', name, resource) <= UsedOf(running, name, resource)
<1>1. HaveUses(running)
  BY RunningHaveUses DEF ResourceInv
<1>2. UsedOf(running, name, resource) \in Nat
  BY <1>1, UsedIsNatural
<1>3. CASE running' = running
  BY <1>2, <1>3
<1>4. ASSUME NEW t \in running, running' = running \ {t}
      PROVE  /\ UsedOf(running', name, resource) \in Nat
             /\ UsedOf(running', name, resource) <= UsedOf(running, name, resource)
  <2>1. AddsUp(running, t, name, resource)
    BY <1>1, UsedWithout
  <2>. QED  BY <1>4, <2>1 DEF AddsUp
<1>5. \/ running' = running
      \/ \E t \in running : running' = running \ {t}
  <2>1. \/ running' = running
        \/ \E t \in running : running' = running \ {t}
        \/ \E j, n, answer : running' = running \cup {NewTask(j, n, answer)}
    BY RunningChanges
  <2>2. ASSUME NEW t, running' = running \cup {t}  PROVE running' = running
    BY <2>2 DEF ChargesNothing
  <2>. QED  BY <2>1, <2>2
<1>. QED
  BY <1>2, <1>3, <1>4, <1>5

-----------------------------------------------------------------------------
(* What fits stays within the limits *)

\* What is used with a new task
LEMMA UsedWithNew ==
  ASSUME NaturalNeeds, BasicInv, ResourceInv, [Next]_vars, NEW j, NEW n, NEW answer, Starts(j, n, answer),
         NEW name, NEW resource
  PROVE  LET use == UseOf(NewTask(j, n, answer), name, resource)
         IN /\ use \in Nat /\ UsedOf(running, name, resource) \in Nat
            /\ UsedOf(running', name, resource) = UsedOf(running, name, resource) + use
<1>. DEFINE rt == NewTask(j, n, answer)
<1>1. running' = running \cup {rt} /\ rt \notin running
  BY StartedFrame
<1>2. HaveUses(running')
  BY UsesInvNext DEF UsesInv, HaveUses
<1>. HIDE DEF rt
<1>3. running' \ {rt} = running /\ rt \in running'
  BY <1>1
<1>4. AddsUp(running', rt, name, resource)
  BY <1>2, <1>3, UsedWithout
<1>5. /\ UseOf(rt, name, resource) \in Nat /\ UsedOf(running, name, resource) \in Nat
      /\ UsedOf(running', name, resource) = UseOf(rt, name, resource) + UsedOf(running, name, resource)
  BY <1>3, <1>4, Zenon DEF AddsUp
<1>6. UsedOf(running', name, resource) = UsedOf(running, name, resource) + UseOf(rt, name, resource)
  BY <1>5
<1>. QED
  BY <1>5, <1>6 DEF rt

\* A start moves an amount from what is left to what runs.
LEMMA FitsInvStart ==
  ASSUME NaturalNeeds, DistinctNames, BasicInv, ResourceInv, FitsInv, [Next]_vars,
         NEW j, NEW n, NEW answer, Starts(j, n, answer)
  PROVE  FitsInv'
<1>. DEFINE rt == NewTask(j, n, answer)
            need == SlotsFor(Config, Config.jobs[j], n)
            slots == SlotsOf(Config, loop.nodes)
<1>1. loop' = loop /\ Config' = Config /\ InPass /\ loop.pc # "config" /\ loop.pc = "try"
  BY StartedFrame DEF Starts
<1>2. ASSUME NEW s \in slots
      PROVE  left'[s] + UsedOf(running', s[2], s[3]) <= Config.limits[s[1]][s[3]]
  <2>. DEFINE use == UseOf(rt, s[2], s[3])
              before == UsedOf(running, s[2], s[3])
              after == UsedOf(running', s[2], s[3])
              limit == Config.limits[s[1]][s[3]]
  <2>1. left[s] + before <= limit
    BY <1>1 DEF FitsInv
  <2>2. use \in Nat /\ before \in Nat /\ after = before + use
    BY UsedWithNew
  <2>3. use = IF s \in DOMAIN need THEN need[s] ELSE 0
    BY UseOfNodes
  <2>4. /\ left[s] \in Int /\ left'[s] \in Int
        /\ s \in DOMAIN need => need[s] \in Nat /\ left'[s] = left[s] - need[s]
        /\ s \notin DOMAIN need => left'[s] = left[s]
    BY LeftCharged DEF ResourceInv
  <2>5. limit \in Int
    <3>1. NodesAreGrouped(Config, loop.nodes)
      BY <1>1 DEF ResourceInv, LeftInv
    <3>. QED  BY <1>1, <3>1, SlotsAreKnown, LimitsAreIntegers DEF BasicInv
  <2>. HIDE DEF use, before, after, limit, need
  <2>6. left'[s] = left[s] - use
    BY <2>2, <2>3, <2>4
  <2>7. left'[s] + after <= limit
    BY <2>1, <2>2, <2>4, <2>5, <2>6
  <2>. QED  BY <2>7 DEF after, limit
<1>3. ASSUME NEW w \in DOMAIN workerLeft, NEW r \in WorkerResources(Config)
      PROVE  workerLeft'[w][r] + UsedOf(running', w, r) <= WorkerCapacity(Config, Workers[w])[r]
  <2>. DEFINE use == UseOf(rt, w, r)
              before == UsedOf(running, w, r)
              after == UsedOf(running', w, r)
              cap == WorkerCapacity(Config, Workers[w])[r]
              amount == Config.jobs[j].needs[r]
  <2>0. w \in DOMAIN Workers
    BY <1>1 DEF ResourceInv, WorkerLeftInv
  <2>1. workerLeft[w][r] + before <= cap
    BY <1>1 DEF FitsInv
  <2>2. use \in Nat /\ before \in Nat /\ after = before + use
    BY UsedWithNew
  <2>3. use = IF w = answer.shard THEN amount ELSE 0
    BY <2>0, UseOfWorkers
  <2>4. /\ workerLeft[w][r] \in Int /\ workerLeft'[w][r] \in Int /\ amount \in Nat
        /\ w # answer.shard => workerLeft'[w][r] = workerLeft[w][r]
        /\ w = answer.shard => workerLeft'[w][r] = workerLeft[w][r] - amount
    BY WorkerCharged DEF ResourceInv
  <2>5. cap \in Int
    <3>1. IsAmounts(Config, WorkerCapacity(Config, Workers[w]))
      BY <1>1, <2>0, CapacityIsAmounts DEF Config, BasicInv, LoopShape
    <3>. QED  BY <3>1 DEF IsAmounts
  <2>. HIDE DEF use, before, after, cap, amount
  <2>6. workerLeft'[w][r] = workerLeft[w][r] - use
    BY <2>2, <2>3, <2>4
  <2>7. workerLeft'[w][r] + after <= cap
    BY <2>1, <2>2, <2>4, <2>5, <2>6
  <2>. QED  BY <2>7 DEF after, cap
<1>4. DOMAIN workerLeft' = DOMAIN workerLeft
  BY WorkerCharged DEF ResourceInv
<1>. QED
  BY <1>1, <1>2, <1>3, <1>4 DEF FitsInv

\* Every step keeps FitsInv.
LEMMA FitsInvNext ==
  ASSUME NaturalNeeds, DistinctNames, BasicInv, ResourceInv, FitsInv, [Next]_vars
  PROVE  FitsInv'
<1>1. ASSUME NEW j, NEW n, NEW answer, Starts(j, n, answer)  PROVE FitsInv'
  BY <1>1, FitsInvStart
<1>2. CASE StartPass /\ loop' # loop
  <2>1. /\ Config' = Config /\ loop'.nodes = loop.nodes /\ running' = running /\ workerLeft' = workerLeft
        /\ loop.pc = "schedule"
    BY <1>2, PassStarts
  <2>2. \A s \in SlotsOf(Config, loop.nodes) :
          left'[s] + UsedOf(running, s[2], s[3]) <= Config.limits[s[1]][s[3]]
    BY <1>2, NodesFitAtFirst
  <2>3. \A w \in DOMAIN workerLeft : \A r \in WorkerResources(Config) :
          workerLeft[w][r] + UsedOf(running, w, r) <= WorkerCapacity(Config, Workers[w])[r]
    BY <2>1 DEF FitsInv
  <2>. QED  BY <2>1, <2>2, <2>3 DEF FitsInv
<1>3. CASE UpdateConfig
  <2>1. /\ Config' = Config /\ running' = running /\ DOMAIN workerLeft' = Known /\ ~ InPass'
    BY <1>3, WorkersAtFirst DEF InPass
  <2>2. \A w \in Known : \A r \in WorkerResources(Config) :
          workerLeft'[w][r] + UsedOf(running, w, r) <= WorkerCapacity(Config, Workers[w])[r]
    BY <1>3, WorkersFitAtFirst
  <2>. QED  BY <2>1, <2>2 DEF FitsInv
<1>4. CASE loop'.pc \in {"config", "update"}
  BY <1>4 DEF FitsInv, InPass
<1>5. CASE ChargesNothing
  <2>1. /\ Config' = Config /\ loop'.nodes = loop.nodes /\ left' = left /\ workerLeft' = workerLeft
        /\ (InPass' => InPass)
        /\ (loop'.pc \in {"schedule", "try", "cut"} => loop.pc \in {"schedule", "try", "cut"})
    BY <1>5 DEF ChargesNothing, Config, InPass
  <2>2. ASSUME InPass', NEW s \in SlotsOf(Config, loop.nodes)
        PROVE  left[s] + UsedOf(running', s[2], s[3]) <= Config.limits[s[1]][s[3]]
    <3>1. left[s] + UsedOf(running, s[2], s[3]) <= Config.limits[s[1]][s[3]] /\ left[s] \in Int
      BY <2>1, <2>2 DEF FitsInv, ResourceInv, LeftInv
    <3>2. /\ UsedOf(running, s[2], s[3]) \in Nat /\ UsedOf(running', s[2], s[3]) \in Nat
          /\ UsedOf(running', s[2], s[3]) <= UsedOf(running, s[2], s[3])
      BY <1>5, UsedGetsLess
    <3>3. Config.limits[s[1]][s[3]] \in Int
      <4>1. NodesAreGrouped(Config, loop.nodes) /\ loop.pc # "config"
        BY <2>1, <2>2 DEF ResourceInv, LeftInv, InPass
      <4>. QED  BY <4>1, SlotsAreKnown, LimitsAreIntegers DEF BasicInv
    <3>. QED  BY <3>1, <3>2, <3>3
  <2>3. ASSUME loop'.pc \in {"schedule", "try", "cut"}, NEW w \in DOMAIN workerLeft, NEW r \in WorkerResources(Config)
        PROVE  workerLeft[w][r] + UsedOf(running', w, r) <= WorkerCapacity(Config, Workers[w])[r]
    <3>0. w \in DOMAIN Workers /\ workerLeft[w][r] \in Int /\ loop.pc # "config"
      BY <2>1, <2>3 DEF ResourceInv, WorkerLeftInv
    <3>1. workerLeft[w][r] + UsedOf(running, w, r) <= WorkerCapacity(Config, Workers[w])[r]
      BY <2>1, <2>3 DEF FitsInv
    <3>2. /\ UsedOf(running, w, r) \in Nat /\ UsedOf(running', w, r) \in Nat
          /\ UsedOf(running', w, r) <= UsedOf(running, w, r)
      BY <1>5, UsedGetsLess
    <3>3. WorkerCapacity(Config, Workers[w])[r] \in Int
      <4>1. IsAmounts(Config, WorkerCapacity(Config, Workers[w]))
        BY <3>0, CapacityIsAmounts DEF Config, BasicInv, LoopShape
      <4>. QED  BY <4>1 DEF IsAmounts
    <3>. QED  BY <3>0, <3>1, <3>2, <3>3
  <2>. QED  BY <2>1, <2>2, <2>3 DEF FitsInv
<1>. QED
  BY <1>1, <1>2, <1>3, <1>4, <1>5, StepsOfAPass

\* What a step that starts a task leaves used
LEMMA NewTasksFit ==
  ASSUME NaturalNeeds, DistinctNames, BasicInv, ResourceInv, FitsInv, [Next]_vars,
         NEW t \in running' \ running, NEW u \in t.uses
  PROVE  UsedOf(running', u.node, u.resource)
           <= IF u.level = WorkerLevel(Config)
              THEN WorkerCapacity(Config, Workers[t.shard])[u.resource]
              ELSE Config.limits[u.level][u.resource]
<1>1. PICK j, n, answer : Starts(j, n, answer)
  <2>1. (StartPass /\ loop' # loop) \/ UpdateConfig => running' = running
    BY DEF StartPass, UpdateConfig
  <2>. QED  BY <2>1, StepsOfAPass DEF ChargesNothing
<1>. DEFINE job == Config.jobs[j]
            need == SlotsFor(Config, job, n)
<1>2. /\ loop' = loop /\ Config' = Config /\ InPass /\ InPass' /\ loop.pc # "config" /\ loop.pc = "try"
      /\ j \in JobsThatRun(Config) /\ n \in loop.nodes /\ LevelOf(n) = job.level
      /\ t = NewTask(j, n, answer)
  BY <1>1, StartedFrame DEF Starts
<1>3. NodesAreGrouped(Config, loop.nodes) /\ t.shard = answer.shard
  BY <1>2 DEF ResourceInv, LeftInv, NewTask
<1>4. FitsInv'
  BY FitsInvNext
<1>5. HaveUses(running')
  BY UsesInvNext DEF UsesInv, HaveUses
<1>6. CASE NodeEntry(Config, job, n, u)
  <2>1. PICK m \in TraverseUp(n) : \E r \in ResourcesAt(Config, m.level) :
          u = [level |-> m.level, node |-> m.name, resource |-> r, amount |-> job.needs[r]]
    BY <1>6 DEF NodeEntry
  <2>2. PICK r \in ResourcesAt(Config, m.level) :
          u = [level |-> m.level, node |-> m.name, resource |-> r, amount |-> job.needs[r]]
    BY <2>1
  <2>. DEFINE s == <<m.level, m.name, r>>
  <2>3. u.level = s[1] /\ u.node = s[2] /\ u.resource = s[3]
    BY <2>2
  <2>4. s \in DOMAIN need /\ s \in SlotsOf(Config, loop.nodes)
    BY <1>2, <1>3, TaskSlots, SlotsAreKnown DEF BasicInv
  <2>5. u.level # WorkerLevel(Config)
    <3>1. m.level \in Int /\ m.level <= job.level
      BY <1>2, <1>3, NodesAreFetched DEF BasicInv, RootedIn, WellMade
    <3>2. job.level \in 0..Config.numLevels /\ Config.numLevels \in Nat
      BY <1>2, ConfigAssumption DEF BasicInv, LoopShape, Config, JobsThatRun
    <3>3. u.level = m.level
      BY <2>2
    <3>. HIDE DEF job
    <3>. QED  BY <3>1, <3>2, <3>3 DEF WorkerLevel
  <2>6. left'[s] + UsedOf(running', s[2], s[3]) <= Config.limits[s[1]][s[3]]
    BY <1>2, <1>4, <2>4 DEF FitsInv
  <2>7. left'[s] >= 0 /\ left'[s] \in Int
    BY <1>1, <2>4, LeftCharged DEF ResourceInv
  <2>8. Config.limits[s[1]][s[3]] \in Int
    BY <1>2, <1>3, <2>4, SlotsAreKnown, LimitsAreIntegers DEF BasicInv
  <2>9. UsedOf(running', s[2], s[3]) \in Nat
    BY <1>5, UsedIsNatural
  <2>. HIDE DEF s
  <2>10. UsedOf(running', s[2], s[3]) <= Config.limits[s[1]][s[3]]
    BY <2>6, <2>7, <2>8, <2>9
  <2>. QED  BY <2>3, <2>5, <2>10
<1>7. CASE WorkerEntry(Config, job, answer.shard, u)
  <2>1. PICK r \in WorkerResources(Config) :
          u = [level |-> WorkerLevel(Config), node |-> answer.shard, resource |-> r, amount |-> job.needs[r]]
    BY <1>7 DEF WorkerEntry
  <2>. DEFINE w == answer.shard
              cap == WorkerCapacity(Config, Workers[w])[r]
  <2>2. u.level = WorkerLevel(Config) /\ u.node = w /\ u.resource = r
    BY <2>1
  <2>3. w \in DOMAIN workerLeft /\ w \in DOMAIN Workers
    BY <1>1, StartedOn DEF ResourceInv
  <2>4. DOMAIN workerLeft' = DOMAIN workerLeft /\ workerLeft'[w][r] \in Int /\ workerLeft'[w][r] >= 0
    BY <1>1, <2>3, WorkerCharged DEF ResourceInv
  <2>5. workerLeft'[w][r] + UsedOf(running', w, r) <= cap
    BY <1>2, <1>4, <2>3, <2>4 DEF FitsInv
  <2>6. cap \in Int
    <3>1. IsAmounts(Config, WorkerCapacity(Config, Workers[w]))
      BY <1>2, <2>3, CapacityIsAmounts DEF Config, BasicInv, LoopShape
    <3>. QED  BY <3>1 DEF IsAmounts
  <2>7. UsedOf(running', w, r) \in Nat
    BY <1>5, UsedIsNatural
  <2>. HIDE DEF w, cap
  <2>8. UsedOf(running', w, r) <= cap
    BY <2>4, <2>5, <2>6, <2>7
  <2>. QED  BY <1>3, <2>2, <2>8 DEF w, cap
<1>. QED
  BY <1>2, <1>6, <1>7, TaskEntries

(* No start overcommits a node or a worker, whatever runs, under whichever      *)
(* configurations it was started, and whatever ends or joins between two tries, *)
(* for all configurations whose jobs need no negative amounts and where a name  *)
(* is of one level.                                                           *)
THEOREM StartsFit == ASSUME NaturalNeeds, DistinctNames PROVE Spec => StartedTasksFit
<1>1. Init => BasicInv /\ ResourceInv /\ FitsInv
  <2>1. Init => FitsInv
    BY DEF Init, Idle, FitsInv, InPass
  <2>. QED  BY <2>1, BasicInvInit, ResourceInvInit
<1>2. BasicInv /\ ResourceInv /\ FitsInv /\ [Next]_vars => (BasicInv /\ ResourceInv /\ FitsInv)'
  BY BasicInvNext, ResourceInvNext, FitsInvNext
<1>3. BasicInv /\ ResourceInv /\ FitsInv /\ [Next]_vars =>
        [\A t \in running' \ running : \A u \in t.uses :
           UsedOf(running', u.node, u.resource)
             <= IF u.level = WorkerLevel(Config)
                THEN WorkerCapacity(Config, Workers[t.shard])[u.resource]
                ELSE Config.limits[u.level][u.resource]]_vars
  BY NewTasksFit
<1>. QED
  BY <1>1, <1>2, <1>3, PTL DEF Spec, StartedTasksFit

=============================================================================
