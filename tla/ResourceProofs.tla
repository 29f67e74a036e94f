------------------------------- MODULE ResourceProofs -------------------------
(***************************************************************************)
(* The resources that a pass of the scheduler has left, for any              *)
(* configuration, nodes and workers: they only get less, and the pass leaves *)
(* no task behind that fits them.                                            *)
(***************************************************************************)
EXTENDS MainLoopProofs

(* The provers, in this order: most leaves are about sets and functions, which *)
(* is what Zenon does, and the rest needs arithmetic.                          *)
USE ZenonT(3), SMTT(20), ZenonT(20)

-----------------------------------------------------------------------------
(* The configuration and the nodes of a pass *)

\* The image of a finite set is finite.
LEMMA ImageIsFinite ==
  ASSUME NEW S, IsFiniteSet(S), NEW f, f = [x \in S |-> f[x]]
  PROVE  IsFiniteSet({f[x] : x \in S})
<1>. DEFINE T == {f[x] : x \in S}
<1>1. f \in Surjection(S, T)
  BY DEF Surjection
<1>. HIDE DEF T
<1>2. IsFiniteSet(T)
  BY <1>1, FS_Surjection
<1>. QED
  BY <1>2 DEF T

\* The nodes of the loop are what the fetchers made.
LEMMA NodesAreFetched ==
  ASSUME LoopShape, loop.pc # "config"
  PROVE  RootedIn(loop.nodes, loop.nodes) /\ loop.config \in Contents
<1>1. loop.config \in Contents /\ loop.nodes \in AllNodes \ {FetchError}
  BY DEF LoopShape
<1>2. PICK c \in Contents : loop.nodes \in MayBeFetchedFrom(c)
  BY <1>1 DEF AllNodes
<1>3. PICK script \in Scripts : loop.nodes = FetchNodes(ConfigOf[c].numLevels, ConfigOf[c].sources, script)
  BY <1>2 DEF MayBeFetchedFrom
<1>4. ConfigOf[c].numLevels \in Nat /\ ConfigOf[c].sources \in Seq(Range(ConfigOf[c].sources))
  BY ConfigAssumption
<1>5. Len(ConfigOf[c].sources) \in Nat
  BY <1>4
<1>6. FetchNodes(ConfigOf[c].numLevels, ConfigOf[c].sources, script) # FetchError
  BY <1>1, <1>3
<1>7. LET nodes == FetchNodes(ConfigOf[c].numLevels, ConfigOf[c].sources, script)
      IN RootedIn(nodes, nodes)
  BY <1>4, <1>5, <1>6, NodesAreRooted
<1>. QED
  BY <1>1, <1>3, <1>7

\* Limits and needs are integers.
LEMMA LimitsAreIntegers ==
  ASSUME LoopShape, loop.pc # "config", NEW l \in LevelsOf(Config), NEW r \in ResourcesAt(Config, l)
  PROVE  /\ Config.limits[l][r] \in Int
         /\ \A j \in JobsThatRun(Config) : Config.jobs[j].needs[r] \in Int
<1>1. loop.config \in Contents
  BY DEF LoopShape
<1>. QED
  BY <1>1, ConfigAssumption DEF Config, JobsThatRun

\* No job that runs needs a negative amount.
LEMMA NeedsAreNatural ==
  ASSUME NaturalNeeds, LoopShape, loop.pc # "config",
         NEW l \in LevelsOf(Config), NEW r \in ResourcesAt(Config, l), NEW j \in JobsThatRun(Config)
  PROVE  Config.jobs[j].needs[r] \in Nat
<1>1. Config.jobs[j].needs[r] \in Int
  BY LimitsAreIntegers
<1>2. Config.jobs[j].needs[r] >= 0
  <2>1. loop.config \in Contents /\ j \in DOMAIN Config.jobs
    BY DEF LoopShape, JobsThatRun
  <2>. QED  BY <2>1 DEF NaturalNeeds, Config
<1>. QED
  BY <1>1, <1>2

\* packResourcesInto has a slot for every resource of a node and of its ancestors.
LEMMA SlotsAreKnown ==
  ASSUME LoopShape, loop.pc # "config", NodesAreGrouped(Config, loop.nodes)
  PROVE  /\ \A s \in SlotsOf(Config, loop.nodes) :
              /\ s[1] \in LevelsOf(Config) /\ s[3] \in ResourcesAt(Config, s[1])
              /\ s = <<s[1], s[2], s[3]>>
         /\ \A n \in loop.nodes : \A m \in TraverseUp(n) :
              /\ m.level \in LevelsOf(Config) /\ m.level <= LevelOf(n) /\ m.name \in NodeNames
              /\ \A r \in ResourcesAt(Config, m.level) :
                   <<m.level, m.name, r>> \in SlotsOf(Config, loop.nodes)
<1>1. \A n \in loop.nodes : LevelOf(n) \in LevelsOf(Config) /\ NameOf(n) \in NodeNames
  BY JobsAreKnown DEF NodesAreGrouped
<1>2. ASSUME NEW s \in SlotsOf(Config, loop.nodes)
      PROVE  /\ s[1] \in LevelsOf(Config) /\ s[3] \in ResourcesAt(Config, s[1])
             /\ s = <<s[1], s[2], s[3]>>
  <2>1. PICK n \in loop.nodes : \E r \in ResourcesAt(Config, LevelOf(n)) : s = <<LevelOf(n), NameOf(n), r>>
    BY DEF SlotsOf
  <2>. QED  BY <1>1, <2>1
<1>3. ASSUME NEW n \in loop.nodes, NEW m \in TraverseUp(n)
      PROVE  /\ m.level \in LevelsOf(Config) /\ m.level <= LevelOf(n) /\ m.name \in NodeNames
             /\ \A r \in ResourcesAt(Config, m.level) :
                  <<m.level, m.name, r>> \in SlotsOf(Config, loop.nodes)
  <2>1. PICK p \in loop.nodes : p[1] = m
    BY NodesAreFetched DEF RootedIn
  <2>2. m.level = LevelOf(p) /\ m.name = NameOf(p)
    BY <2>1 DEF LevelOf, NameOf
  <2>3. m.level <= LevelOf(n)
    BY NodesAreFetched DEF RootedIn, WellMade
  <2>. QED  BY <1>1, <2>2, <2>3 DEF SlotsOf
<1>. QED
  BY <1>2, <1>3

\* The slots of a task
LEMMA TaskSlots ==
  ASSUME NaturalNeeds, LoopShape, loop.pc # "config", NodesAreGrouped(Config, loop.nodes),
         NEW j \in JobsThatRun(Config), NEW n \in loop.nodes
  PROVE  LET need == SlotsFor(Config, Config.jobs[j], n)
         IN /\ need = [s \in DOMAIN need |-> Config.jobs[j].needs[s[3]]]
            /\ DOMAIN need \subseteq SlotsOf(Config, loop.nodes)
            /\ \A s \in DOMAIN need : need[s] \in Nat
            /\ \A m \in TraverseUp(n) : \A r \in ResourcesAt(Config, m.level) :
                 <<m.level, m.name, r>> \in DOMAIN need
<1>. DEFINE need == SlotsFor(Config, Config.jobs[j], n)
            slots == UNION {{<<m.level, m.name, r>> : r \in ResourcesAt(Config, m.level)}
                             : m \in TraverseUp(n)}
<1>1. need = [s \in slots |-> Config.jobs[j].needs[s[3]]]
  BY DEF SlotsFor
<1>2. \A m \in TraverseUp(n) : \A r \in ResourcesAt(Config, m.level) : <<m.level, m.name, r>> \in slots
  OBVIOUS
<1>3. slots \subseteq SlotsOf(Config, loop.nodes)
  BY SlotsAreKnown
<1>. HIDE DEF slots
<1>4. \A s \in slots : Config.jobs[j].needs[s[3]] \in Nat
  BY <1>3, SlotsAreKnown, NeedsAreNatural
<1>. HIDE DEF need
<1>5. DOMAIN need = slots /\ \A s \in slots : need[s] = Config.jobs[j].needs[s[3]]
  BY <1>1
<1>6. need = [s \in DOMAIN need |-> Config.jobs[j].needs[s[3]]]
  BY <1>1, <1>5
<1>. QED
  BY <1>2, <1>3, <1>4, <1>5, <1>6 DEF need

\* What a new task uses: its entries are for the nodes above it, and the worker
NodeEntry(config, job, n, u) ==
  \E m \in TraverseUp(n) : \E r \in ResourcesAt(config, m.level) :
    u = [level |-> m.level, node |-> m.name, resource |-> r, amount |-> job.needs[r]]

\* What it uses of its worker
WorkerEntry(config, job, shard, u) ==
  \E r \in WorkerResources(config) :
    u = [level |-> WorkerLevel(config), node |-> shard, resource |-> r, amount |-> job.needs[r]]

\* TaskRunner::runTask records the resources of the nodes and of the worker.
LEMMA TaskEntries ==
  ASSUME NEW j, NEW n, NEW answer
  PROVE  \A u : u \in NewTask(j, n, answer).uses <=>
           \/ NodeEntry(Config, Config.jobs[j], n, u)
           \/ WorkerEntry(Config, Config.jobs[j], answer.shard, u)
<1>1. NewTask(j, n, answer).uses
        = TaskResources(Config, Config.jobs[j], n)
            \cup NodeResources(Config, Config.jobs[j], WorkerLevel(Config), answer.shard)
  BY DEF NewTask
<1>2. \A u : u \in TaskResources(Config, Config.jobs[j], n) <=> NodeEntry(Config, Config.jobs[j], n, u)
  BY DEF TaskResources, NodeResources, NodeEntry
<1>3. \A u : u \in NodeResources(Config, Config.jobs[j], WorkerLevel(Config), answer.shard)
               <=> WorkerEntry(Config, Config.jobs[j], answer.shard, u)
  BY DEF NodeResources, WorkerEntry, WorkerResources
<1>. QED
  BY <1>1, <1>2, <1>3

\* A task uses finitely many resources.
LEMMA TaskUsesAreFinite ==
  ASSUME LoopShape, loop.pc # "config", NodesAreGrouped(Config, loop.nodes),
         NEW j \in JobsThatRun(Config), NEW n \in loop.nodes, NEW answer
  PROVE  IsFiniteSet(NewTask(j, n, answer).uses)
<1>. DEFINE job == Config.jobs[j]
<1>1. ASSUME NEW l \in LevelsOf(Config), NEW name  PROVE IsFiniteSet(NodeResources(Config, job, l, name))
  <2>. DEFINE S == ResourcesAt(Config, l)
              f == [r \in S |-> [level |-> l, node |-> name, resource |-> r, amount |-> job.needs[r]]]
  <2>1. IsFiniteSet(S)
    BY ConfigAssumption DEF Config, LoopShape
  <2>2. f = [r \in S |-> f[r]]
    OBVIOUS
  <2>3. NodeResources(Config, job, l, name) = {f[r] : r \in S}
    BY DEF NodeResources
  <2>. HIDE DEF f, S
  <2>. QED  BY <2>1, <2>2, <2>3, ImageIsFinite
<1>2. IsFiniteSet(TaskResources(Config, job, n))
  <2>. DEFINE S == TraverseUp(n)
              f == [m \in S |-> NodeResources(Config, job, m.level, m.name)]
  <2>1. IsFiniteSet(S)
    <3>1. n \in Seq(Range(n))
      BY NodesAreFetched DEF RootedIn, WellMade
    <3>2. n = [i \in 1..Len(n) |-> n[i]] /\ Len(n) \in Nat /\ DOMAIN n = 1..Len(n)
      BY <3>1
    <3>3. IsFiniteSet(1..Len(n))
      <4>1. 1 \in Int /\ Len(n) \in Int
        BY <3>2
      <4>. QED  BY <4>1, FS_Interval
    <3>4. S = {n[i] : i \in 1..Len(n)}
      BY <3>2 DEF TraverseUp, Range
    <3>. QED  BY <3>2, <3>3, <3>4, ImageIsFinite
  <2>2. f = [m \in S |-> f[m]]
    OBVIOUS
  <2>3. TaskResources(Config, job, n) = UNION {f[m] : m \in S}
    BY DEF TaskResources
  <2>4. \A m \in S : IsFiniteSet(f[m])
    BY <1>1, SlotsAreKnown
  <2>. HIDE DEF f, S
  <2>5. IsFiniteSet({f[m] : m \in S})
    BY <2>1, <2>2, ImageIsFinite
  <2>6. \A x \in {f[m] : m \in S} : IsFiniteSet(x)
    BY <2>4
  <2>7. IsFiniteSet(UNION {f[m] : m \in S})
    BY <2>5, <2>6, FS_UNION
  <2>. QED  BY <2>3, <2>7
<1>3. WorkerLevel(Config) \in LevelsOf(Config)
  BY ConfigAssumption DEF LoopShape, Config, WorkerLevel, LevelsOf
<1>4. IsFiniteSet(NodeResources(Config, job, WorkerLevel(Config), answer.shard))
  BY <1>1, <1>3
<1>. QED
  BY <1>2, <1>4, FS_Union DEF NewTask

-----------------------------------------------------------------------------
(* The pools *)

\* An order of a set lists its elements.
LEMMA OrderIsSequence ==
  ASSUME NEW S, IsFiniteSet(S), NEW o \in OrdersOf(S)
  PROVE  Range(o) = S /\ \A T : S \subseteq T => o \in Seq(T)
<1>1. /\ Len(o) \in Nat /\ o \in [1..Len(o) -> S] /\ DOMAIN o = 1..Len(o)
      /\ \A x \in S : \E i \in 1..Len(o) : o[i] = x
  BY PermutationCovers
<1>2. Range(o) = S
  BY <1>1 DEF Range
<1>3. ASSUME NEW T, S \subseteq T  PROVE o \in Seq(T)
  <2>1. o \in [1..Len(o) -> T]
    BY <1>1, <1>3
  <2>. QED  BY <1>1, <2>1
<1>. QED
  BY <1>2, <1>3

\* The first workers are in the pools.
LEMMA PoolsInvInit ==
  ASSUME Init
  PROVE  PoolsInv
<1>. DEFINE shards == DOMAIN Workers \ LateWorkers
            hosts == {Workers[s].host : s \in shards}
            on(host) == {s \in shards : host = AllWorkers \/ Workers[s].host = host}
            orders == UNION {OrdersOf(x) : x \in SUBSET shards}
            some == {[order |-> o, next |-> NoHost] : o \in orders}
<1>1. /\ pools \in [{AllWorkers} \cup hosts -> some]
      /\ \A p \in DOMAIN pools : Range(pools[p].order) = on(p)
  BY DEF Init, PoolsOf
<1>2. healthy = shards /\ pass.refused = {}
  BY DEF Init, NoPass
<1>3. AllWorkers \in DOMAIN pools /\ pools = [p \in DOMAIN pools |-> pools[p]]
  <2>. HIDE DEF some, hosts
  <2>. QED  BY <1>1
<1>4. Known = shards
  BY <1>1, <1>3 DEF Known
<1>5. IsFiniteSet(shards)
  BY MainAssumption, FS_Subset
<1>6. ASSUME NEW p \in DOMAIN pools
      PROVE  pools[p] = [order |-> pools[p].order, next |-> pools[p].next] /\ pools[p].order \in Seq(Known)
  <2>1. pools[p] \in some
    <3>. HIDE DEF some, hosts
    <3>. QED  BY <1>1
  <2>2. PICK o \in orders : pools[p] = [order |-> o, next |-> NoHost]
    <3>. HIDE DEF orders
    <3>. QED  BY <2>1
  <2>3. PICK x \in SUBSET shards : o \in OrdersOf(x)
    BY <2>2
  <2>4. o \in Seq(shards)
    <3>1. IsFiniteSet(x) /\ x \subseteq shards
      BY <1>5, FS_Subset
    <3>. HIDE DEF shards
    <3>. QED  BY <2>3, <3>1, OrderIsSequence
  <2>. HIDE DEF shards, orders
  <2>. QED  BY <1>4, <2>2, <2>4
<1>. QED
  BY <1>2, <1>3, <1>4, <1>6 DEF PoolsInv

\* A pool gets no worker that was known before.
PoolsGrow ==
  /\ Known \subseteq Known'
  /\ \A host : Range(PoolFor(pools', host).order) \cap Known \subseteq Range(PoolFor(pools, host).order)

\* getNextWorker moves the position of a pool and nothing else.
LEMMA PoolsTryNext ==
  ASSUME PoolsInv, NEW host, NEW next,
         pools' = WithPool(pools, IF host = NoHost THEN AllWorkers ELSE host,
                           [PoolFor(pools, host) EXCEPT !.next = next])
  PROVE  /\ PoolsGrow /\ Known' = Known
         /\ AllWorkers \in DOMAIN pools' /\ pools' = [p \in DOMAIN pools' |-> pools'[p]]
         /\ \A p \in DOMAIN pools' :
              /\ pools'[p] = [order |-> pools'[p].order, next |-> pools'[p].next]
              /\ pools'[p].order \in Seq(Known)
<1>. DEFINE key == IF host = NoHost THEN AllWorkers ELSE host
            new == [PoolFor(pools, host) EXCEPT !.next = next]
<1>1. /\ PoolFor(pools, host).order \in Seq(Known)
      /\ PoolFor(pools, host) = [order |-> PoolFor(pools, host).order, next |-> PoolFor(pools, host).next]
  BY PoolForKnown
<1>2. new = [order |-> PoolFor(pools, host).order, next |-> next]
  BY <1>1
<1>3. new = [order |-> new.order, next |-> new.next] /\ new.order = PoolFor(pools, host).order
  BY <1>2
<1>. HIDE DEF new
<1>4. pools' = WithPool(pools, key, new)
  BY DEF new
<1>5. pools' = [p \in DOMAIN pools \cup {key} |-> IF p = key THEN new ELSE pools[p]]
  BY <1>4 DEF WithPool
<1>6. /\ DOMAIN pools' = {key} \cup DOMAIN pools /\ pools' = [p \in DOMAIN pools' |-> pools'[p]]
      /\ pools'[key] = new /\ \A p \in DOMAIN pools : p # key => pools'[p] = pools[p]
  BY <1>5
<1>7. AllWorkers \in DOMAIN pools /\ pools'[AllWorkers].order = pools[AllWorkers].order
  <2>1. AllWorkers \in DOMAIN pools
    BY DEF PoolsInv
  <2>2. key = AllWorkers => PoolFor(pools, host) = pools[AllWorkers]
    BY <2>1 DEF PoolFor
  <2>. QED  BY <1>3, <1>6, <2>1, <2>2
<1>8. Known' = Known
  BY <1>7 DEF Known
<1>9. \A h : PoolFor(pools', h).order = PoolFor(pools, h).order
  <2>. SUFFICES ASSUME NEW h  PROVE PoolFor(pools', h).order = PoolFor(pools, h).order
    OBVIOUS
  <2>1. CASE h = NoHost
    BY <1>7, <2>1 DEF PoolFor
  <2>2. CASE h # NoHost /\ h = host
    <3>1. PoolFor(pools', h) = new
      BY <1>6, <2>2 DEF PoolFor
    <3>. QED  BY <1>3, <2>2, <3>1
  <2>3. CASE h # NoHost /\ h # host /\ h = AllWorkers
    BY <1>6, <1>7, <2>3 DEF PoolFor
  <2>4. CASE h # NoHost /\ h # host /\ h # AllWorkers
    <3>1. h # key
      BY <2>4
    <3>. QED  BY <1>6, <2>4, <3>1 DEF PoolFor
  <2>. QED  BY <2>1, <2>2, <2>3, <2>4
<1>10. \A p \in DOMAIN pools' :
         /\ pools'[p] = [order |-> pools'[p].order, next |-> pools'[p].next]
         /\ pools'[p].order \in Seq(Known)
  <2>1. \A p \in DOMAIN pools : /\ pools[p] = [order |-> pools[p].order, next |-> pools[p].next]
                               /\ pools[p].order \in Seq(Known)
    BY DEF PoolsInv
  <2>2. new.order \in Seq(Known)
    BY <1>1, <1>3
  <2>. SUFFICES ASSUME NEW p \in DOMAIN pools'
                PROVE  /\ pools'[p] = [order |-> pools'[p].order, next |-> pools'[p].next]
                       /\ pools'[p].order \in Seq(Known)
    OBVIOUS
  <2>3. CASE p = key
    BY <1>3, <1>6, <2>2, <2>3
  <2>4. CASE p # key
    <3>1. p \in DOMAIN pools /\ pools'[p] = pools[p]
      BY <1>6, <2>4
    <3>. QED  BY <2>1, <3>1
  <2>. QED  BY <2>3, <2>4
<1>. QED
  BY <1>6, <1>7, <1>8, <1>9, <1>10 DEF PoolsGrow

\* A worker that joins is added to the pool of all and to that of its host.
LEMMA PoolsJoin ==
  ASSUME PoolsInv, NEW s \in DOMAIN Workers, JoinWorker(s)
  PROVE  /\ PoolsGrow /\ Known' \subseteq DOMAIN Workers
         /\ AllWorkers \in DOMAIN pools' /\ pools' = [p \in DOMAIN pools' |-> pools'[p]]
         /\ \A p \in DOMAIN pools' :
              /\ pools'[p] = [order |-> pools'[p].order, next |-> pools'[p].next]
              /\ pools'[p].order \in Seq(Known')
<1>. DEFINE host == Workers[s].host
<1>1. PICK all \in OrdersOf(Range(pools[AllWorkers].order) \cup {s}),
           local \in OrdersOf(Range(PoolFor(pools, host).order) \cup {s}) :
          pools' = WithPool(WithPool(pools, host, [PoolFor(pools, host) EXCEPT !.order = local]),
                            AllWorkers, [pools[AllWorkers] EXCEPT !.order = all])
  BY DEF JoinWorker
<1>2. s \notin Known
  BY DEF JoinWorker, Known
<1>3. /\ Range(PoolFor(pools, host).order) \subseteq Known /\ Known \subseteq DOMAIN Workers
      /\ PoolFor(pools, host) = [order |-> PoolFor(pools, host).order, next |-> PoolFor(pools, host).next]
      /\ pools[AllWorkers] = [order |-> pools[AllWorkers].order, next |-> pools[AllWorkers].next]
      /\ AllWorkers \in DOMAIN pools
  BY PoolForKnown DEF PoolsInv
<1>4. /\ IsFiniteSet(Known \cup {s}) /\ IsFiniteSet(Range(PoolFor(pools, host).order) \cup {s})
  <2>1. Known \cup {s} \subseteq DOMAIN Workers /\ Range(PoolFor(pools, host).order) \cup {s} \subseteq DOMAIN Workers
    BY <1>3
  <2>. QED  BY <2>1, MainAssumption, FS_Subset
<1>5. Range(all) = Known \cup {s} /\ all \in Seq(Known \cup {s})
  BY <1>1, <1>4, OrderIsSequence DEF Known
<1>6. /\ Range(local) = Range(PoolFor(pools, host).order) \cup {s} /\ local \in Seq(Known \cup {s})
  <2>1. Range(PoolFor(pools, host).order) \cup {s} \subseteq Known \cup {s}
    BY <1>3
  <2>. QED  BY <1>1, <1>4, <2>1, OrderIsSequence
<1>. DEFINE A == [order |-> all, next |-> pools[AllWorkers].next]
            B == [order |-> local, next |-> PoolFor(pools, host).next]
<1>7. pools' = WithPool(WithPool(pools, host, B), AllWorkers, A)
  <2>1. [pools[AllWorkers] EXCEPT !.order = all] = A
    BY <1>3
  <2>2. [PoolFor(pools, host) EXCEPT !.order = local] = B
    BY <1>3
  <2>. QED  BY <1>1, <2>1, <2>2
<1>8. /\ A = [order |-> A.order, next |-> A.next] /\ A.order = all
      /\ B = [order |-> B.order, next |-> B.next] /\ B.order = local
  OBVIOUS
<1>. HIDE DEF A, B, host
<1>9. pools' = [p \in {AllWorkers, host} \cup DOMAIN pools |->
                  IF p = AllWorkers THEN A ELSE IF p = host THEN B ELSE pools[p]]
  BY <1>7 DEF WithPool
<1>10. /\ DOMAIN pools' = {AllWorkers, host} \cup DOMAIN pools /\ pools' = [p \in DOMAIN pools' |-> pools'[p]]
       /\ pools'[AllWorkers] = A /\ (host # AllWorkers => pools'[host] = B)
       /\ \A p \in DOMAIN pools : p # AllWorkers /\ p # host => pools'[p] = pools[p]
  BY <1>9
<1>11. Known' = Known \cup {s}
  BY <1>5, <1>8, <1>10 DEF Known
<1>12. \A h : Range(PoolFor(pools', h).order) \cap Known \subseteq Range(PoolFor(pools, h).order)
  <2>. SUFFICES ASSUME NEW h  PROVE Range(PoolFor(pools', h).order) \cap Known \subseteq Range(PoolFor(pools, h).order)
    OBVIOUS
  <2>1. CASE h = NoHost \/ h = AllWorkers
    <3>1. PoolFor(pools', h) = A /\ PoolFor(pools, h) = pools[AllWorkers]
      BY <1>3, <1>10, <2>1 DEF PoolFor
    <3>. QED  BY <1>2, <1>5, <1>8, <3>1 DEF Known
  <2>2. CASE h # NoHost /\ h # AllWorkers /\ h = host
    <3>1. PoolFor(pools', h) = B
      BY <1>10, <2>2 DEF PoolFor
    <3>. QED  BY <1>2, <1>6, <1>8, <2>2, <3>1
  <2>3. CASE h # NoHost /\ h # AllWorkers /\ h # host
    <3>1. PoolFor(pools', h) = PoolFor(pools, h)
      BY <1>10, <2>3 DEF PoolFor
    <3>. QED  BY <3>1
  <2>. QED  BY <2>1, <2>2, <2>3
<1>13. \A p \in DOMAIN pools' :
         /\ pools'[p] = [order |-> pools'[p].order, next |-> pools'[p].next]
         /\ pools'[p].order \in Seq(Known')
  <2>. SUFFICES ASSUME NEW p \in DOMAIN pools'
                PROVE  /\ pools'[p] = [order |-> pools'[p].order, next |-> pools'[p].next]
                       /\ pools'[p].order \in Seq(Known')
    OBVIOUS
  <2>1. CASE p = AllWorkers
    BY <1>5, <1>8, <1>10, <1>11, <2>1
  <2>2. CASE p = host /\ p # AllWorkers
    BY <1>6, <1>8, <1>10, <1>11, <2>2
  <2>3. CASE p # AllWorkers /\ p # host
    <3>1. p \in DOMAIN pools /\ pools'[p] = pools[p]
      BY <1>10, <2>3
    <3>2. pools[p] = [order |-> pools[p].order, next |-> pools[p].next] /\ pools[p].order \in Seq(Known)
      BY <3>1 DEF PoolsInv
    <3>3. \A S, T : S \subseteq T => \A x \in Seq(S) : x \in Seq(T)
      OBVIOUS
    <3>4. pools[p].order \in Seq(Known')
      <4>1. Known \subseteq Known'
        BY <1>11
      <4>. QED  BY <3>2, <3>3, <4>1
    <3>. QED  BY <3>1, <3>2, <3>4
  <2>. QED  BY <2>1, <2>2, <2>3
<1>. QED
  BY <1>3, <1>10, <1>11, <1>12, <1>13 DEF PoolsGrow

\* A try of a task changes the pools at most by where the next search starts.
LEMMA TryingPools ==
  ASSUME PoolsInv, NEW j, NEW n, Trying(j, n)
  PROVE  /\ PoolsGrow /\ Known' = Known
         /\ AllWorkers \in DOMAIN pools' /\ pools' = [p \in DOMAIN pools' |-> pools'[p]]
         /\ \A p \in DOMAIN pools' :
              /\ pools'[p] = [order |-> pools'[p].order, next |-> pools'[p].next]
              /\ pools'[p].order \in Seq(Known)
<1>1. CASE pools' = pools
  <2>1. Known' = Known
    BY <1>1 DEF Known
  <2>2. PoolsGrow
    BY <1>1, <2>1 DEF PoolsGrow
  <2>. QED  BY <1>1, <2>1, <2>2 DEF PoolsInv
<1>2. CASE \E host, next : pools' = WithPool(pools, IF host = NoHost THEN AllWorkers ELSE host,
                           [PoolFor(pools, host) EXCEPT !.next = next])
  <2>1. PICK host, next : pools' = WithPool(pools, IF host = NoHost THEN AllWorkers ELSE host,
                           [PoolFor(pools, host) EXCEPT !.next = next])
    BY <1>2
  <2>. QED  BY <2>1, PoolsTryNext
<1>3. pools' = pools \/ \E host, next : pools' = WithPool(pools, IF host = NoHost THEN AllWorkers ELSE host,
                           [PoolFor(pools, host) EXCEPT !.next = next])
  BY DEF Trying, DoesNotFit
<1>. QED
  BY <1>1, <1>2, <1>3

\* Every step keeps PoolsInv, and no pool loses a worker.
LEMMA PoolsInvNext ==
  ASSUME BasicInv, PoolsInv, [Next]_vars
  PROVE  PoolsInv' /\ PoolsGrow
<1>1. CASE TryTask
  <2>1. PICK j \in JobsThatRun(Config) : \E n \in pass.todo[j] : Trying(j, n)
    BY <1>1, TriesOne
  <2>2. PICK n \in pass.todo[j] : Trying(j, n)
    BY <2>1
  <2>3. loop.pc = "try" /\ healthy' = healthy
    BY <1>1, TriesOne
  <2>4. InPass
    BY <2>3 DEF InPass
  <2>5. PICK ran \in BOOLEAN, refused \in {{}, {<<j, n, healthy>>}} : pass' = Tried(j, n, ran, refused)
    BY <2>2, <2>3, TryingFrame DEF BasicInv
  <2>6. pass'.refused = pass.refused \cup refused
    BY <2>4, <2>5, TriedPass DEF BasicInv
  <2>7. \A r \in pass'.refused : r[3] \subseteq Known
    BY <2>5, <2>6 DEF PoolsInv
  <2>. QED  BY <2>2, <2>3, <2>7, TryingPools DEF PoolsInv
<1>2. ASSUME NEW s \in DOMAIN Workers, JoinWorker(s)  PROVE PoolsInv' /\ PoolsGrow
  <2>1. healthy' = healthy /\ pass' = pass
    BY <1>2 DEF JoinWorker
  <2>2. Known \subseteq Known'
    BY <1>2, PoolsJoin DEF PoolsGrow
  <2>3. healthy' \subseteq Known' /\ \A r \in pass'.refused : r[3] \subseteq Known'
    BY <2>1, <2>2 DEF PoolsInv
  <2>. QED  BY <1>2, <2>3, PoolsJoin DEF PoolsInv
<1>3. CASE pools' = pools /\ healthy' \subseteq Known /\ pass'.refused \subseteq pass.refused
  <2>1. Known' = Known
    BY <1>3 DEF Known
  <2>2. PoolsGrow
    BY <1>3, <2>1 DEF PoolsGrow
  <2>. QED  BY <1>3, <2>1, <2>2 DEF PoolsInv
<1>4. ASSUME NEW s \in DOMAIN Workers, ChangeHealth(s)  PROVE PoolsInv' /\ PoolsGrow
  <2>1. pools' = pools /\ pass' = pass /\ healthy' \subseteq healthy \cup {s} /\ s \in Known
    BY <1>4 DEF ChangeHealth, Known
  <2>. QED  BY <1>3, <2>1 DEF PoolsInv
<1>5. CASE UNCHANGED <<pools, healthy, pass>>
  BY <1>3, <1>5 DEF PoolsInv
<1>6. CASE StartPass
  <2>1. UNCHANGED <<pools, healthy>>
    BY <1>6 DEF StartPass
  <2>2. CASE loop' # loop
    <3>1. pass'.refused = {}
      BY <1>6, <2>2, PassStarts
    <3>. QED  BY <1>3, <2>1, <3>1 DEF PoolsInv
  <2>3. CASE loop' = loop
    <3>1. pass' = pass
      BY <1>6, <2>3 DEF StartPass, At, BasicInv, LoopShape
    <3>. QED  BY <1>5, <2>1, <3>1
  <2>. QED  BY <2>2, <2>3
<1>7. CASE KillOrphans
  <2>1. UNCHANGED <<pools, healthy>> /\ pass'.refused = {}
    BY <1>7 DEF KillOrphans, NoPass
  <2>. QED  BY <1>3, <2>1 DEF PoolsInv
<1>. QED
  BY <1>1, <1>2, <1>4, <1>5, <1>6, <1>7
     DEF Next, vars, Tick, GetConfigAndNodes, UpdateConfig, EndTask

-----------------------------------------------------------------------------
(* The steps that matter to resources *)

\* A try that starts the task
Starts(j, n, answer) ==
  /\ loop.pc = "try" /\ crashed = "no" /\ j \in JobsThatRun(Config) /\ n \in pass.todo[j]
  /\ Fits(left, SlotsFor(Config, Config.jobs[j], n))
  /\ answer \in FindWorker(Config, Config.jobs[j], n, KnownWorkers, healthy, workerLeft, pools)
  /\ IsStarted(j, n, answer)

\* A step of the rest of the pass, of another scheduleOnce, or of anyone else
ChargesNothing ==
  /\ UNCHANGED <<left, workerLeft>> /\ running' \subseteq running
  /\ loop'.config = loop.config /\ loop'.nodes = loop.nodes
  /\ \/ loop'.pc = loop.pc
     \/ InPass /\ InPass'

\* A step starts a task, begins a pass, counts workers, ends the pass, or charges nothing.
LEMMA StepsOfAPass ==
  ASSUME BasicInv, [Next]_vars
  PROVE  \/ \E j, n, answer : Starts(j, n, answer)
         \/ StartPass /\ loop' # loop
         \/ UpdateConfig
         \/ loop'.pc \in {"config", "update"} /\ running' = running
         \/ ChargesNothing
<1>1. CASE TryTask
  <2>1. PICK j \in JobsThatRun(Config) : \E n \in pass.todo[j] : Trying(j, n)
    BY <1>1, TriesOne
  <2>2. PICK n \in pass.todo[j] : Trying(j, n)
    BY <2>1
  <2>3. loop.pc = "try" /\ crashed = "no"
    BY <1>1, TriesOne
  <2>4. loop'.config = loop.config /\ loop'.nodes = loop.nodes /\ InPass /\ InPass'
    BY <2>2, <2>3, TryingFrame DEF BasicInv
  <2>5. \/ UNCHANGED <<left, workerLeft, running>>
        \/ \E answer : Starts(j, n, answer)
    BY <2>2, <2>3 DEF Trying, DoesNotFit, IsRefused, Starts
  <2>. QED  BY <2>4, <2>5 DEF ChargesNothing
<1>2. CASE StartPass /\ loop' = loop
  <2>1. UNCHANGED <<left, workerLeft, running>>
    BY <1>2 DEF StartPass, At, BasicInv, LoopShape
  <2>. QED  BY <1>2, <2>1 DEF ChargesNothing
<1>3. CASE GetConfigAndNodes \/ KillOrphans
  BY <1>3 DEF GetConfigAndNodes, KillOrphans, Idle
<1>4. ASSUME NEW t \in running, NEW outcome \in Outcomes, EndTask(t, outcome)
      PROVE  ChargesNothing
  BY <1>4 DEF EndTask, ChargesNothing
<1>5. ASSUME NEW s \in DOMAIN Workers, JoinWorker(s) \/ ChangeHealth(s)
      PROVE  ChargesNothing
  BY <1>5 DEF JoinWorker, ChangeHealth, ChargesNothing
<1>6. CASE Tick \/ UNCHANGED vars
  BY <1>6 DEF Tick, vars, ChargesNothing
<1>. QED
  BY <1>1, <1>2, <1>3, <1>4, <1>5, <1>6 DEF Next

\* The worker of a task that is started
LEMMA StartedOn ==
  ASSUME BasicInv, PoolsInv, NEW j, NEW n, NEW answer, Starts(j, n, answer)
  PROVE  /\ answer.shard \in DOMAIN Workers /\ answer.shard \in DOMAIN workerLeft
         /\ \A r \in WorkerResources(Config) : Config.jobs[j].needs[r] <= workerLeft[answer.shard][r]
<1>1. answer.response = "RanTask"
  BY DEF Starts, IsStarted
<1>2. answer.shard \in Known /\ TaskFitsWorker(Config, Config.jobs[j], Workers[answer.shard], workerLeft)
  BY <1>1, WorkerIsFound DEF Starts
<1>3. answer.shard \in DOMAIN Workers
  BY <1>2 DEF PoolsInv
<1>4. Workers[answer.shard].shard = answer.shard
  BY <1>3, MainAssumption
<1>. QED
  BY <1>2, <1>3, <1>4 DEF TaskFitsWorker

\* What it is started with
LEMMA StartedFrame ==
  ASSUME BasicInv, NEW j, NEW n, NEW answer, Starts(j, n, answer)
  PROVE  /\ loop' = loop /\ Config' = Config /\ InPass /\ InPass' /\ loop.pc # "config"
         /\ j \in JobsThatRun(Config) /\ n \in pass.todo[j] /\ n \in loop.nodes /\ LevelOf(n) = Config.jobs[j].level
         /\ running' = running \cup {NewTask(j, n, answer)} /\ NewTask(j, n, answer) \notin running
         /\ left' = Charge(left, SlotsFor(Config, Config.jobs[j], n))
         /\ workerLeft' = ChargeWorker(Config, Config.jobs[j], workerLeft, answer.shard)
         /\ pass' = Tried(j, n, TRUE, {})
<1>1. loop' = loop /\ InPass /\ loop.pc # "config" /\ j \in JobsThatRun(Config) /\ n \in pass.todo[j]
  BY DEF Starts, IsStarted, InPass
<1>2. Config' = Config /\ InPass'
  BY <1>1 DEF Config, InPass
<1>3. /\ running' = running \cup {NewTask(j, n, answer)}
      /\ left' = Charge(left, SlotsFor(Config, Config.jobs[j], n))
      /\ workerLeft' = ChargeWorker(Config, Config.jobs[j], workerLeft, answer.shard)
      /\ pass' = Tried(j, n, TRUE, {})
  BY DEF Starts, IsStarted, NewTask
<1>4. NewTask(j, n, answer) \notin running
  <2>1. NewTask(j, n, answer).inv = starts
    BY DEF NewTask
  <2>2. starts \in Nat /\ \A t \in running : t.inv \in Nat /\ t.inv < starts
    BY DEF BasicInv, TasksInv
  <2>3. \A t \in running : t.inv # starts
    BY <2>2
  <2>. QED  BY <2>1, <2>3
<1>5. n \in loop.nodes /\ LevelOf(n) = Config.jobs[j].level
  BY <1>1, TriedIsTask
<1>. QED
  BY <1>1, <1>2, <1>3, <1>4, <1>5

\* try_to_schedule takes what the task needs off the slots of its nodes, which had it.
LEMMA LeftCharged ==
  ASSUME NaturalNeeds, BasicInv, LeftInv, NEW j, NEW n, NEW answer, Starts(j, n, answer)
  PROVE  LET need == SlotsFor(Config, Config.jobs[j], n)
             slots == SlotsOf(Config, loop.nodes)
         IN /\ left' = [s \in slots |-> left'[s]] /\ DOMAIN need \subseteq slots
            /\ \A s \in slots : /\ left[s] \in Int /\ left'[s] \in Int /\ left'[s] <= left[s]
                                /\ s \notin DOMAIN need => left'[s] = left[s]
            /\ \A s \in DOMAIN need : /\ need[s] = Config.jobs[j].needs[s[3]] /\ need[s] \in Nat
                                      /\ left'[s] = left[s] - need[s] /\ left'[s] >= 0
<1>. DEFINE need == SlotsFor(Config, Config.jobs[j], n)
            slots == SlotsOf(Config, loop.nodes)
<1>1. /\ loop.pc # "config" /\ InPass /\ j \in JobsThatRun(Config) /\ n \in loop.nodes
      /\ left' = Charge(left, need)
  BY StartedFrame
<1>2. NodesAreGrouped(Config, loop.nodes) /\ left = [s \in slots |-> left[s]] /\ \A s \in slots : left[s] \in Int
  BY <1>1 DEF LeftInv
<1>3. /\ need = [s \in DOMAIN need |-> Config.jobs[j].needs[s[3]]] /\ DOMAIN need \subseteq slots
      /\ \A s \in DOMAIN need : need[s] \in Nat
  BY <1>1, <1>2, TaskSlots DEF BasicInv
<1>4. \A s \in DOMAIN need : need[s] <= left[s]
  BY DEF Starts, Fits
<1>. HIDE DEF need, slots
<1>5. \A s \in DOMAIN need : need[s] = Config.jobs[j].needs[s[3]]
  BY <1>3
<1>6. DOMAIN left = slots
  BY <1>2
<1>7. left' = [s \in slots |-> IF s \in DOMAIN need THEN left[s] - need[s] ELSE left[s]]
  BY <1>1, <1>6 DEF Charge
<1>8. left' = [s \in slots |-> left'[s]]
  BY <1>7
<1>9. \A s \in slots : left'[s] = IF s \in DOMAIN need THEN left[s] - need[s] ELSE left[s]
  BY <1>7
<1>10. ASSUME NEW s \in slots
       PROVE  /\ left[s] \in Int /\ left'[s] \in Int /\ left'[s] <= left[s]
              /\ s \notin DOMAIN need => left'[s] = left[s]
              /\ s \in DOMAIN need => left'[s] = left[s] - need[s] /\ left'[s] >= 0
  <2>1. left[s] \in Int
    BY <1>2
  <2>2. CASE s \in DOMAIN need
    <3>1. left'[s] = left[s] - need[s]
      BY <1>9, <2>2
    <3>2. need[s] \in Nat /\ need[s] <= left[s]
      BY <1>3, <1>4, <2>2
    <3>. QED  BY <2>1, <2>2, <3>1, <3>2
  <2>3. CASE s \notin DOMAIN need
    <3>1. left'[s] = left[s]
      BY <1>9, <2>3
    <3>. QED  BY <2>1, <2>3, <3>1
  <2>. QED  BY <2>2, <2>3
<1>. QED
  BY <1>3, <1>5, <1>8, <1>10 DEF need, slots

\* The selector takes what the task needs off its worker, which had it.
LEMMA WorkerCharged ==
  ASSUME NaturalNeeds, BasicInv, PoolsInv, WorkerLeftInv, NEW j, NEW n, NEW answer, Starts(j, n, answer)
  PROVE  /\ DOMAIN workerLeft' = DOMAIN workerLeft
         /\ workerLeft' = [w \in DOMAIN workerLeft |->
                             [r \in WorkerResources(Config) |-> workerLeft'[w][r]]]
         /\ \A w \in DOMAIN workerLeft : \A r \in WorkerResources(Config) :
              /\ workerLeft[w][r] \in Int /\ workerLeft'[w][r] \in Int /\ workerLeft'[w][r] <= workerLeft[w][r]
              /\ w # answer.shard => workerLeft'[w][r] = workerLeft[w][r]
         /\ \A r \in WorkerResources(Config) :
              /\ Config.jobs[j].needs[r] \in Nat /\ workerLeft'[answer.shard][r] >= 0
              /\ workerLeft'[answer.shard][r] = workerLeft[answer.shard][r] - Config.jobs[j].needs[r]
<1>. DEFINE need == Config.jobs[j].needs
            R == WorkerResources(Config)
            D == DOMAIN workerLeft
            shard == answer.shard
<1>1. /\ loop.pc = "try" /\ loop.pc # "config" /\ j \in JobsThatRun(Config)
      /\ workerLeft' = ChargeWorker(Config, Config.jobs[j], workerLeft, shard)
  BY StartedFrame DEF Starts
<1>2. /\ workerLeft = [w \in D |-> [r \in R |-> workerLeft[w][r]]]
      /\ \A w \in D : \A r \in R : workerLeft[w][r] \in Int
  BY <1>1 DEF WorkerLeftInv
<1>3. shard \in D /\ \A r \in R : need[r] <= workerLeft[shard][r]
  BY StartedOn
<1>4. \A r \in R : need[r] \in Nat
  <2>1. WorkerLevel(Config) \in LevelsOf(Config)
    BY <1>1, ConfigAssumption DEF BasicInv, LoopShape, Config, WorkerLevel, LevelsOf
  <2>. QED  BY <1>1, <2>1, NeedsAreNatural DEF BasicInv, WorkerResources
<1>5. workerLeft' = [workerLeft EXCEPT ![shard] = [r \in DOMAIN @ |-> @[r] - need[r]]]
  BY <1>1 DEF ChargeWorker
<1>. HIDE DEF need, R, D, shard
<1>6. D = DOMAIN workerLeft
  BY DEF D
<1>7. DOMAIN workerLeft[shard] = R
  BY <1>2, <1>3
<1>8. workerLeft' = [w \in D |-> IF w = shard THEN [r \in R |-> workerLeft[shard][r] - need[r]] ELSE workerLeft[w]]
  BY <1>2, <1>3, <1>5, <1>6, <1>7
<1>9. /\ \A w \in D : w # shard => workerLeft'[w] = workerLeft[w]
      /\ workerLeft'[shard] = [r \in R |-> workerLeft[shard][r] - need[r]]
      /\ DOMAIN workerLeft' = D
  BY <1>3, <1>8
<1>10. \A w \in D : workerLeft[w] = [r \in R |-> workerLeft[w][r]]
  BY <1>2
<1>11. \A w \in D : workerLeft'[w] = [r \in R |-> workerLeft'[w][r]]
  BY <1>9, <1>10
<1>12. workerLeft' = [w \in D |-> [r \in R |-> workerLeft'[w][r]]]
  BY <1>8, <1>11
<1>13. ASSUME NEW r \in R
       PROVE  /\ workerLeft'[shard][r] = workerLeft[shard][r] - need[r]
              /\ workerLeft'[shard][r] \in Int /\ workerLeft'[shard][r] >= 0
              /\ workerLeft'[shard][r] <= workerLeft[shard][r]
  <2>1. workerLeft'[shard][r] = workerLeft[shard][r] - need[r]
    BY <1>9
  <2>2. workerLeft[shard][r] \in Int /\ need[r] \in Nat /\ need[r] <= workerLeft[shard][r]
    BY <1>2, <1>3, <1>4
  <2>. QED  BY <2>1, <2>2
<1>14. ASSUME NEW w \in D, NEW r \in R
       PROVE  /\ workerLeft[w][r] \in Int /\ workerLeft'[w][r] \in Int /\ workerLeft'[w][r] <= workerLeft[w][r]
              /\ w # shard => workerLeft'[w][r] = workerLeft[w][r]
  <2>1. workerLeft[w][r] \in Int
    BY <1>2
  <2>2. CASE w = shard
    BY <1>13, <2>1, <2>2
  <2>3. CASE w # shard
    <3>1. workerLeft'[w][r] = workerLeft[w][r]
      BY <1>9, <2>3
    <3>. QED  BY <2>1, <2>3, <3>1
  <2>. QED  BY <2>2, <2>3
<1>. QED
  BY <1>4, <1>9, <1>12, <1>13, <1>14 DEF need, R, D, shard

-----------------------------------------------------------------------------
(* Resources are amounts, and get less in a pass. *)

\* Nothing runs and nothing is counted yet.
LEMMA ResourceInvInit ==
  ASSUME Init
  PROVE  ResourceInv
<1>1. UsesInv
  BY FS_EmptySet DEF Init, UsesInv
<1>2. LeftInv /\ WorkerLeftInv
  BY DEF Init, Idle, LeftInv, WorkerLeftInv, InPass
<1>. QED
  BY <1>1, <1>2, PoolsInvInit DEF ResourceInv

\* Every step keeps UsesInv.
LEMMA UsesInvNext ==
  ASSUME NaturalNeeds, BasicInv, ResourceInv, [Next]_vars
  PROVE  UsesInv'
<1>1. ASSUME running' \subseteq running  PROVE UsesInv'
  BY <1>1, FS_Subset DEF ResourceInv, UsesInv
<1>2. ASSUME NEW j, NEW n, NEW answer, Starts(j, n, answer)  PROVE UsesInv'
  <2>. DEFINE rt == NewTask(j, n, answer)
  <2>1. /\ InPass /\ loop.pc # "config" /\ j \in JobsThatRun(Config) /\ n \in loop.nodes
        /\ running' = running \cup {rt}
    BY <1>2, StartedFrame
  <2>2. NodesAreGrouped(Config, loop.nodes)
    BY <2>1 DEF ResourceInv, LeftInv
  <2>3. IsFiniteSet(rt.uses)
    BY <2>1, <2>2, TaskUsesAreFinite DEF BasicInv
  <2>4. rt.shard = answer.shard /\ answer.shard \in DOMAIN Workers
    BY <1>2, StartedOn DEF NewTask, ResourceInv
  <2>5. ASSUME NEW u \in rt.uses
        PROVE  u.amount \in Nat /\ (u.node = rt.shard \/ u.node \in NodeNames)
    <3>1. \/ NodeEntry(Config, Config.jobs[j], n, u)
          \/ WorkerEntry(Config, Config.jobs[j], answer.shard, u)
      BY TaskEntries
    <3>2. CASE NodeEntry(Config, Config.jobs[j], n, u)
      <4>1. PICK m \in TraverseUp(n) : \E r \in ResourcesAt(Config, m.level) :
              u = [level |-> m.level, node |-> m.name, resource |-> r, amount |-> Config.jobs[j].needs[r]]
        BY <3>2 DEF NodeEntry
      <4>2. PICK r \in ResourcesAt(Config, m.level) :
              u = [level |-> m.level, node |-> m.name, resource |-> r, amount |-> Config.jobs[j].needs[r]]
        BY <4>1
      <4>3. m.level \in LevelsOf(Config) /\ m.name \in NodeNames
        BY <2>1, <2>2, SlotsAreKnown DEF BasicInv
      <4>4. Config.jobs[j].needs[r] \in Nat
        BY <2>1, <4>3, NeedsAreNatural DEF BasicInv
      <4>5. u.amount = Config.jobs[j].needs[r] /\ u.node = m.name
        BY <4>2
      <4>. QED  BY <4>3, <4>4, <4>5
    <3>3. CASE WorkerEntry(Config, Config.jobs[j], answer.shard, u)
      <4>1. PICK r \in WorkerResources(Config) :
              u = [level |-> WorkerLevel(Config), node |-> answer.shard, resource |-> r,
                   amount |-> Config.jobs[j].needs[r]]
        BY <3>3 DEF WorkerEntry
      <4>2. Config.jobs[j].needs[r] \in Nat
        BY <1>2, WorkerCharged DEF ResourceInv
      <4>3. u.amount = Config.jobs[j].needs[r] /\ u.node = answer.shard
        BY <4>1
      <4>. QED  BY <2>4, <4>2, <4>3
    <3>. QED  BY <3>1, <3>2, <3>3
  <2>. HIDE DEF rt
  <2>6. IsFiniteSet(running')
    BY <2>1, FS_AddElement DEF ResourceInv, UsesInv
  <2>. QED
    BY <2>1, <2>3, <2>4, <2>5, <2>6 DEF ResourceInv, UsesInv
<1>3. CASE StartPass
  BY <1>1, <1>3 DEF StartPass
<1>4. CASE UpdateConfig
  BY <1>1, <1>4 DEF UpdateConfig
<1>. QED
  BY <1>1, <1>2, <1>3, <1>4, StepsOfAPass DEF ChargesNothing

\* What runs uses amounts.
LEMMA RunningHaveUses ==
  ASSUME UsesInv
  PROVE  HaveUses(running)
BY DEF UsesInv, HaveUses

\* What StartPass leaves, which takes off what runs
LEMMA LeftAtFirst ==
  ASSUME BasicInv, ResourceInv, StartPass, loop' # loop
  PROVE  /\ left' = [s \in SlotsOf(Config, loop.nodes) |-> left'[s]]
         /\ \A s \in SlotsOf(Config, loop.nodes) :
              left'[s] \in Int /\ left'[s] <= Config.limits[s[1]][s[3]]
<1>. DEFINE slots == SlotsOf(Config, loop.nodes)
            packed == PackResources(Config, loop.nodes)
<1>1. loop.pc = "schedule" /\ loop.pc # "config" /\ NodesAreGrouped(Config, loop.nodes)
  BY PassStarts
<1>2. PICK first \in FirstGroups(loop.nodes) : left' = ChargeRunning(packed, running, first)
  BY PassStarts
<1>3. packed = [s \in slots |-> Config.limits[s[1]][s[3]]]
  BY DEF PackResources, SlotsOf
<1>4. \A s \in slots : Config.limits[s[1]][s[3]] \in Int
  BY <1>1, SlotsAreKnown, LimitsAreIntegers DEF BasicInv
<1>. HIDE DEF slots, packed
<1>5. DOMAIN packed = slots /\ \A s \in slots : packed[s] = Config.limits[s[1]][s[3]]
  BY <1>3
<1>6. left' = [s \in slots |-> IF first[s[2]] = s[1] THEN packed[s] - UsedOf(running, s[2], s[3]) ELSE packed[s]]
  BY <1>2, <1>5 DEF ChargeRunning
<1>7. left' = [s \in slots |-> left'[s]]
  BY <1>6
<1>8. ASSUME NEW s \in slots  PROVE left'[s] \in Int /\ left'[s] <= Config.limits[s[1]][s[3]]
  <2>1. UsedOf(running, s[2], s[3]) \in Nat
    BY RunningHaveUses, UsedIsNatural DEF ResourceInv
  <2>2. packed[s] \in Int /\ packed[s] = Config.limits[s[1]][s[3]]
    BY <1>4, <1>5
  <2>3. left'[s] = IF first[s[2]] = s[1] THEN packed[s] - UsedOf(running, s[2], s[3]) ELSE packed[s]
    BY <1>6
  <2>. QED  BY <2>1, <2>2, <2>3
<1>. QED
  BY <1>7, <1>8 DEF slots

\* Every step keeps LeftInv.
LEMMA LeftInvNext ==
  ASSUME NaturalNeeds, BasicInv, ResourceInv, [Next]_vars
  PROVE  LeftInv'
<1>1. ASSUME NEW j, NEW n, NEW answer, Starts(j, n, answer)  PROVE LeftInv'
  <2>. DEFINE slots == SlotsOf(Config, loop.nodes)
  <2>1. loop' = loop /\ Config' = Config /\ InPass /\ loop.pc # "config"
    BY <1>1, StartedFrame
  <2>2. NodesAreGrouped(Config, loop.nodes) /\ \A s \in slots : left[s] \in Int /\ left[s] <= Config.limits[s[1]][s[3]]
    BY <2>1 DEF ResourceInv, LeftInv
  <2>3. /\ left' = [s \in slots |-> left'[s]]
        /\ \A s \in slots : left[s] \in Int /\ left'[s] \in Int /\ left'[s] <= left[s]
    BY <1>1, LeftCharged DEF ResourceInv
  <2>4. \A s \in slots : Config.limits[s[1]][s[3]] \in Int
    BY <2>1, <2>2, SlotsAreKnown, LimitsAreIntegers DEF BasicInv
  <2>. HIDE DEF slots
  <2>5. \A s \in slots : left'[s] \in Int /\ left'[s] <= Config.limits[s[1]][s[3]]
    <3>. TAKE s \in slots
    <3>1. /\ left[s] \in Int /\ left'[s] \in Int /\ left'[s] <= left[s]
          /\ Config.limits[s[1]][s[3]] \in Int /\ left[s] <= Config.limits[s[1]][s[3]]
      BY <2>2, <2>3, <2>4
    <3>. QED  BY <3>1
  <2>6. SlotsOf(Config', loop'.nodes) = slots
    BY <2>1 DEF slots
  <2>. QED  BY <2>1, <2>2, <2>3, <2>5, <2>6 DEF LeftInv
<1>2. CASE StartPass /\ loop' # loop
  <2>1. /\ Config' = Config /\ loop'.nodes = loop.nodes /\ NodesAreGrouped(Config, loop.nodes)
    BY <1>2, PassStarts
  <2>. QED  BY <1>2, <2>1, LeftAtFirst DEF LeftInv
<1>3. CASE ~ InPass'
  BY <1>3 DEF LeftInv
<1>4. CASE ChargesNothing
  <2>1. CASE InPass'
    <3>1. InPass /\ Config' = Config /\ loop'.nodes = loop.nodes /\ left' = left
      BY <1>4, <2>1 DEF ChargesNothing, InPass, Config
    <3>. QED  BY <3>1 DEF ResourceInv, LeftInv
  <2>. QED  BY <1>3, <2>1
<1>5. UpdateConfig => ~ InPass'
  BY DEF UpdateConfig, At, BasicInv, LoopShape, InPass
<1>6. loop'.pc \in {"config", "update"} => ~ InPass'
  BY DEF InPass
<1>. QED
  BY <1>1, <1>2, <1>3, <1>4, <1>5, <1>6, StepsOfAPass

\* updateConfig takes what runs on a worker off its capacity.
LEMMA WorkersAtFirst ==
  ASSUME BasicInv, ResourceInv, UpdateConfig
  PROVE  /\ Config' = Config /\ loop'.pc = "schedule" /\ loop.pc # "config" /\ running' = running
         /\ DOMAIN workerLeft' = Known /\ Known \subseteq DOMAIN Workers
         /\ workerLeft' = [w \in Known |-> [r \in WorkerResources(Config) |-> workerLeft'[w][r]]]
         /\ \A w \in Known : \A r \in WorkerResources(Config) :
              /\ WorkerCapacity(Config, Workers[w])[r] \in Int
              /\ UsedOf({t \in running : t.shard = w}, w, r) \in Nat
              /\ workerLeft'[w][r] \in Int
              /\ workerLeft'[w][r] = WorkerCapacity(Config, Workers[w])[r]
                                       - UsedOf({t \in running : t.shard = w}, w, r)
<1>. DEFINE cap(w) == WorkerCapacity(Config, Workers[w])
            use(w, r) == UsedOf({t \in running : t.shard = w}, w, r)
            R == WorkerResources(Config)
<1>1. loop.pc = "update" /\ loop.pc # "config" /\ running' = running /\ loop' = [loop EXCEPT !.pc = "schedule"]
      /\ workerLeft' = UpdateWorkerResources(Config, KnownWorkers, running)
  BY DEF UpdateConfig, At
<1>2. Config' = Config /\ loop'.pc = "schedule" /\ loop.config \in Contents
  BY <1>1 DEF BasicInv, LoopShape, Config
<1>3. Known \subseteq DOMAIN Workers
  BY DEF ResourceInv, PoolsInv
<1>4. DOMAIN KnownWorkers = Known /\ \A w \in Known : KnownWorkers[w] = Workers[w]
  BY DEF KnownWorkers, Known
<1>5. workerLeft' = [w \in Known |-> [r \in R |-> cap(w)[r] - use(w, r)]]
  BY <1>1, <1>4 DEF UpdateWorkerResources
<1>6. \A w \in Known : \A r \in R : cap(w)[r] \in Int
  <2>1. \A w \in Known : IsAmounts(Config, cap(w))
    BY <1>2, <1>3, CapacityIsAmounts DEF Config
  <2>. QED  BY <2>1 DEF IsAmounts
<1>7. \A w \in Known : \A r \in R : use(w, r) \in Nat
  <2>. TAKE w \in Known
  <2>. DEFINE mine == {t \in running : t.shard = w}
  <2>1. HaveUses(mine)
    BY FS_Subset DEF ResourceInv, UsesInv, HaveUses
  <2>. HIDE DEF mine
  <2>2. \A r \in R : UsedOf(mine, w, r) \in Nat
    BY <2>1, UsedIsNatural
  <2>. QED  BY <2>2 DEF mine
<1>. HIDE DEF cap, use, R
<1>8. \A w \in Known : \A r \in R : workerLeft'[w][r] = cap(w)[r] - use(w, r)
  BY <1>5
<1>9. workerLeft' = [w \in Known |-> [r \in R |-> workerLeft'[w][r]]]
  BY <1>5
<1>10. \A w \in Known : \A r \in R : workerLeft'[w][r] \in Int
  <2>1. \A i \in Int, k \in Nat : i - k \in Int
    OBVIOUS
  <2>. QED  BY <1>6, <1>7, <1>8, <2>1
<1>11. DOMAIN workerLeft' = Known
  BY <1>5
<1>. QED
  BY <1>1, <1>2, <1>3, <1>6, <1>7, <1>8, <1>9, <1>10, <1>11 DEF cap, use, R

\* Every step keeps WorkerLeftInv.
LEMMA WorkerLeftInvNext ==
  ASSUME NaturalNeeds, BasicInv, ResourceInv, [Next]_vars
  PROVE  WorkerLeftInv'
<1>1. ASSUME NEW j, NEW n, NEW answer, Starts(j, n, answer)  PROVE WorkerLeftInv'
  <2>1. loop' = loop /\ Config' = Config /\ loop.pc = "try"
    BY <1>1, StartedFrame DEF Starts
  <2>2. DOMAIN workerLeft \subseteq DOMAIN Workers
    BY <2>1 DEF ResourceInv, WorkerLeftInv
  <2>. QED  BY <1>1, <2>1, <2>2, WorkerCharged DEF ResourceInv, WorkerLeftInv
<1>2. CASE UpdateConfig
  BY <1>2, WorkersAtFirst DEF WorkerLeftInv
<1>3. CASE loop'.pc \in {"config", "update"}
  BY <1>3 DEF WorkerLeftInv
<1>4. CASE Config' = Config /\ workerLeft' = workerLeft
            /\ (loop'.pc \in {"schedule", "try", "cut"} => loop.pc \in {"schedule", "try", "cut"})
  BY <1>4 DEF ResourceInv, WorkerLeftInv
<1>5. StartPass /\ loop' # loop => Config' = Config /\ workerLeft' = workerLeft /\ loop.pc = "schedule"
  BY PassStarts
<1>6. ChargesNothing => Config' = Config /\ workerLeft' = workerLeft
            /\ (loop'.pc \in {"schedule", "try", "cut"} => loop.pc \in {"schedule", "try", "cut"})
  BY DEF ChargesNothing, Config, InPass
<1>. QED
  BY <1>1, <1>2, <1>3, <1>4, <1>5, <1>6, StepsOfAPass

\* Every step keeps ResourceInv.
LEMMA ResourceInvNext ==
  ASSUME NaturalNeeds, BasicInv, ResourceInv, [Next]_vars
  PROVE  ResourceInv'
<1>1. PoolsInv'
  BY PoolsInvNext DEF ResourceInv
<1>. QED
  BY <1>1, UsesInvNext, LeftInvNext, WorkerLeftInvNext DEF ResourceInv

\* In a pass, what is left gets less.
LEMMA LeftGetsLess ==
  ASSUME NaturalNeeds, BasicInv, ResourceInv, [Next]_vars, InPass, InPass'
  PROVE  /\ Config' = Config /\ loop'.nodes = loop.nodes
         /\ \A s \in SlotsOf(Config, loop.nodes) : left[s] \in Int /\ left'[s] \in Int /\ left'[s] <= left[s]
         /\ DOMAIN workerLeft' = DOMAIN workerLeft
         /\ \A w \in DOMAIN workerLeft : \A r \in WorkerResources(Config) :
              workerLeft[w][r] \in Int /\ workerLeft'[w][r] \in Int /\ workerLeft'[w][r] <= workerLeft[w][r]
<1>1. ASSUME NEW j, NEW n, NEW answer, Starts(j, n, answer)
      PROVE  /\ Config' = Config /\ loop'.nodes = loop.nodes
             /\ \A s \in SlotsOf(Config, loop.nodes) : left[s] \in Int /\ left'[s] \in Int /\ left'[s] <= left[s]
             /\ DOMAIN workerLeft' = DOMAIN workerLeft
             /\ \A w \in DOMAIN workerLeft : \A r \in WorkerResources(Config) :
                  workerLeft[w][r] \in Int /\ workerLeft'[w][r] \in Int /\ workerLeft'[w][r] <= workerLeft[w][r]
  BY <1>1, StartedFrame, LeftCharged, WorkerCharged DEF ResourceInv
<1>2. CASE ChargesNothing
  <2>1. UNCHANGED <<left, workerLeft>> /\ Config' = Config /\ loop'.nodes = loop.nodes
    BY <1>2 DEF ChargesNothing, Config
  <2>2. \A s \in SlotsOf(Config, loop.nodes) : left[s] \in Int
    BY DEF ResourceInv, LeftInv
  <2>3. \A w \in DOMAIN workerLeft : \A r \in WorkerResources(Config) : workerLeft[w][r] \in Int
    BY DEF ResourceInv, WorkerLeftInv, InPass
  <2>4. \A i \in Int : i <= i
    OBVIOUS
  <2>. QED  BY <2>1, <2>2, <2>3, <2>4, Zenon
<1>3. ~ (StartPass /\ loop' # loop)
  BY PassStarts
<1>4. ~ UpdateConfig
  BY DEF UpdateConfig, At, InPass
<1>5. loop'.pc \notin {"config", "update"}
  BY DEF InPass
<1>. QED
  BY <1>1, <1>2, <1>3, <1>4, <1>5, StepsOfAPass

-----------------------------------------------------------------------------
(* Maximal passes *)

\* A pass goes on without these.
LEMMA WithinAPass ==
  ASSUME InPass, InPass'
  PROVE  ~ StartPass /\ ~ KillOrphans /\ ~ GetConfigAndNodes /\ ~ UpdateConfig
<1>1. ~ StartPass
  BY DEF StartPass, At, InPass
<1>2. ~ KillOrphans
  BY DEF KillOrphans, Idle, InPass
<1>3. ~ GetConfigAndNodes
  BY DEF GetConfigAndNodes, At, InPass
<1>4. ~ UpdateConfig
  BY DEF UpdateConfig, At, InPass
<1>. QED
  BY <1>1, <1>2, <1>3, <1>4

\* What the history of the pass has stays in it.
LEMMA HistoryStays ==
  ASSUME BasicInv, [Next]_vars, InPass, InPass'
  PROVE  /\ pass.started \subseteq pass'.started /\ pass.refused \subseteq pass'.refused
         /\ pass'.cands = pass.cands
<1>1. CASE TryTask
  <2>1. PICK j \in JobsThatRun(Config) : \E n \in pass.todo[j] : Trying(j, n)
    BY <1>1, TriesOne
  <2>2. PICK n \in pass.todo[j] : Trying(j, n)
    BY <2>1
  <2>3. loop.pc = "try"
    BY <1>1, TriesOne
  <2>4. PICK ran \in BOOLEAN, refused \in {{}, {<<j, n, healthy>>}} : pass' = Tried(j, n, ran, refused)
    BY <2>2, <2>3, TryingFrame DEF BasicInv
  <2>5. /\ pass'.cands = pass.cands /\ pass'.refused = pass.refused \cup refused
        /\ pass'.started = IF ran THEN pass.started \cup {<<j, n>>} ELSE pass.started
    BY <2>4, TriedPass DEF BasicInv
  <2>. QED  BY <2>5
<1>2. CASE pass' = pass
  BY <1>2
<1>3. ~ StartPass /\ ~ KillOrphans /\ ~ GetConfigAndNodes /\ ~ UpdateConfig
  BY WithinAPass
<1>. QED
  BY <1>1, <1>2, <1>3 DEF Next, vars, Tick, EndTask, JoinWorker, ChangeHealth

\* A task that does not fit what is left fits less even less.
LEMMA SettledStays ==
  ASSUME NaturalNeeds, BasicInv, ResourceInv, [Next]_vars, InPass, InPass',
         NEW j \in JobsThatRun(Config), NEW n \in loop.nodes, Settled(j, n)
  PROVE  Settled(j, n)'
<1>0. Config' = Config /\ loop.pc # "config" /\ NodesAreGrouped(Config, loop.nodes)
  BY LeftGetsLess DEF InPass, ResourceInv, LeftInv
<1>1. CASE <<j, n>> \in pass.started
  BY <1>1, HistoryStays DEF Settled
<1>2. CASE ~ Fits(left, SlotsFor(Config, Config.jobs[j], n))
  <2>. DEFINE need == SlotsFor(Config, Config.jobs[j], n)
  <2>1. PICK s \in DOMAIN need : ~ (need[s] <= left[s])
    BY <1>2 DEF Fits
  <2>2. DOMAIN need \subseteq SlotsOf(Config, loop.nodes) /\ \A x \in DOMAIN need : need[x] \in Nat
    BY <1>0, TaskSlots DEF BasicInv
  <2>3. left[s] \in Int /\ left'[s] \in Int /\ left'[s] <= left[s]
    BY <2>1, <2>2, LeftGetsLess
  <2>4. need[s] \in Nat
    BY <2>1, <2>2
  <2>. HIDE DEF need
  <2>5. ~ (need[s] <= left'[s])
    BY <2>1, <2>3, <2>4
  <2>6. ~ Fits(left', need)
    BY <2>1, <2>5 DEF Fits
  <2>. QED  BY <1>0, <2>6 DEF Settled, need
<1>3. ASSUME NEW r \in pass.refused, r[1] = j, r[2] = n,
             \A w \in r[3] \cap Range(PoolFor(pools, RequiredHostForTask(Config.jobs[j], n)).order) :
               ~ TaskFitsWorker(Config, Config.jobs[j], Workers[w], workerLeft)
      PROVE  Settled(j, n)'
  <2>. DEFINE host == RequiredHostForTask(Config.jobs[j], n)
              job == Config.jobs[j]
  <2>1. r \in pass'.refused /\ r[3] \subseteq Known /\ Known \subseteq DOMAIN Workers
    BY HistoryStays DEF ResourceInv, PoolsInv
  <2>2. Range(PoolFor(pools', host).order) \cap Known \subseteq Range(PoolFor(pools, host).order)
    BY PoolsInvNext DEF ResourceInv, PoolsGrow
  <2>3. ASSUME NEW w \in r[3] \cap Range(PoolFor(pools', host).order)
        PROVE  ~ TaskFitsWorker(Config, job, Workers[w], workerLeft')
    <3>1. ~ TaskFitsWorker(Config, job, Workers[w], workerLeft) /\ Workers[w].shard = w
      BY <1>3, <2>1, <2>2, MainAssumption
    <3>2. SUFFICES ASSUME TaskFitsWorker(Config, job, Workers[w], workerLeft')
                   PROVE  TaskFitsWorker(Config, job, Workers[w], workerLeft)
      BY <3>1
    <3>3. /\ w \in DOMAIN workerLeft /\ DoesPass(job.filters[WorkerLevel(Config)], Workers[w].host)
          /\ \A q \in WorkerResources(Config) : job.needs[q] <= workerLeft'[w][q]
      BY <3>1, <3>2, LeftGetsLess DEF TaskFitsWorker
    <3>4. \A q \in WorkerResources(Config) : job.needs[q] \in Nat
      <4>1. WorkerLevel(Config) \in LevelsOf(Config)
        BY <1>0, ConfigAssumption DEF BasicInv, LoopShape, Config, WorkerLevel, LevelsOf
      <4>. QED  BY <1>0, <4>1, NeedsAreNatural DEF BasicInv, WorkerResources
    <3>5. \A q \in WorkerResources(Config) :
            workerLeft[w][q] \in Int /\ workerLeft'[w][q] \in Int /\ workerLeft'[w][q] <= workerLeft[w][q]
      BY <3>3, LeftGetsLess
    <3>6. ASSUME NEW q \in WorkerResources(Config)  PROVE job.needs[q] <= workerLeft[w][q]
      <4>1. job.needs[q] \in Nat /\ job.needs[q] <= workerLeft'[w][q]
        BY <3>3, <3>4
      <4>2. workerLeft[w][q] \in Int /\ workerLeft'[w][q] \in Int /\ workerLeft'[w][q] <= workerLeft[w][q]
        BY <3>5
      <4>. QED  BY <4>1, <4>2
    <3>. QED  BY <3>1, <3>3, <3>6 DEF TaskFitsWorker
  <2>. QED  BY <1>0, <1>3, <2>1, <2>3 DEF Settled
<1>. QED
  BY <1>1, <1>2, <1>3 DEF Settled

\* A task that was tried is settled.
LEMMA TriedIsSettled ==
  ASSUME NaturalNeeds, BasicInv, ResourceInv, [Next]_vars, loop.pc = "try", crashed = "no",
         NEW j \in JobsThatRun(Config), NEW n \in pass.todo[j], Trying(j, n), healthy' = healthy
  PROVE  Settled(j, n)'
<1>1. InPass /\ InPass' /\ Config' = Config
  BY TryingFrame DEF BasicInv
<1>2. CASE DoesNotFit(j, n)
  BY <1>1, <1>2 DEF DoesNotFit, Settled
<1>3. ASSUME NEW answer, IsStarted(j, n, answer)  PROVE Settled(j, n)'
  <2>1. pass' = Tried(j, n, TRUE, {})
    BY <1>3 DEF IsStarted
  <2>2. pass'.started = pass.started \cup {<<j, n>>}
    BY <1>1, <2>1, TriedPass DEF BasicInv
  <2>. QED  BY <2>2 DEF Settled
<1>4. ASSUME NEW answer \in FindWorker(Config, Config.jobs[j], n, KnownWorkers, healthy, workerLeft, pools),
             IsRefused(j, n, answer)
      PROVE  Settled(j, n)'
  <2>. DEFINE host == RequiredHostForTask(Config.jobs[j], n)
              r == <<j, n, healthy>>
  <2>1. pass' = Tried(j, n, FALSE, {r}) /\ answer.response # "RanTask" /\ workerLeft' = workerLeft
    BY <1>4 DEF IsRefused
  <2>2. pass'.refused = pass.refused \cup {r}
    BY <1>1, <2>1, TriedPass DEF BasicInv
  <2>3. \A w \in healthy \cap Range(PoolFor(pools, host).order) :
          ~ TaskFitsWorker(Config, Config.jobs[j], Workers[w], workerLeft)
    BY <2>1, WorkerIsFound DEF ResourceInv
  <2>4. /\ Range(PoolFor(pools', host).order) \cap Known \subseteq Range(PoolFor(pools, host).order)
        /\ healthy \subseteq Known
    BY PoolsInvNext DEF ResourceInv, PoolsGrow, PoolsInv
  <2>5. /\ r \in pass'.refused /\ r[1] = j /\ r[2] = n /\ r[3] = healthy
    BY <2>2
  <2>6. \A w \in r[3] \cap Range(PoolFor(pools', host).order) :
          ~ TaskFitsWorker(Config', Config.jobs[j], Workers[w], workerLeft')
    BY <1>1, <2>1, <2>3, <2>4, <2>5
  <2>. HIDE DEF r
  <2>. QED  BY <1>1, <2>5, <2>6 DEF Settled
<1>. QED
  BY <1>2, <1>3, <1>4 DEF Trying

\* Every step keeps MaximalInv: resources get less, so what did not fit never will.
LEMMA MaximalInvNext ==
  ASSUME NaturalNeeds, BasicInv, ResourceInv, MaximalInv, [Next]_vars
  PROVE  MaximalInv'
<1>. SUFFICES ASSUME InPass', NEW j \in JobsThatRun(Config'), NEW n \in pass'.cands[j], n \notin pass'.todo[j]
              PROVE  Settled(j, n)'
  BY DEF MaximalInv
<1>1. CASE InPass
  <2>1. Config' = Config /\ pass'.cands = pass.cands /\ j \in JobsThatRun(Config)
    BY <1>1, LeftGetsLess, HistoryStays
  <2>2. n \in pass.cands[j] /\ n \in loop.nodes
    BY <1>1, <2>1 DEF BasicInv, PassShape, AtLevel
  <2>3. ASSUME n \notin pass.todo[j]  PROVE Settled(j, n)'
    BY <1>1, <2>1, <2>2, <2>3, SettledStays DEF MaximalInv
  <2>4. CASE TryTask
    <3>1. PICK i \in JobsThatRun(Config) : \E m \in pass.todo[i] : Trying(i, m)
      BY <2>4, TriesOne
    <3>2. PICK m \in pass.todo[i] : Trying(i, m)
      BY <3>1
    <3>3. loop.pc = "try" /\ crashed = "no" /\ healthy' = healthy
      BY <2>4, TriesOne
    <3>4. PICK ran \in BOOLEAN, refused \in {{}, {<<i, m, healthy>>}} : pass' = Tried(i, m, ran, refused)
      BY <3>2, <3>3, TryingFrame DEF BasicInv
    <3>5. /\ pass'.todo[i] = pass.todo[i] \ {m}
          /\ \A k \in JobsThatRun(Config) : k # i => pass'.todo[k] = pass.todo[k]
      BY <1>1, <3>4, TriedPass DEF BasicInv
    <3>6. n \notin pass.todo[j] \/ (j = i /\ n = m)
      BY <2>1, <3>5
    <3>7. Settled(i, m)'
      BY <3>2, <3>3, TriedIsSettled
    <3>. QED  BY <2>3, <3>6, <3>7
  <2>5. CASE pass' = pass
    BY <2>3, <2>5
  <2>6. ~ StartPass /\ ~ KillOrphans /\ ~ GetConfigAndNodes /\ ~ UpdateConfig
    BY <1>1, WithinAPass
  <2>. QED
    BY <2>4, <2>5, <2>6 DEF Next, vars, Tick, EndTask, JoinWorker, ChangeHealth
<1>2. CASE ~ InPass
  <2>1. StartPass /\ loop' # loop
    <3>1. ~ TryTask
      BY <1>2, TriesOne DEF InPass
    <3>2. loop' # loop
      BY <1>2 DEF InPass
    <3>3. ~ KillOrphans /\ ~ GetConfigAndNodes /\ ~ UpdateConfig
      BY DEF KillOrphans, GetConfigAndNodes, UpdateConfig, At, InPass, Idle, BasicInv, LoopShape
    <3>. QED
      BY <3>1, <3>2, <3>3 DEF Next, vars, Tick, EndTask, JoinWorker, ChangeHealth
  <2>2. pass'.cands = pass'.todo
    BY <2>1, PassStarts
  <2>. QED  BY <2>2
<1>. QED
  BY <1>1, <1>2

(* try_to_schedule leaves no task behind that it could have started: in every  *)
(* pass that was not cut short, under any interleaving with tasks that end and *)
(* workers that join or change their health, and for all configurations whose  *)
(* jobs need no negative amounts, each task that might have been started was,  *)
(* or does not fit its nodes, or none of the workers that were healthy when it *)
(* was tried.                                                                *)
THEOREM PassesAreMaximal == ASSUME NaturalNeeds PROVE Spec => []PassIsMaximal
<1>1. Init => BasicInv /\ ResourceInv /\ MaximalInv
  <2>1. Init => MaximalInv
    BY DEF Init, Idle, MaximalInv, InPass
  <2>. QED  BY <2>1, BasicInvInit, ResourceInvInit
<1>2. BasicInv /\ ResourceInv /\ MaximalInv /\ [Next]_vars => (BasicInv /\ ResourceInv /\ MaximalInv)'
  BY BasicInvNext, ResourceInvNext, MaximalInvNext
<1>3. BasicInv /\ MaximalInv => PassIsMaximal
  <2>. SUFFICES ASSUME BasicInv, MaximalInv, PassIsOver  PROVE PassIsMaximal
    BY DEF PassIsMaximal
  <2>1. InPass /\ \A j \in DOMAIN pass.todo : pass.todo[j] = {}
    BY DEF PassIsOver, At, InPass
  <2>2. DOMAIN pass.todo = JobsThatRun(Config) /\ DOMAIN pass.cands = JobsThatRun(Config)
    BY <2>1 DEF BasicInv, PassShape
  <2>3. \A j \in DOMAIN pass.cands : \A n \in pass.cands[j] : Settled(j, n)
    BY <2>1, <2>2 DEF MaximalInv
  <2>. QED  BY <2>3 DEF PassIsMaximal, Settled
<1>. QED
  BY <1>1, <1>2, <1>3, PTL DEF Spec

=============================================================================
