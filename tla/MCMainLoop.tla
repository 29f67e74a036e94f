------------------------------ MODULE MCMainLoop ------------------------------
(* A database d1 with a replica on each of two hosts, another one on one of   *)
(* them, two jobs, two workers, and configurations that differ in policy, in  *)
(* selector and in what is enabled.                                          *)
EXTENDS MainLoop, TLC

NoLabels == <<>>

Host(dbs, off) == [children |-> dbs, disabled |-> off]

\* A script lists the databases of a host.
Scripted ==
  <<[source |-> "manual", prefs |-> "h1" :> Host({}, FALSE) @@ "h2" :> Host({}, FALSE)],
    [source |-> "script", parentLevel |-> 1]>>
\* They are listed in the configuration, and h2 is disabled.
Listed ==
  <<[source |-> "manual",
     prefs |-> "h1" :> Host({"d1"}, FALSE) @@ "h2" :> Host({"d1", "d2"}, TRUE)]>>
MCScripts == {"h1" :> {"d1"} @@ "h2" :> {"d1", "d2"}}

Everything == [whitelist |-> {}, blacklist |-> {}]
Only(names) == [whitelist |-> names, blacklist |-> {}]
Except(names) == [whitelist |-> {}, blacklist |-> names]

\* Resources: conc of the instance, slot of a host, lock of a database
Limits(conc) ==
  0 :> ("conc" :> conc) @@ 1 :> ("slot" :> 1) @@ 2 :> ("lock" :> 1) @@ 3 :> ("cpu" :> 1)

OneJob(on, priority, dbs, machines, host, needed) ==
  [canRun |-> on, level |-> 2, priority |-> priority,
   needs |-> "conc" :> 1 @@ "slot" :> 1 @@ "lock" :> 1 @@ "cpu" :> 1,
   filters |-> [l \in 0..3 |-> IF l = 2 THEN dbs ELSE IF l = 3 THEN machines ELSE Everything],
   host |-> host, hostLevel |-> NoLevel, dependsOn |-> needed, killAfter |-> 1]

Measured(physical, multiply, reserve) ==
  [physical |-> physical, logical |-> "cpu", multiply |-> multiply, reserve |-> reserve]

\* "C" has no levels, no nodes below the instance and no jobs.
MCConfigOf == [c \in Contents |-> IF c = "C" THEN
  [enabled |-> TRUE, numLevels |-> 0, sources |-> <<>>,
   limits |-> 0 :> ("conc" :> 1) @@ 1 :> ("cpu" :> 1), killAfter |-> 0, jobs |-> <<>>,
   policy |-> "long_tail", selector |-> "busiest", weights |-> "cpu" :> 1,
   physical |-> <<>>, overrides |-> <<>>]
  ELSE
  [enabled |-> TRUE, numLevels |-> 2, sources |-> IF c = "B" THEN Listed ELSE Scripted,
   limits |-> Limits(2), killAfter |-> Never,
   jobs |-> "j" :> OneJob(c # "B", 1, Everything, Everything, NoHost, {})
            @@ "k" :> OneJob(TRUE, 2, Only({"d2"}), Except({"m1"}),
                             IF c = "B" THEN "m2" ELSE NoHost, IF c = "E" THEN {"j"} ELSE {}),
   policy |-> CASE c = "A" -> "roundrobin" [] c = "B" -> "randomized_priority"
              [] c = "D" -> "ranked_priority" [] c = "E" -> "long_tail",
   selector |-> IF c = "B" THEN "busiest" ELSE "roundrobin",
   weights |-> "cpu" :> 1,
   physical |-> CASE c = "D" -> <<Measured("gpu_card", 1, 0)>>
                  [] c = "E" -> <<Measured("ram_mb", 2, 1)>>
                  [] OTHER -> <<Measured("cpu_core", 1, 1)>>,
   overrides |-> IF c # "B" THEN <<>> ELSE "m2" :> ("cpu" :> 1)]]

\* By every measure w1 has room for one task, and w2 for two.
Worker(s, host, cpus, ram, gpus) ==
  [shard |-> s, host |-> host, hostport |-> host, ram |-> ram, cpus |-> cpus, gpus |-> gpus]
MCWorkers ==
  "w1" :> Worker("w1", "m1", 2, 3, <<"v100">>)
  @@ "w2" :> Worker("w2", "m2", 3, 5, <<"v100", "v100">>)

\* What the theorems about these properties ask for
ASSUME Hypotheses == NaturalNeeds /\ DistinctNames /\ ReplicasExclude
=============================================================================
