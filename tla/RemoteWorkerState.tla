-------------------------- MODULE RemoteWorkerState --------------------------
(***************************************************************************)
(* The health record of a worker (struct RemoteWorkerState).  The scheduler *)
(* keeps one per shard and the worker keeps its own; both sides run         *)
(* computeState on their copy.                                              *)
(***************************************************************************)
EXTENDS Integers

CONSTANT Never    \* INT64_MIN: earlier than any time a gap can reach

States == {"NEW", "HEALTHY", "UNHEALTHY", "MUST_DIE"}

HealthRecords(Time) ==
  [state : States,
   timeBecameUnhealthy : Time,
   timeLastGoodHealthcheckSent : Time \cup {Never},
   timeLastHeartbeatReceived : Time \cup {Never},
   hasBeenHealthy : BOOLEAN]

\* The constructor: just became unhealthy, needs a healthcheck.
NewRecord(curTime) ==
  [state |-> "NEW",
   timeBecameUnhealthy |-> curTime,
   timeLastGoodHealthcheckSent |-> Never,
   timeLastHeartbeatReceived |-> Never,
   hasBeenHealthy |-> FALSE]

\* The healthcheck or the heartbeat is older than its allowed gap.
IsStale(r, curTime, healthcheckGap, heartbeatGap) ==
  \/ curTime > r.timeLastGoodHealthcheckSent + healthcheckGap
  \/ curTime > r.timeLastHeartbeatReceived + heartbeatGap

\* Otherwise healthy, and held back by the worker set consensus alone.
IsDisallowed(r, curTime, healthcheckGap, heartbeatGap, allowed) ==
  /\ r.state \in {"HEALTHY", "UNHEALTHY"}
  /\ ~IsStale(r, curTime, healthcheckGap, heartbeatGap)
  /\ ~allowed
  /\ ~r.hasBeenHealthy

\* The state before the loss timeout is applied.
HealthOf(r, curTime, healthcheckGap, heartbeatGap, allowed) ==
  CASE r.state = "NEW" -> "NEW"
    [] r.state # "NEW"
       /\ \/ IsStale(r, curTime, healthcheckGap, heartbeatGap)
          \/ IsDisallowed(r, curTime, healthcheckGap, heartbeatGap, allowed)
         -> "UNHEALTHY"
    [] OTHER -> "HEALTHY"

ComputeState(r, curTime, healthcheckGap, heartbeatGap, loseAfter, allowed) ==
  LET health == HealthOf(r, curTime, healthcheckGap, heartbeatGap, allowed)
      lost == /\ ~IsDisallowed(r, curTime, healthcheckGap, heartbeatGap, allowed)
              /\ loseAfter > 0
              /\ health # "HEALTHY" /\ r.state # "HEALTHY"
              /\ curTime > r.timeBecameUnhealthy + loseAfter
  IN  IF r.state = "MUST_DIE" \/ lost THEN "MUST_DIE" ELSE health

\* setState of either side, with the clock restart that RemoteWorker does in
\* updateState and the worker does inside its own setState.
SetState(r, newState, curTime) ==
  [r EXCEPT !.state = newState,
            !.hasBeenHealthy = @ \/ newState = "HEALTHY",
            !.timeBecameUnhealthy =
               IF r.state = "HEALTHY" /\ newState # "HEALTHY" THEN curTime ELSE @]
=============================================================================
