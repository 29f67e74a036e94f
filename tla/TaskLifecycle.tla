---------------------------- MODULE TaskLifecycle ----------------------------
(***************************************************************************)
(* What a TaskSubprocessQueue promises about one invocation of a task: it is *)
(* held from runTask on, its status is reported once and for all, and only   *)
(* then, or together with the news that it could not be started, is it given *)
(* up.  A task whose status was reported is never held again.                *)
(***************************************************************************)
CONSTANTS NoStatus, Results

VARIABLES held, status

Init == held = FALSE /\ status = NoStatus

Accept == ~held /\ status = NoStatus /\ held' = TRUE /\ UNCHANGED status

\* The task ended: its status comes first.
ReportHeld(s) == held /\ status = NoStatus /\ status' = s /\ UNCHANGED held
Release == held /\ status # NoStatus /\ held' = FALSE /\ UNCHANGED status

\* The task could not be started: it is given up first.
GiveUp == held /\ status = NoStatus /\ held' = FALSE /\ UNCHANGED status
ReportGivenUp == ~held /\ status = NoStatus /\ status' = "error_backoff" /\ UNCHANGED held

Next ==
  \/ Accept \/ Release \/ GiveUp \/ ReportGivenUp
  \/ \E s \in Results : ReportHeld(s)

Spec == Init /\ [][Next]_<<held, status>>
=============================================================================
