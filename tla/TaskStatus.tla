----------------------------- MODULE TaskStatus -----------------------------
(***************************************************************************)
(* The status of one task (statuses/TaskStatus) and the backoff settings of *)
(* its job (config/JobBackoffSettings).                                     *)
(*                                                                          *)
(* The bit mask of the code is a record: `kind` is the one bit of the group *)
(* ExactlyOne, the other bits are Booleans, and HasSavedBackoff is `saved   *)
(* /= NotSaved`.  The timestamp only matters to isInBackoff, so statuses    *)
(* that do not use backoff carry the timestamp 0.                           *)
(***************************************************************************)
EXTENDS Integers, Sequences, FiniteSetsExt

CONSTANTS
    Backoffs,        \* values_: the sequence of backoff durations
    Repeat,          \* repeat_: "repeat" rather than "fail" after the last one
    NoMoreSeconds,   \* the 60 seconds getNext returns along with noMoreBackoffs
    NotSaved         \* the status has no __bistro_saved_backoff

(* What the constructor of JobBackoffSettings enforces. *)
ASSUME BackoffAssumption ==
    /\ Backoffs \in Seq(Nat \ {0})
    /\ \A i, j \in DOMAIN Backoffs : i < j => Backoffs[i] < Backoffs[j]
    /\ Repeat \in BOOLEAN
    /\ Repeat => Backoffs # <<>>
    /\ NoMoreSeconds \in Nat \ {0}

ASSUME NotSavedAssumption == NotSaved \notin Nat

BackoffDurations == [seconds : Nat, noMore : BOOLEAN]

(* JobBackoffSettings::getNext: the first value above the current one. *)
GetNext(seconds) ==
    LET later == {i \in DOMAIN Backoffs : Backoffs[i] > seconds}
    IN  IF later # {}
        THEN [seconds |-> Backoffs[Min(later)], noMore |-> FALSE]
        ELSE IF Repeat
             THEN [seconds |-> Backoffs[Len(Backoffs)], noMore |-> FALSE]
             ELSE [seconds |-> NoMoreSeconds, noMore |-> TRUE]

-----------------------------------------------------------------------------

Kinds == {"empty", "running", "done", "incomplete", "failed", "error"}

Statuses ==
    [kind : Kinds, usesBackoff : BOOLEAN, doesNotAdvance : BOOLEAN,
     overwriteable : BOOLEAN, saved : Nat \cup {NotSaved},
     timestamp : Nat, backoff : Nat]

Plain(kind) ==
    [kind |-> kind, usesBackoff |-> FALSE, doesNotAdvance |-> FALSE,
     overwriteable |-> FALSE, saved |-> NotSaved, timestamp |-> 0, backoff |-> 0]

Empty == Plain("empty")
Running == Plain("running")
Done == Plain("done")
Failed == Plain("failed")
Incomplete == Plain("incomplete")
NeverStarted == Plain("error")
WasNotRunning == [Plain("error") EXCEPT !.overwriteable = TRUE]

ErrorBackoff(time) ==
    [Plain("error") EXCEPT !.usesBackoff = TRUE, !.timestamp = time]

IncompleteBackoff(time) ==
    [Plain("incomplete") EXCEPT
        !.usesBackoff = TRUE, !.doesNotAdvance = TRUE, !.timestamp = time]

WorkerLost(savedBackoff, time) ==
    [ErrorBackoff(time) EXCEPT !.saved = savedBackoff, !.overwriteable = TRUE]

HasSavedBackoff(s) == s.saved # NotSaved

InBackoff(s, time) == s.usesBackoff /\ s.timestamp + s.backoff > time

(* configuredBackoffDuration of a status that is not Failed. *)
ConfiguredBackoff(s) == IF HasSavedBackoff(s) THEN s.saved ELSE s.backoff

(* TaskStatus::update: what the status s becomes when `new` arrives from an *)
(* invocation whose RunningTask carries the backoff `next`.                 *)
Update(s, next, new) ==
    LET prevBackoff == IF HasSavedBackoff(s) THEN s.saved
                       ELSE IF s.backoff # 0 THEN s.backoff ELSE next.seconds
    IN  IF ~new.usesBackoff THEN new
        ELSE IF new.doesNotAdvance THEN [new EXCEPT !.backoff = prevBackoff]
        ELSE [new EXCEPT !.backoff = next.seconds,
                         !.kind = IF next.noMore THEN "failed" ELSE @]

(* Mutant of Forgive: the safety backoff of a lost task is cut short. *)
ForgiveEverything(s) ==
    LET pardoned == [s EXCEPT !.kind = IF @ = "failed" THEN "error" ELSE @]
    IN  IF ~s.usesBackoff THEN pardoned ELSE [pardoned EXCEPT !.backoff = 0]

(* TaskStatus::forgive *)
Forgive(s) ==
    LET pardoned == [s EXCEPT !.kind = IF @ = "failed" THEN "error" ELSE @]
    IN  IF ~s.usesBackoff THEN pardoned
        ELSE IF HasSavedBackoff(s) THEN [pardoned EXCEPT !.saved = 0]
        ELSE [pardoned EXCEPT !.backoff = 0]
=============================================================================
