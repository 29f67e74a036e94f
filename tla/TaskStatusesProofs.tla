------------------------- MODULE TaskStatusesProofs -------------------------
(***************************************************************************)
(* TaskStatuses for any jobs, nodes, workers and backoffs.  First, what its *)
(* steps do to a task, and BasicInv, which holds always.  Then TaskInv,    *)
(* which is about a task that the scheduler remembers: of its attempts     *)
(* only the newest may run; until that has reported it is in               *)
(* runningTasks_, and once it is lost the status of the task backs it off  *)
(* for as long as it may run.  It gives what TaskStatuses states of these  *)
(* tasks: schedule() skips a task that is running or backs off, and no     *)
(* later step makes what it found out wrong, although it works on a        *)
(* snapshot.                                                               *)
(***************************************************************************)
EXTENDS TaskStatuses, FiniteSetTheorems, WellFoundedInduction, TLAPS

(* The provers, in this order: most leaves are about sets and functions, which *)
(* is what Zenon does, and the rest needs arithmetic.                          *)
USE ZenonT(3), SMTT(20), ZenonT(20)

-----------------------------------------------------------------------------
(* Least and greatest elements; backoffs. *)

(* A nonempty set of naturals has a least element. *)
LEMMA LeastNatural ==
    ASSUME NEW S \in SUBSET Nat, S # {}
    PROVE  \E m \in S : \A n \in S : m <= n
<1>. DEFINE Less == OpToRel(<, Nat)
<1>1. IsWellFoundedOn(Less, Nat)
  BY NatLessThanWellFounded
<1>2. \A n, m \in Nat : n < m => <<n, m>> \in Less
  BY Zenon DEF OpToRel
<1>. HIDE DEF Less
<1>3. PICK m \in S : \A n \in S : ~(<<n, m>> \in Less)
  BY <1>1, WFMin
<1>4. \A n \in S : n \in Nat
  OBVIOUS
<1>5. \A n \in S : ~(n < m)
  BY <1>2, <1>3, <1>4, Zenon
<1>. QED
  BY <1>4, <1>5

(* Max of a nonempty set of naturals that has an upper bound. *)
LEMMA GreatestBounded ==
    ASSUME NEW S \in SUBSET Nat, S # {}, NEW b \in Nat, \A n \in S : n <= b
    PROVE  /\ Max(S) \in S /\ \A n \in S : n <= Max(S)
<1>. DEFINE Bounds == {u \in Nat : \A n \in S : n <= u}
<1>1. PICK m \in Bounds : \A u \in Bounds : m <= u
  <2>1. Bounds # {}
    OBVIOUS
  <2>. QED
    BY <2>1, LeastNatural
<1>2. m \in S
  <2>. SUFFICES ASSUME m \notin S  PROVE FALSE
    OBVIOUS
  <2>1. \A n \in S : n < m
    BY <1>1
  <2>0. m \in Nat /\ \A n \in S : n \in Nat
    OBVIOUS
  <2>2. m # 0
    <3>1. PICK n \in S : TRUE
      OBVIOUS
    <3>. QED
      BY <3>1, <2>0, <2>1
  <2>3. m - 1 \in Bounds
    BY <2>0, <2>1, <2>2
  <2>. QED
    BY <1>1, <2>0, <2>3
<1>. QED
  BY <1>1, <1>2 DEF Max

(* Min of a nonempty set of naturals. *)
LEMMA LeastIsMin ==
    ASSUME NEW S \in SUBSET Nat, S # {}
    PROVE  Min(S) \in S /\ \A n \in S : Min(S) <= n
BY LeastNatural DEF Min

(* The first n positive integers are n. *)
LEMMA UpToIsFinite ==
    ASSUME NEW n \in Nat
    PROVE  IsFiniteSet(1 .. n) /\ Cardinality(1 .. n) = n
<1>1. IsFiniteSet(1 .. n) /\ Cardinality(1 .. n) = IF 1 > n THEN 0 ELSE n - 1 + 1
  BY FS_Interval
<1>. QED
  BY <1>1

(* A position is a natural number and no position is beyond the last        *)
(* backoff.                                                                 *)
LEMMA PositionType ==
    ASSUME NEW s \in Nat
    PROVE  /\ IsFiniteSet({i \in DOMAIN Backoffs : Backoffs[i] <= s})
           /\ Position(s) \in Nat /\ Position(s) <= Len(Backoffs)
<1>1. /\ DOMAIN Backoffs = 1 .. Len(Backoffs) /\ Len(Backoffs) \in Nat
  BY BackoffAssumption
<1>2. /\ IsFiniteSet(1 .. Len(Backoffs))
      /\ Cardinality(1 .. Len(Backoffs)) = Len(Backoffs)
  BY <1>1, UpToIsFinite
<1>3. {i \in DOMAIN Backoffs : Backoffs[i] <= s} \subseteq 1 .. Len(Backoffs)
  BY <1>1
<1>4. /\ IsFiniteSet({i \in DOMAIN Backoffs : Backoffs[i] <= s})
      /\ Cardinality({i \in DOMAIN Backoffs : Backoffs[i] <= s})
           <= Cardinality(1 .. Len(Backoffs))
  BY <1>2, <1>3, FS_Subset
<1>5. Cardinality({i \in DOMAIN Backoffs : Backoffs[i] <= s}) \in Nat
  BY <1>4, FS_CardinalityType
<1>. QED
  BY <1>2, <1>4, <1>5 DEF Position

(* Backoffs are positive, so a task without one is at position 0. *)
LEMMA PositionOfZero == Position(0) = 0
<1>1. {i \in DOMAIN Backoffs : Backoffs[i] <= 0} = {}
  BY BackoffAssumption
<1>. QED
  BY <1>1, FS_EmptySet DEF Position

(* JobBackoffSettings::getNext returns a duration or noMoreBackoffs. *)
LEMMA GetNextType ==
    ASSUME NEW e \in Nat
    PROVE  GetNext(e) \in BackoffDurations
<1>. DEFINE later == {i \in DOMAIN Backoffs : Backoffs[i] > e}
<1>1. CASE later # {}
  <2>1. Min(later) \in later
    <3>1. later \in SUBSET Nat
      BY BackoffAssumption
    <3>. QED
      BY <1>1, <3>1, LeastIsMin
  <2>2. Backoffs[Min(later)] \in Nat
    BY <2>1, BackoffAssumption
  <2>3. GetNext(e) = [seconds |-> Backoffs[Min(later)], noMore |-> FALSE]
    BY <1>1 DEF GetNext
  <2>. QED
    BY <2>2, <2>3 DEF BackoffDurations
<1>2. CASE later = {}
  BY <1>2, BackoffAssumption DEF GetNext, BackoffDurations
<1>. QED
  BY <1>1, <1>2

(* getNext moves one step along the backoffs, and says noMoreBackoffs only  *)
(* at their end.                                                            *)
LEMMA GetNextIsOneStep ==
    ASSUME NEW e \in Nat
    PROVE  /\ ~GetNext(e).noMore => Position(GetNext(e).seconds) <= Position(e) + 1
           /\ GetNext(e).noMore => Position(e) = Len(Backoffs)
<1>. DEFINE later == {i \in DOMAIN Backoffs : Backoffs[i] > e}
            Upto(s) == {i \in DOMAIN Backoffs : Backoffs[i] <= s}
<1>1. CASE later # {}
  <2>. DEFINE m == Min(later)
  <2>1. m \in later /\ \A i \in later : m <= i
    <3>1. later \in SUBSET Nat
      BY BackoffAssumption
    <3>. QED
      BY <1>1, <3>1, LeastIsMin
  <2>2. GetNext(e) = [seconds |-> Backoffs[m], noMore |-> FALSE]
    BY <1>1 DEF GetNext
  <2>. HIDE DEF m
  <2>3. Upto(Backoffs[m]) \subseteq Upto(e) \cup {m}
    BY <2>1, BackoffAssumption
  <2>4. IsFiniteSet(Upto(e)) /\ Position(e) = Cardinality(Upto(e)) /\ Position(e) \in Nat
    BY PositionType DEF Position
  <2>5. /\ IsFiniteSet(Upto(e) \cup {m})
        /\ Cardinality(Upto(e) \cup {m}) <= Position(e) + 1
    <3>. HIDE DEF Upto
    <3>1. /\ IsFiniteSet(Upto(e) \cup {m})
          /\ Cardinality(Upto(e) \cup {m}) =
                IF m \in Upto(e) THEN Cardinality(Upto(e)) ELSE Cardinality(Upto(e)) + 1
      BY <2>4, FS_AddElement
    <3>. QED
      BY <2>4, <3>1
  <2>6. Cardinality(Upto(Backoffs[m])) <= Cardinality(Upto(e) \cup {m})
    BY <2>3, <2>5, FS_Subset
  <2>7. Position(Backoffs[m]) <= Position(e) + 1
    <3>1. Backoffs[m] \in Nat
      BY <2>1, BackoffAssumption
    <3>2. Position(Backoffs[m]) \in Nat /\ Cardinality(Upto(e) \cup {m}) \in Nat
      BY <3>1, <2>5, PositionType, FS_CardinalityType
    <3>. QED
      BY <2>4, <2>5, <2>6, <3>2 DEF Position
  <2>. QED
    BY <2>2, <2>7
<1>2. CASE later = {}
  <2>1. DOMAIN Backoffs = 1 .. Len(Backoffs) /\ Len(Backoffs) \in Nat
    BY BackoffAssumption
  <2>2. Upto(e) = 1 .. Len(Backoffs)
    BY <1>2, <2>1, BackoffAssumption
  <2>3. Position(e) = Len(Backoffs)
    BY <2>1, <2>2, UpToIsFinite DEF Position
  <2>4. CASE Repeat
    <3>1. /\ GetNext(e) = [seconds |-> Backoffs[Len(Backoffs)], noMore |-> FALSE]
          /\ Backoffs[Len(Backoffs)] \in Nat
      BY <1>2, <2>1, <2>4, BackoffAssumption DEF GetNext
    <3>2. /\ Position(Backoffs[Len(Backoffs)]) \in Nat
          /\ Position(Backoffs[Len(Backoffs)]) <= Len(Backoffs)
      BY <3>1, PositionType
    <3>. QED
      BY <2>1, <2>3, <3>1, <3>2
  <2>5. CASE ~Repeat
    BY <1>2, <2>3, <2>5 DEF GetNext
  <2>. QED
    BY <2>4, <2>5
<1>. QED
  BY <1>1, <1>2

(* What a task gains with the next try pays for the next backoff. *)
LEMMA TryPaysForBackoff ==
    ASSUME NEW e \in Nat, NEW n \in Nat, Position(e) <= n
    PROVE  LET tries == IF e = 0 THEN 1 ELSE n + 1  next == GetNext(e) IN
           /\ Position(next.seconds) <= tries
           /\ next.noMore => tries > Len(Backoffs)
<1>. DEFINE tries == IF e = 0 THEN 1 ELSE n + 1  next == GetNext(e)
<1>1. /\ Position(e) \in Nat /\ tries \in Nat /\ Len(Backoffs) \in Nat
      /\ next.seconds \in Nat /\ next.noMore \in BOOLEAN
  <2>1. next \in BackoffDurations
    BY GetNextType
  <2>. HIDE DEF next
  <2>2. next.seconds \in Nat /\ next.noMore \in BOOLEAN
    BY <2>1 DEF BackoffDurations
  <2>3. tries \in Nat
    OBVIOUS
  <2>. HIDE DEF tries
  <2>4. Position(e) \in Nat
    BY PositionType
  <2>. QED
    BY <2>2, <2>3, <2>4, BackoffAssumption
<1>2. Position(e) + 1 <= tries
  BY <1>1, PositionOfZero
<1>3. /\ ~next.noMore => Position(next.seconds) <= Position(e) + 1
      /\ next.noMore => Position(e) = Len(Backoffs)
  BY GetNextIsOneStep
<1>4. Position(next.seconds) \in Nat /\ Position(next.seconds) <= Len(Backoffs)
  BY <1>1, PositionType
<1>. HIDE DEF tries, next
<1>5. Position(next.seconds) <= tries /\ (next.noMore => tries > Len(Backoffs))
  BY <1>1, <1>2, <1>3, <1>4
<1>. QED
  BY <1>5 DEF tries, next

-----------------------------------------------------------------------------
(* Statuses. *)

(* What every status is like that updateStatus and forgive can produce. *)
Coherent(s) ==
    /\ s.kind = "running" => s = Running
    /\ s.overwriteable => s.kind \in {"error", "failed"}
    /\ ~s.usesBackoff => s.saved = NotSaved /\ s.backoff = 0

(* A status without backoff. *)
LEMMA PlainStatus ==
    ASSUME NEW k \in Kinds
    PROVE  /\ Plain(k) \in Statuses /\ Coherent(Plain(k))
           /\ Plain(k).kind = k /\ ~Plain(k).usesBackoff /\ ~Plain(k).overwriteable
           /\ Plain(k).saved = NotSaved /\ Plain(k).backoff = 0
<1>1. /\ Plain(k) \in Statuses
      /\ Plain(k).kind = k /\ ~Plain(k).usesBackoff /\ ~Plain(k).overwriteable
      /\ Plain(k).saved = NotSaved /\ Plain(k).backoff = 0
  BY DEF Plain, Statuses
<1>2. k = "running" => Plain(k) = Running
  BY DEF Running
<1>. QED
  BY <1>1, <1>2 DEF Coherent

(* The statuses that have no parameter. *)
LEMMA FixedStatuses ==
    /\ Empty \in Statuses /\ Coherent(Empty) /\ Empty.kind = "empty" /\ ~Empty.overwriteable
    /\ Running \in Statuses /\ Coherent(Running) /\ Running.kind = "running"
    /\ Done \in Statuses /\ Coherent(Done) /\ Done.kind = "done" /\ ~Done.overwriteable
    /\ Failed \in Statuses /\ Coherent(Failed) /\ Failed.kind = "failed" /\ ~Failed.overwriteable
    /\ NeverStarted \in Statuses /\ Coherent(NeverStarted) /\ NeverStarted.kind = "error"
    /\ WasNotRunning \in Statuses /\ Coherent(WasNotRunning) /\ WasNotRunning.kind = "error"
    /\ ~NeverStarted.overwriteable
    /\ ~Empty.usesBackoff /\ ~Running.usesBackoff /\ ~Done.usesBackoff /\ ~Failed.usesBackoff
    /\ ~NeverStarted.usesBackoff /\ ~WasNotRunning.usesBackoff
<1>1. WasNotRunning \in Statuses /\ Coherent(WasNotRunning) /\ WasNotRunning.kind = "error"
      /\ ~WasNotRunning.usesBackoff
  BY DEF WasNotRunning, Plain, Statuses, Kinds, Coherent
<1>. QED
  BY <1>1, PlainStatus DEF Empty, Running, Done, Failed, NeverStarted, Kinds

(* The statuses that a worker reports. *)
LEMMA OutcomeStatus ==
    ASSUME NEW o \in Outcomes, now \in Nat
    PROVE  LET s == StatusFrom(o) IN
           /\ s \in Statuses /\ Coherent(s)
           /\ s.kind \in {"done", "failed", "incomplete", "error"}
           /\ ~s.overwriteable /\ ~HasSavedBackoff(s)
           /\ s.usesBackoff => s.kind # "failed"
  BY DEF Outcomes, StatusFrom, Done, Failed, Incomplete, IncompleteBackoff, ErrorBackoff, Plain,
         Statuses, Kinds, Coherent, HasSavedBackoff

(* The overwriteable status of a lost task. *)
LEMMA LostStatus ==
    ASSUME NEW saved \in Nat, NEW time \in Nat
    PROVE  LET s == WorkerLost(saved, time) IN
           /\ s \in Statuses /\ Coherent(s)
           /\ s.kind = "error" /\ s.overwriteable /\ s.usesBackoff /\ ~s.doesNotAdvance
           /\ s.saved = saved /\ s.timestamp = time
  BY DEF WorkerLost, ErrorBackoff, Plain, Statuses, Kinds, Coherent

(* TaskStatus::update makes a status of its own kind, unless there are no   *)
(* more backoffs.                                                           *)
LEMMA UpdatedStatus ==
    ASSUME NEW s \in Statuses, NEW next \in BackoffDurations, NEW new \in Statuses, Coherent(new)
    PROVE  LET u == Update(s, next, new) IN
           /\ u \in Statuses /\ Coherent(u)
           /\ (u.usesBackoff <=> new.usesBackoff) /\ (u.overwriteable <=> new.overwriteable)
           /\ u.saved = new.saved /\ u.timestamp = new.timestamp
           /\ u.kind = new.kind \/ u.kind = "failed"
           /\ new.kind = "running" => u = Running
           /\ u.kind = "failed" => new.kind = "failed" \/ next.noMore
           /\ u.usesBackoff /\ ~new.doesNotAdvance => u.backoff = next.seconds
<1>. DEFINE u == Update(s, next, new)
<1>1. CASE ~new.usesBackoff
  <2>1. u = new
    BY <1>1 DEF Update
  <2>. QED
    BY <1>1, <2>1 DEF Coherent
<1>2. CASE new.usesBackoff /\ new.doesNotAdvance
  <2>. DEFINE prev == IF HasSavedBackoff(s) THEN s.saved
                       ELSE IF s.backoff # 0 THEN s.backoff ELSE next.seconds
  <2>1. u = [new EXCEPT !.backoff = prev]
    BY <1>2 DEF Update
  <2>2. prev \in Nat
    BY DEF Statuses, HasSavedBackoff, BackoffDurations
  <2>3. new.kind # "running"
    BY <1>2 DEF Coherent, Running, Plain
  <2>4. u \in Statuses
    BY <2>1, <2>2 DEF Statuses
  <2>5. /\ u.kind = new.kind /\ u.usesBackoff = new.usesBackoff
        /\ u.overwriteable = new.overwriteable /\ u.saved = new.saved
        /\ u.timestamp = new.timestamp /\ u.backoff = prev
    BY <2>1 DEF Statuses
  <2>. HIDE DEF u
  <2>6. Coherent(u)
    BY <1>2, <2>3, <2>5 DEF Coherent
  <2>. HIDE DEF prev
  <2>. QED
    BY <1>2, <2>3, <2>4, <2>5, <2>6 DEF u
<1>3. CASE new.usesBackoff /\ ~new.doesNotAdvance
  <2>1. u = [new EXCEPT !.backoff = next.seconds,
                        !.kind = IF next.noMore THEN "failed" ELSE @]
    BY <1>3 DEF Update
  <2>3. new.kind # "running"
    BY <1>3 DEF Coherent, Running, Plain
  <2>4. u \in Statuses
    BY <2>1 DEF Statuses, BackoffDurations, Kinds
  <2>5. /\ u.kind = (IF next.noMore THEN "failed" ELSE new.kind)
        /\ u.usesBackoff = new.usesBackoff
        /\ u.overwriteable = new.overwriteable /\ u.saved = new.saved
        /\ u.timestamp = new.timestamp /\ u.backoff = next.seconds
    BY <2>1 DEF Statuses
  <2>. HIDE DEF u
  <2>6. Coherent(u)
    BY <1>3, <2>3, <2>5 DEF Coherent
  <2>. QED
    BY <1>3, <2>3, <2>4, <2>5, <2>6 DEF u
<1>. QED
  BY <1>1, <1>2, <1>3 DEF Statuses

(* TaskStatus::forgive leaves the backoff alone that a lost task has for    *)
(* its safety.                                                              *)
LEMMA ForgivenStatus ==
    ASSUME NEW s \in Statuses, Coherent(s)
    PROVE  LET u == Forgive(s) IN
           /\ u \in Statuses /\ Coherent(u)
           /\ (u.usesBackoff <=> s.usesBackoff) /\ (u.overwriteable <=> s.overwriteable)
           /\ u.timestamp = s.timestamp
           /\ HasSavedBackoff(u) <=> HasSavedBackoff(s)
           /\ HasSavedBackoff(s) => u.backoff = s.backoff
           /\ u.usesBackoff => ConfiguredBackoff(u) = 0
           /\ u.kind # "failed"
           /\ s.kind # "failed" => u.kind = s.kind
           /\ u.kind \in {s.kind, "error"}
           /\ s = Empty => u = Empty
<1>. DEFINE pardoned == [s EXCEPT !.kind = IF @ = "failed" THEN "error" ELSE @]
            u == Forgive(s)
<1>1. CASE ~s.usesBackoff
  <2>1. u = pardoned
    BY <1>1 DEF Forgive
  <2>2. s = Empty => u = s
    <3>1. s = Empty => s.kind # "failed"
      BY FixedStatuses
    <3>. QED
      BY <2>1, <3>1 DEF Statuses
  <2>3. s.kind = "running" => u = s
    BY <2>1 DEF Statuses
  <2>. QED
    BY <1>1, <2>1, <2>2, <2>3 DEF Statuses, Coherent, HasSavedBackoff, ConfiguredBackoff, Kinds
<1>2. CASE s.usesBackoff /\ HasSavedBackoff(s)
  <2>1. u = [pardoned EXCEPT !.saved = 0]
    BY <1>2 DEF Forgive
  <2>2. s.kind # "running" /\ s # Empty
    BY <1>2 DEF Coherent, Running, Plain, Empty
  <2>3. u \in Statuses
    <3>1. pardoned \in Statuses
      BY DEF Statuses, Kinds
    <3>. HIDE DEF pardoned
    <3>. QED
      BY <2>1, <3>1 DEF Statuses
  <2>4. /\ u.kind = (IF s.kind = "failed" THEN "error" ELSE s.kind)
        /\ u.usesBackoff = s.usesBackoff /\ u.overwriteable = s.overwriteable
        /\ u.timestamp = s.timestamp /\ u.backoff = s.backoff /\ u.saved = 0
    BY <2>1 DEF Statuses
  <2>. HIDE DEF u
  <2>5. Coherent(u) /\ HasSavedBackoff(u) = HasSavedBackoff(s) /\ ConfiguredBackoff(u) = 0
    BY <1>2, <2>2, <2>4, NotSavedAssumption
       DEF Coherent, HasSavedBackoff, ConfiguredBackoff
  <2>. QED
    BY <1>2, <2>2, <2>3, <2>4, <2>5 DEF u
<1>3. CASE s.usesBackoff /\ ~HasSavedBackoff(s)
  <2>1. u = [pardoned EXCEPT !.backoff = 0]
    BY <1>3 DEF Forgive
  <2>2. s.kind # "running" /\ s # Empty
    BY <1>3 DEF Coherent, Running, Plain, Empty
  <2>3. u \in Statuses
    <3>1. pardoned \in Statuses
      BY DEF Statuses, Kinds
    <3>. HIDE DEF pardoned
    <3>. QED
      BY <2>1, <3>1 DEF Statuses
  <2>4. /\ u.kind = (IF s.kind = "failed" THEN "error" ELSE s.kind)
        /\ u.usesBackoff = s.usesBackoff /\ u.overwriteable = s.overwriteable
        /\ u.timestamp = s.timestamp /\ u.saved = s.saved /\ u.backoff = 0
    BY <2>1 DEF Statuses
  <2>. HIDE DEF u
  <2>5. Coherent(u) /\ HasSavedBackoff(u) = HasSavedBackoff(s) /\ ConfiguredBackoff(u) = 0
    BY <1>3, <2>2, <2>4, NotSavedAssumption
       DEF Coherent, HasSavedBackoff, ConfiguredBackoff
  <2>. QED
    BY <1>3, <2>2, <2>3, <2>4, <2>5 DEF u
<1>. QED
  BY <1>1, <1>2, <1>3 DEF Statuses

-----------------------------------------------------------------------------
(* TaskStatuses::updateStatus. *)

(* The rows of the snapshot. *)
RowsType == [Jobs -> [loaded : BOOLEAN, statuses : [Nodes -> Statuses]]]

(* What a step leaves alone of the other tasks. *)
OthersUntouched(t) ==
    /\ \A u \in Tasks : u # t =>
          StatusOf(u)' = StatusOf(u) /\ runningTasks'[u] = runningTasks[u]
    /\ \A j \in Jobs : rows'[j].loaded = rows[j].loaded

(* The three things that updateStatus can do to a task. *)
UpdateAborts(t, rt) ==
    /\ abort' # "none" /\ StatusOf(t)' = StatusOf(t) /\ runningTasks'[t] = runningTasks[t]
    /\ IF runningTasks[t] # NoTask THEN runningTasks[t].inv # rt.inv
                                   ELSE StatusOf(t).kind = "running"

(* ... it may keep the status that it has, ... *)
UpdateKeeps(t, new) ==
    /\ abort' = "none" /\ StatusOf(t)' = StatusOf(t) /\ runningTasks'[t] = runningTasks[t]
    /\ runningTasks[t] = NoTask
    /\ new.kind # "running" /\ (new.overwriteable \/ ~StatusOf(t).overwriteable)

(* ... or replace it, for the attempt that is running or over an            *)
(* overwriteable status.                                                    *)
UpdateReplaces(t, rt, new) ==
    /\ abort' = "none" /\ StatusOf(t)' = Update(StatusOf(t), rt.next, new)
    /\ \/ /\ runningTasks[t] # NoTask /\ runningTasks[t].inv = rt.inv
          /\ runningTasks'[t] = IF new.kind # "running" THEN NoTask ELSE runningTasks[t]
       \/ /\ runningTasks[t] = NoTask
          /\ \/ new.kind = "running" /\ runningTasks'[t] = rt
             \/ /\ new.kind # "running" /\ runningTasks'[t] = NoTask
                /\ ~new.overwriteable /\ StatusOf(t).overwriteable

(* A task is a job and a node. *)
LEMMA TaskParts ==
    ASSUME NEW t \in Tasks
    PROVE  JobOf(t) \in Jobs /\ t[2] \in Nodes /\ t = <<JobOf(t), t[2]>>
  BY DEF Tasks, JobOf

(* What a row has for a task is a status. *)
LEMMA StatusType ==
    ASSUME rows \in RowsType, NEW t \in Tasks
    PROVE  StatusOf(t) \in Statuses
  BY TaskParts DEF StatusOf, RowsType

(* SetStatus changes the status of one task. *)
LEMMA SetStatusEffect ==
    ASSUME rows \in RowsType, numRows \in 0 .. NumJobs,
           NEW t \in Tasks, NEW s \in Statuses, SetStatus(t, s)
    PROVE  /\ rows' \in RowsType /\ numRows' \in 0 .. NumJobs
           /\ StatusOf(t)' = s
           /\ \A u \in Tasks : u # t => StatusOf(u)' = StatusOf(u)
           /\ \A j \in Jobs : rows'[j].loaded = rows[j].loaded
<1>. DEFINE j == JobOf(t)  n == t[2]
<1>1. j \in Jobs /\ n \in Nodes /\ NumJobs \in Nat
  BY TaskParts, SizesAssumption
<1>2. rows' = [rows EXCEPT ![j].statuses[n] = s]
  BY DEF SetStatus
<1>. HIDE DEF j, n
<1>3. rows' \in RowsType
  BY <1>1, <1>2 DEF RowsType
<1>4. /\ rows'[j].statuses[n] = s
      /\ \A i \in Jobs, m \in Nodes :
            <<i, m>> # <<j, n>> => rows'[i].statuses[m] = rows[i].statuses[m]
      /\ \A i \in Jobs : rows'[i].loaded = rows[i].loaded
  BY <1>1, <1>2 DEF RowsType
<1>5. numRows' \in 0 .. NumJobs
  <2>1. numRows' = Max({numRows, j})
    BY DEF SetStatus, j
  <2>2. {numRows, j} \in SUBSET Nat /\ \A x \in {numRows, j} : x <= NumJobs
    BY <1>1 DEF Jobs
  <2>3. Max({numRows, j}) \in {numRows, j}
    BY <1>1, <2>2, GreatestBounded
  <2>. QED
    BY <1>1, <2>1, <2>2, <2>3
<1>6. StatusOf(t)' = s
  BY <1>4 DEF StatusOf, j, n
<1>7. ASSUME NEW u \in Tasks, u # t  PROVE StatusOf(u)' = StatusOf(u)
  <2>1. JobOf(u) \in Jobs /\ u[2] \in Nodes /\ <<JobOf(u), u[2]>> # <<j, n>>
    BY <1>7, TaskParts DEF j, n
  <2>. QED
    BY <1>4, <2>1 DEF StatusOf
<1>. QED
  BY <1>3, <1>4, <1>5, <1>6, <1>7

(* updateStatus aborts, keeps the status or replaces it, and touches no     *)
(* other task.                                                              *)
LEMMA UpdateStatusEffect ==
    ASSUME TypeOK, abort = "none",
           NEW t \in Tasks, NEW rt \in RunningTaskRecords, NEW new \in Statuses,
           Coherent(new), NEW th \in Threads, UpdateStatus(t, rt, new, th)
    PROVE  /\ rows' \in RowsType /\ numRows' \in 0 .. NumJobs
           /\ runningTasks' \in [Tasks -> RunningTaskRecords \cup {NoTask}]
           /\ recording' \in [Threads -> StoredResults \cup {NoRecord}]
           /\ abort' \in {"none", "invocation mismatch", "stored is running"}
           /\ OthersUntouched(t)
           /\ \/ UpdateAborts(t, rt)
              \/ UpdateKeeps(t, new)
              \/ UpdateReplaces(t, rt, new)
<1>. DEFINE old == StatusOf(t)
<1>1. /\ rows \in RowsType /\ numRows \in 0 .. NumJobs
      /\ runningTasks \in [Tasks -> RunningTaskRecords \cup {NoTask}]
      /\ recording \in [Threads -> StoredResults \cup {NoRecord}]
  BY DEF TypeOK, RowsType
<1>2. old \in Statuses
  BY <1>1, StatusType
<1>3. ASSUME NEW s \in Statuses
      PROVE  ToRecord(t, s) \in StoredResults \cup {NoRecord}
  BY DEF ToRecord, StoredResults
<1>4. CASE /\ abort' \in {"invocation mismatch", "stored is running"}
           /\ UNCHANGED <<statusVars, recording>>
           /\ IF runningTasks[t] # NoTask THEN runningTasks[t].inv # rt.inv
                                          ELSE StatusOf(t).kind = "running"
  BY <1>1, <1>4 DEF statusVars, OthersUntouched, UpdateAborts, StatusOf
<1>5. CASE /\ KeepStatus(t, th) /\ runningTasks[t] = NoTask
           /\ new.kind # "running" /\ (new.overwriteable \/ ~StatusOf(t).overwriteable)
  <2>1. SetStatus(t, old) /\ UNCHANGED <<runningTasks, abort>>
        /\ recording' = [recording EXCEPT ![th] = ToRecord(t, old)]
    BY <1>5 DEF KeepStatus
  <2>2. /\ rows' \in RowsType /\ numRows' \in 0 .. NumJobs
        /\ StatusOf(t)' = old
        /\ \A u \in Tasks : u # t => StatusOf(u)' = StatusOf(u)
        /\ \A j \in Jobs : rows'[j].loaded = rows[j].loaded
    BY <1>1, <1>2, <2>1, SetStatusEffect
  <2>3. recording' \in [Threads -> StoredResults \cup {NoRecord}]
    BY <1>1, <1>2, <1>3, <2>1
  <2>4. UpdateKeeps(t, new)
    BY <1>5, <2>1, <2>2 DEF UpdateKeeps
  <2>. QED
    BY <1>1, <2>1, <2>2, <2>3, <2>4 DEF OthersUntouched
<1>6. CASE /\ ReplaceStatus(t, rt, new, th)
           /\ \/ runningTasks[t] # NoTask /\ runningTasks[t].inv = rt.inv
              \/ runningTasks[t] = NoTask /\ new.kind = "running"
              \/ runningTasks[t] = NoTask /\ ~new.overwriteable /\ StatusOf(t).overwriteable
  <2>. DEFINE s == Update(old, rt.next, new)
              task == IF new.kind # "running" THEN NoTask
                      ELSE IF runningTasks[t] = NoTask THEN rt ELSE runningTasks[t]
  <2>1. /\ SetStatus(t, s) /\ UNCHANGED abort
        /\ recording' = [recording EXCEPT ![th] = ToRecord(t, s)]
    BY <1>6 DEF ReplaceStatus
  <2>2. runningTasks' = [runningTasks EXCEPT ![t] = task]
    BY <1>1, <1>6 DEF ReplaceStatus
  <2>3. s \in Statuses
    BY <1>2, UpdatedStatus DEF RunningTaskRecords
  <2>. HIDE DEF s
  <2>4. /\ rows' \in RowsType /\ numRows' \in 0 .. NumJobs
        /\ StatusOf(t)' = s
        /\ \A u \in Tasks : u # t => StatusOf(u)' = StatusOf(u)
        /\ \A j \in Jobs : rows'[j].loaded = rows[j].loaded
    BY <1>1, <2>3, <2>1, SetStatusEffect
  <2>5. recording' \in [Threads -> StoredResults \cup {NoRecord}]
    BY <1>1, <1>3, <2>1, <2>3
  <2>6. /\ runningTasks' \in [Tasks -> RunningTaskRecords \cup {NoTask}]
        /\ runningTasks'[t] = task
        /\ \A u \in Tasks : u # t => runningTasks'[u] = runningTasks[u]
    BY <1>1, <2>2
  <2>7. UpdateReplaces(t, rt, new)
    BY <1>6, <2>1, <2>4, <2>6 DEF UpdateReplaces, s
  <2>. QED
    BY <2>1, <2>4, <2>5, <2>6, <2>7 DEF OthersUntouched
<1>. QED
  BY <1>4, <1>5, <1>6 DEF UpdateStatus, Fail

-----------------------------------------------------------------------------
(* The invariant, and what the steps do. *)

(* No two attempts share an invocation, and there was one for each try. *)
InvocationsAreFresh ==
    /\ \A a \in attempts : a.rt.inv <= started
    /\ \A a, b \in attempts : a.rt.inv = b.rt.inv => a = b
    /\ \A t \in Tasks : tried[t] <= started

(* All statuses in the snapshot are coherent. *)
StatusesAreCoherent == \A t \in Tasks : Coherent(StatusOf(t))

(* The loop may act upon an old snapshot. *)
LoopIsCurrent ==
    loop = "updated" => eligible = <<>> /\ \A j \in config : rows[j].loaded

(* What holds always, after restarts and removals of jobs too. *)
BasicInv ==
    TypeOK /\ RunningRowsAreTracked /\ InvocationsAreFresh /\ StatusesAreCoherent
    /\ LoopIsCurrent

(* Attempt a is gone, or became b. *)
Replaced(a, b) ==
    /\ a \in attempts /\ b \in Attempts /\ b.task = a.task /\ b.rt = a.rt
    /\ attempts' \subseteq (attempts \ {a}) \cup {b}
    /\ attempts \ {a} \subseteq attempts'

(* The bounds and the sizes are natural numbers. *)
LEMMA NaturalBounds ==
    /\ MaxTime \in Nat /\ MaxInvocations \in Nat /\ MaxRestarts \in Nat
    /\ MaxConfigChanges \in Nat /\ MaxForgives \in Nat
    /\ NumJobs \in Nat /\ SafeBackoff \in Nat \ {0}
  BY BoundsAssumption, SizesAssumption

(* An attempt that its worker is done with is gone, or waits to be reported *)
(* as lost.                                                                 *)
LEMMA LeaveReplaces ==
    ASSUME attempts \subseteq Attempts, NEW a \in attempts, Leave(a)
    PROVE  Replaced(a, [a EXCEPT !.phase = "gone"])
  BY DEF Leave, Become, Replaced, Attempts

(* An attempt may stay what it is. *)
LEMMA UnchangedReplaces ==
    ASSUME attempts \subseteq Attempts, NEW a \in attempts, UNCHANGED attempts
    PROVE  Replaced(a, a)
  BY DEF Replaced

(* The parts of an attempt. *)
LEMMA AttemptType ==
    ASSUME TypeOK, NEW a \in attempts
    PROVE  /\ a \in Attempts /\ a.task \in Tasks /\ a.rt \in RunningTaskRecords
           /\ a.rt.next \in BackoffDurations /\ a.rt.inv \in Nat /\ now \in Nat
           /\ runningTasks[a.task] \in RunningTaskRecords \cup {NoTask}
<1>1. a \in Attempts /\ a.task \in Tasks /\ a.rt \in RunningTaskRecords
  BY DEF TypeOK, Attempts
<1>2. a.rt.next \in BackoffDurations /\ a.rt.inv \in Nat
  BY <1>1, NaturalBounds DEF RunningTaskRecords
<1>3. now \in Nat /\ runningTasks[a.task] \in RunningTaskRecords \cup {NoTask}
  <2>1. now \in 0 .. MaxTime /\ runningTasks \in [Tasks -> RunningTaskRecords \cup {NoTask}]
    BY DEF TypeOK
  <2>. QED
    BY <1>1, <2>1, NaturalBounds
<1>. QED
  BY <1>1, <1>2, <1>3

(* The delivery of a status changes one attempt. *)
LEMMA DeliverStatusReplaces ==
    ASSUME TypeOK, NEW a \in attempts, NEW o \in Outcomes, NEW ack \in BOOLEAN,
           DeliverStatus(a, o, ack)
    PROVE  \E b : Replaced(a, b)
<1>1. attempts \subseteq Attempts
  BY DEF TypeOK
<1>2. CASE ack /\ abort' = "none"
  BY <1>1, <1>2, LeaveReplaces DEF DeliverStatus
<1>3. CASE ~(ack /\ abort' = "none")
  <2>. DEFINE b == [a EXCEPT !.phase = "exited", !.outcome = o, !.replied = TRUE,
                             !.standing = IF @ = "tracked" THEN "recorded" ELSE @]
  <2>1. attempts' = (attempts \ {a}) \cup {b}
    BY <1>3 DEF DeliverStatus, Become
  <2>2. b \in Attempts /\ b.task = a.task /\ b.rt = a.rt
    BY <1>1 DEF Attempts
  <2>. QED
    BY <2>1, <2>2 DEF Replaced
<1>. QED
  BY <1>2, <1>3

(* What applyUpdate reports instead of the RunningTask of a lost task. *)
Tweaked(rt) == [rt EXCEPT !.next.seconds = Max({rt.next.seconds, SafeBackoff})]

(* The backoff that applyUpdate gives to a lost task covers SafeBackoff. *)
LEMMA TweakedType ==
    ASSUME NEW rt \in RunningTaskRecords
    PROVE  /\ Tweaked(rt) \in RunningTaskRecords /\ Tweaked(rt).inv = rt.inv
           /\ Tweaked(rt).next.noMore = rt.next.noMore
           /\ Tweaked(rt).next.seconds >= SafeBackoff
<1>. DEFINE s == rt.next.seconds  m == Max({s, SafeBackoff})
<1>1. s \in Nat /\ SafeBackoff \in Nat
  BY NaturalBounds DEF RunningTaskRecords, BackoffDurations
<1>2. m \in {s, SafeBackoff} /\ m >= SafeBackoff /\ m >= s
  <2>1. {s, SafeBackoff} \in SUBSET Nat /\ s + SafeBackoff \in Nat
        /\ \A x \in {s, SafeBackoff} : x <= s + SafeBackoff
    BY <1>1
  <2>2. Max({s, SafeBackoff}) \in {s, SafeBackoff}
        /\ \A x \in {s, SafeBackoff} : x <= Max({s, SafeBackoff})
    BY <2>1, GreatestBounded
  <2>. QED
    BY <1>1, <2>2
<1>. HIDE DEF m
<1>3. m \in Nat
  BY <1>1, <1>2
<1>4. Tweaked(rt) = [rt EXCEPT !.next.seconds = m]
  BY DEF Tweaked, m
<1>. QED
  BY <1>2, <1>3, <1>4 DEF RunningTaskRecords, BackoffDurations

(* The report of a loss changes one attempt. *)
LEMMA ReportLostReplaces ==
    ASSUME TypeOK, NEW a \in attempts, ReportLost(a)
    PROVE  Replaced(a, [a EXCEPT !.standing = "lost"])
  BY DEF ReportLost, Become, Replaced, TypeOK, Attempts

(* What loseRunningTasks makes of an attempt. *)
Losing(a, w) ==
    IF a.worker = w /\ a.standing = "tracked"
    THEN [a EXCEPT !.standing = "losing", !.deadline = now + SafeBackoff] ELSE a

(* loseRunningTasks sets the standing and the deadline, nothing else. *)
LEMMA LosingEffect ==
    ASSUME TypeOK, NEW a \in attempts, NEW w
    PROVE  /\ Losing(a, w) \in Attempts
           /\ Losing(a, w).task = a.task /\ Losing(a, w).rt = a.rt
           /\ Losing(a, w).phase = a.phase
           /\ IF a.worker = w /\ a.standing = "tracked"
              THEN /\ Losing(a, w).standing = "losing"
                   /\ Losing(a, w).deadline = now + SafeBackoff
              ELSE Losing(a, w) = a
<1>1. a \in Attempts /\ now + SafeBackoff \in Nat
  BY AttemptType, NaturalBounds
<1>. QED
  BY <1>1 DEF Losing, Attempts

(* forgiveJob pardons the tasks of one job. *)
LEMMA ForgiveJobEffect ==
    ASSUME BasicInv, NEW j \in Jobs, ForgiveJob(j)
    PROVE  /\ rows' \in RowsType
           /\ \A t \in Tasks : StatusOf(t)' = IF JobOf(t) = j THEN Forgive(StatusOf(t))
                                              ELSE StatusOf(t)
           /\ \A i \in Jobs : rows'[i].loaded = rows[i].loaded
<1>1. rows \in RowsType
  BY DEF BasicInv, TypeOK, RowsType
<1>2. rows' = [rows EXCEPT ![j].statuses = [n \in Nodes |-> Forgive(rows[j].statuses[n])]]
  BY DEF ForgiveJob
<1>3. \A n \in Nodes : Forgive(rows[j].statuses[n]) \in Statuses
  <2>. TAKE n \in Nodes
  <2>1. <<j, n>> \in Tasks /\ StatusOf(<<j, n>>) = rows[j].statuses[n]
    BY DEF Tasks, StatusOf, JobOf
  <2>2. rows[j].statuses[n] \in Statuses /\ Coherent(rows[j].statuses[n])
    BY <1>1, <2>1, StatusType DEF BasicInv, StatusesAreCoherent
  <2>. QED
    BY <2>2, ForgivenStatus
<1>4. [n \in Nodes |-> Forgive(rows[j].statuses[n])] \in [Nodes -> Statuses]
  BY <1>3
<1>5. rows' \in RowsType
  BY <1>1, <1>2, <1>4 DEF RowsType
<1>6. /\ rows'[j].statuses = [n \in Nodes |-> Forgive(rows[j].statuses[n])]
      /\ \A i \in Jobs : i # j => rows'[i] = rows[i]
      /\ rows'[j].loaded = rows[j].loaded
  BY <1>1, <1>2 DEF RowsType
<1>7. \A t \in Tasks : StatusOf(t)' = IF JobOf(t) = j THEN Forgive(StatusOf(t)) ELSE StatusOf(t)
  BY <1>6, TaskParts DEF StatusOf
<1>. QED
  BY <1>5, <1>6, <1>7

(* updateForConfig, seen from one task. *)
InMemory(t) == IF runningTasks[t] # NoTask THEN Running ELSE StatusOf(t)

(* updateForConfig keeps the statuses in memory of the jobs that are        *)
(* loaded.                                                                  *)
LEMMA UpdateForConfigEffect ==
    ASSUME TypeOK, NEW jobs \in SUBSET Jobs, UpdateForConfig(jobs)
    PROVE  /\ rows' \in RowsType /\ numRows' \in 0 .. NumJobs
           /\ \A t \in Tasks :
                 /\ StatusOf(t)' \in {Empty, Done, Failed, InMemory(t)}
                 /\ JobOf(t) \in jobs => StatusOf(t)' \in {Done, Failed, InMemory(t)}
                 /\ JobOf(t) \in jobs /\ rows[JobOf(t)].loaded => StatusOf(t)' = InMemory(t)
           /\ \A j \in jobs : rows'[j].loaded
<1>. DEFINE busy == {t \in Tasks : runningTasks[t] # NoTask}
            current == jobs \cup {JobOf(t) : t \in busy}
            InMem(t) == IF t \in busy THEN Running ELSE StatusOf(t)
            Stored(t) == CASE store[t] = "done" -> Done
                           [] store[t] = "failed" -> Failed
                           [] OTHER -> InMem(t)
            Cleared(j) == j \notin current /\ rows[j].statuses # EmptyRow.statuses
            NewStatus(j, n) == IF j \in current /\ ~rows[j].loaded
                               THEN Stored(<<j, n>>) ELSE InMem(<<j, n>>)
            NewRow(j) == IF Cleared(j) THEN EmptyRow
                         ELSE [loaded |-> rows[j].loaded \/ j \in current,
                               statuses |-> [n \in Nodes |-> NewStatus(j, n)]]
<1>1. rows' = [j \in Jobs |-> NewRow(j)] /\ numRows' = Max({numRows} \cup current)
  BY Zenon DEF UpdateForConfig
<1>2. \A t \in Tasks : StatusOf(t) \in Statuses /\ InMem(t) \in Statuses /\ InMem(t) = InMemory(t)
  BY StatusType, FixedStatuses DEF TypeOK, RowsType, InMemory
<1>3. \A t \in Tasks : Stored(t) \in {Done, Failed, InMem(t)}
  OBVIOUS
<1>4. \A j \in Jobs, n \in Nodes : NewStatus(j, n) \in Statuses
  <2>. TAKE j \in Jobs, n \in Nodes
  <2>1. <<j, n>> \in Tasks
    BY DEF Tasks
  <2>2. NewStatus(j, n) \in {Stored(<<j, n>>), InMem(<<j, n>>)}
    OBVIOUS
  <2>. HIDE DEF NewStatus, Stored, InMem
  <2>. QED
    BY <1>2, <1>3, <2>1, <2>2, FixedStatuses
<1>5. rows' \in RowsType
  <2>. HIDE DEF NewStatus
  <2>1. EmptyRow \in [loaded : BOOLEAN, statuses : [Nodes -> Statuses]]
    BY FixedStatuses DEF EmptyRow
  <2>2. ASSUME NEW j \in Jobs
        PROVE  NewRow(j) \in [loaded : BOOLEAN, statuses : [Nodes -> Statuses]]
    <3>1. [n \in Nodes |-> NewStatus(j, n)] \in [Nodes -> Statuses]
      BY <1>4
    <3>2. (rows[j].loaded \/ j \in current) \in BOOLEAN
      OBVIOUS
    <3>. QED
      BY <2>1, <3>1, <3>2
  <2>. HIDE DEF NewRow
  <2>. QED
    BY <1>1, <2>2 DEF RowsType
<1>6. numRows' \in 0 .. NumJobs
  <2>1. current \subseteq Jobs
    BY TaskParts
  <2>. HIDE DEF current
  <2>2. /\ {numRows} \cup current \in SUBSET Nat /\ NumJobs \in Nat
        /\ \A x \in {numRows} \cup current : x <= NumJobs
    <3>1. numRows \in 0 .. NumJobs
      BY DEF TypeOK
    <3>. QED
      BY <2>1, <3>1, NaturalBounds DEF Jobs
  <2>3. Max({numRows} \cup current) \in {numRows} \cup current
    BY <2>2, GreatestBounded
  <2>. QED
    BY <1>1, <2>2, <2>3
<1>7. ASSUME NEW t \in Tasks
      PROVE  /\ StatusOf(t)' \in {Empty, Done, Failed, InMem(t)}
             /\ JobOf(t) \in jobs => StatusOf(t)' \in {Done, Failed, InMem(t)}
             /\ JobOf(t) \in jobs /\ rows[JobOf(t)].loaded => StatusOf(t)' = InMem(t)
  <2>. DEFINE j == JobOf(t)  n == t[2]
  <2>1. j \in Jobs /\ n \in Nodes /\ t = <<j, n>>
    BY TaskParts
  <2>2. StatusOf(t)' = NewRow(j).statuses[n]
    BY <1>1, <2>1 DEF StatusOf
  <2>3. CASE Cleared(j)
    <3>1. NewRow(j).statuses[n] = Empty
      BY <2>1, <2>3 DEF EmptyRow
    <3>. QED
      BY <2>2, <2>3, <3>1
  <2>4. CASE ~Cleared(j)
    <3>1. NewRow(j).statuses[n] = NewStatus(j, n)
      BY <2>1, <2>4
    <3>2. NewStatus(j, n) \in {Stored(t), InMem(t)}
      BY <2>1
    <3>3. j \in jobs /\ rows[j].loaded => NewStatus(j, n) = InMem(t)
      BY <2>1
    <3>. HIDE DEF NewRow, NewStatus, Stored, InMem
    <3>. QED
      BY <1>3, <2>2, <3>1, <3>2, <3>3
  <2>. QED
    BY <2>3, <2>4
<1>8. \A j \in jobs : rows'[j].loaded
  BY <1>1
<1>. HIDE DEF InMem
<1>. QED
  BY <1>2, <1>5, <1>6, <1>7, <1>8

(* copySnapshot and schedule(), seen from one task. *)
LEMMA CopySnapshotEffect ==
    ASSUME TypeOK, CopySnapshot
    PROVE  \/ abort' = "job not loaded" /\ UNCHANGED eligible
           \/ /\ UNCHANGED abort /\ DOMAIN eligible' \subseteq Tasks
              /\ \A t \in DOMAIN eligible' :
                    /\ JobOf(t) \in config /\ ~Excluded(StatusOf(t))
                    /\ \A i \in DOMAIN DependsOn[JobOf(t)] :
                          StatusOf(<<DependsOn[JobOf(t)][i], t[2]>>).kind = "done"
                    /\ eligible'[t] = ConfiguredBackoff(StatusOf(t))
<1>. DEFINE free == {t \in Tasks : JobOf(t) \in config /\ ~Excluded(StatusOf(t))}
            Dependency(t, i) == DependsOn[JobOf(t)][i]
            DependencyDone(t, i) ==
                /\ Dependency(t, i) <= numRows
                /\ StatusOf(<<Dependency(t, i), t[2]>>).kind = "done"
            DoneBelow(t, n) == \A i \in 1 .. n : DependencyDone(t, i)
            found == {t \in free : DoneBelow(t, Len(DependsOn[JobOf(t)]))}
<1>1. \/ abort' = "job not loaded" /\ UNCHANGED eligible
      \/ eligible' = [t \in found |-> ConfiguredBackoff(StatusOf(t))] /\ UNCHANGED abort
  BY Zenon DEF CopySnapshot
<1>2. ASSUME NEW t \in found
      PROVE  /\ t \in Tasks /\ JobOf(t) \in config /\ ~Excluded(StatusOf(t))
             /\ \A i \in DOMAIN DependsOn[JobOf(t)] :
                   StatusOf(<<DependsOn[JobOf(t)][i], t[2]>>).kind = "done"
  <2>1. t \in Tasks /\ JobOf(t) \in config /\ ~Excluded(StatusOf(t))
    OBVIOUS
  <2>2. DOMAIN DependsOn[JobOf(t)] = 1 .. Len(DependsOn[JobOf(t)])
    BY <2>1, TaskParts, SizesAssumption
  <2>3. \A i \in 1 .. Len(DependsOn[JobOf(t)]) :
            StatusOf(<<DependsOn[JobOf(t)][i], t[2]>>).kind = "done"
    OBVIOUS
  <2>. QED
    BY <2>1, <2>2, <2>3
<1>. HIDE DEF found
<1>. QED
  BY <1>1, <1>2

(* The attempt that runTask makes. *)
NewAttempt(t, w) ==
    [task |-> t, rt |-> [inv |-> started + 1, next |-> GetNext(eligible[t])], worker |-> w,
     phase |-> "running", outcome |-> "unknown", replied |-> FALSE,
     standing |-> "tracked", deadline |-> Forever]

(* The new attempt is one. *)
LEMMA NewAttemptType ==
    ASSUME TypeOK, NEW t \in DOMAIN eligible, NEW w \in Workers, started < MaxInvocations
    PROVE  /\ t \in Tasks /\ eligible[t] \in Nat /\ GetNext(eligible[t]) \in BackoffDurations
           /\ NewAttempt(t, w) \in Attempts
           /\ NewAttempt(t, w).rt \in RunningTaskRecords
<1>1. /\ t \in Tasks /\ eligible[t] \in Nat /\ started \in 0 .. MaxInvocations
  BY DEF TypeOK
<1>2. started + 1 \in 1 .. MaxInvocations
  BY <1>1, NaturalBounds
<1>3. GetNext(eligible[t]) \in BackoffDurations
  BY <1>1, GetNextType
<1>4. [inv |-> started + 1, next |-> GetNext(eligible[t])] \in RunningTaskRecords
  BY <1>2, <1>3 DEF RunningTaskRecords
<1>5. NewAttempt(t, w) \in Attempts
  BY <1>1, <1>4 DEF NewAttempt, Attempts
<1>. QED
  BY <1>1, <1>3, <1>4, <1>5 DEF NewAttempt

(* What is left of an attempt when the scheduler restarts. *)
Unreported(a) ==
    [a EXCEPT !.replied = TRUE,
              !.standing = IF @ \in {"losing", "lost", "forgotten"}
                           THEN "forgotten" ELSE "unreported"]

-----------------------------------------------------------------------------
(* What holds always. *)

(* The scheduler starts with nothing. *)
LEMMA BasicInit == Init => BasicInv
<1>. SUFFICES ASSUME Init  PROVE BasicInv
  OBVIOUS
<1>1. \A t \in Tasks : StatusOf(t) = Empty
  BY TaskParts DEF Init, StatusOf, EmptyRow
<1>2. rows \in RowsType
  <2>1. EmptyRow \in [loaded : BOOLEAN, statuses : [Nodes -> Statuses]]
    BY FixedStatuses DEF EmptyRow
  <2>. QED
    BY <2>1 DEF Init, RowsType
<1>3. TypeOK
  BY <1>2, NaturalBounds DEF Init, TypeOK, RowsType
<1>4. RunningRowsAreTracked /\ StatusesAreCoherent
  BY <1>1, FixedStatuses DEF RunningRowsAreTracked, StatusesAreCoherent
<1>5. InvocationsAreFresh /\ LoopIsCurrent
  BY DEF Init, InvocationsAreFresh, LoopIsCurrent
<1>. QED
  BY <1>3, <1>4, <1>5 DEF BasicInv

(* BasicInv is inductive. *)
LEMMA BasicStep ==
    ASSUME BasicInv
    PROVE  [Next]_vars => BasicInv'
(* updateStatus leaves no row that says "running" without a running task. *)
<1>UpdateStatusBasic.
  ASSUME abort = "none",
         NEW t \in Tasks, NEW rt \in RunningTaskRecords, NEW new \in Statuses,
         Coherent(new), NEW th \in Threads, UpdateStatus(t, rt, new, th)
  PROVE  RunningRowsAreTracked' /\ StatusesAreCoherent'
  <2>. USE <1>UpdateStatusBasic
  <2>1. /\ OthersUntouched(t)
        /\ \/ UpdateAborts(t, rt)
           \/ UpdateKeeps(t, new)
           \/ UpdateReplaces(t, rt, new)
    BY UpdateStatusEffect DEF BasicInv
  <2>2. \A u \in Tasks : u # t => StatusOf(u)' = StatusOf(u) /\ runningTasks'[u] = runningTasks[u]
    BY <2>1 DEF OthersUntouched
  <2>3. CASE UpdateAborts(t, rt) \/ UpdateKeeps(t, new)
    <3>1. StatusOf(t)' = StatusOf(t) /\ runningTasks'[t] = runningTasks[t]
      BY <2>3 DEF UpdateAborts, UpdateKeeps
    <3>2. \A u \in Tasks : StatusOf(u)' = StatusOf(u) /\ runningTasks'[u] = runningTasks[u]
      BY <2>2, <3>1
    <3>. QED
      BY <3>2 DEF RunningRowsAreTracked, StatusesAreCoherent, BasicInv
  <2>4. CASE UpdateReplaces(t, rt, new)
    <3>. DEFINE s == Update(StatusOf(t), rt.next, new)
    <3>1. /\ Coherent(s) /\ (s.kind = new.kind \/ s.kind = "failed")
      <4>1. StatusOf(t) \in Statuses /\ rt.next \in BackoffDurations
        BY StatusType DEF BasicInv, TypeOK, RowsType, RunningTaskRecords
      <4>. QED
        BY <4>1, UpdatedStatus
    <3>2. StatusOf(t)' = s
      BY <2>4 DEF UpdateReplaces
    <3>. HIDE DEF s
    <3>3. new.kind = "running" => runningTasks'[t] # NoTask
      BY <2>4, AbsentAssumption DEF UpdateReplaces
    <3>4. StatusesAreCoherent'
      BY <2>2, <3>1, <3>2 DEF StatusesAreCoherent, BasicInv
    <3>5. RunningRowsAreTracked'
      BY <2>2, <3>1, <3>2, <3>3 DEF RunningRowsAreTracked, BasicInv
    <3>. QED
      BY <3>4, <3>5
  <2>. QED
    BY <2>1, <2>3, <2>4
(* What the attempts need when one of them changes and none is added. *)
<1>ReplacedBasic.
  ASSUME NEW a, NEW b, Replaced(a, b), UNCHANGED <<started, tried>>
  PROVE  attempts' \subseteq Attempts /\ InvocationsAreFresh'
  <2>. USE <1>ReplacedBasic
  <2>1. attempts \subseteq Attempts
    BY DEF BasicInv, TypeOK
  <2>2. attempts' \subseteq Attempts
    BY <2>1 DEF Replaced
  <2>3. InvocationsAreFresh'
    BY DEF InvocationsAreFresh, Replaced, BasicInv
  <2>. QED
    BY <2>2, <2>3
(* Every update from a worker. *)
<1>WorkerUpdateBasic.
  ASSUME abort = "none", NEW a, NEW b, Replaced(a, b),
         NEW rt \in RunningTaskRecords, NEW new \in Statuses, Coherent(new),
         NEW th \in Threads, UpdateStatus(a.task, rt, new, th),
         UNCHANGED <<now, loopVars, store, counters, tried>>
  PROVE  BasicInv'
  <2>. USE <1>WorkerUpdateBasic
  <2>. DEFINE t == a.task
  <2>1. t \in Tasks
    BY DEF BasicInv, TypeOK, Replaced, Attempts
  <2>2. /\ rows' \in RowsType /\ numRows' \in 0 .. NumJobs
        /\ runningTasks' \in [Tasks -> RunningTaskRecords \cup {NoTask}]
        /\ recording' \in [Threads -> StoredResults \cup {NoRecord}]
        /\ abort' \in {"none", "invocation mismatch", "stored is running"}
        /\ OthersUntouched(t)
    BY <2>1, UpdateStatusEffect DEF BasicInv
  <2>3. RunningRowsAreTracked' /\ StatusesAreCoherent'
    BY <2>1, <1>UpdateStatusBasic
  <2>4. attempts' \subseteq Attempts /\ InvocationsAreFresh'
    BY <1>ReplacedBasic DEF counters
  <2>5. TypeOK'
    BY <2>2, <2>4 DEF TypeOK, BasicInv, loopVars, counters, RowsType
  <2>6. LoopIsCurrent'
    BY <2>2 DEF LoopIsCurrent, OthersUntouched, BasicInv, TypeOK, loopVars
  <2>. QED
    BY <2>3, <2>4, <2>5, <2>6 DEF BasicInv
(* Every step that leaves the statuses alone and starts no task. *)
<1>AttemptStepBasic.
  ASSUME NEW a, NEW b, Replaced(a, b),
         recording' \in [Threads -> StoredResults \cup {NoRecord}],
         UNCHANGED <<now, statusVars, loopVars, store, abort, counters, tried>>
  PROVE  BasicInv'
  <2>. USE <1>AttemptStepBasic
  <2>1. attempts' \subseteq Attempts /\ InvocationsAreFresh'
    BY <1>ReplacedBasic DEF counters
  <2>2. TypeOK'
    BY <2>1 DEF TypeOK, BasicInv, loopVars, counters, statusVars
  <2>3. RunningRowsAreTracked' /\ StatusesAreCoherent' /\ LoopIsCurrent'
    BY DEF RunningRowsAreTracked, StatusesAreCoherent, LoopIsCurrent, BasicInv, statusVars,
           loopVars, StatusOf
  <2>. QED
    BY <2>1, <2>2, <2>3 DEF BasicInv
(* A configured backoff is a duration. *)
<1>ConfiguredBackoffType.
  ASSUME NEW s \in Statuses
  PROVE  ConfiguredBackoff(s) \in Nat
  <2>. USE <1>ConfiguredBackoffType
  <2>. QED
    BY DEF ConfiguredBackoff, HasSavedBackoff, Statuses
(* A write to the store keeps BasicInv. *)
<1>RecordStatusBasic.
  ASSUME NEW th \in Threads, RecordStatus(th)
  PROVE  BasicInv'
  <2>. USE <1>RecordStatusBasic
  <2>1. UNCHANGED <<now, statusVars, loopVars, attempts, abort, counters, tried>>
    BY DEF RecordStatus
  <2>2. /\ store' \in [Tasks -> {"none", "done", "failed"}]
        /\ recording' \in [Threads -> StoredResults \cup {NoRecord}]
    <3>1. recording[th] \in StoredResults
      BY DEF RecordStatus, BasicInv, TypeOK
    <3>2. recording[th].task \in Tasks /\ recording[th].result \in {"done", "failed"}
      BY <3>1 DEF StoredResults
    <3>3. /\ store \in [Tasks -> {"none", "done", "failed"}]
          /\ recording \in [Threads -> StoredResults \cup {NoRecord}]
      BY DEF BasicInv, TypeOK
    <3>4. /\ store' = [store EXCEPT ![recording[th].task] = recording[th].result]
          /\ recording' = [recording EXCEPT ![th] = NoRecord]
      BY DEF RecordStatus
    <3>. QED
      BY <3>2, <3>3, <3>4
  <2>3. TypeOK'
    BY <2>1, <2>2 DEF TypeOK, BasicInv, loopVars, counters, statusVars
  <2>4. RunningRowsAreTracked' /\ StatusesAreCoherent' /\ LoopIsCurrent' /\ InvocationsAreFresh'
    BY <2>1 DEF RunningRowsAreTracked, StatusesAreCoherent, LoopIsCurrent, BasicInv, statusVars,
           loopVars, StatusOf, InvocationsAreFresh, counters
  <2>. QED
    BY <2>3, <2>4 DEF BasicInv
(* A pardon keeps BasicInv. *)
<1>ForgiveJobBasic.
  ASSUME NEW j \in Jobs, ForgiveJob(j)
  PROVE  BasicInv'
  <2>. USE <1>ForgiveJobBasic
  <2>1. /\ rows' \in RowsType
        /\ \A t \in Tasks : StatusOf(t)' = IF JobOf(t) = j THEN Forgive(StatusOf(t))
                                           ELSE StatusOf(t)
        /\ \A i \in Jobs : rows'[i].loaded = rows[i].loaded
    BY ForgiveJobEffect
  <2>2. /\ UNCHANGED <<now, numRows, runningTasks, loopVars, store, recording,
                     attempts, abort, started, changes, restarts, removed, tried>>
        /\ forgives' \in 0 .. MaxForgives
    <3>1. forgives \in 0 .. MaxForgives
      BY DEF BasicInv, TypeOK
    <3>. QED
      BY <3>1, NaturalBounds DEF ForgiveJob
  <2>3. \A t \in Tasks : StatusOf(t) \in Statuses /\ Coherent(StatusOf(t))
    BY StatusType DEF BasicInv, TypeOK, RowsType, StatusesAreCoherent
  <2>4. \A t \in Tasks : /\ Coherent(Forgive(StatusOf(t)))
                         /\ Forgive(StatusOf(t)).kind \in {StatusOf(t).kind, "error"}
    BY <2>3, ForgivenStatus
  <2>5. RunningRowsAreTracked' /\ StatusesAreCoherent'
    BY <2>1, <2>2, <2>3, <2>4 DEF RunningRowsAreTracked, StatusesAreCoherent, BasicInv
  <2>6. TypeOK'
    BY <2>1, <2>2 DEF TypeOK, BasicInv, loopVars, RowsType
  <2>7. InvocationsAreFresh' /\ LoopIsCurrent'
    BY <2>1, <2>2 DEF InvocationsAreFresh, LoopIsCurrent, BasicInv, TypeOK, loopVars
  <2>. QED
    BY <2>5, <2>6, <2>7 DEF BasicInv
(* A new configuration keeps BasicInv. *)
<1>UpdateForConfigBasic.
  ASSUME NEW jobs \in SUBSET Jobs, UpdateForConfig(jobs)
  PROVE  BasicInv'
  <2>. USE <1>UpdateForConfigBasic
  <2>1. /\ rows' \in RowsType /\ numRows' \in 0 .. NumJobs
        /\ \A t \in Tasks : StatusOf(t)' \in {Empty, Done, Failed, InMemory(t)}
        /\ \A j \in jobs : rows'[j].loaded
    BY UpdateForConfigEffect DEF BasicInv
  <2>2. /\ loop' = "updated" /\ config' = jobs /\ eligible' = <<>>
        /\ removed' = removed \cup (Jobs \ jobs)
        /\ UNCHANGED <<now, runningTasks, store, recording, attempts, abort,
                       started, restarts, forgives, tried>>
    BY DEF UpdateForConfig
  <2>3. changes' \in 0 .. MaxConfigChanges
    <3>1. changes \in 0 .. MaxConfigChanges
      BY DEF BasicInv, TypeOK
    <3>. QED
      BY <3>1, NaturalBounds DEF UpdateForConfig
  <2>4. TypeOK'
    <3>1. removed' \subseteq Jobs
      BY <2>2 DEF BasicInv, TypeOK
    <3>2. DOMAIN eligible' = {}
      BY <2>2
    <3>. QED
      BY <2>1, <2>2, <2>3, <3>1, <3>2 DEF TypeOK, BasicInv, RowsType
  <2>5. RunningRowsAreTracked' /\ StatusesAreCoherent'
    BY <2>1, <2>2, FixedStatuses
       DEF RunningRowsAreTracked, StatusesAreCoherent, BasicInv, InMemory
  <2>6. InvocationsAreFresh' /\ LoopIsCurrent'
    BY <2>1, <2>2 DEF InvocationsAreFresh, LoopIsCurrent, BasicInv
  <2>. QED
    BY <2>4, <2>5, <2>6 DEF BasicInv
(* A new snapshot keeps BasicInv. *)
<1>CopySnapshotBasic.
  ASSUME abort = "none", CopySnapshot
  PROVE  BasicInv'
  <2>. USE <1>CopySnapshotBasic
  <2>1. /\ loop = "updated" /\ loop' = "scheduling"
        /\ UNCHANGED <<now, config, statusVars, store, recording, attempts, counters, tried>>
    BY DEF CopySnapshot
  <2>2. /\ DOMAIN eligible' \subseteq Tasks /\ \A t \in DOMAIN eligible' : eligible'[t] \in Nat
        /\ abort' \in {"none", "job not loaded"}
    <3>1. CASE abort' = "job not loaded" /\ UNCHANGED eligible
      BY <3>1 DEF BasicInv, TypeOK
    <3>2. CASE /\ UNCHANGED abort /\ DOMAIN eligible' \subseteq Tasks
               /\ \A t \in DOMAIN eligible' : eligible'[t] = ConfiguredBackoff(StatusOf(t))
      BY <3>2, StatusType, <1>ConfiguredBackoffType DEF BasicInv, TypeOK, RowsType
    <3>. QED
      BY <3>1, <3>2, CopySnapshotEffect DEF BasicInv
  <2>3. TypeOK'
    BY <2>1, <2>2 DEF TypeOK, BasicInv, statusVars, counters
  <2>4. RunningRowsAreTracked' /\ StatusesAreCoherent' /\ LoopIsCurrent' /\ InvocationsAreFresh'
    BY <2>1 DEF RunningRowsAreTracked, StatusesAreCoherent, LoopIsCurrent, BasicInv, statusVars,
           StatusOf, InvocationsAreFresh, counters
  <2>. QED
    BY <2>3, <2>4 DEF BasicInv
(* The start of a task keeps BasicInv. *)
<1>RunTaskBasic.
  ASSUME abort = "none", NEW t \in Tasks, NEW w \in Workers, RunTask(t, w)
  PROVE  BasicInv'
  <2>. USE <1>RunTaskBasic
  <2>. DEFINE new == NewAttempt(t, w)
  <2>1. /\ loop = "scheduling" /\ t \in DOMAIN eligible /\ started < MaxInvocations
        /\ started' = started + 1
        /\ eligible' = [u \in DOMAIN eligible \ {t} |-> eligible[u]]
        /\ attempts' = IF abort' # "none" THEN attempts ELSE attempts \cup {new}
        /\ tried' = [tried EXCEPT ![t] = IF eligible[t] = 0 THEN 1 ELSE @ + 1]
        /\ UNCHANGED <<now, config, loop, store, changes, restarts, forgives, removed>>
        /\ \/ Fail("started twice on a worker")
           \/ UpdateStatus(t, new.rt, Running, "locked")
    BY DEF RunTask, NewAttempt
  <2>2. /\ eligible[t] \in Nat /\ new \in Attempts /\ new.rt \in RunningTaskRecords
        /\ new.rt.inv = started + 1
    BY <2>1, NewAttemptType DEF BasicInv, NewAttempt
  <2>. HIDE DEF new
  <2>3. /\ rows' \in RowsType /\ numRows' \in 0 .. NumJobs
        /\ runningTasks' \in [Tasks -> RunningTaskRecords \cup {NoTask}]
        /\ recording' \in [Threads -> StoredResults \cup {NoRecord}]
        /\ abort' \in {"none", "invocation mismatch", "stored is running",
                       "started twice on a worker"}
        /\ RunningRowsAreTracked' /\ StatusesAreCoherent'
    <3>1. CASE Fail("started twice on a worker")
      BY <3>1 DEF Fail, statusVars, BasicInv, TypeOK, RowsType, RunningRowsAreTracked,
                  StatusesAreCoherent, StatusOf
    <3>2. CASE UpdateStatus(t, new.rt, Running, "locked")
      <4>1. "locked" \in Threads
        BY DEF Threads
      <4>. QED
        BY <2>2, <3>2, <4>1, FixedStatuses, UpdateStatusEffect, <1>UpdateStatusBasic DEF BasicInv
    <3>. QED
      BY <2>1, <3>1, <3>2
  <2>4. /\ started \in Nat /\ started' \in 0 .. MaxInvocations
        /\ started' = started + 1 /\ started' <= MaxInvocations
    <3>1. started \in 0 .. MaxInvocations
      BY DEF BasicInv, TypeOK
    <3>2. started' = started + 1 /\ started < MaxInvocations
      BY <2>1
    <3>. QED
      BY <3>1, <3>2, NaturalBounds
  <2>5. /\ tried' \in [Tasks -> 0 .. MaxInvocations] /\ \A u \in Tasks : tried'[u] <= started'
    <3>1. tried \in [Tasks -> 0 .. MaxInvocations]
      BY DEF BasicInv, TypeOK
    <3>2. \A u \in Tasks : tried[u] \in Nat /\ tried[u] <= started
      BY <3>1, NaturalBounds DEF BasicInv, InvocationsAreFresh
    <3>. DEFINE tries == IF eligible[t] = 0 THEN 1 ELSE tried[t] + 1
    <3>3. tries \in Nat /\ tries <= started'
      BY <2>4, <3>2
    <3>4. tried' = [tried EXCEPT ![t] = tries]
      BY <2>1
    <3>. HIDE DEF tries
    <3>5. \A u \in Tasks : tried'[u] = IF u = t THEN tries ELSE tried[u]
      BY <3>1, <3>4
    <3>6. \A u \in Tasks : tried'[u] \in Nat /\ tried'[u] <= started'
      BY <2>4, <3>2, <3>3, <3>5
    <3>7. \A u \in Tasks : tried'[u] \in 0 .. MaxInvocations
      BY <2>4, <3>6, NaturalBounds
    <3>. QED
      BY <3>1, <3>4, <3>6, <3>7
  <2>6. /\ DOMAIN eligible' \subseteq Tasks /\ \A u \in DOMAIN eligible' : eligible'[u] \in Nat
    BY <2>1 DEF BasicInv, TypeOK
  <2>7. attempts' \subseteq Attempts
    BY <2>1, <2>2 DEF BasicInv, TypeOK
  <2>8. TypeOK'
    BY <2>1, <2>3, <2>4, <2>5, <2>6, <2>7 DEF TypeOK, BasicInv, RowsType
  <2>9. InvocationsAreFresh'
    <3>1. \A a \in attempts : a.rt.inv \in Nat /\ a.rt.inv <= started
      BY AttemptType DEF BasicInv, InvocationsAreFresh
    <3>2. \A a \in attempts' : a \in attempts \/ a = new
      BY <2>1
    <3>3. \A a \in attempts' : a.rt.inv <= started'
      BY <2>2, <2>4, <3>1, <3>2
    <3>4. \A a \in attempts : a.rt.inv # new.rt.inv
      BY <2>2, <2>4, <3>1
    <3>5. \A a, b \in attempts' : a.rt.inv = b.rt.inv => a = b
      BY <3>2, <3>4 DEF BasicInv, InvocationsAreFresh
    <3>. QED
      BY <2>5, <3>3, <3>5 DEF InvocationsAreFresh
  <2>10. LoopIsCurrent'
    BY <2>1 DEF LoopIsCurrent
  <2>. QED
    BY <2>3, <2>8, <2>9, <2>10 DEF BasicInv
(* A delivered status keeps BasicInv. *)
<1>DeliverStatusBasic.
  ASSUME abort = "none", NEW a \in attempts, NEW o \in Outcomes,
         NEW ack \in BOOLEAN, DeliverStatus(a, o, ack)
  PROVE  BasicInv'
  <2>. USE <1>DeliverStatusBasic
  <2>1. PICK b : Replaced(a, b)
    BY DeliverStatusReplaces DEF BasicInv
  <2>2. CASE \E c \in TrackedOn(a.task, a.worker) : c # a
    <3>1. UNCHANGED <<now, statusVars, loopVars, store, recording, abort, counters, tried>>
      BY <2>2 DEF DeliverStatus
    <3>2. recording' \in [Threads -> StoredResults \cup {NoRecord}]
      BY <3>1 DEF BasicInv, TypeOK
    <3>. QED
      BY <2>1, <3>1, <3>2, <1>AttemptStepBasic
  <2>3. CASE ~\E c \in TrackedOn(a.task, a.worker) : c # a
    <3>1. /\ UpdateStatus(a.task, a.rt, StatusFrom(o), "locked")
          /\ UNCHANGED <<now, loopVars, store, counters, tried>>
      BY <2>3 DEF DeliverStatus
    <3>2. /\ a.rt \in RunningTaskRecords /\ StatusFrom(o) \in Statuses
          /\ Coherent(StatusFrom(o)) /\ "locked" \in Threads
      BY AttemptType, OutcomeStatus DEF BasicInv, Threads
    <3>. QED
      BY <2>1, <3>1, <3>2, <1>WorkerUpdateBasic
  <2>. QED
    BY <2>2, <2>3
(* A task that could not be started keeps BasicInv. *)
<1>FailToStartBasic.
  ASSUME abort = "none", NEW a \in attempts, FailToStart(a)
  PROVE  BasicInv'
  <2>. USE <1>FailToStartBasic
  <2>1. PICK b : Replaced(a, b)
    <3>1. attempts \subseteq Attempts /\ (Leave(a) \/ UNCHANGED attempts)
      BY DEF FailToStart, BasicInv, TypeOK
    <3>. QED
      BY <3>1, LeaveReplaces, UnchangedReplaces
  <2>2. /\ UpdateStatus(a.task, a.rt, NeverStarted, "locked")
        /\ UNCHANGED <<now, loopVars, store, counters, tried>>
    BY DEF FailToStart
  <2>3. a.rt \in RunningTaskRecords /\ "locked" \in Threads
    BY AttemptType DEF BasicInv, Threads
  <2>. QED
    BY <2>1, <2>2, <2>3, FixedStatuses, <1>WorkerUpdateBasic
(* A task that the worker does not know keeps BasicInv. *)
<1>ReportNotRunningBasic.
  ASSUME abort = "none", NEW a \in attempts, ReportNotRunning(a)
  PROVE  BasicInv'
  <2>. USE <1>ReportNotRunningBasic
  <2>1. PICK b : Replaced(a, b)
    <3>1. attempts \subseteq Attempts /\ (Leave(a) \/ UNCHANGED attempts)
      BY DEF ReportNotRunning, BasicInv, TypeOK
    <3>. QED
      BY <3>1, LeaveReplaces, UnchangedReplaces
  <2>2. /\ UpdateStatus(a.task, a.rt, WasNotRunning, "locked")
        /\ UNCHANGED <<now, loopVars, store, counters, tried>>
    BY DEF ReportNotRunning
  <2>3. a.rt \in RunningTaskRecords /\ "locked" \in Threads
    BY AttemptType DEF BasicInv, Threads
  <2>. QED
    BY <2>1, <2>2, <2>3, FixedStatuses, <1>WorkerUpdateBasic
(* A lost task keeps BasicInv. *)
<1>ReportLostBasic.
  ASSUME abort = "none", NEW a \in attempts, ReportLost(a)
  PROVE  BasicInv'
  <2>. USE <1>ReportLostBasic
  <2>1. PICK b : Replaced(a, b)
    BY ReportLostReplaces DEF BasicInv
  <2>2. /\ UpdateStatus(a.task, Tweaked(a.rt), WorkerLost(a.rt.next.seconds, now), "losing")
        /\ UNCHANGED <<now, loopVars, store, counters, tried>>
    BY DEF ReportLost, Tweaked
  <2>3. /\ a.rt \in RunningTaskRecords /\ "losing" \in Threads
        /\ a.rt.next.seconds \in Nat /\ now \in Nat
    BY AttemptType DEF BasicInv, Threads, BackoffDurations
  <2>4. /\ Tweaked(a.rt) \in RunningTaskRecords
        /\ WorkerLost(a.rt.next.seconds, now) \in Statuses
        /\ Coherent(WorkerLost(a.rt.next.seconds, now))
    BY <2>3, TweakedType, LostStatus
  <2>. QED
    BY <2>1, <2>2, <2>3, <2>4, <1>WorkerUpdateBasic
(* A task that a worker reports as running keeps BasicInv. *)
<1>ReportRunningBasic.
  ASSUME abort = "none", NEW a \in attempts, ReportRunning(a)
  PROVE  BasicInv'
  <2>. USE <1>ReportRunningBasic
  <2>1. PICK b : Replaced(a, b)
    <3>1. CASE abort' = "none"
      <4>. DEFINE b == [a EXCEPT !.standing = "tracked"]
      <4>1. attempts' = (attempts \ {a}) \cup {b}
        BY <3>1 DEF ReportRunning, Become
      <4>2. b \in Attempts /\ b.task = a.task /\ b.rt = a.rt
        BY DEF BasicInv, TypeOK, Attempts
      <4>. QED
        BY <4>1, <4>2 DEF Replaced
    <3>2. CASE abort' # "none"
      BY <3>2 DEF ReportRunning, BasicInv, TypeOK, Replaced
    <3>. QED
      BY <3>1, <3>2
  <2>2. /\ UpdateStatus(a.task, a.rt, Running, "locked")
        /\ UNCHANGED <<now, loopVars, store, counters, tried>>
    BY DEF ReportRunning
  <2>3. a.rt \in RunningTaskRecords /\ "locked" \in Threads
    BY AttemptType DEF BasicInv, Threads
  <2>. QED
    BY <2>1, <2>2, <2>3, FixedStatuses, <1>WorkerUpdateBasic
(* The end of a lost task keeps BasicInv. *)
<1>DieBasic.
  ASSUME NEW a \in attempts, Die(a)
  PROVE  BasicInv'
  <2>. USE <1>DieBasic
  <2>1. Replaced(a, [a EXCEPT !.phase = "gone"])
    BY LeaveReplaces DEF Die, BasicInv, TypeOK
  <2>2. UNCHANGED <<now, statusVars, loopVars, store, recording, abort, counters, tried>>
    BY DEF Die
  <2>3. recording' \in [Threads -> StoredResults \cup {NoRecord}]
    BY <2>2 DEF BasicInv, TypeOK
  <2>. QED
    BY <2>1, <2>2, <2>3, <1>AttemptStepBasic
(* The loss of a worker keeps BasicInv. *)
<1>LoseWorkerBasic.
  ASSUME NEW w \in Workers, LoseWorker(w)
  PROVE  BasicInv'
  <2>. USE <1>LoseWorkerBasic
  <2>1. attempts' = {Losing(a, w) : a \in attempts}
    BY DEF LoseWorker, Losing
  <2>2. UNCHANGED <<now, statusVars, loopVars, store, recording, abort, counters, tried>>
    BY DEF LoseWorker
  <2>3. \A a \in attempts : Losing(a, w) \in Attempts /\ Losing(a, w).rt = a.rt
    BY LosingEffect DEF BasicInv
  <2>4. TypeOK'
    <3>1. attempts' \subseteq Attempts
      BY <2>1, <2>3
    <3>. QED
      BY <2>2, <3>1 DEF TypeOK, BasicInv, loopVars, counters, statusVars
  <2>5. InvocationsAreFresh'
    <3>1. \A a, b \in attempts : Losing(a, w).rt.inv = Losing(b, w).rt.inv => a = b
      BY <2>3 DEF InvocationsAreFresh, BasicInv
    <3>2. \A a \in attempts : Losing(a, w).rt.inv <= started
      BY <2>3 DEF InvocationsAreFresh, BasicInv
    <3>3. started' = started /\ tried' = tried
      BY <2>2 DEF counters
    <3>4. \A t \in Tasks : tried[t] <= started
      BY DEF InvocationsAreFresh, BasicInv
    <3>. QED
      BY <2>1, <3>1, <3>2, <3>3, <3>4 DEF InvocationsAreFresh
  <2>6. RunningRowsAreTracked' /\ StatusesAreCoherent' /\ LoopIsCurrent'
    BY <2>2 DEF RunningRowsAreTracked, StatusesAreCoherent, LoopIsCurrent, BasicInv, statusVars,
           loopVars, StatusOf
  <2>. QED
    BY <2>4, <2>5, <2>6 DEF BasicInv
(* The clock keeps BasicInv. *)
<1>TickBasic.
  ASSUME Tick
  PROVE  BasicInv'
  <2>. USE <1>TickBasic
  <2>1. UNCHANGED <<statusVars, loopVars, store, recording, attempts, abort, counters, tried>>
    BY DEF Tick
  <2>2. now' \in 0 .. MaxTime
    <3>1. now \in 0 .. MaxTime
      BY DEF BasicInv, TypeOK
    <3>. QED
      BY <3>1, NaturalBounds DEF Tick
  <2>3. TypeOK'
    BY <2>1, <2>2 DEF TypeOK, BasicInv, loopVars, counters, statusVars
  <2>4. RunningRowsAreTracked' /\ StatusesAreCoherent' /\ LoopIsCurrent' /\ InvocationsAreFresh'
    BY <2>1 DEF RunningRowsAreTracked, StatusesAreCoherent, LoopIsCurrent, BasicInv, statusVars,
           loopVars, StatusOf, InvocationsAreFresh, counters
  <2>. QED
    BY <2>3, <2>4 DEF BasicInv
(* A restart keeps BasicInv. *)
<1>RestartBasic.
  ASSUME Restart
  PROVE  BasicInv'
  <2>. USE <1>RestartBasic
  <2>1. /\ rows' = [j \in Jobs |-> EmptyRow] /\ numRows' = 0
        /\ runningTasks' = [t \in Tasks |-> NoTask]
        /\ loop' = "scheduling" /\ eligible' = <<>>
        /\ recording' = [th \in Threads |-> NoRecord]
        /\ attempts' = {Unreported(a) : a \in {b \in attempts : b.phase # "gone"}}
        /\ abort' = "none"
        /\ UNCHANGED <<now, config, store, started, changes, forgives, removed, tried>>
    BY DEF Restart, Unreported
  <2>2. restarts' \in 0 .. MaxRestarts
    <3>1. restarts \in 0 .. MaxRestarts
      BY DEF BasicInv, TypeOK
    <3>2. restarts < MaxRestarts /\ restarts' = restarts + 1
      BY DEF Restart
    <3>. QED
      BY <3>1, <3>2, NaturalBounds
  <2>3. \A a \in attempts : Unreported(a) \in Attempts /\ Unreported(a).rt = a.rt
    BY DEF BasicInv, TypeOK, Attempts, Unreported
  <2>4. rows' \in RowsType
    <3>1. EmptyRow \in [loaded : BOOLEAN, statuses : [Nodes -> Statuses]]
      BY FixedStatuses DEF EmptyRow
    <3>. QED
      BY <2>1, <3>1 DEF RowsType
  <2>5. \A t \in Tasks : StatusOf(t)' = Empty
    BY <2>1, TaskParts DEF StatusOf, EmptyRow
  <2>6. TypeOK'
    <3>1. attempts' \subseteq Attempts
      BY <2>1, <2>3
    <3>2. DOMAIN eligible' = {}
      BY <2>1
    <3>3. numRows' \in 0 .. NumJobs
      BY <2>1, NaturalBounds
    <3>4. /\ runningTasks' \in [Tasks -> RunningTaskRecords \cup {NoTask}]
          /\ recording' \in [Threads -> StoredResults \cup {NoRecord}]
      BY <2>1
    <3>. QED
      BY <2>1, <2>2, <2>4, <3>1, <3>2, <3>3, <3>4 DEF TypeOK, BasicInv, RowsType
  <2>7. InvocationsAreFresh'
    BY <2>1, <2>3 DEF InvocationsAreFresh, BasicInv
  <2>8. RunningRowsAreTracked' /\ StatusesAreCoherent'
    BY <2>5, FixedStatuses DEF RunningRowsAreTracked, StatusesAreCoherent
  <2>9. LoopIsCurrent'
    BY <2>1 DEF LoopIsCurrent
  <2>. QED
    BY <2>6, <2>7, <2>8, <2>9 DEF BasicInv
<1>1. CASE UNCHANGED vars
  BY <1>1 DEF vars, statusVars, loopVars, counters, BasicInv, TypeOK, RunningRowsAreTracked,
              InvocationsAreFresh, StatusesAreCoherent, LoopIsCurrent, StatusOf
<1>2. CASE Restart
  BY <1>2, <1>RestartBasic
<1>3. CASE abort = "none" /\ Next /\ ~Restart
  BY <1>3, <1>RecordStatusBasic, <1>ForgiveJobBasic, <1>UpdateForConfigBasic, <1>CopySnapshotBasic,
     <1>RunTaskBasic, <1>DeliverStatusBasic, <1>FailToStartBasic, <1>ReportNotRunningBasic, <1>ReportLostBasic,
     <1>ReportRunningBasic, <1>DieBasic, <1>LoseWorkerBasic, <1>TickBasic DEF Next
<1>. QED
  BY <1>1, <1>2, <1>3 DEF Next

(* Whatever happens, TaskStatuses and the workers' attempts satisfy         *)
(* BasicInv.                                                                *)
THEOREM BasicInvHolds == Spec => []BasicInv
  BY BasicInit, BasicStep, PTL DEF Spec

(* TaskStatuses, the loop and the attempts keep their types. *)
THEOREM TypeCorrect == Spec => []TypeOK
  BY BasicInvHolds, PTL DEF BasicInv

(* updateStatus, updateForConfig and forgiveJob leave no row that says      *)
(* "running" for a task that runningTasks_ does not have, for any number of *)
(* jobs, nodes, workers and restarts.                                       *)
THEOREM RunningRowsAreTrackedHolds == Spec => []RunningRowsAreTracked
  BY BasicInvHolds, PTL DEF BasicInv

-----------------------------------------------------------------------------
(* The invariant of a task. *)

(* The attempts at a task. *)
Of(t) == {a \in attempts : a.task = t}

(* The scheduler remembers the task, and goes on. *)
Known(t) == Remembers(t) /\ abort = "none"

(* What the standing of an attempt says about its process, and until when a *)
(* lost one lives.                                                          *)
StandingOK(a) ==
    /\ a.standing \in {"tracked", "losing", "lost", "recorded"}
    /\ a.standing = "tracked" => a.phase = "running"
    /\ a.standing = "recorded" => a.phase = "exited"
    /\ a.standing \in {"losing", "lost"} =>
          /\ a.deadline \in Nat /\ a.deadline <= now + SafeBackoff
          /\ a.phase # "gone" => now < a.deadline

(* Earlier attempts do not run any more, and when a later one is lost they  *)
(* do not report any more either.                                           *)
AttemptsOrdered(t) ==
    \A a, b \in Of(t) :
        a.rt.inv < b.rt.inv =>
            /\ a.phase # "running"
            /\ b.standing \in {"losing", "lost"} => a.phase # "exited"

(* RetriesAreNotBurnt, for one task. *)
RetriesOK(t) ==
    StatusOf(t).usesBackoff =>
        /\ Position(ConfiguredBackoff(StatusOf(t))) <= tried[t]
        /\ StatusOf(t).kind = "failed" => tried[t] > Len(Backoffs)

(* Rows and runningTasks_ agree, and a row that is not loaded is empty. *)
RowAgrees(t) ==
    /\ StatusOf(t).kind = "running" <=> runningTasks[t] # NoTask
    /\ rows[JobOf(t)].loaded \/ StatusOf(t) = Empty

(* runningTasks_ has the newest attempt, which has not reported yet. *)
NewestIsRunning(t) ==
    \A a \in Of(t) :
        runningTasks[t] # NoTask =>
            \/ a.rt.inv < runningTasks[t].inv
            \/ a.rt = runningTasks[t] /\ a.phase # "exited"

(* The status keeps the task from being started until the deadline, and no  *)
(* pardon changes that.                                                     *)
BackedOffUntil(s, deadline) ==
    s.usesBackoff /\ HasSavedBackoff(s) /\ s.timestamp + s.backoff >= deadline

(* A task that may be running is either in runningTasks_ or backed off for  *)
(* as long as it may be running.                                            *)
Guarded(a) ==
    /\ a.standing = "tracked" \/ (a.standing = "losing" /\ a.phase = "running") =>
          runningTasks[a.task] = a.rt
    /\ a.standing = "lost" /\ a.phase = "running" =>
          runningTasks[a.task] = NoTask /\ BackedOffUntil(StatusOf(a.task), a.deadline)

(* All attempts at the task are guarded. *)
AttemptsGuarded(t) == \A a \in Of(t) : Guarded(a)

(* No old status is under way that could replace an overwriteable one. *)
OverwriteableAwaitsNone(t) ==
    StatusOf(t).overwriteable => \A a \in Of(t) : a.phase # "exited"

(* What schedule() found out about the task still holds when it is run. *)
EligibleOK(t) ==
    t \in DOMAIN eligible =>
        /\ runningTasks[t] = NoTask /\ StatusOf(t).kind # "done" /\ rows[JobOf(t)].loaded
        /\ \A a \in Of(t) : a.phase # "running"
        /\ Position(eligible[t]) <= tried[t]

(* The tries pay for the next backoff. *)
Affordable(t, next) ==
    /\ Position(next.seconds) <= tried[t]
    /\ next.noMore => tried[t] > Len(Backoffs)

(* The same for the backoffs that the attempts at the task would take. *)
BackoffsAffordable(t) ==
    /\ runningTasks[t] # NoTask => Affordable(t, runningTasks[t].next)
    /\ \A a \in Of(t) : a.phase = "running" => Affordable(t, a.rt.next)

(* The invariant of a task that a scheduler that goes on remembers. *)
KnownInv(t) ==
    /\ RowAgrees(t) /\ NewestIsRunning(t) /\ AttemptsGuarded(t)
    /\ OverwriteableAwaitsNone(t) /\ EligibleOK(t) /\ BackoffsAffordable(t)

(* The invariant of a task. *)
TaskInv(t) ==
    /\ restarts = 0 => \A a \in Of(t) : StandingOK(a)
    /\ Remembers(t) => AttemptsOrdered(t) /\ RetriesOK(t)
    /\ Known(t) => KnownInv(t)

(* The invariant behind what the scheduler promises while it remembers a    *)
(* task.                                                                    *)
MemoryInv == \A t \in Tasks : TaskInv(t)

-----------------------------------------------------------------------------
(* What a step for one attempt keeps. *)

(* What a step that has to do with other tasks leaves alone. *)
TaskUntouched(t) ==
    /\ StatusOf(t)' = StatusOf(t) /\ runningTasks'[t] = runningTasks[t]
    /\ rows'[JobOf(t)].loaded = rows[JobOf(t)].loaded
    /\ Of(t)' = Of(t)
    /\ t \in DOMAIN eligible' => t \in DOMAIN eligible /\ eligible'[t] = eligible[t]
    /\ tried'[t] = tried[t] /\ now' = now /\ restarts' = restarts /\ removed' = removed

(* A step that has to do with other tasks keeps the invariant of this one. *)
LEMMA UntouchedTask ==
    ASSUME abort = "none", NEW t \in Tasks, TaskInv(t), TaskUntouched(t)
    PROVE  TaskInv(t)'
<1>1. (\A a \in Of(t) : StandingOK(a)) => (\A a \in Of(t) : StandingOK(a))'
  BY DEF TaskUntouched, StandingOK
<1>2. Remembers(t)' => Remembers(t)
  BY DEF TaskUntouched, Remembers
<1>3. AttemptsOrdered(t) => AttemptsOrdered(t)'
  BY DEF TaskUntouched, AttemptsOrdered
<1>4. RetriesOK(t) => RetriesOK(t)'
  BY DEF TaskUntouched, RetriesOK
<1>5. RowAgrees(t) => RowAgrees(t)'
  BY DEF TaskUntouched, RowAgrees
<1>6. NewestIsRunning(t) => NewestIsRunning(t)'
  BY DEF TaskUntouched, NewestIsRunning
<1>7. AttemptsGuarded(t) => AttemptsGuarded(t)'
  <2>1. \A a \in Of(t) : a.task = t
    BY DEF Of
  <2>. QED
    BY <2>1 DEF TaskUntouched, AttemptsGuarded, Guarded
<1>8. OverwriteableAwaitsNone(t) => OverwriteableAwaitsNone(t)'
  BY DEF TaskUntouched, OverwriteableAwaitsNone
<1>9. EligibleOK(t) => EligibleOK(t)'
  BY DEF TaskUntouched, EligibleOK
<1>10. BackoffsAffordable(t) => BackoffsAffordable(t)'
  BY DEF TaskUntouched, BackoffsAffordable, Affordable
<1>11. restarts' = restarts
  BY DEF TaskUntouched
<1>. QED
  BY <1>1, <1>2, <1>3, <1>4, <1>5, <1>6, <1>7, <1>8, <1>9, <1>10, <1>11
     DEF TaskInv, KnownInv, Known

(* An update for one attempt has to do with its task only. *)
LEMMA OtherTasksUntouched ==
    ASSUME NEW a, NEW b, Replaced(a, b), OthersUntouched(a.task),
           UNCHANGED <<now, loopVars, counters, tried>>, NEW t \in Tasks, t # a.task
    PROVE  TaskUntouched(t)
<1>1. Of(t)' = Of(t)
  <2>1. \A c \in attempts' : c.task = t => c \in attempts
    BY DEF Replaced
  <2>2. \A c \in attempts : c.task = t => c \in attempts'
    BY DEF Replaced
  <2>. QED
    BY <2>1, <2>2 DEF Of
<1>. QED
  BY <1>1, TaskParts DEF TaskUntouched, OthersUntouched, loopVars, counters

(* The attempts of a task are told apart by their invocations. *)
LEMMA OwnAttempts ==
    ASSUME BasicInv, NEW t \in Tasks
    PROVE  \A x \in Of(t) :
               /\ x \in Attempts /\ x.task = t /\ x.rt.inv \in Nat
               /\ x.rt \in RunningTaskRecords /\ x.rt # NoTask
               /\ \A y \in Of(t) : x # y => x.rt.inv < y.rt.inv \/ y.rt.inv < x.rt.inv
<1>1. \A x \in Of(t) : /\ x \in Attempts /\ x.task = t /\ x.rt.inv \in Nat
                       /\ x.rt \in RunningTaskRecords /\ x.rt # NoTask
  BY AttemptType, AbsentAssumption DEF BasicInv, Of
<1>2. \A x, y \in Of(t) : x # y => x.rt.inv # y.rt.inv
  BY DEF BasicInv, InvocationsAreFresh, Of
<1>. QED
  BY <1>1, <1>2

(* The attempts at a task after one of them changed. *)
LEMMA OwnAttemptReplaced ==
    ASSUME NEW a, NEW b, Replaced(a, b)
    PROVE  /\ \A x \in Of(a.task)' : (x \in Of(a.task) /\ x # a) \/ (x = b /\ b \in attempts')
           /\ a \in Of(a.task)
  BY DEF Replaced, Of

(* An attempt that changes from a to b and does nothing that an earlier    *)
(* attempt must not do.                                                     *)
Quietly(a, b) ==
    /\ b.phase = "running" => a.phase = "running"
    /\ b.phase = "exited" => a.phase # "gone"
    /\ b.standing \in {"losing", "lost"} => a.standing \in {"losing", "lost"}

(* Attempts stay ordered when one of them ends. *)
LEMMA OrderKept ==
    ASSUME BasicInv, NEW a, NEW b, Replaced(a, b), b \in attempts' => Quietly(a, b),
           a.task \in Tasks, a.phase \in {"running", "exited", "gone"}, AttemptsOrdered(a.task)
    PROVE  AttemptsOrdered(a.task)'
<1>. DEFINE t == a.task
<1>1. \A x \in Of(t)' : (x \in Of(t) /\ x # a) \/ (x = b /\ b \in attempts')
  BY OwnAttemptReplaced
<1>2. a \in Of(t) /\ b.rt = a.rt
  BY OwnAttemptReplaced DEF Replaced
<1>3. a.rt.inv \in Nat
  BY <1>2, OwnAttempts
<1>4. ASSUME NEW x \in Of(t)', NEW y \in Of(t)', x.rt.inv < y.rt.inv
      PROVE  /\ x.phase # "running"
             /\ y.standing \in {"losing", "lost"} => x.phase # "exited"
  <2>1. CASE x \in Of(t) /\ y \in Of(t)
    BY <1>4, <2>1 DEF AttemptsOrdered
  <2>2. CASE x = b /\ b \in attempts' /\ y \in Of(t)
    <3>1. /\ a.phase # "running" 
          /\ y.standing \in {"losing", "lost"} => a.phase # "exited"
      BY <1>2, <1>4, <2>2 DEF AttemptsOrdered
    <3>. QED
      BY <2>2, <3>1 DEF Quietly
  <2>3. CASE x \in Of(t) /\ y = b /\ b \in attempts'
    <3>1. /\ x.phase # "running" 
          /\ a.standing \in {"losing", "lost"} => x.phase # "exited"
      BY <1>2, <1>4, <2>3 DEF AttemptsOrdered
    <3>. QED
      BY <2>3, <3>1 DEF Quietly
  <2>4. CASE x = b /\ y = b
    BY <1>2, <1>3, <1>4, <2>4
  <2>. QED
    BY <1>1, <2>1, <2>2, <2>3, <2>4
<1>. QED
  BY <1>4 DEF AttemptsOrdered

(* The standings stay right when one of them changes. *)
LEMMA StandingsKept ==
    ASSUME NEW a, NEW b, Replaced(a, b), b \in attempts' /\ StandingOK(a) => StandingOK(b),
           UNCHANGED now, \A x \in Of(a.task) : StandingOK(x)
    PROVE  (\A x \in Of(a.task) : StandingOK(x))'
<1>1. \A x \in Of(a.task)' : StandingOK(x)
  BY OwnAttemptReplaced
<1>2. \A x : StandingOK(x) => StandingOK(x)'
  BY DEF StandingOK
<1>. QED
  BY <1>1, <1>2

(* A step of one attempt that leaves the statuses alone. *)
LEMMA AttemptStepTask ==
    ASSUME BasicInv, abort = "none", NEW a, NEW b, Replaced(a, b), a.task \in Tasks,
           restarts = 0 /\ b \in attempts' /\ StandingOK(a) => StandingOK(b),
           Remembers(a.task) /\ b \in attempts' =>
               /\ b.standing = a.standing /\ b.deadline = a.deadline
               /\ b.phase \in {a.phase, "gone"},
           UNCHANGED <<now, statusVars, loopVars, abort, counters, tried>>,
           TaskInv(a.task)
    PROVE  TaskInv(a.task)'
<1>. DEFINE t == a.task
<1>0. /\ UNCHANGED <<now, rows, runningTasks, eligible, abort, restarts, removed, tried>>
      /\ StatusOf(t)' = StatusOf(t) /\ Remembers(t)' = Remembers(t)
  BY DEF statusVars, loopVars, counters, StatusOf, Remembers
<1>1. (restarts = 0 => \A x \in Of(t) : StandingOK(x))'
  BY <1>0, StandingsKept DEF TaskInv
<1>2. ASSUME Remembers(t)  PROVE KnownInv(t) /\ AttemptsOrdered(t) /\ RetriesOK(t)
  BY <1>2 DEF TaskInv, Known
<1>3. ASSUME Remembers(t)  PROVE AttemptsOrdered(t)' /\ RetriesOK(t)'
  <2>1. RetriesOK(t)'
    BY <1>0, <1>2, <1>3 DEF RetriesOK
  <2>2. a.phase \in {"running", "exited", "gone"}
    BY DEF BasicInv, TypeOK, Attempts, Replaced
  <2>3. b \in attempts' => Quietly(a, b)
    BY <1>3, <2>2 DEF Quietly
  <2>. QED
    BY <1>2, <1>3, <2>1, <2>2, <2>3, OrderKept
<1>4. ASSUME Remembers(t)  PROVE KnownInv(t)'
  <2>1. \A x \in Of(t)' : x \in Of(t) \/ (x = b /\ b \in attempts')
    BY OwnAttemptReplaced
  <2>2. a \in Of(t) /\ b.rt = a.rt /\ b.task = t
    BY OwnAttemptReplaced DEF Replaced
  <2>3. b \in attempts' => /\ b.standing = a.standing /\ b.deadline = a.deadline
                           /\ b.phase \in {a.phase, "gone"}
    BY <1>4
  <2>4. RowAgrees(t)'
    BY <1>0, <1>2, <1>4 DEF KnownInv, RowAgrees
  <2>5. NewestIsRunning(t)'
    BY <1>0, <1>2, <1>4, <2>1, <2>2, <2>3 DEF KnownInv, NewestIsRunning
  <2>6. AttemptsGuarded(t)'
    <3>1. \A x \in Of(t) : x.task = t
      BY DEF Of
    <3>2. Guarded(a) /\ b \in attempts' => Guarded(b)'
      BY <1>0, <2>2, <2>3, <3>1 DEF Guarded
    <3>3. \A x \in Of(t) : Guarded(x) => Guarded(x)'
      BY <1>0, <3>1 DEF Guarded
    <3>. QED
      BY <1>2, <1>4, <2>1, <2>2, <3>2, <3>3 DEF KnownInv, AttemptsGuarded
  <2>7. OverwriteableAwaitsNone(t)'
    BY <1>0, <1>2, <1>4, <2>1, <2>2, <2>3 DEF KnownInv, OverwriteableAwaitsNone
  <2>8. EligibleOK(t)'
    BY <1>0, <1>2, <1>4, <2>1, <2>2, <2>3 DEF KnownInv, EligibleOK
  <2>9. BackoffsAffordable(t)'
    BY <1>0, <1>2, <1>4, <2>1, <2>2, <2>3 DEF KnownInv, BackoffsAffordable, Affordable
  <2>. QED
    BY <2>4, <2>5, <2>6, <2>7, <2>8, <2>9 DEF KnownInv
<1>. QED
  BY <1>0, <1>1, <1>3, <1>4 DEF TaskInv, Known

(* What an update from a worker may make of the attempt a that it is about. *)
BecomesOK(a, b, new) ==
    /\ b.deadline = a.deadline
    /\ b.phase = "running" => a.phase = "running"
    /\ b.phase = "exited" => a.phase # "gone" /\ (new.overwriteable => a.phase = "exited")
    /\ \/ b.standing = a.standing /\ (b.standing = "tracked" => b.phase = "running")
       \/ a.standing = "tracked" /\ b.standing = "recorded" /\ b.phase = "exited"
       \/ a.standing = "losing" /\ b.standing = "lost"

(* An update from a worker keeps the invariant of the task, if the attempt  *)
(* and the status that replaces the old one are all right.                  *)
LEMMA WorkerUpdateTask ==
    ASSUME BasicInv, abort = "none", NEW a, NEW b, Replaced(a, b),
           NEW rt \in RunningTaskRecords, rt.inv = a.rt.inv,
           NEW new \in Statuses, Coherent(new), new.kind # "running",
           NEW th \in Threads, UpdateStatus(a.task, rt, new, th),
           UNCHANGED <<now, loopVars, counters, tried>>,
           restarts = 0 /\ b \in attempts' /\ StandingOK(a) => StandingOK(b),
           Remembers(a.task) /\ b \in attempts' => BecomesOK(a, b, new),
           a.phase # "gone" \/ new.overwriteable,
           TaskInv(a.task),
           Known(a.task) /\ UpdateReplaces(a.task, rt, new) =>
               /\ b \in attempts' => Guarded(b)'
               /\ OverwriteableAwaitsNone(a.task)' /\ RetriesOK(a.task)'
    PROVE  TaskInv(a.task)'
<1>. DEFINE t == a.task
<1>0. /\ UNCHANGED <<now, eligible, restarts, removed, tried>>
      /\ Remembers(t)' = Remembers(t)
  BY DEF loopVars, counters, Remembers
<1>1. t \in Tasks /\ a.phase \in {"running", "exited", "gone"}
  BY DEF BasicInv, TypeOK, Attempts, Replaced
<1>2. /\ OthersUntouched(t)
      /\ \/ UpdateAborts(t, rt)
         \/ UpdateKeeps(t, new)
         \/ UpdateReplaces(t, rt, new)
  BY <1>1, UpdateStatusEffect DEF BasicInv
<1>3. (restarts = 0 => \A x \in Of(t) : StandingOK(x))'
  BY <1>0, StandingsKept DEF TaskInv
<1>4. ASSUME Remembers(t)
      PROVE  /\ KnownInv(t) /\ AttemptsOrdered(t) /\ RetriesOK(t) /\ Known(t)
             /\ \A x \in Of(t) : StandingOK(x)
  BY <1>4 DEF TaskInv, Known, Remembers
<1>5. ASSUME Remembers(t)  PROVE AttemptsOrdered(t)'
  <2>1. b \in attempts' => Quietly(a, b)
    BY <1>5 DEF Quietly, BecomesOK
  <2>. QED
    BY <1>1, <1>4, <1>5, <2>1, OrderKept
<1>6. CASE UpdateAborts(t, rt)
  <2>1. StatusOf(t)' = StatusOf(t) /\ abort' # "none"
    BY <1>6 DEF UpdateAborts
  <2>2. ASSUME Remembers(t)  PROVE RetriesOK(t)'
    BY <1>0, <1>4, <2>1, <2>2 DEF RetriesOK
  <2>. QED
    BY <1>0, <1>3, <1>5, <2>1, <2>2 DEF TaskInv, Known
<1>7. SUFFICES ASSUME Remembers(t), UpdateKeeps(t, new) \/ UpdateReplaces(t, rt, new)
               PROVE  KnownInv(t)' /\ RetriesOK(t)'
  BY <1>0, <1>2, <1>3, <1>5, <1>6 DEF TaskInv, Known
<1>. DEFINE Own == {x \in Of(t) : x # a}
<1>8. \A x \in Of(t)' : (x \in Of(t) /\ x # a) \/ (x = b /\ b \in attempts')
  BY OwnAttemptReplaced
<1>9. a \in Of(t) /\ b.rt = a.rt /\ b.task = t
  BY OwnAttemptReplaced DEF Replaced
<1>10. b \in attempts' => BecomesOK(a, b, new)
  BY <1>7
<1>11. \A x \in Of(t) : x.task = t /\ x.rt # NoTask /\ x.rt.inv \in Nat
  BY <1>1, OwnAttempts
<1>12. rows'[JobOf(t)].loaded = rows[JobOf(t)].loaded
  BY <1>1, <1>2, TaskParts DEF OthersUntouched
<1>13. CASE UpdateKeeps(t, new)
  <2>1. /\ StatusOf(t)' = StatusOf(t) /\ runningTasks'[t] = NoTask /\ runningTasks[t] = NoTask
        /\ new.overwriteable \/ ~StatusOf(t).overwriteable
    BY <1>13 DEF UpdateKeeps
  <2>2. RetriesOK(t)'
    BY <1>0, <1>4, <1>7, <2>1 DEF RetriesOK
  <2>3. RowAgrees(t)'
    BY <1>4, <1>7, <1>12, <2>1 DEF KnownInv, RowAgrees
  <2>4. NewestIsRunning(t)'
    BY <2>1 DEF NewestIsRunning
  <2>5. AttemptsGuarded(t)'
    <3>1. \A x \in Of(t) : Guarded(x) => Guarded(x)'
      BY <1>11, <2>1 DEF Guarded
    <3>2. Guarded(a) /\ StandingOK(a)
      BY <1>4, <1>7, <1>9 DEF KnownInv, AttemptsGuarded
    <3>3. a.standing # "tracked" /\ (a.phase = "running" => a.standing = "lost")
      BY <1>9, <1>11, <2>1, <3>2 DEF Guarded, StandingOK
    <3>4. b \in attempts' => Guarded(b)'
      BY <1>9, <1>10, <2>1, <3>2, <3>3 DEF Guarded, BecomesOK
    <3>. QED
      BY <1>4, <1>7, <1>8, <3>1, <3>4 DEF KnownInv, AttemptsGuarded
  <2>6. OverwriteableAwaitsNone(t)'
    BY <1>4, <1>7, <1>8, <1>9, <1>10, <2>1 DEF KnownInv, OverwriteableAwaitsNone, BecomesOK
  <2>7. EligibleOK(t)'
    BY <1>0, <1>4, <1>7, <1>8, <1>9, <1>10, <1>12, <2>1 DEF KnownInv, EligibleOK, BecomesOK
  <2>8. BackoffsAffordable(t)'
    BY <1>0, <1>4, <1>7, <1>8, <1>9, <1>10, <2>1
       DEF KnownInv, BackoffsAffordable, Affordable, BecomesOK
  <2>. QED
    BY <2>2, <2>3, <2>4, <2>5, <2>6, <2>7, <2>8 DEF KnownInv
<1>14. CASE UpdateReplaces(t, rt, new)
  <2>1. /\ StatusOf(t)' = Update(StatusOf(t), rt.next, new) /\ runningTasks'[t] = NoTask
        /\ \/ runningTasks[t] # NoTask /\ runningTasks[t].inv = rt.inv
           \/ /\ runningTasks[t] = NoTask /\ ~new.overwriteable /\ StatusOf(t).overwriteable
    BY <1>14 DEF UpdateReplaces
  <2>2. /\ b \in attempts' => Guarded(b)'
        /\ OverwriteableAwaitsNone(t)' /\ RetriesOK(t)'
    BY <1>4, <1>7, <1>14
  <2>3. StatusOf(t)'.kind # "running"
    <3>1. StatusOf(t) \in Statuses /\ rt.next \in BackoffDurations
      BY <1>1, StatusType DEF BasicInv, TypeOK, RowsType, RunningTaskRecords
    <3>2. Update(StatusOf(t), rt.next, new).kind \in {new.kind, "failed"}
      BY <3>1, UpdatedStatus
    <3>. QED
      BY <2>1, <3>2
  <2>4. rows[JobOf(t)].loaded
    <3>1. StatusOf(t).kind = "running" \/ StatusOf(t).overwriteable
      BY <1>4, <1>7, <2>1 DEF KnownInv, RowAgrees
    <3>. QED
      BY <1>4, <1>7, <3>1, FixedStatuses DEF KnownInv, RowAgrees
  <2>5. RowAgrees(t)'
    BY <1>12, <2>1, <2>3, <2>4 DEF RowAgrees
  <2>6. NewestIsRunning(t)'
    BY <2>1 DEF NewestIsRunning
  <2>7. runningTasks[t] = NoTask => a.phase = "running" /\ a.standing = "lost"
    <3>1. StandingOK(a) /\ Guarded(a)
      BY <1>4, <1>7, <1>9 DEF KnownInv, AttemptsGuarded
    <3>2. runningTasks[t] = NoTask => a.phase = "running"
      BY <1>1, <1>4, <1>7, <1>9, <2>1 DEF KnownInv, OverwriteableAwaitsNone
    <3>. QED
      BY <1>9, <1>11, <3>1, <3>2 DEF StandingOK, Guarded
  <2>8. ASSUME NEW x \in Of(t), x # a
        PROVE  /\ x.standing # "tracked"
               /\ x.standing \in {"losing", "lost"} => x.phase # "running"
    <3>1. Guarded(x) /\ x.rt.inv # a.rt.inv
      <4>1. x \in attempts /\ a \in attempts
        BY <1>9 DEF Of
      <4>2. x.rt.inv # a.rt.inv
        BY <2>8, <4>1 DEF BasicInv, InvocationsAreFresh
      <4>. QED
        BY <1>4, <1>7, <4>2 DEF KnownInv, AttemptsGuarded
    <3>2. CASE runningTasks[t] # NoTask
      BY <1>11, <2>1, <3>1, <3>2 DEF Guarded
    <3>3. CASE runningTasks[t] = NoTask
      <4>1. a.phase = "running" /\ StandingOK(x)
        BY <1>4, <1>7, <2>7, <3>3
      <4>2. x.phase # "running"
        BY <1>1, <1>4, <1>7, <1>9, <2>8, <4>1, OwnAttempts DEF AttemptsOrdered
      <4>. QED
        BY <4>1, <4>2 DEF StandingOK
    <3>. QED
      BY <3>2, <3>3
  <2>9. AttemptsGuarded(t)'
    BY <1>8, <2>2, <2>8 DEF AttemptsGuarded, Guarded
  <2>10. EligibleOK(t)'
    BY <1>0, <1>4, <1>7, <1>9, <2>7 DEF KnownInv, EligibleOK
  <2>11. BackoffsAffordable(t)'
    BY <1>0, <1>4, <1>7, <1>8, <1>9, <1>10, <2>1
       DEF KnownInv, BackoffsAffordable, Affordable, BecomesOK
  <2>. QED
    BY <2>2, <2>5, <2>6, <2>9, <2>10, <2>11 DEF KnownInv
<1>. QED
  BY <1>7, <1>13, <1>14

(* What Leave makes of an attempt. *)
LEMMA LeaveEffect ==
    ASSUME BasicInv, NEW a \in attempts, a.phase # "gone", Leave(a)
    PROVE  LET b == [a EXCEPT !.phase = "gone"] IN
           /\ Replaced(a, b) /\ (b \in attempts' => a.standing = "losing")
           /\ b.phase = "gone" /\ b.standing = a.standing /\ b.deadline = a.deadline
<1>. DEFINE b == [a EXCEPT !.phase = "gone"]
<1>1. a \in Attempts /\ attempts \subseteq Attempts
  BY DEF BasicInv, TypeOK
<1>2. /\ b.phase = "gone" /\ b.standing = a.standing /\ b.deadline = a.deadline
      /\ b # a /\ b.rt = a.rt
  BY <1>1 DEF Attempts
<1>3. Replaced(a, b)
  BY <1>1, LeaveReplaces
<1>. HIDE DEF b
<1>4. b \notin attempts
  BY <1>2 DEF BasicInv, InvocationsAreFresh
<1>5. b \in attempts' => a.standing = "losing"
  BY <1>4 DEF Leave
<1>. QED
  BY <1>2, <1>3, <1>5 DEF b

(* A lost attempt may be gone before its loss is reported. *)
LEMMA GoneIsOK ==
    ASSUME NEW a, NEW b, b.phase = "gone", b.standing = a.standing, b.deadline = a.deadline,
           a.standing = "losing", NEW new
    PROVE  /\ StandingOK(a) => StandingOK(b)
           /\ BecomesOK(a, b, new) /\ Guarded(b)'
  BY DEF StandingOK, BecomesOK, Guarded

(* A running attempt may stay what it is. *)
LEMMA UnchangedIsOK ==
    ASSUME NEW a, NEW new, a.phase = "running"
    PROVE  BecomesOK(a, a, new)
  BY DEF BecomesOK

(* An attempt that never ran leaves, unless the scheduler aborts. *)
LEMMA LeaveOrStay ==
    ASSUME BasicInv, NEW a \in attempts, a.phase = "running", NEW new,
           IF abort' = "none" THEN Leave(a) ELSE UNCHANGED attempts
    PROVE  \E b : /\ Replaced(a, b)
                  /\ b \in attempts' => /\ StandingOK(a) => StandingOK(b)
                                        /\ BecomesOK(a, b, new)
                                        /\ abort' = "none" => Guarded(b)'
<1>1. CASE abort' = "none"
  <2>. DEFINE b == [a EXCEPT !.phase = "gone"]
  <2>1. /\ Replaced(a, b) /\ (b \in attempts' => a.standing = "losing")
        /\ b.phase = "gone" /\ b.standing = a.standing /\ b.deadline = a.deadline
    BY <1>1, LeaveEffect
  <2>. HIDE DEF b
  <2>2. b \in attempts' => /\ StandingOK(a) => StandingOK(b)
                           /\ BecomesOK(a, b, new) /\ Guarded(b)'
    BY <2>1, GoneIsOK
  <2>. QED
    BY <2>1, <2>2
<1>2. CASE abort' # "none"
  <2>1. attempts \subseteq Attempts
    BY DEF BasicInv, TypeOK
  <2>. QED
    BY <1>2, <2>1, UnchangedReplaces, UnchangedIsOK
<1>. QED
  BY <1>1, <1>2

(* The next backoff of the attempt whose status gets recorded is paid for. *)
LEMMA ReplacedIsAffordable ==
    ASSUME BasicInv, MemoryInv, NEW a \in attempts, Known(a.task),
           NEW rt, rt.inv = a.rt.inv, NEW new, new.kind # "running",
           a.phase # "gone" \/ new.overwriteable, UpdateReplaces(a.task, rt, new)
    PROVE  /\ Affordable(a.task, a.rt.next)
           /\ runningTasks[a.task] # NoTask =>
                 a.rt = runningTasks[a.task] /\ a.phase # "exited"
<1>. DEFINE t == a.task
<1>1. t \in Tasks /\ a \in Of(t) /\ a.rt.inv \in Nat /\ a.phase \in {"running", "exited", "gone"}
  BY AttemptType DEF BasicInv, Of, Attempts
<1>2. KnownInv(t)
  BY <1>1 DEF MemoryInv, TaskInv
<1>3. \/ runningTasks[t] # NoTask /\ runningTasks[t].inv = rt.inv
      \/ runningTasks[t] = NoTask /\ ~new.overwriteable /\ StatusOf(t).overwriteable
  BY DEF UpdateReplaces
<1>4. CASE runningTasks[t] # NoTask
  <2>1. a.rt = runningTasks[t] /\ a.phase # "exited"
    BY <1>1, <1>2, <1>3, <1>4 DEF KnownInv, NewestIsRunning
  <2>. QED
    BY <1>2, <1>4, <2>1 DEF KnownInv, BackoffsAffordable
<1>5. CASE runningTasks[t] = NoTask
  <2>1. a.phase = "running"
    BY <1>1, <1>2, <1>3, <1>5 DEF KnownInv, OverwriteableAwaitsNone
  <2>. QED
    BY <1>1, <1>2, <1>5, <2>1 DEF KnownInv, BackoffsAffordable
<1>. QED
  BY <1>4, <1>5

(* The invariant of all tasks, from that of the one that the update is for. *)
LEMMA AllTasksOK ==
    ASSUME BasicInv, MemoryInv, abort = "none", NEW a, NEW b, Replaced(a, b),
           OthersUntouched(a.task), UNCHANGED <<now, loopVars, counters, tried>>,
           TaskInv(a.task)'
    PROVE  MemoryInv'
<1>1. ASSUME NEW t \in Tasks, t # a.task  PROVE TaskInv(t)'
  BY <1>1, OtherTasksUntouched, UntouchedTask DEF MemoryInv
<1>2. ASSUME NEW t \in Tasks  PROVE TaskInv(t)'
  BY <1>1
<1>. QED
  BY <1>2 DEF MemoryInv

(* updateStatus touches no task other than that of the attempt. *)
LEMMA OthersUntouchedByUpdate ==
    ASSUME BasicInv, abort = "none", NEW a \in attempts,
           NEW rt \in RunningTaskRecords, NEW new \in Statuses, Coherent(new),
           NEW th \in Threads, UpdateStatus(a.task, rt, new, th)
    PROVE  OthersUntouched(a.task)
  BY AttemptType, UpdateStatusEffect DEF BasicInv

-----------------------------------------------------------------------------
(* The steps. *)

(* The end of a lost task keeps MemoryInv. *)
LEMMA DieMemory ==
    ASSUME BasicInv, MemoryInv, abort = "none", NEW a \in attempts, Die(a)
    PROVE  MemoryInv'
<1>. DEFINE b == [a EXCEPT !.phase = "gone"]
<1>1. /\ Leave(a) /\ a.phase # "gone"
      /\ UNCHANGED <<now, statusVars, loopVars, abort, counters, tried>>
  BY DEF Die
<1>2. /\ Replaced(a, b) /\ (b \in attempts' => a.standing = "losing")
      /\ b.phase = "gone" /\ b.standing = a.standing /\ b.deadline = a.deadline
  BY <1>1, LeaveEffect
<1>. HIDE DEF b
<1>3. a.task \in Tasks /\ TaskInv(a.task)
  BY AttemptType DEF BasicInv, MemoryInv
<1>4. b \in attempts' /\ StandingOK(a) => StandingOK(b)
  BY <1>2, GoneIsOK
<1>5. TaskInv(a.task)'
  BY <1>1, <1>2, <1>3, <1>4, AttemptStepTask
<1>6. OthersUntouched(a.task)
  BY <1>1 DEF OthersUntouched, statusVars, StatusOf
<1>. QED
  BY <1>1, <1>2, <1>5, <1>6, AllTasksOK

(* A task that could not be started keeps MemoryInv. *)
LEMMA FailToStartMemory ==
    ASSUME BasicInv, MemoryInv, abort = "none", NEW a \in attempts, FailToStart(a)
    PROVE  MemoryInv'
<1>. DEFINE t == a.task  new == NeverStarted
<1>1. /\ a.phase = "running" /\ UpdateStatus(t, a.rt, new, "locked")
      /\ UNCHANGED <<now, loopVars, counters, tried>>
      /\ IF abort' = "none" THEN Leave(a) ELSE UNCHANGED attempts
  BY DEF FailToStart
<1>2. /\ t \in Tasks /\ TaskInv(t) /\ a.rt \in RunningTaskRecords /\ "locked" \in Threads
  BY AttemptType DEF BasicInv, MemoryInv, Threads
<1>3. /\ new \in Statuses /\ Coherent(new) /\ new.kind # "running"
      /\ ~new.usesBackoff /\ ~new.overwriteable
  BY FixedStatuses
<1>4. PICK b : /\ Replaced(a, b)
               /\ b \in attempts' => /\ StandingOK(a) => StandingOK(b)
                                     /\ BecomesOK(a, b, new)
                                     /\ abort' = "none" => Guarded(b)'
  BY <1>1, LeaveOrStay
<1>5. ASSUME UpdateReplaces(t, a.rt, new)
      PROVE  abort' = "none" /\ OverwriteableAwaitsNone(t)' /\ RetriesOK(t)'
  <2>1. StatusOf(t)' = new
    BY <1>3, <1>5 DEF UpdateReplaces, Update
  <2>. QED
    BY <1>3, <1>5, <2>1 DEF UpdateReplaces, OverwriteableAwaitsNone, RetriesOK
<1>. HIDE DEF new
<1>6. TaskInv(t)'
  BY <1>1, <1>2, <1>3, <1>4, <1>5, WorkerUpdateTask
<1>7. OthersUntouched(t)
  BY <1>1, <1>2, <1>3, OthersUntouchedByUpdate
<1>. QED
  BY <1>1, <1>4, <1>6, <1>7, AllTasksOK

(* The overwriteable status of a task that the worker does not know keeps   *)
(* MemoryInv: no old status is left that could replace it.                  *)
LEMMA ReportNotRunningMemory ==
    ASSUME BasicInv, MemoryInv, abort = "none", ~LateRetries, NEW a \in attempts,
           ReportNotRunning(a)
    PROVE  MemoryInv'
<1>. DEFINE t == a.task  new == WasNotRunning
<1>1. /\ a.phase = "running" /\ a.standing = "tracked" /\ NoRetryPending(a)
      /\ UpdateStatus(t, a.rt, new, "locked")
      /\ UNCHANGED <<now, loopVars, counters, tried>>
      /\ IF abort' = "none" THEN Leave(a) ELSE UNCHANGED attempts
  BY DEF ReportNotRunning
<1>2. t \in Tasks /\ TaskInv(t) /\ a.rt \in RunningTaskRecords /\ "locked" \in Threads
  BY AttemptType DEF BasicInv, MemoryInv, Threads
<1>3. /\ new \in Statuses /\ Coherent(new) /\ new.kind # "running" /\ ~new.usesBackoff
  BY FixedStatuses
<1>4. PICK b : /\ Replaced(a, b)
               /\ b \in attempts' => /\ StandingOK(a) => StandingOK(b)
                                     /\ BecomesOK(a, b, new)
                                     /\ abort' = "none" => Guarded(b)'
  BY <1>1, LeaveOrStay
<1>5. ASSUME Known(t), UpdateReplaces(t, a.rt, new)
      PROVE  abort' = "none" /\ OverwriteableAwaitsNone(t)' /\ RetriesOK(t)'
  <2>1. StatusOf(t)' = new /\ abort' = "none"
    BY <1>3, <1>5 DEF UpdateReplaces, Update
  <2>2. a \in Of(t) /\ KnownInv(t)
    BY <1>2, <1>5 DEF Of, TaskInv
  <2>3. runningTasks[t] = a.rt /\ a.rt # NoTask
    BY <1>1, <1>2, <2>2, AbsentAssumption DEF KnownInv, AttemptsGuarded, Guarded
  <2>4. ASSUME NEW x \in Of(t), x # a  PROVE x.phase # "exited"
    <3>1. x.rt.inv < a.rt.inv
      <4>1. x.rt.inv # a.rt.inv
        BY <2>4 DEF BasicInv, InvocationsAreFresh, Of
      <4>. QED
        BY <2>2, <2>3, <4>1 DEF KnownInv, NewestIsRunning
    <3>. QED
      BY <1>1, <3>1 DEF NoRetryPending, Of
  <2>5. \A x \in Of(t)' : x.phase # "exited"
    <3>1. b \in attempts' => b.phase # "exited"
      BY <1>1, <1>4, <2>1, FixedStatuses DEF BecomesOK, WasNotRunning, Plain
    <3>. QED
      BY <1>4, <2>4, <3>1, OwnAttemptReplaced
  <2>. QED
    BY <1>3, <2>1, <2>5 DEF OverwriteableAwaitsNone, RetriesOK
<1>. HIDE DEF new
<1>6. TaskInv(t)'
  BY <1>1, <1>2, <1>3, <1>4, <1>5, WorkerUpdateTask
<1>7. OthersUntouched(t)
  BY <1>1, <1>2, <1>3, OthersUntouchedByUpdate
<1>. QED
  BY <1>1, <1>4, <1>6, <1>7, AllTasksOK

(* The status of a lost task backs it off until its deadline. *)
LEMMA ReportLostMemory ==
    ASSUME BasicInv, MemoryInv, abort = "none", NEW a \in attempts, ReportLost(a)
    PROVE  MemoryInv'
<1>. DEFINE t == a.task  new == WorkerLost(a.rt.next.seconds, now)  rt == Tweaked(a.rt)
            b == [a EXCEPT !.standing = "lost"]
<1>1. /\ a.standing = "losing"
      /\ UpdateStatus(t, rt, new, "losing")
      /\ UNCHANGED <<now, loopVars, counters, tried>>
  BY DEF ReportLost, Tweaked
<1>2. /\ t \in Tasks /\ TaskInv(t) /\ a.rt \in RunningTaskRecords /\ "losing" \in Threads
      /\ a.rt.next.seconds \in Nat /\ now \in Nat /\ a.rt.next \in BackoffDurations
  BY AttemptType DEF BasicInv, MemoryInv, Threads, BackoffDurations
<1>3. /\ rt \in RunningTaskRecords /\ rt.inv = a.rt.inv /\ rt.next.noMore = a.rt.next.noMore
      /\ rt.next.seconds >= SafeBackoff /\ rt.next \in BackoffDurations
      /\ rt.next.seconds \in Nat
  BY <1>2, TweakedType DEF RunningTaskRecords, BackoffDurations
<1>4. /\ new \in Statuses /\ Coherent(new) /\ new.kind = "error"
      /\ new.usesBackoff /\ ~new.doesNotAdvance /\ new.overwriteable
      /\ new.saved = a.rt.next.seconds /\ new.timestamp = now
  BY <1>2, LostStatus
<1>5. /\ Replaced(a, b) /\ b.standing = "lost" /\ b.phase = a.phase /\ b.deadline = a.deadline
  BY ReportLostReplaces DEF BasicInv, TypeOK, Attempts
<1>. HIDE DEF b, rt, new
<1>6. (StandingOK(a) => StandingOK(b)) /\ BecomesOK(a, b, new)
  <2>1. a.phase \in {"running", "exited", "gone"}
    BY DEF BasicInv, TypeOK, Attempts
  <2>. QED
    BY <1>1, <1>5, <2>1 DEF StandingOK, BecomesOK
<1>7. ASSUME Known(t), UpdateReplaces(t, rt, new)
      PROVE  Guarded(b)' /\ OverwriteableAwaitsNone(t)' /\ RetriesOK(t)'
  <2>. DEFINE s == Update(StatusOf(t), rt.next, new)
  <2>1. /\ s.usesBackoff /\ s.overwriteable /\ s.saved = a.rt.next.seconds /\ s.timestamp = now
        /\ s.backoff = rt.next.seconds /\ (s.kind = "failed" => a.rt.next.noMore)
    <3>1. StatusOf(t) \in Statuses
      BY <1>2, StatusType DEF BasicInv, TypeOK, RowsType
    <3>. QED
      BY <1>3, <1>4, <3>1, UpdatedStatus
  <2>2. StatusOf(t)' = s /\ runningTasks[t] # NoTask /\ runningTasks'[t] = NoTask
    BY <1>4, <1>7 DEF UpdateReplaces
  <2>. HIDE DEF s
  <2>3. Affordable(t, a.rt.next) /\ a.rt = runningTasks[t] /\ a.phase # "exited"
    BY <1>3, <1>4, <1>7, <2>2, ReplacedIsAffordable
  <2>4. a \in Of(t) /\ KnownInv(t) /\ AttemptsOrdered(t) /\ StandingOK(a)
    BY <1>2, <1>7 DEF Of, TaskInv, Known, Remembers
  <2>5. HasSavedBackoff(s) /\ ConfiguredBackoff(s) = a.rt.next.seconds
    BY <1>2, <2>1, NotSavedAssumption DEF HasSavedBackoff, ConfiguredBackoff
  <2>6. Guarded(b)'
    <3>1. a.deadline \in Nat /\ a.deadline <= now + SafeBackoff
      BY <1>1, <2>4 DEF StandingOK
    <3>2. s.timestamp + s.backoff >= a.deadline
      BY <1>2, <1>3, <2>1, <3>1, NaturalBounds
    <3>3. b.task = t
      BY <1>5 DEF Replaced
    <3>. QED
      BY <1>5, <2>1, <2>2, <2>5, <3>2, <3>3 DEF Guarded, BackedOffUntil
  <2>7. RetriesOK(t)'
    BY <1>1, <2>1, <2>2, <2>3, <2>5 DEF RetriesOK, Affordable
  <2>8. ASSUME NEW x \in Of(t), x # a  PROVE x.phase # "exited"
    <3>1. x.rt.inv < a.rt.inv
      <4>1. x.rt.inv # a.rt.inv
        BY <2>8 DEF BasicInv, InvocationsAreFresh, Of
      <4>. QED
        BY <2>2, <2>3, <2>4, <4>1 DEF KnownInv, NewestIsRunning
    <3>. QED
      BY <1>1, <2>4, <3>1 DEF AttemptsOrdered
  <2>9. OverwriteableAwaitsNone(t)'
    <3>1. \A x \in Of(t)' : x.phase # "exited"
      BY <1>5, <2>3, <2>8, OwnAttemptReplaced
    <3>. QED
      BY <3>1 DEF OverwriteableAwaitsNone
  <2>. QED
    BY <2>6, <2>7, <2>9
<1>8. TaskInv(t)'
  BY <1>1, <1>2, <1>3, <1>4, <1>5, <1>6, <1>7, WorkerUpdateTask
<1>9. OthersUntouched(t)
  BY <1>1, <1>2, <1>3, <1>4, OthersUntouchedByUpdate
<1>. QED
  BY <1>1, <1>5, <1>8, <1>9, AllTasksOK

(* What the delivery of a status makes of the attempt. *)
LEMMA DeliveredIsOK ==
    ASSUME BasicInv, NEW a \in attempts, NEW o \in Outcomes, NEW ack \in BOOLEAN,
           DeliverStatus(a, o, ack), NEW new, ~new.overwriteable
    PROVE  \E b : /\ Replaced(a, b)
                  /\ b \in attempts' => /\ StandingOK(a) => StandingOK(b)
                                        /\ BecomesOK(a, b, new) /\ b.phase # "running"
                                        /\ a.phase = "exited" /\ a.standing # "tracked" =>
                                              /\ b.standing = a.standing
                                              /\ b.phase \in {a.phase, "gone"}
                                        /\ Guarded(b)'
<1>0. a.phase # "gone" /\ a \in Attempts
  BY DEF DeliverStatus, BasicInv, TypeOK
<1>1. CASE ack /\ abort' = "none"
  <2>. DEFINE b == [a EXCEPT !.phase = "gone"]
  <2>1. /\ Replaced(a, b) /\ (b \in attempts' => a.standing = "losing")
        /\ b.phase = "gone" /\ b.standing = a.standing /\ b.deadline = a.deadline
    BY <1>0, <1>1, LeaveEffect DEF DeliverStatus
  <2>. HIDE DEF b
  <2>2. b \in attempts' => /\ StandingOK(a) => StandingOK(b)
                           /\ BecomesOK(a, b, new) /\ Guarded(b)'
    BY <2>1, GoneIsOK
  <2>. QED
    BY <2>1, <2>2
<1>2. CASE ~(ack /\ abort' = "none")
  <2>. DEFINE b == [a EXCEPT !.phase = "exited", !.outcome = o, !.replied = TRUE,
                             !.standing = IF @ = "tracked" THEN "recorded" ELSE @]
  <2>1. attempts' = (attempts \ {a}) \cup {b}
    BY <1>2 DEF DeliverStatus, Become
  <2>2. /\ b \in Attempts /\ b.task = a.task /\ b.rt = a.rt /\ b.deadline = a.deadline
        /\ b.phase = "exited"
        /\ b.standing = IF a.standing = "tracked" THEN "recorded" ELSE a.standing
    BY <1>0 DEF Attempts
  <2>. HIDE DEF b
  <2>3. Replaced(a, b)
    BY <2>1, <2>2 DEF Replaced
  <2>4. BecomesOK(a, b, new) /\ Guarded(b)'
    BY <1>0, <2>2 DEF BecomesOK, Guarded
  <2>5. StandingOK(a) => StandingOK(b)
    BY <1>0, <2>2 DEF StandingOK
  <2>. QED
    BY <2>2, <2>3, <2>4, <2>5
<1>. QED
  BY <1>1, <1>2

(* A reported status takes the next backoff, or keeps the one of the old    *)
(* status.                                                                  *)
LEMMA OutcomeUpdate ==
    ASSUME NEW old \in Statuses, NEW next \in BackoffDurations, NEW new \in Statuses,
           Coherent(new), ~new.overwriteable, ~HasSavedBackoff(new),
           new.usesBackoff => new.kind # "failed"
    PROVE  LET s == Update(old, next, new) IN
           /\ s \in Statuses /\ ~s.overwriteable /\ ~HasSavedBackoff(s)
           /\ s.usesBackoff /\ s.kind = "failed" => next.noMore
           /\ s.usesBackoff =>
                 \/ HasSavedBackoff(old) /\ s.backoff = old.saved
                 \/ ~HasSavedBackoff(old) /\ old.backoff # 0 /\ s.backoff = old.backoff
                 \/ s.backoff = next.seconds
<1>. DEFINE s == Update(old, next, new)
<1>1. s \in Statuses /\ s.saved = new.saved
  BY UpdatedStatus
<1>2. s.usesBackoff <=> new.usesBackoff
  BY UpdatedStatus
<1>3. s.overwriteable <=> new.overwriteable
  BY UpdatedStatus
<1>4. s.kind = "failed" => new.kind = "failed" \/ next.noMore
  BY UpdatedStatus
<1>5. s.usesBackoff =>
                 \/ HasSavedBackoff(old) /\ s.backoff = old.saved
                 \/ ~HasSavedBackoff(old) /\ old.backoff # 0 /\ s.backoff = old.backoff
                 \/ s.backoff = next.seconds
  <2>1. CASE new.usesBackoff /\ new.doesNotAdvance
    <3>1. s.backoff = IF HasSavedBackoff(old) THEN old.saved
                      ELSE IF old.backoff # 0 THEN old.backoff ELSE next.seconds
      BY <2>1 DEF Update, Statuses
    <3>. QED
      BY <3>1
  <2>2. CASE new.usesBackoff /\ ~new.doesNotAdvance
    <3>1. s.backoff = next.seconds
      BY <2>2 DEF Update, Statuses
    <3>. QED
      BY <3>1
  <2>. HIDE DEF s
  <2>. QED
    BY <1>2, <2>1, <2>2
<1>. HIDE DEF s
<1>6. ~HasSavedBackoff(s)
  BY <1>1 DEF HasSavedBackoff
<1>. QED
  BY <1>1, <1>2, <1>3, <1>4, <1>5, <1>6 DEF s

(* A delivered status, in time, late or repeated, keeps MemoryInv. *)
LEMMA DeliverStatusMemory ==
    ASSUME BasicInv, MemoryInv, abort = "none", NEW a \in attempts, NEW o \in Outcomes,
           NEW ack \in BOOLEAN, DeliverStatus(a, o, ack)
    PROVE  MemoryInv'
<1>. DEFINE t == a.task  new == StatusFrom(o)
<1>1. /\ a.phase # "gone" /\ UNCHANGED <<now, loopVars, counters, tried>>
  BY DEF DeliverStatus
<1>2. /\ t \in Tasks /\ TaskInv(t) /\ a.rt \in RunningTaskRecords /\ "locked" \in Threads
      /\ now \in Nat /\ a.rt.next \in BackoffDurations
  BY AttemptType DEF BasicInv, MemoryInv, Threads
<1>3. /\ new \in Statuses /\ Coherent(new)
      /\ new.kind \in {"done", "failed", "incomplete", "error"}
      /\ ~new.overwriteable /\ ~HasSavedBackoff(new)
      /\ new.usesBackoff => new.kind # "failed"
  BY <1>2, OutcomeStatus
<1>4. PICK b : /\ Replaced(a, b)
               /\ b \in attempts' => /\ StandingOK(a) => StandingOK(b)
                                     /\ BecomesOK(a, b, new) /\ b.phase # "running"
                                     /\ a.phase = "exited" /\ a.standing # "tracked" =>
                                           /\ b.standing = a.standing
                                           /\ b.phase \in {a.phase, "gone"}
                                     /\ Guarded(b)'
  BY <1>3, DeliveredIsOK
<1>5. CASE \E c \in TrackedOn(t, a.worker) : c # a
  <2>1. UNCHANGED <<now, statusVars, loopVars, abort, counters, tried>>
    BY <1>5 DEF DeliverStatus
  <2>2. ASSUME Remembers(t)  PROVE a.phase = "exited" /\ a.standing # "tracked"
    <3>1. PICK c \in Of(t) : c # a /\ c.standing = "tracked"
      BY <1>5 DEF TrackedOn, Of
    <3>2. /\ a \in Of(t) /\ AttemptsOrdered(t) /\ StandingOK(a) /\ StandingOK(c)
      BY <1>2, <2>2 DEF TaskInv, Remembers, Of
    <3>3. a.rt.inv < c.rt.inv \/ c.rt.inv < a.rt.inv
      BY <1>2, <3>1, <3>2, OwnAttempts
    <3>4. a.phase # "running"
      BY <3>1, <3>2, <3>3 DEF AttemptsOrdered, StandingOK
    <3>5. a.phase \in {"running", "exited", "gone"}
      BY DEF BasicInv, TypeOK, Attempts
    <3>. QED
      BY <1>1, <3>2, <3>4, <3>5 DEF StandingOK
  <2>3. Remembers(t) /\ b \in attempts' =>
            /\ b.standing = a.standing /\ b.deadline = a.deadline
            /\ b.phase \in {a.phase, "gone"}
    BY <1>4, <2>2 DEF BecomesOK
  <2>. HIDE DEF new
  <2>4. TaskInv(t)'
    BY <1>2, <1>4, <2>1, <2>3, AttemptStepTask
  <2>5. OthersUntouched(t)
    BY <2>1 DEF OthersUntouched, statusVars, StatusOf
  <2>. QED
    BY <1>1, <1>4, <2>4, <2>5, AllTasksOK
<1>6. CASE ~\E c \in TrackedOn(t, a.worker) : c # a
  <2>1. UpdateStatus(t, a.rt, new, "locked")
    BY <1>6 DEF DeliverStatus
  <2>. HIDE DEF new
  <2>2. ASSUME Known(t), UpdateReplaces(t, a.rt, new)
        PROVE  OverwriteableAwaitsNone(t)' /\ RetriesOK(t)'
    <3>. DEFINE old == StatusOf(t)  s == Update(StatusOf(t), a.rt.next, new)
    <3>1. old \in Statuses /\ Coherent(old)
      BY <1>2, StatusType DEF BasicInv, TypeOK, RowsType, StatusesAreCoherent
    <3>2. /\ s \in Statuses /\ ~s.overwriteable /\ ~HasSavedBackoff(s)
          /\ s.usesBackoff /\ s.kind = "failed" => a.rt.next.noMore
          /\ s.usesBackoff =>
                \/ HasSavedBackoff(old) /\ s.backoff = old.saved
                \/ ~HasSavedBackoff(old) /\ old.backoff # 0 /\ s.backoff = old.backoff
                \/ s.backoff = a.rt.next.seconds
      BY <1>2, <1>3, <3>1, OutcomeUpdate
    <3>3. StatusOf(t)' = s
      BY <2>2 DEF UpdateReplaces
    <3>. HIDE DEF s
    <3>4. Affordable(t, a.rt.next)
      BY <1>1, <1>3, <2>2, ReplacedIsAffordable
    <3>5. RetriesOK(t)
      BY <1>2, <2>2 DEF TaskInv, Known
    <3>6. s.usesBackoff => Position(s.backoff) <= tried[t]
      BY <3>1, <3>2, <3>4, <3>5 DEF RetriesOK, Affordable, ConfiguredBackoff, HasSavedBackoff,
                                    Coherent
    <3>7. tried'[t] = tried[t]
      BY <1>1
    <3>. QED
      BY <3>2, <3>3, <3>4, <3>6, <3>7
         DEF OverwriteableAwaitsNone, RetriesOK, Affordable, ConfiguredBackoff
  <2>3. TaskInv(t)'
    BY <1>1, <1>2, <1>3, <1>4, <2>1, <2>2, WorkerUpdateTask
  <2>4. OthersUntouched(t)
    BY <1>2, <1>3, <2>1, OthersUntouchedByUpdate
  <2>. QED
    BY <1>1, <1>4, <2>3, <2>4, AllTasksOK
<1>. QED
  BY <1>5, <1>6

(* After a restart nothing is claimed. *)
LEMMA RestartedMemory ==
    ASSUME restarts' # 0
    PROVE  MemoryInv'
  BY DEF MemoryInv, TaskInv, Remembers, Known

(* Workers report running tasks after a restart only. *)
LEMMA ReportRunningMemory ==
    ASSUME BasicInv, MemoryInv, abort = "none", NEW a \in attempts, ReportRunning(a)
    PROVE  MemoryInv'
<1>1. restarts # 0
  <2>1. a.task \in Tasks /\ a \in Of(a.task)
    BY AttemptType DEF BasicInv, Of
  <2>. QED
    BY <2>1 DEF MemoryInv, TaskInv, StandingOK, ReportRunning
<1>2. restarts' = restarts
  BY DEF ReportRunning, counters
<1>. QED
  BY <1>1, <1>2, RestartedMemory

(* A restart forgets every task. *)
LEMMA RestartMemory ==
    ASSUME BasicInv, Restart
    PROVE  MemoryInv'
<1>1. restarts \in Nat /\ restarts' = restarts + 1
  <2>1. restarts \in 0 .. MaxRestarts
    BY DEF BasicInv, TypeOK
  <2>2. restarts' = restarts + 1
    BY DEF Restart
  <2>. QED
    BY <2>1, <2>2, NaturalBounds
<1>. QED
  BY <1>1, RestartedMemory

(* The loss of a worker keeps MemoryInv: earlier attempts do not report any *)
(* more.                                                                    *)
LEMMA LoseWorkerMemory ==
    ASSUME BasicInv, MemoryInv, abort = "none", ~LateRetries, NEW w \in Workers, LoseWorker(w)
    PROVE  MemoryInv'
<1>1. /\ attempts' = {Losing(a, w) : a \in attempts}
      /\ \A a \in attempts : a.worker = w /\ a.standing = "tracked" => NoRetryPending(a)
      /\ UNCHANGED <<now, statusVars, loopVars, abort, counters, tried>>
  <2>1. attempts' = {Losing(a, w) : a \in attempts}
    BY DEF LoseWorker, Losing
  <2>2. \A a \in attempts : a.worker = w /\ a.standing = "tracked" => NoRetryPending(a)
    BY DEF LoseWorker
  <2>3. UNCHANGED <<now, statusVars, loopVars, abort, counters, tried>>
    BY DEF LoseWorker
  <2>. QED
    BY <2>1, <2>2, <2>3
<1>2. UNCHANGED <<now, rows, runningTasks, eligible, abort, restarts, removed, tried>>
  BY <1>1 DEF statusVars, loopVars, counters
<1>3. SUFFICES ASSUME NEW t \in Tasks  PROVE TaskInv(t)'
  BY DEF MemoryInv
<1>4. StatusOf(t)' = StatusOf(t) /\ Remembers(t)' = Remembers(t)
  BY <1>2 DEF StatusOf, Remembers
<1>5. \A a \in attempts :
          /\ Losing(a, w).task = a.task /\ Losing(a, w).rt = a.rt
          /\ Losing(a, w).phase = a.phase
          /\ IF a.worker = w /\ a.standing = "tracked"
             THEN /\ Losing(a, w).standing = "losing"
                  /\ Losing(a, w).deadline = now + SafeBackoff
             ELSE Losing(a, w) = a
  BY LosingEffect DEF BasicInv
<1>6. ASSUME NEW x \in Of(t)'
      PROVE  \E a \in Of(t) :
                /\ x.task = t /\ a.task = t /\ x.rt = a.rt /\ x.phase = a.phase
                /\ \/ x = a
                   \/ /\ a.standing = "tracked" /\ NoRetryPending(a)
                      /\ x.standing = "losing" /\ x.deadline = now + SafeBackoff
  BY <1>1, <1>5 DEF Of
<1>7. TaskInv(t)
  BY DEF MemoryInv
<1>8. ASSUME restarts = 0  PROVE (\A x \in Of(t) : StandingOK(x))'
  <2>1. SUFFICES ASSUME NEW x \in Of(t)'  PROVE StandingOK(x)'
    OBVIOUS
  <2>2. PICK a \in Of(t) : /\ x.phase = a.phase
                           /\ \/ x = a
                              \/ /\ a.standing = "tracked"
                                 /\ x.standing = "losing" /\ x.deadline = now + SafeBackoff
    BY <1>6
  <2>3. StandingOK(a)
    BY <1>7, <1>8 DEF TaskInv
  <2>4. now \in Nat /\ now + SafeBackoff \in Nat /\ now < now + SafeBackoff
    <3>1. now \in 0 .. MaxTime
      BY DEF BasicInv, TypeOK
    <3>. QED
      BY <3>1, NaturalBounds
  <2>. QED
    BY <1>2, <2>2, <2>3, <2>4 DEF StandingOK
<1>9. ASSUME Remembers(t)
      PROVE  /\ KnownInv(t) /\ AttemptsOrdered(t) /\ RetriesOK(t)
             /\ \A x \in Of(t) : StandingOK(x)
  BY <1>7, <1>9 DEF TaskInv, Known, Remembers
<1>10. ASSUME Remembers(t)  PROVE AttemptsOrdered(t)' /\ RetriesOK(t)'
  <2>1. RetriesOK(t)'
    BY <1>2, <1>4, <1>9, <1>10 DEF RetriesOK
  <2>2. ASSUME NEW x \in Of(t)', NEW y \in Of(t)', x.rt.inv < y.rt.inv
        PROVE  /\ x.phase # "running"
               /\ y.standing \in {"losing", "lost"} => x.phase # "exited"
    <3>1. PICK a \in Of(t) : x.rt = a.rt /\ x.phase = a.phase
      BY <1>6
    <3>2. PICK b \in Of(t) : /\ y.rt = b.rt /\ b.task = t
                             /\ y = b \/ NoRetryPending(b)
      BY <1>6
    <3>3. /\ a.phase # "running"
          /\ b.standing \in {"losing", "lost"} => a.phase # "exited"
      BY <1>9, <1>10, <2>2, <3>1, <3>2 DEF AttemptsOrdered
    <3>4. NoRetryPending(b) => a.phase # "exited"
      BY <2>2, <3>1, <3>2 DEF NoRetryPending, Of
    <3>. QED
      BY <3>1, <3>2, <3>3, <3>4
  <2>. QED
    BY <2>1, <2>2 DEF AttemptsOrdered
<1>11. ASSUME Remembers(t)  PROVE KnownInv(t)'
  <2>1. RowAgrees(t)'
    BY <1>2, <1>4, <1>9, <1>11 DEF KnownInv, RowAgrees
  <2>2. NewestIsRunning(t)'
    <3>1. SUFFICES ASSUME NEW x \in Of(t)', runningTasks[t] # NoTask
                   PROVE  \/ x.rt.inv < runningTasks[t].inv
                          \/ x.rt = runningTasks[t] /\ x.phase # "exited"
      BY <1>2 DEF NewestIsRunning
    <3>2. PICK a \in Of(t) : x.rt = a.rt /\ x.phase = a.phase
      BY <1>6
    <3>3. NewestIsRunning(t)
      BY <1>9, <1>11 DEF KnownInv
    <3>. QED
      BY <3>1, <3>2, <3>3 DEF NewestIsRunning
  <2>3. AttemptsGuarded(t)'
    <3>1. SUFFICES ASSUME NEW x \in Of(t)'  PROVE Guarded(x)'
      BY DEF AttemptsGuarded
    <3>2. PICK a \in Of(t) : /\ x.task = t /\ a.task = t /\ x.rt = a.rt /\ x.phase = a.phase
                             /\ \/ x = a
                                \/ a.standing = "tracked" /\ x.standing = "losing"
      BY <1>6
    <3>3. Guarded(a)
      BY <1>9, <1>11 DEF KnownInv, AttemptsGuarded
    <3>. QED
      BY <1>2, <1>4, <3>2, <3>3 DEF Guarded
  <2>4. OverwriteableAwaitsNone(t)'
    BY <1>2, <1>4, <1>6, <1>9, <1>11 DEF KnownInv, OverwriteableAwaitsNone
  <2>5. EligibleOK(t)'
    <3>1. EligibleOK(t)
      BY <1>9, <1>11 DEF KnownInv
    <3>2. ASSUME \A a \in Of(t) : a.phase # "running", NEW x \in Of(t)'
          PROVE  x.phase # "running"
      BY <1>6, <3>2
    <3>. QED
      BY <1>2, <1>4, <3>1, <3>2 DEF EligibleOK
  <2>6. BackoffsAffordable(t)'
    BY <1>2, <1>4, <1>6, <1>9, <1>11 DEF KnownInv, BackoffsAffordable, Affordable
  <2>. QED
    BY <2>1, <2>2, <2>3, <2>4, <2>5, <2>6 DEF KnownInv
<1>. QED
  BY <1>2, <1>4, <1>8, <1>10, <1>11 DEF TaskInv, Known

(* A write to the store keeps MemoryInv. *)
LEMMA RecordStatusMemory ==
    ASSUME MemoryInv, abort = "none", NEW th \in Threads, RecordStatus(th)
    PROVE  MemoryInv'
<1>1. \A t \in Tasks : TaskUntouched(t)
  BY DEF RecordStatus, statusVars, loopVars, counters, TaskUntouched, StatusOf, Of
<1>. QED
  BY <1>1, UntouchedTask DEF MemoryInv

(* The clock keeps MemoryInv: no lost task outlives its deadline. *)
LEMMA TickMemory ==
    ASSUME BasicInv, MemoryInv, abort = "none", Tick
    PROVE  MemoryInv'
<1>1. /\ UNCHANGED <<statusVars, loopVars, attempts, abort, counters, tried>>
      /\ \A a \in attempts : a.phase # "gone" /\ a.deadline # Forever => now + 1 < a.deadline
      /\ now' = now + 1
  BY DEF Tick
<1>2. SUFFICES ASSUME NEW t \in Tasks  PROVE TaskInv(t)'
  BY DEF MemoryInv
<1>3. /\ StatusOf(t)' = StatusOf(t) /\ Remembers(t)' = Remembers(t) /\ Of(t)' = Of(t)
      /\ UNCHANGED <<rows, runningTasks, eligible, tried, abort, restarts>>
  BY <1>1 DEF StatusOf, Remembers, Of, statusVars, loopVars, counters
<1>4. TaskInv(t)
  BY DEF MemoryInv
<1>5. ASSUME restarts = 0  PROVE (\A x \in Of(t) : StandingOK(x))'
  <2>1. SUFFICES ASSUME NEW x \in Of(t)  PROVE StandingOK(x)'
    BY <1>3
  <2>2. StandingOK(x) /\ (x.phase # "gone" /\ x.deadline # Forever => now + 1 < x.deadline)
    BY <1>1, <1>4, <1>5 DEF TaskInv, Of
  <2>3. now \in Nat /\ Forever \notin Nat
    <3>1. now \in 0 .. MaxTime
      BY DEF BasicInv, TypeOK
    <3>. QED
      BY <3>1, NaturalBounds, AbsentAssumption
  <2>. QED
    BY <1>1, <2>2, <2>3, NaturalBounds DEF StandingOK
<1>6. /\ AttemptsOrdered(t) => AttemptsOrdered(t)'
      /\ RetriesOK(t) => RetriesOK(t)'
      /\ RowAgrees(t) => RowAgrees(t)'
      /\ NewestIsRunning(t) => NewestIsRunning(t)'
      /\ OverwriteableAwaitsNone(t) => OverwriteableAwaitsNone(t)'
  BY <1>3 DEF AttemptsOrdered, RetriesOK, RowAgrees, NewestIsRunning, OverwriteableAwaitsNone
<1>7. AttemptsGuarded(t) => AttemptsGuarded(t)'
  <2>1. \A a \in Of(t) : a.task = t
    BY DEF Of
  <2>. QED
    BY <1>3, <2>1 DEF AttemptsGuarded, Guarded
<1>8. /\ EligibleOK(t) => EligibleOK(t)'
      /\ BackoffsAffordable(t) => BackoffsAffordable(t)'
  BY <1>3 DEF EligibleOK, BackoffsAffordable, Affordable
<1>. QED
  BY <1>3, <1>4, <1>5, <1>6, <1>7, <1>8 DEF TaskInv, Known, KnownInv

-----------------------------------------------------------------------------
(* The steps of the scheduler. *)

(* A pardon keeps MemoryInv: the safety backoffs stay. *)
LEMMA ForgiveJobMemory ==
    ASSUME BasicInv, MemoryInv, abort = "none", NEW j \in Jobs, ForgiveJob(j)
    PROVE  MemoryInv'
<1>1. /\ \A t \in Tasks : StatusOf(t)' = IF JobOf(t) = j THEN Forgive(StatusOf(t))
                                         ELSE StatusOf(t)
      /\ \A i \in Jobs : rows'[i].loaded = rows[i].loaded
  BY ForgiveJobEffect
<1>2. UNCHANGED <<now, runningTasks, eligible, attempts, abort, restarts, removed, tried>>
  BY DEF ForgiveJob, loopVars
<1>3. SUFFICES ASSUME NEW t \in Tasks  PROVE TaskInv(t)'
  BY DEF MemoryInv
<1>4. /\ Of(t)' = Of(t) /\ Remembers(t)' = Remembers(t) /\ TaskInv(t)
      /\ rows'[JobOf(t)].loaded = rows[JobOf(t)].loaded
  BY <1>1, <1>2, TaskParts DEF MemoryInv, Of, Remembers
<1>5. CASE JobOf(t) # j
  <2>1. TaskUntouched(t)
    BY <1>1, <1>2, <1>4, <1>5 DEF TaskUntouched
  <2>. QED
    BY <1>4, <2>1, UntouchedTask
<1>6. CASE JobOf(t) = j
  <2>. DEFINE s == StatusOf(t)  u == Forgive(StatusOf(t))
  <2>1. s \in Statuses /\ Coherent(s)
    BY StatusType DEF BasicInv, TypeOK, RowsType, StatusesAreCoherent
  <2>2. /\ u \in Statuses
        /\ (u.usesBackoff <=> s.usesBackoff) /\ (u.overwriteable <=> s.overwriteable)
        /\ u.timestamp = s.timestamp
        /\ HasSavedBackoff(u) <=> HasSavedBackoff(s)
        /\ HasSavedBackoff(s) => u.backoff = s.backoff
        /\ u.usesBackoff => ConfiguredBackoff(u) = 0
        /\ u.kind # "failed"
        /\ u.kind \in {s.kind, "error"} /\ (s.kind # "failed" => u.kind = s.kind)
        /\ s = Empty => u = Empty
    BY <2>1, ForgivenStatus
  <2>3. StatusOf(t)' = u
    BY <1>1, <1>6
  <2>. HIDE DEF u
  <2>4. restarts = 0 => (\A x \in Of(t) : StandingOK(x))'
    BY <1>2, <1>4 DEF TaskInv, StandingOK
  <2>5. ASSUME Remembers(t)  PROVE AttemptsOrdered(t)' /\ RetriesOK(t)'
    <3>1. AttemptsOrdered(t)'
      BY <1>4, <2>5 DEF TaskInv, AttemptsOrdered
    <3>2. tried[t] \in Nat
      <4>1. tried \in [Tasks -> 0 .. MaxInvocations]
        BY DEF BasicInv, TypeOK
      <4>. QED
        BY <4>1, NaturalBounds
    <3>3. RetriesOK(t)'
      BY <1>2, <2>2, <2>3, <3>2, PositionOfZero DEF RetriesOK
    <3>. QED
      BY <3>1, <3>3
  <2>6. ASSUME Remembers(t)  PROVE KnownInv(t)'
    <3>1. KnownInv(t)
      BY <1>4, <2>6 DEF TaskInv, Known
    <3>2. RowAgrees(t)'
      BY <1>2, <1>4, <2>2, <2>3, <3>1 DEF KnownInv, RowAgrees
    <3>3. NewestIsRunning(t)'
      BY <1>2, <1>4, <3>1 DEF KnownInv, NewestIsRunning
    <3>4. AttemptsGuarded(t)'
      <4>1. \A a \in Of(t) : a.task = t
        BY DEF Of
      <4>. QED
        BY <1>2, <1>4, <2>2, <2>3, <3>1, <4>1
           DEF KnownInv, AttemptsGuarded, Guarded, BackedOffUntil
    <3>5. OverwriteableAwaitsNone(t)'
      BY <1>4, <2>2, <2>3, <3>1 DEF KnownInv, OverwriteableAwaitsNone
    <3>6. EligibleOK(t)'
      BY <1>2, <1>4, <2>2, <2>3, <3>1 DEF KnownInv, EligibleOK
    <3>7. BackoffsAffordable(t)'
      BY <1>2, <1>4, <3>1 DEF KnownInv, BackoffsAffordable, Affordable
    <3>. QED
      BY <3>2, <3>3, <3>4, <3>5, <3>6, <3>7 DEF KnownInv
  <2>. QED
    BY <1>2, <1>4, <2>4, <2>5, <2>6 DEF TaskInv, Known
<1>. QED
  BY <1>5, <1>6

(* The row of a job that stays keeps its statuses, once it is loaded. *)
LEMMA RowSurvivesConfig ==
    ASSUME BasicInv, MemoryInv, abort = "none", NEW jobs \in SUBSET Jobs,
           UpdateForConfig(jobs), NEW t \in Tasks, Remembers(t)'
    PROVE  /\ Remembers(t) /\ rows'[JobOf(t)].loaded
           /\ \/ StatusOf(t)' = StatusOf(t)
              \/ /\ StatusOf(t) = Empty /\ StatusOf(t)' \in {Done, Failed}
                 /\ runningTasks[t] = NoTask
<1>1. JobOf(t) \in Jobs
  BY TaskParts
<1>2. restarts' = restarts /\ removed' = removed \cup (Jobs \ jobs)
  BY DEF UpdateForConfig
<1>3. Remembers(t) /\ JobOf(t) \in jobs
  BY <1>1, <1>2 DEF Remembers
<1>4. /\ StatusOf(t)' \in {Done, Failed, InMemory(t)}
      /\ rows[JobOf(t)].loaded => StatusOf(t)' = InMemory(t)
      /\ rows'[JobOf(t)].loaded
  BY <1>3, UpdateForConfigEffect DEF BasicInv
<1>5. RowAgrees(t)
  BY <1>3 DEF MemoryInv, TaskInv, Known, KnownInv
<1>6. InMemory(t) = StatusOf(t)
  BY <1>5 DEF InMemory, RowAgrees, BasicInv, StatusesAreCoherent, Coherent
<1>7. ~rows[JobOf(t)].loaded => StatusOf(t) = Empty /\ runningTasks[t] = NoTask
  BY <1>5, FixedStatuses DEF RowAgrees
<1>. QED
  BY <1>3, <1>4, <1>6, <1>7

(* A new configuration keeps MemoryInv. *)
LEMMA UpdateForConfigMemory ==
    ASSUME BasicInv, MemoryInv, abort = "none", NEW jobs \in SUBSET Jobs, UpdateForConfig(jobs)
    PROVE  MemoryInv'
<1>1. /\ UNCHANGED <<now, runningTasks, attempts, abort, restarts, tried>> /\ eligible' = <<>>
  BY DEF UpdateForConfig
<1>2. SUFFICES ASSUME NEW t \in Tasks  PROVE TaskInv(t)'
  BY DEF MemoryInv
<1>3. Of(t)' = Of(t) /\ TaskInv(t)
  BY <1>1 DEF MemoryInv, Of
<1>4. restarts = 0 => (\A x \in Of(t) : StandingOK(x))'
  BY <1>1, <1>3 DEF TaskInv, StandingOK
<1>5. ASSUME Remembers(t)'
      PROVE  AttemptsOrdered(t)' /\ RetriesOK(t)' /\ KnownInv(t)'
  <2>1. /\ Remembers(t) /\ rows'[JobOf(t)].loaded
        /\ \/ StatusOf(t)' = StatusOf(t)
           \/ /\ StatusOf(t) = Empty /\ StatusOf(t)' \in {Done, Failed}
              /\ runningTasks[t] = NoTask
    BY <1>5, RowSurvivesConfig
  <2>2. AttemptsOrdered(t) /\ RetriesOK(t) /\ KnownInv(t)
    BY <1>3, <2>1 DEF TaskInv, Known
  <2>3. AttemptsOrdered(t)'
    BY <1>3, <2>2 DEF AttemptsOrdered
  <2>4. RetriesOK(t)'
    BY <1>1, <2>1, <2>2, FixedStatuses DEF RetriesOK
  <2>5. RowAgrees(t)'
    BY <1>1, <2>1, <2>2, FixedStatuses DEF KnownInv, RowAgrees
  <2>6. NewestIsRunning(t)'
    BY <1>1, <1>3, <2>2 DEF KnownInv, NewestIsRunning
  <2>7. AttemptsGuarded(t)'
    <3>1. \A a \in Of(t) : a.task = t
      BY DEF Of
    <3>2. StatusOf(t)' = StatusOf(t) \/ ~StatusOf(t).usesBackoff
      BY <2>1, FixedStatuses
    <3>. QED
      BY <1>1, <1>3, <2>2, <3>1, <3>2 DEF KnownInv, AttemptsGuarded, Guarded, BackedOffUntil
  <2>8. OverwriteableAwaitsNone(t)'
    BY <1>3, <2>1, <2>2, FixedStatuses DEF KnownInv, OverwriteableAwaitsNone
  <2>9. EligibleOK(t)'
    BY <1>1 DEF EligibleOK
  <2>10. BackoffsAffordable(t)'
    BY <1>1, <1>3, <2>2 DEF KnownInv, BackoffsAffordable, Affordable
  <2>. QED
    BY <2>3, <2>4, <2>5, <2>6, <2>7, <2>8, <2>9, <2>10 DEF KnownInv
<1>. QED
  BY <1>1, <1>4, <1>5 DEF TaskInv, Known

(* A task that may still be running keeps its status from being scheduled. *)
LEMMA NothingRunsUnlessExcluded ==
    ASSUME BasicInv, MemoryInv, abort = "none", NEW t \in Tasks, Remembers(t),
           ~Excluded(StatusOf(t))
    PROVE  /\ runningTasks[t] = NoTask
           /\ \A a \in Of(t) : a.phase # "running"
<1>1. KnownInv(t) /\ \A a \in Of(t) : StandingOK(a)
  BY DEF MemoryInv, TaskInv, Known, Remembers
<1>2. runningTasks[t] = NoTask
  BY <1>1 DEF KnownInv, RowAgrees, Excluded
<1>3. ASSUME NEW a \in Of(t), a.phase = "running"  PROVE FALSE
  <2>1. a.task = t /\ a.rt # NoTask /\ StandingOK(a) /\ Guarded(a)
    BY <1>1, OwnAttempts DEF KnownInv, AttemptsGuarded
  <2>2. a.standing = "lost"
    BY <1>2, <1>3, <2>1 DEF StandingOK, Guarded
  <2>3. BackedOffUntil(StatusOf(t), a.deadline) /\ a.deadline \in Nat /\ now < a.deadline
    BY <1>3, <2>1, <2>2 DEF StandingOK, Guarded
  <2>4. StatusOf(t) \in Statuses /\ now \in Nat
    <3>1. now \in 0 .. MaxTime
      BY DEF BasicInv, TypeOK
    <3>. QED
      BY <3>1, StatusType, NaturalBounds DEF BasicInv, TypeOK, RowsType
  <2>5. StatusOf(t).timestamp \in Nat /\ StatusOf(t).backoff \in Nat
    BY <2>4 DEF Statuses
  <2>6. InBackoff(StatusOf(t), now)
    BY <2>3, <2>4, <2>5 DEF InBackoff, BackedOffUntil
  <2>. QED
    BY <2>6 DEF Excluded
<1>. QED
  BY <1>2, <1>3

(* What schedule() makes eligible nobody runs. *)
LEMMA CopySnapshotMemory ==
    ASSUME BasicInv, MemoryInv, abort = "none", CopySnapshot
    PROVE  MemoryInv'
<1>1. /\ loop = "updated"
      /\ UNCHANGED <<now, config, statusVars, attempts, counters, tried>>
  BY DEF CopySnapshot
<1>2. /\ UNCHANGED <<rows, runningTasks, restarts, removed>>
      /\ eligible = <<>> /\ \A j \in config : rows[j].loaded
  BY <1>1 DEF statusVars, counters, BasicInv, LoopIsCurrent
<1>3. SUFFICES ASSUME NEW t \in Tasks  PROVE TaskInv(t)'
  BY DEF MemoryInv
<1>4. /\ Of(t)' = Of(t) /\ (Remembers(t)' <=> Remembers(t)) /\ TaskInv(t)
      /\ StatusOf(t)' = StatusOf(t)
  BY <1>1, <1>2 DEF MemoryInv, Of, Remembers, StatusOf
<1>5. restarts = 0 => (\A x \in Of(t) : StandingOK(x))'
  BY <1>1, <1>4 DEF TaskInv, StandingOK
<1>6. ASSUME Remembers(t)  PROVE AttemptsOrdered(t)' /\ RetriesOK(t)'
  BY <1>1, <1>4, <1>6 DEF TaskInv, AttemptsOrdered, RetriesOK
<1>7. ASSUME Remembers(t), abort' = "none"  PROVE KnownInv(t)'
  <2>1. KnownInv(t) /\ RetriesOK(t)
    BY <1>4, <1>7 DEF TaskInv, Known
  <2>2. RowAgrees(t)' /\ NewestIsRunning(t)' /\ OverwriteableAwaitsNone(t)'
    BY <1>2, <1>4, <2>1 DEF KnownInv, RowAgrees, NewestIsRunning, OverwriteableAwaitsNone
  <2>3. AttemptsGuarded(t)'
    <3>1. \A a \in Of(t) : a.task = t
      BY DEF Of
    <3>. QED
      BY <1>2, <1>4, <2>1, <3>1 DEF KnownInv, AttemptsGuarded, Guarded
  <2>4. BackoffsAffordable(t)'
    BY <1>1, <1>2, <1>4, <2>1 DEF KnownInv, BackoffsAffordable, Affordable
  <2>5. EligibleOK(t)'
    <3>1. SUFFICES ASSUME t \in DOMAIN eligible'  PROVE EligibleOK(t)'
      BY DEF EligibleOK
    <3>2. /\ JobOf(t) \in config /\ ~Excluded(StatusOf(t))
          /\ eligible'[t] = ConfiguredBackoff(StatusOf(t))
      BY <1>7, <3>1, CopySnapshotEffect DEF BasicInv
    <3>3. runningTasks[t] = NoTask /\ \A a \in Of(t) : a.phase # "running"
      BY <1>7, <3>2, NothingRunsUnlessExcluded
    <3>4. StatusOf(t).kind # "done" /\ rows[JobOf(t)].loaded
      BY <1>2, <3>2 DEF Excluded
    <3>5. Position(ConfiguredBackoff(StatusOf(t))) <= tried[t]
      <4>1. StatusOf(t) \in Statuses /\ Coherent(StatusOf(t)) /\ tried[t] \in Nat
        <5>1. tried \in [Tasks -> 0 .. MaxInvocations]
          BY DEF BasicInv, TypeOK
        <5>2. StatusOf(t) \in Statuses
          BY StatusType DEF BasicInv, TypeOK, RowsType
        <5>. QED
          BY <5>1, <5>2, NaturalBounds DEF BasicInv, StatusesAreCoherent
      <4>2. CASE StatusOf(t).usesBackoff
        BY <2>1, <4>2 DEF RetriesOK
      <4>3. CASE ~StatusOf(t).usesBackoff
        <5>1. ConfiguredBackoff(StatusOf(t)) = 0
          BY <4>1, <4>3 DEF Coherent, ConfiguredBackoff, HasSavedBackoff
        <5>. QED
          BY <4>1, <5>1, PositionOfZero
      <4>. QED
        BY <4>2, <4>3
    <3>. QED
      BY <1>1, <1>2, <1>4, <3>2, <3>3, <3>4, <3>5 DEF EligibleOK
  <2>. QED
    BY <2>2, <2>3, <2>4, <2>5 DEF KnownInv
<1>. QED
  BY <1>2, <1>4, <1>5, <1>6, <1>7 DEF TaskInv, Known

(* RunTask of a task that the scheduler remembers: nothing of it runs, so    *)
(* that the update takes place.                                              *)
LEMMA RunTaskStarts ==
    ASSUME BasicInv, MemoryInv, abort = "none", NEW t \in Tasks, NEW w \in Workers,
           RunTask(t, w), Remembers(t)
    PROVE  /\ abort' = "none" /\ StatusOf(t)' = Running
           /\ runningTasks'[t] = NewAttempt(t, w).rt
           /\ attempts' = attempts \cup {NewAttempt(t, w)}
<1>1. t \in DOMAIN eligible /\ started < MaxInvocations
  BY DEF RunTask
<1>2. KnownInv(t) /\ \A a \in Of(t) : StandingOK(a)
  BY DEF MemoryInv, TaskInv, Known, Remembers
<1>3. /\ runningTasks[t] = NoTask /\ StatusOf(t).kind # "running"
      /\ \A a \in Of(t) : a.phase # "running"
  BY <1>1, <1>2 DEF KnownInv, EligibleOK, RowAgrees
<1>4. TrackedOn(t, w) = {}
  BY <1>2, <1>3 DEF TrackedOn, Of, StandingOK
<1>. DEFINE new == NewAttempt(t, w)
<1>5. /\ UpdateStatus(t, new.rt, Running, "locked")
      /\ attempts' = IF abort' # "none" THEN attempts ELSE attempts \cup {new}
  BY <1>4 DEF RunTask, NewAttempt
<1>6. new.rt \in RunningTaskRecords
  BY <1>1, NewAttemptType DEF BasicInv
<1>. HIDE DEF new
<1>7. UpdateAborts(t, new.rt) \/ UpdateKeeps(t, Running) \/ UpdateReplaces(t, new.rt, Running)
  <2>1. "locked" \in Threads
    BY DEF Threads
  <2>. QED
    BY <1>5, <1>6, <2>1, FixedStatuses, UpdateStatusEffect DEF BasicInv
<1>8. UpdateReplaces(t, new.rt, Running)
  BY <1>3, <1>7, FixedStatuses DEF UpdateAborts, UpdateKeeps
<1>9. Update(StatusOf(t), new.rt.next, Running) = Running
  BY FixedStatuses DEF Update
<1>. QED
  BY <1>3, <1>5, <1>8, <1>9, FixedStatuses DEF UpdateReplaces, new

(* The start of a task keeps MemoryInv, although the snapshot is old. *)
LEMMA RunTaskMemory ==
    ASSUME BasicInv, MemoryInv, abort = "none", NEW t \in Tasks, NEW w \in Workers, RunTask(t, w)
    PROVE  MemoryInv'
<1>. DEFINE new == NewAttempt(t, w)
<1>1. /\ t \in DOMAIN eligible /\ started < MaxInvocations
      /\ eligible' = [u \in DOMAIN eligible \ {t} |-> eligible[u]]
      /\ attempts' = IF abort' # "none" THEN attempts ELSE attempts \cup {new}
      /\ tried' = [tried EXCEPT ![t] = IF eligible[t] = 0 THEN 1 ELSE @ + 1]
      /\ UNCHANGED <<now, restarts, removed>>
      /\ \/ Fail("started twice on a worker")
         \/ UpdateStatus(t, new.rt, Running, "locked")
  BY DEF RunTask, NewAttempt
<1>2. /\ eligible[t] \in Nat /\ new \in Attempts /\ new.rt \in RunningTaskRecords
      /\ new.task = t /\ new.rt.inv = started + 1 /\ new.rt.next = GetNext(eligible[t])
      /\ new.phase = "running" /\ new.standing = "tracked"
  BY <1>1, NewAttemptType DEF BasicInv, NewAttempt
<1>3. /\ tried \in [Tasks -> Nat] /\ started \in Nat
      /\ \A a \in attempts : a.rt.inv <= started
  <2>1. started \in 0 .. MaxInvocations /\ tried \in [Tasks -> 0 .. MaxInvocations]
    BY DEF BasicInv, TypeOK
  <2>. QED
    BY <2>1, NaturalBounds DEF BasicInv, InvocationsAreFresh
<1>4. OthersUntouched(t)
  <2>1. CASE Fail("started twice on a worker")
    BY <2>1 DEF Fail, statusVars, OthersUntouched, StatusOf
  <2>2. CASE UpdateStatus(t, new.rt, Running, "locked")
    <3>1. "locked" \in Threads
      BY DEF Threads
    <3>. QED
      BY <1>2, <2>2, <3>1, FixedStatuses, UpdateStatusEffect DEF BasicInv
  <2>. QED
    BY <1>1, <2>1, <2>2
<1>. HIDE DEF new
<1>5. ASSUME NEW u \in Tasks, u # t  PROVE TaskInv(u)'
  <2>1. Of(u)' = Of(u)
    BY <1>1, <1>2, <1>5 DEF Of
  <2>2. TaskUntouched(u)
    BY <1>1, <1>3, <1>4, <1>5, <2>1, TaskParts DEF OthersUntouched, TaskUntouched
  <2>. QED
    BY <2>2, UntouchedTask DEF MemoryInv
<1>6. TaskInv(t)'
  <2>1. TaskInv(t) /\ (Remembers(t)' <=> Remembers(t))
    BY <1>1 DEF MemoryInv, Remembers
  <2>2. \A x \in Of(t)' : x \in Of(t) \/ x = new
    BY <1>1 DEF Of
  <2>3. ASSUME restarts = 0  PROVE (\A x \in Of(t) : StandingOK(x))'
    <3>1. StandingOK(new) /\ \A x \in Of(t) : StandingOK(x)
      BY <1>2, <2>1, <2>3 DEF TaskInv, StandingOK
    <3>2. \A x : StandingOK(x) => StandingOK(x)'
      BY <1>1 DEF StandingOK
    <3>. QED
      BY <2>2, <3>1, <3>2
  <2>4. ASSUME Remembers(t)
        PROVE  AttemptsOrdered(t)' /\ RetriesOK(t)' /\ KnownInv(t)'
    <3>1. /\ abort' = "none" /\ StatusOf(t)' = Running /\ runningTasks'[t] = new.rt
      BY <2>4, RunTaskStarts DEF new
    <3>2. AttemptsOrdered(t) /\ KnownInv(t) /\ \A a \in Of(t) : StandingOK(a)
      BY <2>1, <2>4 DEF TaskInv, Known, Remembers
    <3>3. /\ rows[JobOf(t)].loaded /\ Position(eligible[t]) <= tried[t]
          /\ \A a \in Of(t) : a.phase # "running"
      BY <1>1, <3>2 DEF KnownInv, EligibleOK
    <3>4. \A x \in Of(t) : x.rt.inv \in Nat /\ x.rt.inv < new.rt.inv
      BY <1>2, <1>3, OwnAttempts DEF Of
    <3>5. new.rt # NoTask /\ new.rt.inv \in Nat
      BY <1>2, <1>3, AbsentAssumption
    <3>6. AttemptsOrdered(t)'
      BY <1>2, <2>2, <3>2, <3>3, <3>4, <3>5 DEF AttemptsOrdered
    <3>7. RetriesOK(t)' /\ OverwriteableAwaitsNone(t)'
      BY <3>1, FixedStatuses DEF RetriesOK, OverwriteableAwaitsNone, Coherent
    <3>8. RowAgrees(t)'
      BY <1>4, <3>1, <3>3, <3>5, FixedStatuses, TaskParts DEF RowAgrees, OthersUntouched
    <3>9. NewestIsRunning(t)'
      BY <1>2, <2>2, <3>1, <3>4 DEF NewestIsRunning
    <3>10. AttemptsGuarded(t)'
      <4>1. ASSUME NEW a \in Of(t)  PROVE Guarded(a)'
        BY <3>2, <3>3, <4>1 DEF Guarded, StandingOK
      <4>2. ASSUME NEW a, a = new  PROVE Guarded(a)'
        BY <1>2, <3>1, <4>2 DEF Guarded
      <4>. QED
        BY <2>2, <4>1, <4>2 DEF AttemptsGuarded
    <3>11. EligibleOK(t)'
      BY <1>1 DEF EligibleOK
    <3>12. BackoffsAffordable(t)'
      <4>1. tried'[t] = IF eligible[t] = 0 THEN 1 ELSE tried[t] + 1
        BY <1>1, <1>3
      <4>2. ASSUME NEW next, next = new.rt.next  PROVE Affordable(t, next)'
        <5>1. tried[t] \in Nat
          BY <1>3
        <5>2. /\ Position(next.seconds) <= tried'[t]
              /\ next.noMore => tried'[t] > Len(Backoffs)
          BY <1>2, <3>3, <4>1, <4>2, <5>1, TryPaysForBackoff
        <5>. QED
          BY <5>2 DEF Affordable
      <4>. QED
        BY <2>2, <3>1, <3>3, <4>2 DEF BackoffsAffordable
    <3>. QED
      BY <3>6, <3>7, <3>8, <3>9, <3>10, <3>11, <3>12 DEF KnownInv
  <2>. QED
    BY <1>1, <2>1, <2>3, <2>4 DEF TaskInv, Known
<1>. QED
  BY <1>5, <1>6 DEF MemoryInv

-----------------------------------------------------------------------------
(* The inductive invariant. *)

(* The scheduler has nothing to remember at first. *)
LEMMA MemoryInit == Init => MemoryInv
<1>. SUFFICES ASSUME Init, NEW t \in Tasks  PROVE TaskInv(t)
  BY DEF MemoryInv
<1>1. StatusOf(t) = Empty /\ runningTasks[t] = NoTask /\ Of(t) = {} /\ DOMAIN eligible = {}
  BY TaskParts DEF Init, StatusOf, EmptyRow, Of
<1>2. AttemptsOrdered(t) /\ RetriesOK(t)
  BY <1>1, FixedStatuses DEF AttemptsOrdered, RetriesOK
<1>3. KnownInv(t)
  BY <1>1, FixedStatuses DEF KnownInv, RowAgrees, NewestIsRunning, AttemptsGuarded,
         OverwriteableAwaitsNone, EligibleOK, BackoffsAffordable
<1>. QED
  BY <1>1, <1>2, <1>3 DEF TaskInv

(* MemoryInv is inductive relative to BasicInv. *)
LEMMA MemoryStep ==
    ASSUME BasicInv, MemoryInv, ~LateRetries, [Next]_vars
    PROVE  MemoryInv'
<1>1. CASE UNCHANGED vars
  <2>1. UNCHANGED <<now, rows, runningTasks, eligible, attempts, abort, restarts, removed, tried>>
    BY <1>1 DEF vars, statusVars, loopVars, counters
  <2>2. ASSUME NEW t \in Tasks  PROVE TaskInv(t)'
    <3>1. TaskInv(t) /\ StatusOf(t)' = StatusOf(t) /\ Of(t)' = Of(t)
          /\ (Remembers(t)' <=> Remembers(t)) /\ \A a \in Of(t) : a.task = t
      BY <2>1 DEF MemoryInv, StatusOf, Of, Remembers
    <3>2. (\A a \in Of(t) : StandingOK(a)) => (\A a \in Of(t) : StandingOK(a))'
      BY <2>1, <3>1 DEF StandingOK
    <3>3. AttemptsOrdered(t) /\ RetriesOK(t) => AttemptsOrdered(t)' /\ RetriesOK(t)'
      BY <2>1, <3>1 DEF AttemptsOrdered, RetriesOK
    <3>4. AttemptsGuarded(t) => AttemptsGuarded(t)'
      BY <2>1, <3>1 DEF AttemptsGuarded, Guarded
    <3>5. KnownInv(t) => KnownInv(t)'
      BY <2>1, <3>1, <3>4 DEF KnownInv, RowAgrees, NewestIsRunning, OverwriteableAwaitsNone,
             EligibleOK, BackoffsAffordable, Affordable
    <3>. QED
      BY <2>1, <3>1, <3>2, <3>3, <3>5 DEF TaskInv, Known
  <2>. QED
    BY <2>2 DEF MemoryInv
<1>2. CASE Restart
  BY <1>2, RestartMemory
<1>3. CASE abort = "none" /\ Next /\ ~Restart
  BY <1>3, RecordStatusMemory, ForgiveJobMemory, UpdateForConfigMemory, CopySnapshotMemory,
     RunTaskMemory, DeliverStatusMemory, FailToStartMemory, ReportNotRunningMemory,
     ReportLostMemory, ReportRunningMemory, DieMemory, LoseWorkerMemory, TickMemory DEF Next
<1>. QED
  BY <1>1, <1>2, <1>3 DEF Next

(* Unless old statuses are retried too late, MemoryInv holds. *)
THEOREM MemoryInvHolds == ~LateRetries => (Spec => []MemoryInv)
<1>. SUFFICES ASSUME ~LateRetries  PROVE Spec => []MemoryInv
  OBVIOUS
<1>1. Init => MemoryInv
  BY MemoryInit
<1>2. BasicInv /\ MemoryInv /\ [Next]_vars => MemoryInv'
  BY MemoryStep
<1>. QED
  BY <1>1, <1>2, BasicInvHolds, PTL DEF Spec

(* RemoteWorkerRunner does not start a task while another copy of it may    *)
(* run, for any backoffs, SafeBackoff and number of lost workers, as long   *)
(* as no status of an earlier attempt is retried when the next one is lost  *)
(* or never ran.                                                            *)
THEOREM NoSecondCopyHolds == ~LateRetries => (Spec => []NoSecondCopy)
<1>. SUFFICES ASSUME ~LateRetries  PROVE Spec => []NoSecondCopy
  OBVIOUS
<1>1. BasicInv /\ MemoryInv => NoSecondCopy
  <2>. SUFFICES ASSUME BasicInv, MemoryInv, NEW a \in attempts, NEW b \in attempts,
                       a # b, a.task = b.task, Remembers(a.task)
                PROVE  ~(a.phase = "running" /\ b.phase = "running")
    BY DEF NoSecondCopy
  <2>. DEFINE t == a.task
  <2>1. t \in Tasks /\ a \in Of(t) /\ b \in Of(t)
    BY AttemptType DEF BasicInv, Of
  <2>2. a.rt.inv < b.rt.inv \/ b.rt.inv < a.rt.inv
    BY <2>1, OwnAttempts
  <2>3. AttemptsOrdered(t)
    BY <2>1 DEF MemoryInv, TaskInv
  <2>. QED
    BY <2>1, <2>2, <2>3 DEF AttemptsOrdered
<1>2. Spec => []MemoryInv
  BY MemoryInvHolds
<1>. QED
  BY <1>1, <1>2, BasicInvHolds, PTL

(* TaskStatus::update charges a task for its attempts only: repeated        *)
(* statuses and losses do not advance its backoff.                          *)
THEOREM RetriesAreNotBurntHolds == ~LateRetries => (Spec => []RetriesAreNotBurnt)
<1>. SUFFICES ASSUME ~LateRetries  PROVE Spec => []RetriesAreNotBurnt
  OBVIOUS
<1>1. MemoryInv => RetriesAreNotBurnt
  BY DEF MemoryInv, TaskInv, RetriesOK, RetriesAreNotBurnt
<1>2. Spec => []MemoryInv
  BY MemoryInvHolds
<1>. QED
  BY <1>1, <1>2, PTL

-----------------------------------------------------------------------------
(* Done tasks. *)

(* A done status that the scheduler remembers is not replaced. *)
DoneKept ==
    \A t \in Tasks : StatusOf(t).kind = "done" /\ Remembers(t)' => StatusOf(t)'.kind = "done"

(* No update from a worker replaces a done status. *)
LEMMA DoneKeptByUpdate ==
    ASSUME BasicInv, MemoryInv, abort = "none", NEW a \in attempts,
           NEW rt \in RunningTaskRecords, NEW new \in Statuses, Coherent(new), new.kind # "running",
           NEW th \in Threads, UpdateStatus(a.task, rt, new, th), UNCHANGED counters
    PROVE  DoneKept
<1>. DEFINE t == a.task
<1>1. t \in Tasks
  BY AttemptType DEF BasicInv
<1>2. /\ OthersUntouched(t)
      /\ UpdateAborts(t, rt) \/ UpdateKeeps(t, new) \/ UpdateReplaces(t, rt, new)
  BY <1>1, UpdateStatusEffect DEF BasicInv
<1>3. SUFFICES ASSUME StatusOf(t).kind = "done", Remembers(t)'  PROVE StatusOf(t)' = StatusOf(t)
  BY <1>2 DEF DoneKept, OthersUntouched
<1>4. Remembers(t)
  BY <1>3 DEF Remembers, counters
<1>5. runningTasks[t] = NoTask /\ ~StatusOf(t).overwriteable
  BY <1>1, <1>3, <1>4 DEF MemoryInv, TaskInv, Known, KnownInv, RowAgrees, BasicInv,
         StatusesAreCoherent, Coherent
<1>. QED
  BY <1>2, <1>5 DEF UpdateAborts, UpdateKeeps, UpdateReplaces

(* No step replaces a done status that the scheduler remembers. *)
LEMMA DoneKeptStep ==
    ASSUME BasicInv, MemoryInv, ~LateRetries, [Next]_vars
    PROVE  DoneKept
<1>1. CASE UNCHANGED <<rows, restarts, removed>>
  BY <1>1 DEF DoneKept, StatusOf
<1>2. CASE UNCHANGED vars
  BY <1>1, <1>2 DEF vars, statusVars, counters
<1>3. CASE Restart
  <2>1. restarts \in Nat /\ restarts' = restarts + 1
    <3>1. restarts \in 0 .. MaxRestarts
      BY DEF BasicInv, TypeOK
    <3>2. restarts' = restarts + 1
      BY <1>3 DEF Restart
    <3>. QED
      BY <3>1, <3>2, NaturalBounds
  <2>. QED
    BY <2>1 DEF DoneKept, Remembers
<1>4. ASSUME abort = "none", NEW j \in Jobs, ForgiveJob(j)  PROVE DoneKept
  <2>1. \A t \in Tasks : StatusOf(t)' = IF JobOf(t) = j THEN Forgive(StatusOf(t)) ELSE StatusOf(t)
    BY <1>4, ForgiveJobEffect
  <2>2. ASSUME NEW t \in Tasks, StatusOf(t).kind = "done"  PROVE Forgive(StatusOf(t)).kind = "done"
    <3>1. StatusOf(t) \in Statuses /\ Coherent(StatusOf(t))
      BY StatusType DEF BasicInv, TypeOK, RowsType, StatusesAreCoherent
    <3>. QED
      BY <2>2, <3>1, ForgivenStatus
  <2>. QED
    BY <2>1, <2>2 DEF DoneKept
<1>5. ASSUME abort = "none", NEW jobs \in SUBSET Jobs, UpdateForConfig(jobs)  PROVE DoneKept
  BY <1>5, RowSurvivesConfig, FixedStatuses DEF DoneKept
<1>6. ASSUME abort = "none", NEW t \in Tasks, NEW w \in Workers, RunTask(t, w)  PROVE DoneKept
  <2>1. t \in DOMAIN eligible /\ UNCHANGED <<restarts, removed>> /\ started < MaxInvocations
    BY <1>6 DEF RunTask
  <2>2. ASSUME Remembers(t)  PROVE StatusOf(t).kind # "done"
    BY <1>6, <2>1, <2>2 DEF MemoryInv, TaskInv, Known, KnownInv, EligibleOK
  <2>3. OthersUntouched(t)
    <3>1. CASE Fail("started twice on a worker")
      BY <3>1 DEF Fail, statusVars, OthersUntouched, StatusOf
    <3>. DEFINE rt == NewAttempt(t, w).rt
    <3>2. CASE UpdateStatus(t, rt, Running, "locked")
      <4>1. rt \in RunningTaskRecords /\ "locked" \in Threads
        BY <2>1, NewAttemptType DEF BasicInv, Threads
      <4>. HIDE DEF rt
      <4>. QED
        BY <1>6, <3>2, <4>1, FixedStatuses, UpdateStatusEffect DEF BasicInv
    <3>. QED
      BY <1>6, <3>1, <3>2 DEF RunTask, NewAttempt
  <2>. QED
    BY <2>1, <2>2, <2>3 DEF DoneKept, OthersUntouched, Remembers
<1>7. ASSUME abort = "none", NEW a \in attempts, NEW o \in Outcomes, NEW ack \in BOOLEAN,
             DeliverStatus(a, o, ack)
      PROVE  DoneKept
  <2>1. /\ UNCHANGED counters
        /\ UNCHANGED statusVars \/ UpdateStatus(a.task, a.rt, StatusFrom(o), "locked")
    BY <1>7 DEF DeliverStatus
  <2>2. a.rt \in RunningTaskRecords /\ now \in Nat /\ "locked" \in Threads
    BY AttemptType DEF BasicInv, Threads
  <2>3. StatusFrom(o) \in Statuses /\ Coherent(StatusFrom(o)) /\ StatusFrom(o).kind # "running"
    BY <2>2, OutcomeStatus
  <2>4. CASE UNCHANGED statusVars
    BY <1>1, <2>1, <2>4 DEF statusVars, counters
  <2>. QED
    BY <1>7, <2>1, <2>2, <2>3, <2>4, DoneKeptByUpdate
<1>8. ASSUME abort = "none", NEW a \in attempts, FailToStart(a) \/ ReportNotRunning(a)
      PROVE  DoneKept
  <2>1. /\ UNCHANGED counters
        /\ \/ UpdateStatus(a.task, a.rt, NeverStarted, "locked")
           \/ UpdateStatus(a.task, a.rt, WasNotRunning, "locked")
    BY <1>8 DEF FailToStart, ReportNotRunning
  <2>2. a.rt \in RunningTaskRecords /\ "locked" \in Threads
    BY AttemptType DEF BasicInv, Threads
  <2>. QED
    BY <1>8, <2>1, <2>2, DoneKeptByUpdate, FixedStatuses
<1>9. ASSUME abort = "none", NEW a \in attempts, ReportLost(a)  PROVE DoneKept
  <2>. DEFINE new == WorkerLost(a.rt.next.seconds, now)
  <2>1. UNCHANGED counters /\ UpdateStatus(a.task, Tweaked(a.rt), new, "losing")
    BY <1>9 DEF ReportLost, Tweaked
  <2>2. /\ a.rt \in RunningTaskRecords /\ "losing" \in Threads
        /\ a.rt.next.seconds \in Nat /\ now \in Nat
    BY AttemptType DEF BasicInv, Threads, BackoffDurations
  <2>3. new \in Statuses /\ Coherent(new) /\ new.kind # "running"
    BY <2>2, LostStatus
  <2>4. Tweaked(a.rt) \in RunningTaskRecords
    BY <2>2, TweakedType
  <2>. HIDE DEF new
  <2>. QED
    BY <1>9, <2>1, <2>2, <2>3, <2>4, DoneKeptByUpdate
<1>10. ASSUME abort = "none", NEW a \in attempts, ReportRunning(a)  PROVE DoneKept
  <2>1. restarts # 0
    <3>1. a.task \in Tasks /\ a \in Of(a.task)
      BY AttemptType DEF BasicInv, Of
    <3>. QED
      BY <1>10, <3>1 DEF MemoryInv, TaskInv, StandingOK, ReportRunning
  <2>2. restarts' = restarts
    BY <1>10 DEF ReportRunning, counters
  <2>. QED
    BY <2>1, <2>2 DEF DoneKept, Remembers
<1>11. ASSUME CopySnapshot \/ Tick \/ (\E th \in Threads : RecordStatus(th))
              \/ (\E w \in Workers : LoseWorker(w)) \/ (\E a \in attempts : Die(a))
       PROVE  UNCHANGED <<rows, restarts, removed>>
  BY <1>11 DEF CopySnapshot, Tick, RecordStatus, LoseWorker, Die, statusVars, counters
<1>. QED
  BY <1>1, <1>2, <1>3, <1>4, <1>5, <1>6, <1>7, <1>8, <1>9, <1>10, <1>11 DEF Next

(* updateStatus, forgiveJob and updateForConfig never replace a done status *)
(* that the scheduler remembers.                                            *)
THEOREM DoneStaysDoneHolds == ~LateRetries => (Spec => DoneStaysDone)
<1>. SUFFICES ASSUME ~LateRetries  PROVE Spec => DoneStaysDone
  OBVIOUS
<1>1. BasicInv /\ MemoryInv /\ [Next]_vars => [DoneKept]_vars
  BY DoneKeptStep
<1>2. Spec => []MemoryInv
  BY MemoryInvHolds
<1>3. Spec => [][DoneKept]_vars
  BY <1>1, <1>2, BasicInvHolds, PTL DEF Spec
<1>. QED
  BY <1>3 DEF DoneStaysDone, DoneKept

-----------------------------------------------------------------------------
(* Dependencies. *)

(* DependenciesAreDone, for one task, and the same of the tasks that may be *)
(* started next.                                                            *)
DependenciesMet(t) ==
    \A i \in DOMAIN DependsOn[JobOf(t)] :
        LET needed == <<DependsOn[JobOf(t)][i], t[2]>>
        IN  Remembers(needed) => StatusOf(needed).kind = "done"

(* The dependencies of the attempts, and of what may be started next. *)
DependencyInv ==
    /\ \A a \in attempts : DependenciesMet(a.task)
    /\ \A t \in DOMAIN eligible : DependenciesMet(t)

(* A dependency is a task on the same node. *)
LEMMA NeededTasks ==
    ASSUME NEW t \in Tasks, NEW i \in DOMAIN DependsOn[JobOf(t)]
    PROVE  <<DependsOn[JobOf(t)][i], t[2]>> \in Tasks
<1>1. DependsOn[JobOf(t)] \in Seq(Jobs) /\ t[2] \in Nodes
  BY TaskParts, SizesAssumption
<1>2. DependsOn[JobOf(t)][i] \in Jobs
  BY <1>1
<1>. QED
  BY <1>1, <1>2 DEF Tasks

(* What the scheduler forgot it does not remember again. *)
LEMMA RememberedBefore ==
    ASSUME BasicInv, [Next]_vars, NEW t, Remembers(t)'
    PROVE  Remembers(t)
<1>1. CASE UNCHANGED <<restarts, removed>>
  BY <1>1 DEF Remembers
<1>2. CASE Restart
  <2>1. restarts \in 0 .. MaxRestarts
    BY DEF BasicInv, TypeOK
  <2>2. restarts' = restarts + 1
    BY <1>2 DEF Restart
  <2>3. restarts' # 0
    BY <2>1, <2>2, NaturalBounds
  <2>. QED
    BY <2>3 DEF Remembers
<1>3. ASSUME NEW jobs \in SUBSET Jobs, UpdateForConfig(jobs)  PROVE Remembers(t)
  <2>1. restarts' = restarts /\ removed' = removed \cup (Jobs \ jobs)
    BY <1>3 DEF UpdateForConfig
  <2>. QED
    BY <2>1 DEF Remembers
<1>4. ASSUME NEW u \in Tasks, NEW w \in Workers, RunTask(u, w)  PROVE Remembers(t)
  <2>1. UNCHANGED <<restarts, removed>>
    BY <1>4 DEF RunTask
  <2>. QED
    BY <1>1, <2>1
<1>5. ASSUME NEW j \in Jobs, ForgiveJob(j)  PROVE Remembers(t)
  <2>1. UNCHANGED <<restarts, removed>>
    BY <1>5 DEF ForgiveJob
  <2>. QED
    BY <1>1, <2>1
<1>6. CASE UNCHANGED counters
  BY <1>1, <1>6 DEF counters
<1>7. UNCHANGED vars => UNCHANGED counters
  BY DEF vars
<1>8. ASSUME CopySnapshot \/ Tick \/ (\E th \in Threads : RecordStatus(th))
             \/ \E w \in Workers : LoseWorker(w)
      PROVE  UNCHANGED counters
  BY <1>8 DEF CopySnapshot, Tick, RecordStatus, LoseWorker
<1>9. ASSUME NEW a \in attempts, NEW o \in Outcomes, NEW ack \in BOOLEAN,
             \/ DeliverStatus(a, o, ack) \/ FailToStart(a) \/ ReportNotRunning(a)
             \/ ReportLost(a) \/ ReportRunning(a) \/ Die(a)
      PROVE  UNCHANGED counters
  BY <1>9 DEF DeliverStatus, FailToStart, ReportNotRunning, ReportLost, ReportRunning, Die
<1>10. TRUE \in BOOLEAN /\ \E o : o \in Outcomes
  BY DEF Outcomes
<1>. QED
  BY <1>1, <1>2, <1>3, <1>4, <1>5, <1>6, <1>7, <1>8, <1>9, <1>10 DEF Next

(* Only RunTask makes an attempt, of a task that was found eligible. *)
LEMMA OnlyEligibleStart ==
    ASSUME BasicInv, [Next]_vars, NEW x \in attempts'
    PROVE  (\E a \in attempts : x.task = a.task) \/ x.task \in DOMAIN eligible
<1>. DEFINE Old == \E a \in attempts : x.task = a.task
<1>1. TypeOK /\ attempts \subseteq Attempts
  BY DEF BasicInv, TypeOK
<1>2. CASE UNCHANGED attempts
  BY <1>2
<1>3. ASSUME NEW a, NEW b, Replaced(a, b)  PROVE Old
  BY <1>3 DEF Replaced
<1>4. ASSUME NEW t \in Tasks, NEW w \in Workers, RunTask(t, w)  PROVE Old \/ x.task \in DOMAIN eligible
  <2>1. /\ t \in DOMAIN eligible
        /\ attempts' = IF abort' # "none" THEN attempts ELSE attempts \cup {NewAttempt(t, w)}
    BY <1>4 DEF RunTask, NewAttempt
  <2>2. NewAttempt(t, w).task = t
    BY DEF NewAttempt
  <2>. QED
    BY <2>1, <2>2
<1>5. ASSUME NEW a \in attempts, NEW o \in Outcomes, NEW ack \in BOOLEAN, DeliverStatus(a, o, ack)
      PROVE  Old
  BY <1>1, <1>3, <1>5, DeliverStatusReplaces
<1>6. ASSUME NEW a \in attempts, FailToStart(a) \/ ReportNotRunning(a) \/ Die(a)
      PROVE  Old
  <2>1. Leave(a) \/ UNCHANGED attempts
    BY <1>6 DEF FailToStart, ReportNotRunning, Die
  <2>. QED
    BY <1>1, <1>2, <1>3, <2>1, LeaveReplaces
<1>7. ASSUME NEW a \in attempts, ReportLost(a)  PROVE Old
  BY <1>1, <1>3, <1>7, ReportLostReplaces
<1>8. ASSUME NEW a \in attempts, ReportRunning(a)  PROVE Old
  <2>1. UNCHANGED attempts \/ Become(a, [a EXCEPT !.standing = "tracked"])
    BY <1>8 DEF ReportRunning
  <2>2. [a EXCEPT !.standing = "tracked"].task = a.task
    BY <1>1 DEF Attempts
  <2>. QED
    BY <2>1, <2>2 DEF Become
<1>9. ASSUME NEW w \in Workers, LoseWorker(w)  PROVE Old
  <2>1. attempts' = {Losing(a, w) : a \in attempts}
    BY <1>9 DEF LoseWorker, Losing
  <2>. QED
    BY <1>1, <2>1, LosingEffect
<1>10. CASE Restart
  <2>. DEFINE Again(a) == [a EXCEPT !.replied = TRUE,
                              !.standing = IF @ \in {"losing", "lost", "forgotten"}
                                           THEN "forgotten" ELSE "unreported"]
  <2>1. attempts' = {Again(a) : a \in {b \in attempts : b.phase # "gone"}}
    BY <1>10 DEF Restart
  <2>2. \A a \in attempts : Again(a).task = a.task
    BY <1>1 DEF Attempts
  <2>. HIDE DEF Again
  <2>. QED
    BY <2>1, <2>2
<1>11. ASSUME CopySnapshot \/ Tick \/ (\E th \in Threads : RecordStatus(th)) \/ UNCHANGED vars
              \/ (\E j \in Jobs : ForgiveJob(j)) \/ \E jobs \in SUBSET Jobs : UpdateForConfig(jobs)
       PROVE  UNCHANGED attempts
  BY <1>11 DEF CopySnapshot, Tick, RecordStatus, vars, ForgiveJob, UpdateForConfig
<1>. HIDE DEF Old
<1>12. CASE Next
  BY <1>2, <1>4, <1>5, <1>6, <1>7, <1>8, <1>9, <1>10, <1>11, <1>12 DEF Next, Old
<1>. QED
  BY <1>2, <1>11, <1>12 DEF Old

(* Only CopySnapshot makes a task eligible, when its dependencies are done. *)
LEMMA OnlySnapshotMakesEligible ==
    ASSUME BasicInv, [Next]_vars, NEW t \in DOMAIN eligible'
    PROVE  t \in DOMAIN eligible \/ DependenciesMet(t)
<1>1. CASE UNCHANGED eligible
  BY <1>1
<1>2. CASE CopySnapshot
  <2>1. \/ UNCHANGED eligible
        \/ \A i \in DOMAIN DependsOn[JobOf(t)] :
              StatusOf(<<DependsOn[JobOf(t)][i], t[2]>>).kind = "done"
    BY <1>2, CopySnapshotEffect DEF BasicInv
  <2>. QED
    BY <1>1, <2>1 DEF DependenciesMet
<1>3. CASE eligible' = <<>>
  BY <1>3
<1>4. ASSUME NEW u \in Tasks, NEW w \in Workers, RunTask(u, w)  PROVE t \in DOMAIN eligible
  <2>1. eligible' = [v \in DOMAIN eligible \ {u} |-> eligible[v]]
    BY <1>4 DEF RunTask
  <2>. QED
    BY <2>1
<1>5. ASSUME Restart \/ \E jobs \in SUBSET Jobs : UpdateForConfig(jobs)
      PROVE  eligible' = <<>>
  BY <1>5 DEF Restart, UpdateForConfig
<1>6. ASSUME Tick \/ UNCHANGED vars \/ (\E th \in Threads : RecordStatus(th))
             \/ (\E j \in Jobs : ForgiveJob(j)) \/ \E w \in Workers : LoseWorker(w)
      PROVE  UNCHANGED eligible
  BY <1>6 DEF Tick, vars, loopVars, RecordStatus, ForgiveJob, LoseWorker
<1>7. ASSUME NEW a \in attempts, NEW o \in Outcomes, NEW ack \in BOOLEAN,
             \/ DeliverStatus(a, o, ack) \/ FailToStart(a) \/ ReportNotRunning(a)
             \/ ReportLost(a) \/ ReportRunning(a) \/ Die(a)
      PROVE  UNCHANGED eligible
  BY <1>7 DEF DeliverStatus, FailToStart, ReportNotRunning, ReportLost, ReportRunning, Die, loopVars
<1>8. TRUE \in BOOLEAN /\ \E o : o \in Outcomes
  BY DEF Outcomes
<1>. QED
  BY <1>1, <1>2, <1>3, <1>4, <1>5, <1>6, <1>7, <1>8 DEF Next

(* Dependencies that are met stay met. *)
LEMMA MetStaysMet ==
    ASSUME BasicInv, MemoryInv, ~LateRetries, [Next]_vars, NEW t \in Tasks, DependenciesMet(t)
    PROVE  DependenciesMet(t)'
<1>1. SUFFICES ASSUME NEW i \in DOMAIN DependsOn[JobOf(t)],
                      Remembers(<<DependsOn[JobOf(t)][i], t[2]>>)'
               PROVE  StatusOf(<<DependsOn[JobOf(t)][i], t[2]>>)'.kind = "done"
  BY DEF DependenciesMet
<1>. DEFINE needed == <<DependsOn[JobOf(t)][i], t[2]>>
<1>2. needed \in Tasks
  BY NeededTasks
<1>3. Remembers(needed)
  BY <1>1, RememberedBefore
<1>4. StatusOf(needed).kind = "done"
  BY <1>3 DEF DependenciesMet
<1>. HIDE DEF needed
<1>5. StatusOf(needed)'.kind = "done"
  BY <1>1, <1>2, <1>4, DoneKeptStep DEF DoneKept, needed
<1>. QED
  BY <1>5 DEF needed

(* DependencyInv is inductive relative to the invariants above. *)
LEMMA DependencyStep ==
    ASSUME BasicInv, BasicInv', MemoryInv, ~LateRetries, DependencyInv, [Next]_vars
    PROVE  DependencyInv'
<1>1. /\ \A a \in attempts : a.task \in Tasks
      /\ DOMAIN eligible \subseteq Tasks
      /\ (DOMAIN eligible \subseteq Tasks)'
  BY AttemptType DEF BasicInv, TypeOK
<1>2. ASSUME NEW x \in attempts'  PROVE DependenciesMet(x.task)'
  <2>1. PICK t \in Tasks : t = x.task /\ DependenciesMet(t)
    BY <1>1, <1>2, OnlyEligibleStart DEF DependencyInv
  <2>. QED
    BY <2>1, MetStaysMet
<1>3. ASSUME NEW t \in DOMAIN eligible'  PROVE DependenciesMet(t)'
  <2>1. t \in Tasks /\ DependenciesMet(t)
    BY <1>1, <1>3, OnlySnapshotMakesEligible DEF DependencyInv
  <2>. QED
    BY <2>1, MetStaysMet
<1>. QED
  BY <1>2, <1>3 DEF DependencyInv

(* Scheduler::schedule starts a task only when its dependencies are done,   *)
(* and they still are when the task runs.                                   *)
THEOREM DependenciesAreDoneHolds == ~LateRetries => (Spec => []DependenciesAreDone)
<1>. SUFFICES ASSUME ~LateRetries  PROVE Spec => []DependenciesAreDone
  OBVIOUS
<1>1. Init => DependencyInv
  <2>. SUFFICES ASSUME Init  PROVE DependencyInv
    OBVIOUS
  <2>1. attempts = {} /\ DOMAIN eligible = {}
    BY DEF Init
  <2>. QED
    BY <2>1 DEF DependencyInv
<1>2. BasicInv /\ BasicInv' /\ MemoryInv /\ DependencyInv /\ [Next]_vars => DependencyInv'
  BY DependencyStep
<1>3. DependencyInv => DependenciesAreDone
  BY DEF DependencyInv, DependenciesAreDone, DependenciesMet
<1>4. Spec => []MemoryInv
  BY MemoryInvHolds
<1>. QED
  BY <1>1, <1>2, <1>3, <1>4, BasicInvHolds, PTL DEF Spec
=============================================================================
