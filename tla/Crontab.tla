------------------------------- MODULE Crontab -------------------------------
(***************************************************************************)
(* The stateless cron library (cron/): the first time, at or after a given   *)
(* one, that matches a crontab item.  A standard item searches the labels of *)
(* local time, position by position and with carries, and then copes with    *)
(* labels that daylight savings time skips or repeats.                       *)
(*                                                                          *)
(* The calendar is a parameter: minutes of SecsPerMinute seconds, months of  *)
(* DaysIn days, weeks of DaysInWeek days.  UTC second 0 begins FirstYear, on *)
(* the first day of a week.  A time zone is [forward, rewind, shift]: at the *)
(* UTC times forward and rewind its clock is set ahead, and back, by shift.  *)
(*                                                                          *)
(* A selector is [values, start, end, period], where no values mean the      *)
(* range.  A standard item is [sel, fixes]: the selectors that it names, and *)
(* its list of dst_fixes.  The other kind of item is [epoch].                *)
(***************************************************************************)
EXTENDS Integers, SequencesExt, FiniteSetsExt

CONSTANTS
  SecsPerMinute, LastMinute, LastHour, LastDay, LastMonth, FirstYear, LastYear,
  DaysInWeek,
  DaysIn,       \* <<year, month>> -> number of days
  kMaxDepth,    \* limit on the steps of a search: 50
  EndOfEpoch,   \* the largest time_t
  NoMatch, Throws

-----------------------------------------------------------------------------
(* Labels of local time, <<year, month, day, hour, minute>>, and the seconds  *)
(* of the local clock that they stand for                                    *)

YEAR == 1
MONTH == 2
DAY == 3
MINUTE == 5
Positions == YEAR..MINUTE

MinOf == <<FirstYear, 1, 1, 0, 0>>
MaxOf == <<LastYear, LastMonth, LastDay, LastHour, LastMinute>>

SecsPerHour == SecsPerMinute * (LastMinute + 1)
SecsPerDay == SecsPerHour * (LastHour + 1)

Days ==
  LET month(y, m) == [d \in 1..DaysIn[y, m] |-> <<y, m, d>>]
      year(y) == FlattenSeq([m \in 1..LastMonth |-> month(y, m)])
  IN FlattenSeq([i \in 1..(LastYear - FirstYear + 1) |-> year(FirstYear + i - 1)])

EndOfTime == Len(Days) * SecsPerDay

\* to_tm
LabelOf(local) ==
  LET ofDay == local % SecsPerDay
  IN Days[local \div SecsPerDay + 1]
       \o <<ofDay \div SecsPerHour, (ofDay % SecsPerHour) \div SecsPerMinute>>

DayNumber == [x \in Range(Days) |-> CHOOSE i \in DOMAIN Days : Days[i] = x]
DayOf(label) == DayNumber[SubSeq(label, YEAR, DAY)]
DayOfWeek(label) == ((DayOf(label) - 1) % DaysInWeek) + 1

\* saveResult
LocalOf(label) ==
  (DayOf(label) - 1) * SecsPerDay + label[4] * SecsPerHour + label[MINUTE] * SecsPerMinute

-----------------------------------------------------------------------------
(* Time zones (cron/utils/date_time.cpp)                                     *)

IsDst(zone, t) == zone.forward <= t /\ t < zone.rewind

UtcToLocal(zone, t) == IF IsDst(zone, t) THEN t + zone.shift ELSE t

\* The UTC times of a local time: none, one or two.  Both guesses of is_dst
\* are tried, and kept if the time that results agrees.
UtcTimes(zone, local) ==
  LET guess(isDst) == IF isDst THEN local - zone.shift ELSE local
  IN {guess(isDst) : isDst \in {b \in BOOLEAN : IsDst(zone, guess(b)) = b}}

IsNotATime(zone, local) == UtcTimes(zone, local) = {}
IsAmbiguous(zone, local) == Cardinality(UtcTimes(zone, local)) = 2

IsBeforeRewind(zone, t) == t = Min(UtcTimes(zone, UtcToLocal(zone, t)))

\* The first second after the clock was set back, between the two times a < b
\* of a label
FindRewindTime(zone, a, b) == Min({t \in a..b : ~IsBeforeRewind(zone, t)})

\* The last second before the clock was set ahead, past this label
FindPreSkipUTCTime(zone, local) ==
  Max(UtcTimes(zone, Max({l \in 0..local : ~IsNotATime(zone, l)})))

-----------------------------------------------------------------------------
(* CrontabSelector::findFirstMatch                                           *)

Found(val, carry) == [val |-> val, carry |-> carry]

SelectorMatch(sel, t) ==
  LET later == {v \in sel.values : v >= t}
      next == t + ((sel.period - ((t - sel.start) % sel.period)) % sel.period)
  IN IF sel.values # {}
     THEN IF later = {} THEN Found(Min(sel.values), TRUE) ELSE Found(Min(later), FALSE)
     ELSE IF t < sel.start THEN Found(sel.start, FALSE)
     ELSE IF next > sel.end THEN Found(sel.start, TRUE) ELSE Found(next, FALSE)

-----------------------------------------------------------------------------
(* Items as they are configured                                              *)

IsEpoch(item) == "epoch" \in DOMAIN item

\* CrontabSelector::CrontabSelector
IsValidSelector(sel, min, max) ==
  IF sel.values # {} THEN sel.values \subseteq min..max
  ELSE /\ {sel.start, sel.end} \subseteq min..max
       /\ sel.period \in {1} \cup 1..(max - min - 1)

Everything(min, max) == [values |-> {}, start |-> min, end |-> max, period |-> 1]

Names == <<"year", "month", "day_of_month", "hour", "minute">>

SelectorOf(item, pos) ==
  IF Names[pos] \in DOMAIN item.sel THEN item.sel[Names[pos]]
  ELSE Everything(MinOf[pos], MaxOf[pos])

HasDayOfWeek(item) == "day_of_week" \in DOMAIN item.sel

\* parseDstFixes: exactly one policy for a skip, and one for a rewind
SkipPolicies == {"skip", "unskip"}
RewindPolicies == {"repeat_use_only_early", "repeat_use_only_late", "repeat_use_both"}
OneOf(fixes, policies) == Cardinality({i \in DOMAIN fixes : fixes[i] \in policies}) = 1

AreValidFixes(fixes) ==
  /\ Range(fixes) \subseteq SkipPolicies \cup RewindPolicies
  /\ OneOf(fixes, SkipPolicies) /\ OneOf(fixes, RewindPolicies)

DoUnskip(item) == "unskip" \in Range(item.fixes)
UseEarly(item) == Range(item.fixes) \cap {"repeat_use_only_early", "repeat_use_both"} # {}
UseLate(item) == Range(item.fixes) \cap {"repeat_use_only_late", "repeat_use_both"} # {}

\* CrontabItem::fromDynamic does not throw
IsValidItem(item) ==
  IF IsEpoch(item) THEN IsValidSelector(item.epoch, 0, EndOfEpoch)
  ELSE /\ \A p \in Positions : Names[p] \in DOMAIN item.sel =>
                              IsValidSelector(item.sel[Names[p]], MinOf[p], MaxOf[p])
       /\ HasDayOfWeek(item) => /\ IsValidSelector(item.sel["day_of_week"], 1, DaysInWeek)
                               /\ "day_of_month" \notin DOMAIN item.sel
       /\ "minute" \in DOMAIN item.sel
       /\ AreValidFixes(item.fixes)

-----------------------------------------------------------------------------
(* The search for a label (StandardCrontabItem::findMatchingPositions)        *)

\* findMatchingDayOfWeek: the days to the next one that is selected
StepsToDayOfWeek(item, label, carry) ==
  LET dow == DayOfWeek(label)
      found == SelectorMatch(item.sel["day_of_week"], dow + carry)
  IN found.val - dow + (IF found.carry THEN DaysInWeek ELSE 0)

\* If a position advanced, all later ones are reset.
Advance(label, pos, val) ==
  [p \in Positions |-> IF p = pos THEN val
                       ELSE IF p > pos /\ val # label[pos] THEN MinOf[p] ELSE label[p]]

RECURSIVE FindMatchingPositions(_, _, _, _, _)

\* What follows from the match that was found for one position, where steps
\* were asked for: a carry to the position before, or the position after.
MoveOn(item, label, pos, steps, found, depth) ==
  LET carries == found.carry \/ (pos = DAY /\ found.val > DaysIn[label[YEAR], label[MONTH]])
      goesBack == found.val < label[pos] \/ (steps > 0 /\ found.val = label[pos])
  IN IF carries
     THEN IF pos = YEAR THEN NoMatch
          ELSE FindMatchingPositions(item, label, pos - 1, 1, depth + 1)
     ELSE IF goesBack THEN Throws
     ELSE IF pos = MINUTE THEN Advance(label, pos, found.val)
     ELSE FindMatchingPositions(item, Advance(label, pos, found.val), pos + 1, 0, depth + 1)

MatchPosition(item, label, pos, steps, depth) ==
  MoveOn(item, label, pos, steps, SelectorMatch(SelectorOf(item, pos), label[pos] + steps), depth)

FindMatchingPositions(item, label, pos, carry, depth) ==
  IF depth > kMaxDepth THEN Throws
  ELSE MatchPosition(item, label, pos,
                     IF pos = DAY /\ HasDayOfWeek(item)
                     THEN StepsToDayOfWeek(item, label, carry) ELSE carry,
                     depth)

\* The local time of the first label that matches, from UTC time t on
SaveResult(label) == IF label \in {NoMatch, Throws} THEN label ELSE LocalOf(label)

FirstLabel(item, zone, t) ==
  LET local == UtcToLocal(zone, t)
  IN IF local % SecsPerMinute # 0 THEN Throws
     ELSE SaveResult(FindMatchingPositions(item, LabelOf(local), YEAR, 0, 1))

-----------------------------------------------------------------------------
(* Daylight savings time                                                     *)

\* max(dst_time, non_dst_time), where kNotATime is -1
LatestTime(zone, local) == Max(UtcTimes(zone, local) \cup {-1})

\* Mutant of FindLocalMatch: it never goes back to the repeated times.
FindLocalMatchOnce(item, zone, t) == FirstLabel(item, zone, t)

\* findUTCTimestampsForFirstMatch.  A search that starts in a time that will be
\* repeated and leaves it starts over, from the first such time.
StartOver(item, zone, t, match, both) ==
  LET a == Min(both)
      b == Max(both)
      rewind == FindRewindTime(zone, a, b)
      firstAmbiguous == a - (b - rewind)
      firstUnambiguous == b + (rewind - a)
  IN IF /\ match \notin {NoMatch, Throws}
        /\ Cardinality(both) = 2 /\ t = a
        /\ t # firstAmbiguous /\ LatestTime(zone, match) >= firstUnambiguous
     THEN FirstLabel(item, zone, firstAmbiguous)
     ELSE match

FindLocalMatch(item, zone, t) ==
  StartOver(item, zone, t, FirstLabel(item, zone, t), UtcTimes(zone, UtcToLocal(zone, t)))

RoundUp(t) == t + ((SecsPerMinute - (t % SecsPerMinute)) % SecsPerMinute)

RECURSIVE FindStandardMatch(_, _, _)

\* A label that is skipped, one that is repeated, and any other
AtSkip(item, zone, t, preSkip) ==
  IF t > preSkip THEN Throws
  ELSE IF DoUnskip(item) THEN preSkip ELSE FindStandardMatch(item, zone, preSkip + 1)

AtRepeat(item, zone, t, early, late) ==
  IF t <= early
  THEN IF UseEarly(item) THEN early ELSE FindStandardMatch(item, zone, early + 1)
  ELSE IF UseLate(item) THEN late ELSE FindStandardMatch(item, zone, late + 1)

UtcMatch(item, zone, t, match, times) ==
  IF match \in {NoMatch, Throws} THEN match
  ELSE IF times = {} THEN AtSkip(item, zone, t, FindPreSkipUTCTime(zone, match))
  ELSE IF Cardinality(times) = 2 THEN AtRepeat(item, zone, t, Min(times), Max(times))
  ELSE Max(times)

MatchOfLabel(item, zone, t, match) == UtcMatch(item, zone, t, match, UtcTimes(zone, match))

\* The result is not earlier than asked for.
NotBefore(input, result) ==
  IF result \in {NoMatch, Throws} THEN result
  ELSE IF result < input THEN Throws ELSE result

FindStandardMatch(item, zone, input) ==
  NotBefore(input, MatchOfLabel(item, zone, RoundUp(input),
                                FindLocalMatch(item, zone, RoundUp(input))))

\* EpochCrontabItem::findFirstMatch
FindEpochMatch(item, t) ==
  LET found == SelectorMatch(item.epoch, t)
  IN IF found.carry THEN NoMatch ELSE found.val

FindFirstMatch(item, zone, t) ==
  IF IsEpoch(item) THEN FindEpochMatch(item, t) ELSE FindStandardMatch(item, zone, t)
=============================================================================
