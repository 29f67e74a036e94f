------------------------------ MODULE TimeNodes ------------------------------
(***************************************************************************)
(* The node source "add_time" (nodes/AddTimeFetcher.h): every parent node    *)
(* has a child for each recent event of a schedule.  NodesLoader fetches     *)
(* them again and again, at times of its own.                               *)
(*                                                                          *)
(* A schedule is a sequence of [cron, lifetime, enabledLifetime, tags].      *)
(* All parents get the same children, so that a node is its time here.       *)
(***************************************************************************)
EXTENDS Crontab

CONSTANTS
  Zones, Schedules,
  FetchError,      \* an exception of the fetcher
  StartTime, MaxTime, MaxGap  \* bound the clock, and the time between two fetches

VARIABLES
  zone, schedule,  \* the configuration, and the system's time zone
  now,
  fetchedAt,       \* cur_time of the last fetch
  served           \* time -> [tags, enabled], or FetchError

vars == <<zone, schedule, now, fetchedAt, served>>

-----------------------------------------------------------------------------
RECURSIVE EventsFrom(_, _, _, _)

AndLaterEvents(item, tz, event, curTime) ==
  CASE event = Throws -> {Throws}
    [] event = NoMatch -> {}
    [] OTHER -> IF event > curTime THEN {}
                ELSE {event} \cup EventsFrom(item, tz, event + 1, curTime)

EventsFrom(item, tz, time, curTime) ==
  AndLaterEvents(item, tz, FindFirstMatch(item.cron, tz, time), curTime)

\* Mutant of EventsOf: the first second of the window is left out.
EventsOfShorter(item, tz, curTime) == EventsFrom(item, tz, curTime - item.lifetime + 2, curTime)

\* Mutant of EventsOf: an event of this second waits for the next fetch.
EventsOfThePast(item, tz, curTime) ==
  EventsFrom(item, tz, curTime - item.lifetime + 1, curTime - 1)

EventsOf(item, tz, curTime) == EventsFrom(item, tz, curTime - item.lifetime + 1, curTime)

\* ScheduleItem; an enabled_lifetime of -1 stands for none.
IsValidScheduleItem(item) == item.lifetime # 0 /\ IsValidItem(item.cron)
EnabledLifetime(item) ==
  IF item.enabledLifetime = -1 THEN item.lifetime ELSE item.enabledLifetime

\* makeTimestampsToTagsAndEnabled
TagsAndEnabled(items, events, curTime) ==
  LET with(t) == {i \in DOMAIN items : t \in events[i]}
  IN IF \E i \in DOMAIN items : ~IsValidScheduleItem(items[i]) \/ Throws \in events[i]
     THEN FetchError
     ELSE [t \in UNION Range(events) |->
             [tags |-> UNION {items[i].tags : i \in with(t)},
              enabled |-> \A i \in with(t) : curTime - t < EnabledLifetime(items[i])]]

TimestampsToTagsAndEnabled(items, tz, curTime) ==
  TagsAndEnabled(items, [i \in DOMAIN items |-> EventsOf(items[i], tz, curTime)], curTime)

Init ==
  /\ zone \in Zones /\ schedule \in Schedules
  /\ now = StartTime /\ fetchedAt = StartTime
  /\ served = TimestampsToTagsAndEnabled(schedule, zone, StartTime)

Fetch ==
  /\ now > fetchedAt
  /\ fetchedAt' = now
  /\ served' = TimestampsToTagsAndEnabled(schedule, zone, now)
  /\ UNCHANGED <<zone, schedule, now>>

Tick ==
  /\ now < MaxTime /\ now < fetchedAt + MaxGap
  /\ now' = now + 1
  /\ UNCHANGED <<zone, schedule, fetchedAt, served>>

Next == Fetch \/ Tick

Spec == Init /\ [][Next]_vars

-----------------------------------------------------------------------------
(* What an item matches, second by second                                    *)

InSelector(sel, v) ==
  IF sel.values # {} THEN v \in sel.values
  ELSE v \in {sel.start + k * sel.period : k \in 0..(sel.end - sel.start)} /\ v <= sel.end

LabelMatches(item, local) ==
  LET label == LabelOf(local)
  IN /\ \A p \in Positions : InSelector(SelectorOf(item, p), label[p])
     /\ HasDayOfWeek(item) => InSelector(item.sel["day_of_week"], DayOfWeek(label))
     /\ local % SecsPerMinute = 0

\* The times of the labels that the clock of tz skips
Skipped(tz) == {l \in tz.forward..(tz.forward + tz.shift - 1) : IsNotATime(tz, l)}

\* cron/README.md: a label that is repeated fires as dst_fixes says, one that
\* is skipped does not fire, or fires in the second before the skip.
Matches(item, tz, t) ==
  IF IsEpoch(item) THEN InSelector(item.epoch, t)
  ELSE \/ /\ LabelMatches(item, UtcToLocal(tz, t))
          /\ IsAmbiguous(tz, UtcToLocal(tz, t)) =>
               IF IsBeforeRewind(tz, t) THEN UseEarly(item) ELSE UseLate(item)
       \/ /\ DoUnskip(item) /\ t + 1 = tz.forward
          /\ \E l \in Skipped(tz) : LabelMatches(item, l)

\* The last time that has a label in every zone
Horizon == EndOfTime - Max({tz.shift : tz \in Zones}) - 1

\* Two kinds of events are not found by a search from an earlier time.  The
\* second before a skip is passed over from within its own minute, and so when
\* the label of that minute matches too.
PreSkipIsMissed(item, tz, from, t) ==
  /\ t + 1 = tz.forward
  /\ RoundUp(from) > t \/ LabelMatches(item, UtcToLocal(tz, tz.forward - SecsPerMinute))

\* And the second pass over repeated labels is not made if no label matches from
\* the last minute of the first pass on.
RepeatIsMissed(item, tz, from, t) ==
  /\ RoundUp(from) < tz.rewind /\ tz.rewind <= t /\ t < tz.rewind + tz.shift
  /\ FirstLabel(item, tz, tz.rewind - SecsPerMinute) = NoMatch

IsFound(item, tz, from, t) ==
  /\ Matches(item, tz, t)
  /\ IsEpoch(item) \/ ~(PreSkipIsMissed(item, tz, from, t) \/ RepeatIsMissed(item, tz, from, t))

Crons == {schedule[i].cron : i \in {j \in DOMAIN schedule : IsValidItem(schedule[j].cron)}}

-----------------------------------------------------------------------------
\* r is the first event of an item that a search from now on finds.
IsFirst(item, r) ==
  /\ r # Throws
  /\ r # NoMatch => r >= now /\ IsFound(item, zone, now, r)
  /\ \A t \in now..(IF r = NoMatch THEN Horizon ELSE r - 1) : ~IsFound(item, zone, now, t)

\* findFirstMatch returns the very first time that matches, with carries,
\* weekdays, ends of months and labels that are skipped or repeated, whenever it
\* is called, except for the two kinds of events above.  It does not throw.
FindsFirstMatch ==
  \A item \in Crons : IsFirst(item, FindFirstMatch(item, zone, now))

\* The nodes are the events of the last lifetime seconds, of every item of the
\* schedule; none is missing where the clock changes, and none is listed twice
\* for a label that is repeated unless the item asks for it.  The search of one
\* window never throws, unless an item is malformed.
NodesAreRecentEvents ==
  LET from(i) == fetchedAt - schedule[i].lifetime + 1
      recent(i) == {t \in from(i)..fetchedAt : IsFound(schedule[i].cron, zone, from(i), t)}
  IN IF \A i \in DOMAIN schedule : IsValidScheduleItem(schedule[i])
     THEN DOMAIN served = UNION {recent(i) : i \in DOMAIN schedule}
     ELSE served = FetchError

\* An event of an item of the schedule that a fetch at this time passes over
IsMissed(item, time, t) ==
  Matches(item.cron, zone, t) /\ ~IsFound(item.cron, zone, time - item.lifetime + 1, t)

\* A node appears once: a fetch adds only nodes of times after the last fetch, or
\* ones that the last fetch had missed, and enables a node again only if an item
\* that had disabled it let go of it (its lifetime ended before that of another
\* item with the same event, or the item misses the event now).
NodesComeOnce ==
  [][served # FetchError =>
       \A t \in DOMAIN served' :
         /\ t \notin DOMAIN served =>
              t > fetchedAt \/ \E i \in DOMAIN schedule : IsMissed(schedule[i], fetchedAt, t)
         /\ t \in DOMAIN served /\ served'[t].enabled /\ ~served[t].enabled =>
              \E i \in DOMAIN schedule :
                /\ fetchedAt - t >= EnabledLifetime(schedule[i])
                /\ \/ fetchedAt' - t >= schedule[i].lifetime
                   \/ IsMissed(schedule[i], fetchedAt', t)]_vars
=============================================================================
