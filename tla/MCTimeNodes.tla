----------------------------- MODULE MCTimeNodes -----------------------------
(* Two years of two months, of 2 or 3 days each; a week has 3 days, a day two *)
(* hours, an hour four minutes, and a minute two seconds.                    *)
EXTENDS TimeNodes

MCDaysIn == [x \in (1..2) \X (1..2) |-> IF x = <<1, 2>> THEN 2 ELSE 3]

\* No daylight savings time, or one that begins and ends anywhere in a day, with
\* a shift of an hour or half an hour.  Some repeat the last labels of a year.
MCZones ==
  {[forward |-> 0, rewind |-> 0, shift |-> 8]}
    \cup [forward : {36, 58}, rewind : {76, 84, 104}, shift : {4, 8}]

At(v) == [values |-> v, start |-> 0, end |-> 0, period |-> 1]
Every(start, end, period) == [values |-> {}, start |-> start, end |-> end, period |-> period]
Sel(names, sels) == [n \in Range(names) |-> sels[CHOOSE i \in DOMAIN names : names[i] = n]]
Item(names, sels, fixes) == [sel |-> Sel(names, sels), fixes |-> fixes]

EveryOtherMinute ==
  Item(<<"minute">>, <<Every(1, 3, 2)>>, <<"unskip", "repeat_use_both">>)
Late ==
  Item(<<"hour", "minute">>, <<At({0}), At({0, 3})>>, <<"skip", "repeat_use_only_late">>)
Weekday ==
  Item(<<"day_of_week", "minute">>, <<At({1, 3}), At({2})>>, <<"repeat_use_only_early", "unskip">>)
LeapDay ==
  Item(<<"month", "day_of_month", "minute">>, <<At({2}), At({3}), Every(0, 3, 1)>>,
       <<"skip", "repeat_use_both">>)
FirstYearOnly ==
  Item(<<"year", "hour", "minute">>, <<At({1}), Every(1, 1, 1), Every(2, 3, 1)>>,
       <<"unskip", "repeat_use_only_late">>)
Once == [epoch |-> At({70, 90})]
Often == [epoch |-> Every(5, 150, 7)]
NoFixes == Item(<<"minute">>, <<At({1})>>, <<"skip">>)

Listed(cron, lifetime, enabledLifetime, tags) ==
  [cron |-> cron, lifetime |-> lifetime, enabledLifetime |-> enabledLifetime, tags |-> tags]

MCSchedules ==
  {<<Listed(EveryOtherMinute, 9, -1, {"m"}), Listed(Late, 20, 4, {"l"})>>,
   <<Listed(Weekday, 20, 10, {"w"}), Listed(EveryOtherMinute, 6, 3, {})>>,
   <<Listed(LeapDay, 6, -1, {}), Listed(Once, 20, 2, {"o"})>>,
   <<Listed(FirstYearOnly, 14, 6, {"y"}), Listed(Often, 8, 7, {})>>,
   <<Listed(Late, 5, -1, {}), Listed(NoFixes, 5, -1, {})>>}
=============================================================================
