------------------------------ MODULE MCLoaders ------------------------------
(* Contents "A" lists its nodes, "B" gets the nodes below them from a script  *)
(* that may be cut short or not start, "C" fails to fetch any.                *)
EXTENDS Loaders

MCLabel == [x \in {<<"a", 1>>, <<"a", 2>>} |-> IF x[2] = 1 THEN "a1" ELSE "a2"]

Manual == [source |-> "manual",
           prefs |-> [x \in {"a"} |-> [children |-> {}, disabled |-> FALSE]]]
Ranged == [source |-> "range_label", parentLevel |-> 1, enabled |-> TRUE, start |-> 1, end |-> 2]
Scripted == [source |-> "script", parentLevel |-> 1]

MCConfigOf ==
  [c \in Contents |->
     CASE c = "A" -> [numLevels |-> 2, sources |-> <<Manual, Ranged>>]
       [] c = "B" -> [numLevels |-> 2, sources |-> <<Manual, Scripted>>]
       [] c = "C" -> [numLevels |-> 1, sources |-> <<Manual, Ranged>>]]

MCScripts == {[x \in {"a"} |-> {"a1"}], [x \in {"a"} |-> {}], FetchError}
=============================================================================
