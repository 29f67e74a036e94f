----------------------------- MODULE NodeFetching -----------------------------
(***************************************************************************)
(* What a NodesLoader fetches: the nodes that the node sources of a          *)
(* configuration define (nodes/).  A node is the sequence that traverseUp    *)
(* yields, itself first and the instance node last.  Nodes form a set: their *)
(* order is that of unordered maps, or random by default.                    *)
(*                                                                          *)
(* A configuration has numLevels configured levels (1..numLevels) between    *)
(* the instance level 0 and the worker level, and its sources in sequence.   *)
(* A fetch also depends on script: the names that the script prints for each *)
(* parent at that time.  Its exit status is ignored, so that a script that   *)
(* fails half way prints fewer.                                             *)
(***************************************************************************)
EXTENDS Integers, Sequences, FiniteSetsExt, Functions

CONSTANTS
  InstanceName,   \* getInstanceNodeName()
  Label,          \* the "format" of range_label: [parent name, i -> name]
  FetchError,     \* an exception of a fetcher
  Contents,       \* file contents that parse
  ConfigOf,       \* content -> the Config that parseConfigFile makes of it
  Scripts         \* what the scripts of "script" sources may print

Node(name, level, enabled, parent) ==
  <<[name |-> name, level |-> level, enabled |-> enabled]>> \o parent

NameOf(n) == n[1].name
LevelOf(n) == n[1].level
TraverseUp(n) == Range(n)

InstanceNode == Node(InstanceName, 0, TRUE, <<>>)

\* iterateOverLevel
AtLevel(nodes, level) == {n \in nodes : LevelOf(n) = level}

\* ManualFetcher: prefs maps a name to its children and says if it has a
\* "disabled" key.  Names that are nobody's child are put below the instance.
ManualNodes(numLevels, source) ==
  LET kids(name) == IF name \in DOMAIN source.prefs
                    THEN source.prefs[name].children ELSE {}
      disabled == {name \in DOMAIN source.prefs : source.prefs[name].disabled}
      tops == DOMAIN source.prefs \ UNION {kids(p) : p \in DOMAIN source.prefs}
      below(parents, level) ==
        UNION {{Node(c, level, c \notin disabled, p) : c \in kids(NameOf(p))} : p \in parents}
      added[level \in 1..numLevels] ==
        IF level = 1
        THEN {Node(t, 1, t \notin disabled, InstanceNode) : t \in tops}
        ELSE below(added[level - 1], level)
      tooDeep == IF numLevels = 0 THEN tops ELSE below(added[numLevels], numLevels + 1)
  IN IF tops = {} \/ tooDeep # {} THEN FetchError
     ELSE UNION {added[level] : level \in 1..numLevels}

\* getMyLevelAndParents, then below every parent the nodes names[parent's name]
ChildNodes(numLevels, source, nodes, enabled, names) ==
  LET level == source.parentLevel + 1
  IN IF level > numLevels THEN FetchError
     ELSE UNION {{Node(c, level, enabled, p) : c \in names[NameOf(p)]}
                 : p \in AtLevel(nodes, source.parentLevel)}

RangeLabelNodes(numLevels, source, nodes) ==
  LET parents == {NameOf(p) : p \in AtLevel(nodes, source.parentLevel)}
  IN ChildNodes(numLevels, source, nodes, source.enabled,
                [parent \in parents |->
                   {Label[parent, i] : i \in source.start..source.end}])

ScriptNodes(numLevels, source, nodes, script) ==
  IF script = FetchError THEN FetchError       \* it could not be started
  ELSE ChildNodes(numLevels, source, nodes, TRUE, script)

\* NodeFetcher::create and fetch, for one source
FetchFrom(numLevels, source, nodes, script) ==
  CASE source.source = "manual" -> ManualNodes(numLevels, source)
    [] source.source = "range_label" -> RangeLabelNodes(numLevels, source, nodes)
    [] source.source = "script" -> ScriptNodes(numLevels, source, nodes, script)
    [] source.source = "empty" -> {}
    [] OTHER -> FetchError

\* NodesLoader::_fetchNodesImpl: every source sees the nodes of the earlier ones.
FetchNodes(numLevels, sources, script) ==
  LET after[i \in 0..Len(sources)] ==
        IF i = 0 THEN {InstanceNode}
        ELSE IF after[i - 1] = FetchError THEN FetchError
        ELSE LET more == FetchFrom(numLevels, sources[i], after[i - 1], script)
             IN IF more = FetchError THEN FetchError ELSE after[i - 1] \cup more
  IN after[Len(sources)]

\* What one refresh of NodesLoader may yield
MayBeFetchedFrom(c) ==
  {FetchNodes(ConfigOf[c].numLevels, ConfigOf[c].sources, script) : script \in Scripts}
=============================================================================
