SPECIFICATION LoadersSpec
CONSTANTS
  InstanceName = "i"
  Label <- MCLabel
  Scripts <- MCScripts
  Contents = {"A", "B", "C"}
  ConfigOf <- MCConfigOf
  Unparsable = Unparsable
  Absent = Absent
  NoData = NoData
  FetchError = FetchError
  MaxTime = 3
  MaxWrites = 3
  MaxOddWrites = 1
INVARIANTS ServedConfigIsCurrent
PROPERTY LoadersCatchUp
CHECK_DEADLOCK FALSE
