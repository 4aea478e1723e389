CONSTANTS
  f1 = f1
  f2 = f2
  seg = seg
  inner = inner
  Flags <- MCFlags
  Segments <- MCSegments
  UsedBy <- MCUsedBy
  NestedIn <- MCNestedIn
  MaxChanges = 4
  MaxLosses = 1
  MaxFailures = 1
  Archiving = TRUE
  EarlyPush = TRUE
SPECIFICATION Spec
INVARIANTS
  HighWater
  ReportedTruly
PROPERTY NeverOlder
CHECK_DEADLOCK FALSE
