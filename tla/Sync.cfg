CONSTANTS
  f1 = f1
  f2 = f2
  seg = seg
  inner = inner
  Flags <- MCFlags
  Segments <- MCNested
  UsedBy <- MCNestedUsedBy
  NestedIn <- MCNestedNestedIn
  MaxChanges = 4
  MaxLosses = 2
  MaxFailures = 0
  Archiving = FALSE
  EarlyPush = FALSE
SPECIFICATION FairSpec
INVARIANTS
  TypeOK
  NothingMissed
  EveryChangeAnnounced
PROPERTIES
  ImplementsReplica
  Converges
CHECK_DEADLOCK FALSE
