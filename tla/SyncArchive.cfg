CONSTANTS
  f1 = f1
  f2 = f2
  seg = seg
  inner = inner
  Flags <- MCFlags
  Segments <- MCSegments
  UsedBy <- MCUsedBy
  NestedIn <- MCNestedIn
  MaxChanges = 2
  MaxLosses = 0
  MaxFailures = 0
  Archiving = TRUE
  EarlyPush = FALSE
SPECIFICATION Spec
INVARIANT StreamingSurvives
CHECK_DEADLOCK FALSE
