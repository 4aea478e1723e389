CONSTANTS
  Top = 4
  MaxDepth = 3
  Absent = Absent
  Relates <- MCRelates
  Raises <- MCRaises
  Users <- MCUsers
  FlagKeys = {"f1", "f2"}
  Flags <- MCFlags
  SegmentIds = {"s1", "s2"}
  SegmentData <- MCSegmentData
  MaxUpdates = 2
SPECIFICATION Spec
INVARIANTS
  AnswersMeaning
  BulkIsWhole
CHECK_DEADLOCK FALSE
