CONSTANTS
  Top = 4
  MaxDepth = 3
  Absent = Absent
  Relates <- MCRelates
  Raises <- MCRaises
  Users <- MCUsers
  FlagKeys = {"f1", "f2"}
  Flags <- MCCompleteFlags
  SegmentIds = {"s1", "s2"}
  SegmentData <- MCSegmentData
  MaxUpdates = 2
SPECIFICATION Spec
INVARIANT AlwaysAnswers
CHECK_DEADLOCK FALSE
