CONSTANTS
  Events = {e1}
  Sendable = {e1}
  Serializable = {e1}
  Workers = {w1}
  Stoppers = {s1}
  InboxCapacity = 2
  BatchSize = 2
  PartSize = 1
  MaxLeaks = 1
SPECIFICATION FairSpec
PROPERTY
  StopAlwaysReturns
CHECK_DEADLOCK FALSE
