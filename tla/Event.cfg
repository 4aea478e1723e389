CONSTANTS
  Events = {e1, bad, quiet}
  Sendable = {e1, bad}
  Serializable = {e1, quiet}
  Workers = {w1, w2}
  Stoppers = {s1, s2}
  InboxCapacity = 2
  BatchSize = 2
  PartSize = 1
  MaxLeaks = 1
SPECIFICATION FairSpec
INVARIANTS
  TypeOK
  ExactlyOnePlace
  PermitsAccounted
  StoppedMeansDone
PROPERTIES
  ImplementsSink
  ShutdownEndsUnlessLeaked
CHECK_DEADLOCK FALSE
