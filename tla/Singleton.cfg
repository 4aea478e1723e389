CONSTANTS
  Threads = {t1, t2}
  MaxCalls = 4
  MaxNested = 2
  MaxFailures = 1
SPECIFICATION FairSpec
INVARIANTS
  TypeOK
  StopIsThorough
  SingletonServes
  NoLeftovers
PROPERTY EverybodyReturns
CHECK_DEADLOCK FALSE
