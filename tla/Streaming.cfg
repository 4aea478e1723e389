CONSTANTS
  MaxFaults = 3
  MaxExponent = 1023
  Chosen = {"t1"}
  MaxTurns = 2
SPECIFICATION HostSpec
INVARIANTS
  HostTypeOK
  OneLateStart
  CleanSlate
  GivesUpOnlyWhenOff
  TimeoutRestored
PROPERTIES
  Resumes
  StopEndsThreads
CHECK_DEADLOCK FALSE
