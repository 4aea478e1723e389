CONSTANTS
  MaxFaults = 3
  MaxExponent = 1
  Chosen = {"t1"}
  MaxTurns = 0
SPECIFICATION HostSpec
PROPERTY Resumes
CHECK_DEADLOCK FALSE
