CONSTANTS
  k1 = k1
  k2 = k2
  l1 = l1
  l2 = l2
  Keys = {k1, k2}
  Listeners = {l1, l2}
  Values <- MCValues
  KeyOf <- MCKeyOf
  MaybeListeners = {l2}
  Stoppers = {s1}
  MaxCopies = 1
  MaxItems = 2
SPECIFICATION FairSpec
INVARIANTS
  TypeOK
  NothingStranded
  NobodySkipped
  Knows
PROPERTIES
  ThreadEnds
  CatchesUp
CHECK_DEADLOCK FALSE
