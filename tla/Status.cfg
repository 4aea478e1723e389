CONSTANTS
  Updaters = {u1, u2}
  Listeners = {l1}
  Waiters = {w1, w2}
  TimedWaiters = {w2}
  MaxUpdates = 3
SPECIFICATION FairSpec
INVARIANTS
  TypeOK
  OnePublisher
  NoMissedWakeup
PROPERTIES
  ImplementsFeed
  EventuallyHeard
  WaitersReturn
