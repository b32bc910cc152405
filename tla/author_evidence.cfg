CONSTANTS
  a1 = a1
  a2 = a2
  c1 = c1
  c2 = c2
  r1 = r1
  r2 = r2
  Authors = {a1, a2}
  Collections = {c1, c2}
  Repositories = {r1, r2}
  Configures <- MCConfigures
  Histories <- MCHistories
  Resets <- MCResets
  Established = 1
  Interval = 2
  Concurrency = 2
  MaxDiffs = 1
  Horizon = 3
  Events = 3
  Asks = 3
  Reloads = 1
  Snapshots = 1
  Stops = 1
SYMMETRY MCSymmetry
SPECIFICATION MCSpec
INVARIANTS
  TypeOK
  NoKindStarves
  PendingIsUnderWay
  NewHasNoHistory
PROPERTIES
  PublicQueueWaits
  DeferredGoBehind
CHECK_DEADLOCK FALSE
