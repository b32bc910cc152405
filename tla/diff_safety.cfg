CONSTANTS
  Heads = {h1, h2}
  NoHead = NoHead
  Collections = {c1}
  NoCollection = NoCollection
  Concurrency = 2
  Events = 2
  Pushes = 2
  Closings = 1
  Abandons = 1
  Reloads = 1
  Restarts = 1
  Requests = 1
  StoreFailures = 1
SPECIFICATION MCSpec
INVARIANTS
  TypeOK
  RunningHasClaim
  EvidenceOfItsHead
PROPERTIES
  RecordedForStoredHead
  ForcedIsNotSkipped
CHECK_DEADLOCK FALSE
