CONSTANTS
  Heads = {h1, h2}
  NoHead = NoHead
  Collections = {c1}
  NoCollection = NoCollection
  Concurrency = 1
  Events = 2
  Pushes = 1
  Closings = 0
  Abandons = 0
  Reloads = 0
  Restarts = 1
  Requests = 0
  StoreFailures = 1
SPECIFICATION MCFairSpec
PROPERTIES
  EvidenceReachesModel
  UnavailableIsRetried
CHECK_DEADLOCK FALSE
