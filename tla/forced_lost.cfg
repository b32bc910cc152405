CONSTANTS
  c1 = c1
  c2 = c2
  PRs <- MCPRs
  Collections <- MCCollections
  Selects <- MCSelects
  InitiallyIn <- MCInitiallyIn
  BatchSize = 1
  MaxVersion = 2
  Events = 2
  Ticks = 1
  Requests = 1
  Stops = 0
  Reloads = 0
  Changes = 0
  Failures = 0
  Outages = 0
  MaxRetries = 2
SPECIFICATION MCSpec
INVARIANTS
  ForcedRequestIsHonoured
CHECK_DEADLOCK FALSE
