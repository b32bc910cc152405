CONSTANTS
  c1 = c1
  c2 = c2
  PRs <- MCPRs
  Collections <- MCCollections
  Selects <- MCSelects
  InitiallyIn <- MCInitiallyIn
  BatchSize = 1
  MaxVersion = 2
  Events = 2
  Ticks = 1
  Requests = 0
  Stops = 0
  Reloads = 0
  Changes = 0
  Failures = 0
  Outages = 1
  MaxRetries = 2
SPECIFICATION MCFairSpec
PROPERTIES
  OutageEndsJob
CHECK_DEADLOCK FALSE
