CONSTANTS
  c1 = c1
  c2 = c2
  PRs <- MCPRs
  Collections <- MCCollections
  Selects <- MCSelects
  InitiallyIn <- MCCollections
  BatchSize = 1
  MaxVersion = 2
  Events = 6
  Ticks = 2
  Requests = 0
  Stops = 1
  Reloads = 0
  Changes = 1
  Failures = 1
  Outages = 1
  MaxRetries = 2
SPECIFICATION MCFairSpec
PROPERTIES
  JobFinishes
  ClosedLeavesView
  OutageEndsGeneration
CHECK_DEADLOCK FALSE
