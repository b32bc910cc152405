CONSTANTS
  c1 = c1
  c2 = c2
  PRs <- MCPRs
  Collections <- MCCollections
  Selects <- MCSelects
  InitiallyIn <- MCCollections
  BatchSize = 1
  MaxVersion = 2
  Events = 5
  Ticks = 2
  Requests = 1
  Stops = 1
  Reloads = 2
  Changes = 1
  Failures = 1
  Outages = 0
  MaxRetries = 2
SPECIFICATION MCSpec
INVARIANTS
  TypeOK
  GenerationDiscipline
  ForcedSnapshotIsUncached
  SnapshotCoversDiscovery
  StagedContentIsVisible
  QueuedForceIsHonoured
  EarlyTickIsServed
  OnlyNarrowingExits
PROPERTIES
  CompletedItemsSurvive
  RemovalsWaitForSnapshot
CHECK_DEADLOCK FALSE
