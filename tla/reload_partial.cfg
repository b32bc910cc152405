CONSTANTS
  c1 = c1
  c2 = c2
  none = none
  Collections <- MCCollections
  NoCollection = none
  PRs <- MCPRs
  Cites <- MCCites
  Inputs <- MCInputs
  Configs <- MCConfigs
  ChunkSize = 1
  HasFallback <- MCHasFallback
  Reloaders <- MCReloaders
  Events = 2
SPECIFICATION MCSpec
INVARIANTS
  ReloadIsAtomic
CHECK_DEADLOCK FALSE
