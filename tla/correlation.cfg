CONSTANTS
  c1 = c1
  c2 = c2
  none = none
  Collections <- MCCollections
  NoCollection = none
  PRs <- MCPRs
  Cites <- MCCites
  Inputs <- MCInputs
  Configs <- MCConfigs
  ChunkSize = 1
  HasFallback <- MCHasFallback
  Reloaders <- MCReloaders
  Events = 2
SPECIFICATION MCFairSpec
INVARIANTS
  TypeOK
  OnlyReloadsExit
  Installed
PROPERTIES
  OnlyReloadRevives
  GroupsKeepPromise
  GroupsCatchUp
CHECK_DEADLOCK FALSE
