CONSTANTS
  refresh = refresh
  contribution = contribution
  diff = diff
  Callers = {refresh, contribution, diff}
  Dated = {refresh}
  TimeoutOf <- MCTimeoutOf
  Profiles <- MCProfiles
  Budget = 2
  MaxRetries = 1
  Waits = {1, 2}
  RequestsOf <- MCRequestsOf
  Horizon = 3
  Events = 2
  Revocations = 2
  Agings = 1
  Cancels = 1
SYMMETRY MCSymmetry
SPECIFICATION MCSpec
INVARIANTS
  TypeOK
  
PROPERTIES
  StaleTokenIsNotBlamed
CHECK_DEADLOCK FALSE
