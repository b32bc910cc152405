CONSTANTS
  u1 = u1
  g1 = g1
  p1 = p1
  f1 = f1
  f2 = f2
  b1 = b1
  b2 = b2
  h1 = h1
  h2 = h2
  review = review
  comment = comment
  Users = {u1}
  Groups = {g1}
  MemberOf <- MCMemberOf
  Policies <- MCPolicies
  PullRequests = {p1}
  Flows = {f1, f2}
  Callbacks = {b1, b2}
  Requests = {h1, h2}
  Actors = {u1}
  Activities = {review, comment}
  ActorOf <- MCActorOf
  PullRequestOf <- MCPullRequestOf
  ThreadOn = 1
  Resolver = u1
  Overlap = 1
  Horizon = 3
  Events = 5
  Logins = 2
  Asks = 2
  Ticks = 3
  Acts = 2
  Threads = 2
  Collections = 2
  Changes = 2
  Stops = 1
SYMMETRY MCSymmetry
SPECIFICATION MCSpec
INVARIANTS
  DeletedProgressStaysDeleted
CHECK_DEADLOCK FALSE
