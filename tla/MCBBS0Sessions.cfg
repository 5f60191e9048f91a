SPECIFICATION Spec
CONSTANTS
  me = me
  others = others
  p1 = p1
  p2 = p2
  p3 = p3
  Clients = {me}
  Others = {others}
  Posts = {p1, p2, p3}
  Author <- MCAuthor
  Required <- MCRequired
  Credentials = {0, 1}
  Operator = 1
  MaxPosts = 2
  ReplayTime = 1
  PostInterval = 1
  MaxTime = 2
  None = None
SYMMETRY MCSymmetry
INVARIANTS
  TypeOK
  NothingMissed
  SubscriptionKept
  NobodyIsOverlooked
PROPERTIES
  OnlyPermitted
