SPECIFICATION Spec
CONSTANTS
  p1 = p1  p2 = p2  p3 = p3
  None = None
  Posts = {p1, p2, p3}
  MaxPosts = 2
  CompactEvery = 3
  MaxTime = 2
  MaxLines = 5
  Faults = {"torn"}
SYMMETRY Symm
INVARIANTS
  TornIgnored
