SPECIFICATION Spec
CONSTANTS
  Proc = {p1, p2, p3}
  Scope = {s1}
  MaxFence = 3
  Kept = 1
  Limit = 2
SYMMETRY Symmetry
INVARIANTS HeadLoads
PROPERTIES PublishedInOrder
