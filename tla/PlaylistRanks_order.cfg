SPECIFICATION Spec
CONSTANTS
  t1 = t1
  t2 = t2
  p1 = p1
  r1 = r1
  r2 = r2
  Absent = Absent
  NoOne = NoOne
  Tracks = {t1, t2}
  Unmatched = {p1}
  Vanishing = {t1, t2}
  Requests = {r1, r2}
  MaxAdd = 2
  Base = 3
  MaxDepth = 2
INVARIANT DistinctRanks
PROPERTIES MoveLands ImplementsList
SYMMETRY Symmetry
CHECK_DEADLOCK FALSE
