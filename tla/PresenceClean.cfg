SPECIFICATION Spec
CONSTANTS
  Socket = {s1}
  Leaver = {}
  Call = {c1, c2}
  None = None
  TtlSeconds = 2
  RefreshSeconds = 1
SYMMETRY Symmetry
INVARIANT ConnectedIsIndexed
CHECK_DEADLOCK FALSE
