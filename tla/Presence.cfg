SPECIFICATION Spec
CONSTANTS
  Socket = {s1, s2}
  Leaver = {s2}
  Call = {c1, c2}
  None = None
  TtlSeconds = 2
  RefreshSeconds = 1
SYMMETRY Symmetry
INVARIANT RefreshedStaysOnline
CHECK_DEADLOCK FALSE
