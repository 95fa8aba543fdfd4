SPECIFICATION Spec
CONSTANTS
  Caller = {"u1", "u2"}
  Key <- Keys
  GuardsOf <- Guards
  Limit <- Limits
  Call = {c1, c2}
  Window = 3
  Second = 2
  Skew = 1
  MaxTime = 4
  MaxCalls = 4
SYMMETRY Symmetry
INVARIANT WindowQuota
PROPERTY HintSuffices
CHECK_DEADLOCK FALSE
