SPECIFICATION Spec
CONSTANTS
  i1 = i1
  Instance = {i1, i2}
  Socket = {s1}
  Home <- HomeOfAll
  Call = {c1}
  None = None
  CacheTtl = 1
  Latency = 1
  MaximumDelay = 1
  Expiry = {1, 2}
  MaxTime = 2
  MaxRevision = 2
INVARIANTS StaleCopyExplained DisabledIsDisconnected
PROPERTIES StaleCopyIsShort EndsWithToken
CHECK_DEADLOCK FALSE
