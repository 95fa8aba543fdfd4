SPECIFICATION FairSpec
CONSTANTS
  u1 = u1
  User = {u1}
  Socket = {s1}
  UserOf <- OneUser
  Call = {c1, c2}
  None = None
INVARIANT StraySubscriptionRaced
PROPERTIES EvictionArrives GoneSocketsFade
CHECK_DEADLOCK FALSE
