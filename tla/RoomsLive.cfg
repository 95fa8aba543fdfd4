SPECIFICATION FairSpec
CONSTANTS
  Room = {r1, r2}
  User = {u1, u2}
  Request = {q1}
  Call = {c1, c2}
  None = None
  MaxVersion <- Lives
  LongestLife = 4
  MayCrash = FALSE
PROPERTY RemovalEvictsInLiveRoom
INVARIANT CallsAgreeWithRows
CHECK_DEADLOCK FALSE
