SPECIFICATION Spec
CONSTANTS
  Room = {r1}
  User = {u1, u2, u3}
  Request = {q1, q2}
  Call = {c1, c2, c3}
  None = None
  MaxVersion <- Lives
  LongestLife = 5
  MayCrash = TRUE
SYMMETRY Symmetry
INVARIANTS ExactlyOneOwner OnePendingPerUser
PROPERTIES AdmittedByApproval ClosedRoomQuiesces RequestSettles ImplementsAggregate
CHECK_DEADLOCK FALSE
