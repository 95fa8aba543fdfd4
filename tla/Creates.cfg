SPECIFICATION Spec
CONSTANTS
  Kind = {"sessions.start", "chat.send", "rooms.create"}
  User = {u1}
  Title = {t1}
  Text = {x1, x2}
  StudyRoom = {r1}
  Key = {k1}
  Id = {i1, i2}
  Call = {c1, c2}
  None = None
  RetentionDays = 1
  MaxDay = 2
SYMMETRY Symmetry
INVARIANTS OneActiveSession OneCreatePerKeyAndDay RepliesWithOwnRow AnnouncedOnce
PROPERTY FinishedIsFinal
CHECK_DEADLOCK FALSE
