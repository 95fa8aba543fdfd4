SPECIFICATION SyncSpec
CONSTANTS
  MaxRevision = 2
  MaxHappenings = 3
INVARIANTS RoomCurrent SessionCurrent JoinedIsMember GhostExplained
CHECK_DEADLOCK FALSE
