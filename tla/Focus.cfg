SPECIFICATION FairSpec
CONSTANTS
  d1 = d1
  t1 = t1
  x = x
  s1 = s1
  Day = {d1}
  Task = {t1}
  Content = {x}
  Setting = {s1}
  DefaultSetting = s1
  Count = {0}
  Backups <- TasksBackup
  Call = {c1, c2}
  None = None
  Breaks = TRUE
  MaxPomodoros = 1
  HostOps = {"merge", "replace", "exportBackup", "saveTaskRecord"}
  MaxFaults = 2
INVARIANTS RunsAlone FocusSavedOnce
PROPERTIES ImplementsStudyData BreakFollowsFocus FocusEnds
CHECK_DEADLOCK FALSE
