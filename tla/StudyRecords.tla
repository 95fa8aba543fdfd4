---------------------------- MODULE StudyRecords ----------------------------
(***************************************************************************)
(* The data of one study scope (a namespace and a user): per day a record  *)
(* of focus sessions and a list of tasks, and the settings.  What one      *)
(* mutation or one import makes of them, as pure operators that the store  *)
(* and the promise it gives (StudyData) share.  Daily goals are written    *)
(* like day records that nobody increments, and are left out.              *)
(***************************************************************************)
EXTENDS Naturals

CONSTANTS
  Day, Task,
  Content,          \* what a task may say
  Setting,          \* values of the focus settings
  DefaultSetting,   \* StudyFocusSettings()
  Count,            \* the pomodoro counts a host or a backup writes
  Backups,          \* the backups that are imported
  None              \* no value: the key is absent

\* The keys of SharedPreferences, without the prefix of the scope.
RecordKey(d) == <<"record", d>>
TaskKey(d)   == <<"task", d>>
SettingsKey  == <<"settings", None>>
Key == {RecordKey(d) : d \in Day} \cup {TaskKey(d) : d \in Day} \cup {SettingsKey}

\* Task lists by id; the order of a list tells nothing apart.
TaskList == [Task -> Content \cup {None}]

ValuesOf(k) == CASE k[1] = "record"   -> Nat
                 [] k[1] = "task"     -> TaskList
                 [] k[1] = "settings" -> Setting

IsScope(s) == /\ DOMAIN s = Key
              /\ \A k \in Key : s[k] = None \/ s[k] \in ValuesOf(k)

\* A backup lists the days it has data of, and always the settings.
IsBackup(b) == IsScope(b) /\ b[SettingsKey] # None

ASSUME RecordsAssumption ==
  /\ None \notin Day \cup Task \cup Content \cup Setting \cup Nat \cup TaskList
  /\ DefaultSetting \in Setting
  /\ Count \subseteq Nat
  /\ \A b \in Backups : IsBackup(b)

Empty == [k \in Key |-> None]

-----------------------------------------------------------------------------
\* loadDayRecord and loadTaskRecords of an absent key.
Counted(v) == IF v = None THEN 0 ELSE v
Listed(v)  == IF v = None THEN [t \in Task |-> None] ELSE v

\* The mutations of one key: the operation, its key, and what it is given.
Mutations ==
  [op: {"addFocusSession"}, key: {RecordKey(d) : d \in Day}, arg: {None}]
  \cup [op: {"saveDayRecord"}, key: {RecordKey(d) : d \in Day}, arg: Count]
  \cup [op: {"saveTaskRecord"}, key: {TaskKey(d) : d \in Day}, arg: Task \X Content]
  \cup [op: {"deleteTaskRecord"}, key: {TaskKey(d) : d \in Day}, arg: Task]
  \cup [op: {"saveSettings"}, key: {SettingsKey}, arg: Setting]

\* What mutation m writes in place of value v.
Outcome(m, v) ==
  CASE m.op = "addFocusSession"  -> Counted(v) + 1
    [] m.op = "saveTaskRecord"   -> [Listed(v) EXCEPT ![m.arg[1]] = m.arg[2]]
    [] m.op = "deleteTaskRecord" -> [Listed(v) EXCEPT ![m.arg] = None]
    [] m.op \in {"saveDayRecord", "saveSettings"} -> m.arg

Modes == {"merge", "replace"}

\* A merge keeps the tasks of the day that the backup does not name.
MergedTasks(v, imported) ==
  [t \in Task |-> IF imported[t] = None THEN Listed(v)[t] ELSE imported[t]]

\* What an import writes under a key that the backup lists.
ImportedValue(b, mode, k, v) ==
  IF k[1] = "task" /\ mode = "merge" THEN MergedTasks(v, b[k]) ELSE b[k]

ListedIn(b) == {k \in Key : b[k] # None}

\* The keys an import changes in scope s.
Touched(b, mode, s) ==
  ListedIn(b) \cup IF mode = "replace" THEN {k \in Key : s[k] # None} ELSE {}

\* Scope s after a whole import.
Imported(b, mode, s) ==
  [k \in Key |-> CASE k \in ListedIn(b)                        -> ImportedValue(b, mode, k, s[k])
                   [] k \notin ListedIn(b) /\ mode = "replace" -> None
                   [] OTHER                                    -> s[k]]
=============================================================================
