---------------------------- MODULE MCFocusTimer ----------------------------
(***************************************************************************)
(* FocusTimer for TLC: one backup, with tasks but without day records, so  *)
(* that a merge keeps a record, a replace removes it, and both write more  *)
(* than one key.                                                           *)
(***************************************************************************)
EXTENDS FocusTimer

CONSTANTS d1, t1, x, s1

TasksBackup ==
  {[k \in Key |-> CASE k = TaskKey(d1)   -> [t \in Task |-> IF t = t1 THEN x ELSE None]
                    [] k = SettingsKey   -> s1
                    [] OTHER             -> None]}
=============================================================================
