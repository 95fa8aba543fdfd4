----------------------------- MODULE StudyData -----------------------------
(***************************************************************************)
(* What the study store promises: the data of a scope changes by whole     *)
(* mutations and whole imports, whatever runs at once; a mutation that     *)
(* fails happened or did not; an import that fails did not.  A restart     *)
(* forgets at most what the platform failed to save.  Only a crash in the  *)
(* middle of an import, or a failure of its rollback, leaves a part of it. *)
(***************************************************************************)
EXTENDS StudyRecords

VARIABLES
  data,      \* the scope as the program sees it between operations
  unsaved,   \* the keys whose last change may be missing on the disk
  torn       \* an import has been left half-way

vars == <<data, unsaved, torn>>

Init ==
  /\ data = Empty
  /\ unsaved = {}
  /\ torn = FALSE

After(m) == [data EXCEPT ![m.key] = Outcome(m, @)]

Mutate(m) ==
  /\ data' = After(m)
  /\ unsaved' = unsaved \ {m.key}
  /\ UNCHANGED torn

FailMutation(m) ==
  /\ data' \in {data, After(m)}
  /\ unsaved' = unsaved \cup {m.key}
  /\ UNCHANGED torn

Import(b, mode) ==
  /\ data' = Imported(b, mode, data)
  /\ unsaved' \subseteq unsaved
  /\ UNCHANGED torn

\* An import or a rollback writes keys again that had not been saved.
SaveAgain ==
  /\ unsaved' \subseteq unsaved
  /\ UNCHANGED <<data, torn>>

\* Each key of the import has its old or its new value.
Tear(b, mode) ==
  /\ torn' = TRUE
  /\ \A k \in Key : data'[k] \in {data[k], Imported(b, mode, data)[k]}

FailRollback(b, mode) ==
  /\ Tear(b, mode)
  /\ unsaved \subseteq unsaved'

Restart ==
  /\ \A k \in Key \ unsaved : data'[k] = data[k]
  /\ unsaved' = {}
  /\ UNCHANGED torn

TearAndRestart(b, mode) ==
  /\ torn' = TRUE
  /\ \A k \in Key \ unsaved : data'[k] \in {data[k], Imported(b, mode, data)[k]}
  /\ unsaved' = {}

Next ==
  \/ \E m \in Mutations : Mutate(m) \/ FailMutation(m)
  \/ \E b \in Backups, mode \in Modes :
       Import(b, mode) \/ FailRollback(b, mode) \/ TearAndRestart(b, mode)
  \/ SaveAgain
  \/ Restart

Spec == Init /\ [][Next]_vars
=============================================================================
