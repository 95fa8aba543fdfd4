----------------------------- MODULE StudyStore -----------------------------
(***************************************************************************)
(* SharedPreferencesStudyStore and _StudyStoreMutationCoordinator of       *)
(* persistence.dart: the mutations, exports and imports of one scope, by   *)
(* any number of store instances.  A step is what runs between two awaits. *)
(*                                                                         *)
(* The plugin (external) answers reads from a cache that a write changes   *)
(* at once, and answers the write when the platform has saved it or has    *)
(* failed to.                                                              *)
(***************************************************************************)
EXTENDS StudyRecords

CONSTANTS
  Call,        \* the operations that can be under way at once
  HostOps,     \* the operations the host submits
  MaxFaults    \* bound on failed writes and crashes together

ASSUME StoreAssumption == None \notin Call

VARIABLES
  cache,       \* what preferences.getString answers
  disk,        \* what survives the process
  scopeTail,   \* _scopeTails of the scope: the last exclusive operation
  dateTail,    \* _dateTails of the scope, by day
  call,        \* the progress of the operations
  unsaved,     \* history: keys whose last write failed
  torn,        \* history: an import has been left half-way
  faults       \* the failed writes and crashes so far

storeVars == <<cache, disk, scopeTail, dateTail, call, unsaved, torn, faults>>

(***************************************************************************)
(* An operation waits for its barriers, reads (at "waiting"), and writes   *)
(* the keys in todo one after the other ("ready", "writing"); an import    *)
(* that fails writes the snapshot back ("undoing", "restoring").           *)
(***************************************************************************)
NoCall ==
  [op |-> "none", key |-> None, arg |-> None, at |-> "idle", barrier |-> {},
   plan |-> <<>>, before |-> <<>>, todo |-> {}, writing |-> None]

At(c, stage) == call[c].at = stage
IsImport(c) == call[c].op \in Modes
IsScopeOp(op) == op \in Modes \cup {"exportBackup", "saveSettings"}
DayOf(k) == k[2]

StoreInit ==
  /\ cache = Empty
  /\ disk = Empty
  /\ scopeTail = None
  /\ dateTail = [d \in Day |-> None]
  /\ call = [c \in Call |-> NoCall]
  /\ unsaved = {}
  /\ torn = FALSE
  /\ faults = 0

-----------------------------------------------------------------------------
(***************************************************************************)
(* _StudyStoreMutationCoordinator.                                         *)
(***************************************************************************)

Enter(c, op, key, arg, barriers) ==
  /\ At(c, "idle")
  /\ call' = [call EXCEPT ![c] =
       [op |-> op, key |-> key, arg |-> arg, at |-> "waiting",
        barrier |-> barriers \ {None},
        plan |-> <<>>, before |-> <<>>, todo |-> {}, writing |-> None]]
  /\ UNCHANGED <<cache, disk, unsaved, torn, faults>>

\* Operations of one day wait for the last exclusive one and for each other.
RunDate(c, op, key, arg) ==
  /\ Enter(c, op, key, arg, {scopeTail, dateTail[DayOf(key)]})
  /\ dateTail' = [dateTail EXCEPT ![DayOf(key)] = c]
  /\ UNCHANGED scopeTail

\* Fault: an exclusive operation waits for the last one of its kind only.
RunScopeBehindScopes(c, op, key, arg) ==
  /\ Enter(c, op, key, arg, {scopeTail})
  /\ scopeTail' = c
  /\ UNCHANGED dateTail

\* Exclusive operations wait for everything.
RunScope(c, op, key, arg) ==
  /\ Enter(c, op, key, arg, {scopeTail} \cup {dateTail[d] : d \in Day})
  /\ scopeTail' = c
  /\ UNCHANGED dateTail

Cleared(tail, c) == IF tail = c THEN None ELSE tail

\* The operation has answered or thrown: its tail completes either way.
Finish(c) ==
  /\ call' = [d \in Call |-> IF d = c THEN NoCall
                                      ELSE [call[d] EXCEPT !.barrier = @ \ {c}]]
  /\ scopeTail' = Cleared(scopeTail, c)
  /\ dateTail' = [d \in Day |-> Cleared(dateTail[d], c)]

\* The operation goes on, and stays last of its queues if it was.
GoOn(c, stage, plan, before, todo, writing) ==
  /\ call' = [call EXCEPT ![c] =
       [op |-> call[c].op, key |-> call[c].key, arg |-> call[c].arg,
        at |-> stage, barrier |-> call[c].barrier,
        plan |-> plan, before |-> before, todo |-> todo, writing |-> writing]]
  /\ UNCHANGED <<scopeTail, dateTail>>

Released(c) == At(c, "waiting") /\ call[c].barrier = {}

-----------------------------------------------------------------------------
(***************************************************************************)
(* The calls of the host.                                                  *)
(***************************************************************************)

AddFocusSession(c, d) == RunDate(c, "addFocusSession", RecordKey(d), None)

SubmitMutation(c) ==
  \E m \in Mutations :
    /\ m.op \in HostOps
    /\ IF IsScopeOp(m.op) THEN RunScope(c, m.op, m.key, m.arg)
                          ELSE RunDate(c, m.op, m.key, m.arg)

ImportBackup(c, b, mode) == mode \in HostOps /\ RunScope(c, mode, None, b)

ExportBackup(c) ==
  "exportBackup" \in HostOps /\ RunScope(c, "exportBackup", None, None)

-----------------------------------------------------------------------------
(***************************************************************************)
(* The operations.                                                         *)
(***************************************************************************)

\* A mutation computes what it will write from what it reads now.
LoadKey(c) ==
  LET k == call[c].key
  IN  /\ Released(c)
      /\ k # None
      /\ GoOn(c, "ready", [j \in {k} |-> Outcome(call[c], cache[k])],
              [j \in {k} |-> cache[k]], {k}, None)
      /\ UNCHANGED <<cache, disk, unsaved, torn, faults>>

\* An export reads everything without an await.
Export(c) ==
  /\ Released(c)
  /\ call[c].op = "exportBackup"
  /\ Finish(c)
  /\ UNCHANGED <<cache, disk, unsaved, torn, faults>>

\* A merge reads the tasks of each day of the backup, with an await each.
LoadTasks(c) ==
  LET b == call[c].arg
  IN  /\ Released(c)
      /\ IsImport(c)
      /\ GoOn(c, "loaded",
              [k \in ListedIn(b) |-> ImportedValue(b, call[c].op, k, cache[k])],
              <<>>, {}, None)
      /\ UNCHANGED <<cache, disk, unsaved, torn, faults>>

\* The keys a replace removes, and the snapshot of all that will be touched.
Snapshot(c) ==
  LET values  == call[c].plan
      touched == Touched(call[c].arg, call[c].op, cache)
  IN  /\ At(c, "loaded")
      /\ GoOn(c, "ready",
              [k \in touched |-> IF k \in DOMAIN values THEN values[k] ELSE None],
              [k \in touched |-> cache[k]], touched, None)
      /\ UNCHANGED <<cache, disk, unsaved, torn, faults>>

\* An import writes day records before tasks before the settings; the order
\* of the days is that of the backup.
Rank(k) == CASE k[1] = "record" -> 1 [] k[1] = "task" -> 2 [] k[1] = "settings" -> 3
FirstOf(keys) == CHOOSE k \in keys : \A j \in keys : Rank(k) <= Rank(j)

\* setString or remove of the next key, removals first.
Write(c) ==
  LET removals == {k \in call[c].todo : call[c].plan[k] = None}
      k == FirstOf(IF removals # {} THEN removals ELSE call[c].todo)
  IN  /\ At(c, "ready")
      /\ cache' = [cache EXCEPT ![k] = call[c].plan[k]]
      /\ GoOn(c, "writing", call[c].plan, call[c].before, call[c].todo, k)
      /\ UNCHANGED <<disk, unsaved, torn, faults>>

\* One key is done; the operation goes on at the stage or has ended.
DoneWith(c, k, stage) ==
  IF call[c].todo = {k}
    THEN Finish(c)
    ELSE GoOn(c, stage, call[c].plan, call[c].before, call[c].todo \ {k}, None)

\* The platform has saved the key.
Saved(c) ==
  LET k == call[c].writing
  IN  /\ At(c, "writing")
      /\ disk' = [disk EXCEPT ![k] = call[c].plan[k]]
      /\ unsaved' = unsaved \ {k}
      /\ DoneWith(c, k, "ready")
      /\ UNCHANGED <<cache, torn, faults>>

Fault == faults < MaxFaults /\ faults' = faults + 1

\* What a failed write leaves in the cache is up to the plugin.
CacheAfterFailure(c) ==
  \E v \in {call[c].plan[call[c].writing], call[c].before[call[c].writing]} :
    cache' = [cache EXCEPT ![call[c].writing] = v]

\* Fault: the tail of a mutation that throws never completes.
MutationFailsTail(c) ==
  /\ At(c, "writing") /\ ~IsImport(c)
  /\ Fault
  /\ CacheAfterFailure(c)
  /\ unsaved' = unsaved \cup {call[c].writing}
  /\ call' = [call EXCEPT ![c] = NoCall]
  /\ scopeTail' = Cleared(scopeTail, c)
  /\ dateTail' = [d \in Day |-> Cleared(dateTail[d], c)]
  /\ UNCHANGED <<disk, torn>>

MutationFails(c) ==
  /\ At(c, "writing") /\ ~IsImport(c)
  /\ Fault
  /\ CacheAfterFailure(c)
  /\ unsaved' = unsaved \cup {call[c].writing}
  /\ Finish(c)
  /\ UNCHANGED <<disk, torn>>

ImportFails(c) ==
  /\ At(c, "writing") /\ IsImport(c)
  /\ Fault
  /\ CacheAfterFailure(c)
  /\ GoOn(c, "undoing", call[c].plan, call[c].before, DOMAIN call[c].before, None)
  /\ UNCHANGED <<disk, unsaved, torn>>

\* Fault: the rollback writes old values back but removes no new key.
RestoreValuesOnly(c) ==
  LET k == FirstOf(call[c].todo)
      previous == call[c].before[k]
  IN  /\ At(c, "undoing")
      /\ IF previous = None
           THEN /\ DoneWith(c, k, "undoing")
                /\ UNCHANGED cache
           ELSE /\ cache' = [cache EXCEPT ![k] = previous]
                /\ GoOn(c, "restoring", call[c].plan, call[c].before, call[c].todo, k)
      /\ UNCHANGED <<disk, unsaved, torn, faults>>

\* _restoreSnapshot: a key that was absent and is absent needs no write.
Restore(c) ==
  LET k == FirstOf(call[c].todo)
      previous == call[c].before[k]
  IN  /\ At(c, "undoing")
      /\ IF previous = None /\ cache[k] = None
           THEN /\ DoneWith(c, k, "undoing")
                /\ UNCHANGED cache
           ELSE /\ cache' = [cache EXCEPT ![k] = previous]
                /\ GoOn(c, "restoring", call[c].plan, call[c].before, call[c].todo, k)
      /\ UNCHANGED <<disk, unsaved, torn, faults>>

Restored(c) ==
  LET k == call[c].writing
  IN  /\ At(c, "restoring")
      /\ disk' = [disk EXCEPT ![k] = call[c].before[k]]
      /\ unsaved' = unsaved \ {k}
      /\ DoneWith(c, k, "undoing")
      /\ UNCHANGED <<cache, torn, faults>>

\* "Study backup import failed and rollback failed": the rest stays as it is.
RollbackFails(c) ==
  /\ At(c, "restoring")
  /\ Fault
  /\ CacheAfterFailure(c)
  /\ unsaved' = unsaved \cup DOMAIN call[c].before
  /\ torn' = TRUE
  /\ Finish(c)
  /\ UNCHANGED disk

-----------------------------------------------------------------------------
\* The app is killed: what is on the disk is what the next start reads.
HalfWay(c) == IsImport(c) /\ call[c].before # <<>>

Crash ==
  /\ Fault
  /\ cache' = disk
  /\ call' = [c \in Call |-> NoCall]
  /\ scopeTail' = None
  /\ dateTail' = [d \in Day |-> None]
  /\ unsaved' = {}
  /\ torn' = (torn \/ \E c \in Call : HalfWay(c))
  /\ UNCHANGED disk

\* The steps of an operation that does not end with it, and those that
\* answer its caller.
Proceed(c) ==
  \/ LoadKey(c) \/ LoadTasks(c) \/ Snapshot(c)
  \/ Write(c)
  \/ ImportFails(c)
  \/ Restore(c)
  \/ Restored(c) \/ RollbackFails(c)
  \/ Export(c)

Submit(c) ==
  \/ SubmitMutation(c)
  \/ ExportBackup(c)
  \/ \E b \in Backups, mode \in Modes : ImportBackup(c, b, mode)
Answer(c) == Saved(c) \/ MutationFails(c)

StoreNext ==
  \/ \E c \in Call : Submit(c) \/ Proceed(c) \/ Answer(c)
  \/ \E c \in Call, d \in Day : AddFocusSession(c, d)
  \/ Crash

StoreSpec == StoreInit /\ [][StoreNext]_storeVars

-----------------------------------------------------------------------------
(***************************************************************************)
(* Properties.                                                             *)
(***************************************************************************)
Stages == {"idle", "waiting", "loaded", "ready", "writing", "undoing", "restoring"}

\* An operation past its barriers, between its first step and its last.
Running(c) == call[c].at \notin {"idle", "waiting"}

\* The types; and the keys an operation still has to write are among those
\* of its snapshot.
StoreTypeOK ==
  /\ IsScope(cache) /\ IsScope(disk)
  /\ unsaved \subseteq Key
  /\ torn \in BOOLEAN
  /\ scopeTail \in Call \cup {None}
  /\ dateTail \in [Day -> Call \cup {None}]
  /\ \A c \in Call :
       /\ call[c].at \in Stages
       /\ call[c].barrier \subseteq Call
       /\ call[c].todo \subseteq DOMAIN call[c].before
       /\ DOMAIN call[c].before \subseteq Key
       /\ call[c].writing \in call[c].todo \cup {None}

\* A read-modify-write, an export and an import can rely on what they have
\* read: an exclusive operation runs alone in the scope, others alone in
\* their day, however they were queued behind each other.
RunsAlone ==
  \A c, d \in Call :
    (c # d /\ Running(c) /\ (Running(d) \/ Released(d)))
      => /\ ~IsScopeOp(call[c].op) /\ ~IsScopeOp(call[d].op)
         /\ DayOf(call[c].key) # DayOf(call[d].key)

\* The data between operations: while one is at work, what it found.
Data ==
  [k \in Key |->
     IF \E c \in Call : k \in DOMAIN call[c].before
       THEN call[CHOOSE c \in Call : k \in DOMAIN call[c].before].before[k]
       ELSE cache[k]]

\* No update is lost and no import is half done, but for the named failures;
\* in particular an import that is rolled back leaves the data as it was.
Promise == INSTANCE StudyData WITH data <- Data
ImplementsStudyData == Promise!Spec
=============================================================================
