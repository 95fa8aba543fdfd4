---------------------- MODULE IdempotentCreatesProofs ----------------------
(***************************************************************************)
(* Theorems about IdempotentCreates for every set of users, payloads,      *)
(* keys, ids and calls, every retention period and every day.              *)
(***************************************************************************)
EXTENDS IdempotentCreates, TLAPS

(***************************************************************************)
(* The inductive invariant.  The properties speak of rows; what makes them *)
(* hold is that the record of a key and the newest row created under it    *)
(* are written, and forgotten, together.                                   *)
(***************************************************************************)

\* A row is blank until it is created, then it carries what it was created
\* with; only sessions are active or finished.
RowsMake ==
  \A i \in Id :
    \/ row[i] = NoRow
    \/ /\ row[i].kind \in Kind /\ row[i].user \in User /\ row[i].payload \in Payload
       /\ row[i].status \in Present \cup {"DELETED"}
       /\ row[i].startedAt <= now
       /\ row[i].startedAt <= row[i].finishedAt
       /\ row[i].status \in Active \cup {"FINISHED"} => row[i].kind = "sessions.start"

\* The record of a key agrees with the row it names.
RecordsMake ==
  \A o \in Kind, u \in User, k \in Key :
    \/ record[o][u][k] = NoRecord
    \/ /\ record[o][u][k].id \in Id
       /\ row[record[o][u][k].id].kind = o
       /\ row[record[o][u][k].id].user = u
       /\ row[record[o][u][k].id].key = k
       /\ row[record[o][u][k].id].payload = record[o][u][k].payload
       /\ row[record[o][u][k].id].startedAt = record[o][u][k].createdAt

\* A row its key does not name any more is older than a day, and than the
\* row the key names by now.
OlderRows ==
  \A i \in Id, o \in Kind, u \in User, k \in Key :
    row[i].kind = o /\ row[i].user = u /\ row[i].key = k =>
      \/ record[o][u][k].id = i
      \/ /\ row[i].startedAt + 1 < now
         /\ \/ record[o][u][k] = NoRecord
            \/ row[i].startedAt + 1 < record[o][u][k].createdAt

\* What a call in flight has read.
CallsMake ==
  \A c \in Call :
    /\ call[c].op = "create" =>
         call[c].kind \in Kind /\ call[c].user \in User /\ call[c].payload \in Payload
    /\ At(c, "create", "conflicted") => call[c].key \in Key
    /\ At(c, "create", "found") => call[c].id \in Id /\ row[call[c].id] # NoRow
    /\ call[c].at = "committed" => call[c].id \in Id
    /\ At(c, "update", "read") =>
         /\ call[c].id \in Id
         /\ call[c].seen \in Active
         /\ call[c].next \in Allowed(call[c].seen)

IInv ==
  /\ TypeOK
  /\ RowsMake
  /\ RecordsMake
  /\ OlderRows
  /\ CallsMake
  /\ OneActiveSession
  /\ OneCreatePerKeyAndDay
  /\ RepliesWithOwnRow

-----------------------------------------------------------------------------
(***************************************************************************)
(* Types.                                                                  *)
(***************************************************************************)

\* Every step is a step of one call or of the environment.
LEMMA StepCases ==
  ASSUME Next
  PROVE  \/ \E c \in Call, u \in User, o \in Kind, p \in Payload, k \in Key \cup {None} :
              Create(c, o, u, p, k)
         \/ \E c \in Call, u \in User, i \in Id, next \in Active \cup {"FINISHED"} :
              Update(c, u, i, next)
         \/ \E c \in Call, i \in Id : CreateCommit(c, i)
         \/ \E c \in Call : \/ CreateConflict(c) \/ FindRecord(c) \/ Replay(c)
                             \/ UpdateConflict(c) \/ Announce(c) \/ Crash(c)
         \/ \E c \in Call : UpdateCommit(c)
         \/ Tick
         \/ Retention
         \/ \E i \in Id : RoomDeleted(i)
<1>1. ASSUME NEW c \in Call, NEW u \in User, NEW k \in Key \cup {None}
      PROVE  /\ \A title \in Title : CreateRoom(c, u, title, k) =>
                  \E o \in Kind, p \in Payload : Create(c, o, u, p, k)
             /\ \A text \in Text : SendMessage(c, u, text, k) =>
                  \E o \in Kind, p \in Payload : Create(c, o, u, p, k)
             /\ \A place \in StudyRoom : StartSession(c, u, place, k) =>
                  \E o \in Kind, p \in Payload : Create(c, o, u, p, k)
  <2>1. Title \subseteq Payload /\ Text \subseteq Payload /\ StudyRoom \subseteq Payload
    BY DEF Payload
  <2>2. QED BY <2>1, Zenon DEF CreateRoom, SendMessage, StartSession
<1>2. ASSUME NEW c \in Call, Arrive(c)
      PROVE  \/ \E u \in User, o \in Kind, p \in Payload, k \in Key \cup {None} :
                   Create(c, o, u, p, k)
             \/ \E u \in User, i \in Id, next \in Active \cup {"FINISHED"} :
                   Update(c, u, i, next)
  BY <1>1, <1>2, Zenon DEF Arrive
<1>3. QED BY <1>2, Zenon DEF Next, Handle

\* The calls a handler can put in place of a call are calls.
LEMMA CallTypes ==
  /\ IdleCall \in CallState
  /\ \A o \in Kind, u \in User, p \in Payload, k \in Key \cup {None} :
       [IdleCall EXCEPT !.op = "create", !.at = "checked", !.kind = o,
                        !.user = u, !.payload = p, !.key = k] \in CallState
  /\ \A u \in User, i \in Id, seen \in Statuses, next \in Statuses :
       [IdleCall EXCEPT !.op = "update", !.at = "read", !.user = u, !.id = i,
                        !.seen = seen, !.next = next] \in CallState
  /\ \A k \in CallState, stage \in Stages, i \in Id \cup {None} :
       /\ [k EXCEPT !.at = stage] \in CallState
       /\ [k EXCEPT !.at = stage, !.id = i] \in CallState
<1>1. {"idle", "checked", "read"} \subseteq Stages /\ "ABSENT" \in Statuses
  BY DEF Stages, Statuses
<1>2. IdleCall \in CallState
  BY <1>1 DEF IdleCall, CallState
<1>3. ASSUME NEW o \in Kind, NEW u \in User, NEW p \in Payload, NEW k \in Key \cup {None}
      PROVE  [IdleCall EXCEPT !.op = "create", !.at = "checked", !.kind = o,
                              !.user = u, !.payload = p, !.key = k] \in CallState
  BY <1>1 DEF IdleCall, CallState
<1>4. ASSUME NEW u \in User, NEW i \in Id, NEW seen \in Statuses, NEW next \in Statuses
      PROVE  [IdleCall EXCEPT !.op = "update", !.at = "read", !.user = u, !.id = i,
                              !.seen = seen, !.next = next] \in CallState
  BY <1>1 DEF IdleCall, CallState
<1>5. ASSUME NEW k \in CallState, NEW stage \in Stages, NEW i \in Id \cup {None}
      PROVE  /\ [k EXCEPT !.at = stage] \in CallState
             /\ [k EXCEPT !.at = stage, !.id = i] \in CallState
  BY DEF CallState
<1>6. QED BY <1>2, <1>3, <1>4, <1>5

\* Moving or freeing a call keeps the calls well typed.
LEMMA CallSteps ==
  ASSUME call \in [Call -> CallState], NEW c \in Call
  PROVE  /\ \A stage \in Stages : Advance(c, stage) => call' \in [Call -> CallState]
         /\ Finish(c) => call' \in [Call -> CallState]
<1>1. call[c] \in CallState
  OBVIOUS
<1>2. ASSUME NEW stage \in Stages, Advance(c, stage)
      PROVE  call' \in [Call -> CallState]
  <2>1. call' = [call EXCEPT ![c] = [call[c] EXCEPT !.at = stage]]
    BY <1>2 DEF Advance
  <2>2. [call[c] EXCEPT !.at = stage] \in CallState
    BY <1>1, CallTypes
  <2>3. QED BY <2>1, <2>2
<1>3. QED BY <1>2, CallTypes DEF Finish

\* Every step keeps rows, records and calls well typed; where the key and the
\* id of a call come from is known from CallsMake.
LEMMA TypeStep ==
  ASSUME TypeOK, CallsMake, [Next]_vars
  PROVE  TypeOK'
<1> USE DEF TypeOK
<1>0. /\ Stages = {"idle", "checked", "conflicted", "found", "read", "committed"}
      /\ Active \cup {"FINISHED", "DELETED"} \subseteq Statuses
      /\ \A i \in Id : row[i] \in RowState
      /\ \A c \in Call : call[c] \in CallState
      /\ call \in [Call -> CallState]
  BY DEF Stages, Statuses, Present
<1>1. ASSUME NEW c \in Call, NEW u \in User, NEW o \in Kind, NEW p \in Payload,
             NEW k \in Key \cup {None}, Create(c, o, u, p, k)
      PROVE  TypeOK'
  BY <1>1, CallTypes DEF Create
<1>2. ASSUME NEW c \in Call, NEW u \in User, NEW i \in Id,
             NEW next \in Active \cup {"FINISHED"}, Update(c, u, i, next)
      PROVE  TypeOK'
  <2>1. row[i].status \in Statuses /\ next \in Statuses
    BY <1>0 DEF RowState
  <2>2. QED BY <1>2, <2>1, CallTypes DEF Update
<1>3. ASSUME NEW c \in Call, NEW i \in Id, CreateCommit(c, i)
      PROVE  TypeOK'
  <2>1. /\ call[c].kind \in Kind \cup {"none"} /\ call[c].user \in User \cup {None}
        /\ call[c].payload \in Payload \cup {None} /\ call[c].key \in Key \cup {None}
    BY <1>0 DEF CallState
  <2>2. InitialStatus(call[c].kind) \in Statuses
    BY DEF InitialStatus, Statuses, Present, Active
  <2>3. row' \in [Id -> RowState]
    BY <1>3, <2>1, <2>2 DEF CreateCommit, RowState
  <2>4. record' \in [Kind -> [User -> [Key -> RecordState]]]
    <3>1. [id |-> i, payload |-> call[c].payload, createdAt |-> now] \in RecordState
      BY <2>1 DEF RecordState
    <3>2. QED BY <1>3, <3>1 DEF CreateCommit
  <2>5. call' \in [Call -> CallState]
    <3>1. call' = [call EXCEPT ![c] = [call[c] EXCEPT !.at = "committed", !.id = i]]
      BY <1>3 DEF CreateCommit
    <3>2. [call[c] EXCEPT !.at = "committed", !.id = i] \in CallState
      BY <1>0, CallTypes
    <3>3. QED BY <1>0, <3>1, <3>2
  <2>6. QED BY <1>3, <2>3, <2>4, <2>5 DEF CreateCommit
<1>4. ASSUME NEW c \in Call, CreateConflict(c) \/ Replay(c) \/ UpdateConflict(c) \/ Crash(c)
      PROVE  TypeOK'
  <2>1. call' \in [Call -> CallState]
    BY <1>0, <1>4, CallSteps DEF CreateConflict, Replay, UpdateConflict, Crash
  <2>2. QED BY <1>4, <2>1 DEF CreateConflict, Replay, UpdateConflict, Crash
<1>5. ASSUME NEW c \in Call, FindRecord(c)
      PROVE  TypeOK'
  <2> DEFINE r == RecordOf(call[c].kind, call[c].user, call[c].key)
  <2>1. CASE SameRequest(r, call[c].payload)
    <3>1. call' = [call EXCEPT ![c] = [call[c] EXCEPT !.at = "found", !.id = r.id]]
      BY <1>5, <2>1 DEF FindRecord
    <3>2. r \in RecordState
      BY <1>5 DEF FindRecord, CallsMake, At, RecordOf
    <3>3. [call[c] EXCEPT !.at = "found", !.id = r.id] \in CallState
      <4>1. r.id \in Id \cup {None}
        BY <3>2 DEF RecordState
      <4>2. QED BY <1>0, <4>1, CallTypes
    <3>4. QED BY <1>0, <1>5, <3>1, <3>3 DEF FindRecord
  <2>2. CASE ~SameRequest(r, call[c].payload)
    <3>1. call' \in [Call -> CallState]
      BY <1>0, <1>5, <2>2, CallSteps DEF FindRecord
    <3>2. QED BY <1>5, <3>1 DEF FindRecord
  <2>3. QED BY <2>1, <2>2
<1>6. ASSUME NEW c \in Call, UpdateCommit(c)
      PROVE  TypeOK'
  <2>1. call[c].next \in Statuses
    BY <1>0 DEF CallState
  <2>2. row' \in [Id -> RowState]
    <3>1. call[c].id \in Id
      BY <1>6 DEF UpdateCommit, CallsMake, At
    <3>2. row[call[c].id] \in RowState
      BY <3>1
    <3>3. QED BY <1>6, <2>1, <3>1, <3>2 DEF UpdateCommit, RowState
  <2>3. call' \in [Call -> CallState]
    BY <1>0, <1>6, CallSteps DEF UpdateCommit
  <2>4. QED BY <1>6, <2>2, <2>3 DEF UpdateCommit
<1>7. ASSUME NEW c \in Call, Announce(c)
      PROVE  TypeOK'
  <2>1. call' \in [Call -> CallState]
    BY <1>0, <1>7, CallSteps DEF Announce
  <2>2. announced' \subseteq Id
    BY <1>7 DEF Announce, CallsMake
  <2>3. QED BY <1>7, <2>1, <2>2 DEF Announce
<1>8. CASE Tick
  BY <1>8 DEF Tick
<1>9. CASE Retention
  <2>1. NoRecord \in RecordState
    BY DEF NoRecord, RecordState
  <2>2. \A i \in Id : [row[i] EXCEPT !.status = "DELETED"] \in RowState
    BY <1>0 DEF RowState
  <2>3. QED BY <1>0, <1>9, <2>1, <2>2 DEF Retention, Clean
<1>10. ASSUME NEW i \in Id, RoomDeleted(i)
       PROVE  TypeOK'
  <2>1. row' \in [Id -> RowState]
    <3>1. row \in [Id -> RowState] /\ row' = [row EXCEPT ![i].status = "DELETED"]
      BY <1>0, <1>10 DEF RoomDeleted
    <3>2. [row[i] EXCEPT !.status = "DELETED"] \in RowState
      BY <1>0, <3>1 DEF RowState
    <3>3. QED BY <3>1, <3>2
  <2>2. QED BY <1>10, <2>1 DEF RoomDeleted
<1>11. CASE UNCHANGED vars
  BY <1>11 DEF vars
<1>12. QED
  BY <1>1, <1>2, <1>3, <1>4, <1>5, <1>6, <1>7, <1>8, <1>9, <1>10, <1>11, StepCases

-----------------------------------------------------------------------------
(***************************************************************************)
(* Rows and records.                                                       *)
(***************************************************************************)

\* The steps that leave rows and records alone.
QuietStep == UNCHANGED <<row, record>> /\ now' \in {now, now + 1}

\* What the retention deletes has expired by now.
RowExpired(w) == MessageExpired(w, now) \/ SessionExpired(w, now)

LEMMA RetentionDeletes ==
  ASSUME TypeOK, Retention
  PROVE  /\ now' = now /\ UNCHANGED <<announced, call>>
         /\ \A j \in Id :
              \/ row'[j] = row[j]
              \/ row'[j] = [row[j] EXCEPT !.status = "DELETED"] /\ RowExpired(row[j])
         /\ \A o \in Kind, u \in User, k \in Key :
              \/ record'[o][u][k] = record[o][u][k]
              \/ RecordExpired(record[o][u][k], now) /\ record'[o][u][k] = NoRecord
<1>1. PICK recordsAt \in 0 .. now, messagesAt \in 0 .. now, sessionsAt \in 0 .. now :
        Clean(recordsAt, messagesAt, sessionsAt)
  BY DEF Retention
<1>2. /\ now \in Nat /\ RetentionDays \in Nat
      /\ recordsAt \in Nat /\ messagesAt \in Nat /\ sessionsAt \in Nat
      /\ recordsAt <= now /\ messagesAt <= now /\ sessionsAt <= now
  BY CreatesAssumption DEF TypeOK
<1>3. ASSUME NEW j \in Id
      PROVE  \/ row'[j] = row[j]
             \/ row'[j] = [row[j] EXCEPT !.status = "DELETED"] /\ RowExpired(row[j])
  <2>1. row[j].finishedAt \in Nat
    BY DEF TypeOK, RowState
  <2>2. MessageExpired(row[j], messagesAt) => MessageExpired(row[j], now)
    BY <1>2, <2>1 DEF MessageExpired
  <2>3. SessionExpired(row[j], sessionsAt) => SessionExpired(row[j], now)
    BY <1>2, <2>1 DEF SessionExpired
  <2>4. QED BY <1>1, <2>2, <2>3 DEF Clean, RowExpired
<1>4. ASSUME NEW o \in Kind, NEW u \in User, NEW k \in Key
      PROVE  \/ record'[o][u][k] = record[o][u][k]
             \/ RecordExpired(record[o][u][k], now) /\ record'[o][u][k] = NoRecord
  <2>1. record[o][u][k].createdAt \in Nat
    BY DEF TypeOK, RecordState
  <2>2. RecordExpired(record[o][u][k], recordsAt) => RecordExpired(record[o][u][k], now)
    BY <1>2, <2>1 DEF RecordExpired
  <2>3. QED BY <1>1, <2>2 DEF Clean
<1>5. now' = now /\ UNCHANGED <<announced, call>>
  BY <1>1 DEF Clean
<1>6. QED BY <1>3, <1>4, <1>5

LEMMA QuietSteps ==
  ASSUME [Next]_vars, now \in Nat
  PROVE  \/ QuietStep
         \/ \E c \in Call, i \in Id : CreateCommit(c, i)
         \/ \E c \in Call : UpdateCommit(c)
         \/ Retention
         \/ \E i \in Id : RoomDeleted(i)
<1>1. ASSUME NEW c \in Call
      PROVE  /\ CreateConflict(c) => QuietStep
             /\ FindRecord(c) => QuietStep
             /\ Replay(c) => QuietStep
             /\ UpdateConflict(c) => QuietStep
             /\ Announce(c) => QuietStep
             /\ Crash(c) => QuietStep
  BY DEF CreateConflict, FindRecord, Replay, UpdateConflict, Announce, Crash, QuietStep
<1>2. ASSUME NEW c \in Call, NEW u \in User
      PROVE  /\ \A o \in Kind, p \in Payload, k \in Key \cup {None} :
                  Create(c, o, u, p, k) => QuietStep
             /\ \A i \in Id, next \in Active \cup {"FINISHED"} :
                  Update(c, u, i, next) => QuietStep
  BY DEF Create, Update, QuietStep
<1>3. Tick \/ UNCHANGED vars => QuietStep
  BY DEF Tick, vars, QuietStep
<1>4. QED BY <1>1, <1>2, <1>3, StepCases

\* What a step that changes rows does to one of them: it creates it, or it
\* changes the status of a row that is not blank.
LEMMA RowSteps ==
  ASSUME TypeOK, RowsMake, CallsMake, [Next]_vars, NEW j \in Id
  PROVE  \/ row'[j] = row[j]
         \/ \E c \in Call : CreateCommit(c, j) /\ row[j] = NoRow
         \/ /\ row[j] # NoRow /\ row'[j].status \in {"RUNNING", "PAUSED", "FINISHED", "DELETED"}
            /\ row'[j].kind = row[j].kind /\ row'[j].user = row[j].user
            /\ row'[j].payload = row[j].payload /\ row'[j].key = row[j].key
            /\ row'[j].startedAt = row[j].startedAt
            /\ row'[j].finishedAt \in {row[j].finishedAt, now}
            /\ row'[j].status # "DELETED" =>
                 /\ row[j].status \in Active
                 /\ row'[j].status \in Allowed(row[j].status)
            /\ row'[j].status = "DELETED" =>
                 (Retention /\ RowExpired(row[j])) \/ row[j].kind = "rooms.create"
<1> USE DEF TypeOK
<1>1. CASE QuietStep
  BY <1>1 DEF QuietStep
<1>2. ASSUME NEW c \in Call, NEW i \in Id, CreateCommit(c, i)
      PROVE  \/ row'[j] = row[j]
             \/ \E d \in Call : CreateCommit(d, j) /\ row[j] = NoRow
  <2>1. CASE i = j
    BY <1>2, <2>1 DEF CreateCommit, RowsMake, Present, Active
  <2>2. CASE i # j
    BY <1>2, <2>2 DEF CreateCommit
  <2>3. QED BY <2>1, <2>2
<1>3. ASSUME NEW c \in Call, UpdateCommit(c)
      PROVE  \/ row'[j] = row[j]
             \/ /\ row[j] # NoRow /\ row'[j].status \in {"RUNNING", "PAUSED", "FINISHED"}
                /\ row'[j].kind = row[j].kind /\ row'[j].user = row[j].user
                /\ row'[j].payload = row[j].payload /\ row'[j].key = row[j].key
                /\ row'[j].startedAt = row[j].startedAt
                /\ row'[j].finishedAt \in {row[j].finishedAt, now}
                /\ row[j].status \in Active
                /\ row'[j].status \in Allowed(row[j].status)
  <2>1. /\ call[c].id \in Id /\ call[c].seen \in Active
        /\ call[c].next \in Allowed(call[c].seen)
        /\ row[call[c].id].status = call[c].seen
    BY <1>3 DEF UpdateCommit, CallsMake, StatusUnchanged
  <2>2. CASE call[c].id = j
    <3>1. row[j] \in RowState
      OBVIOUS
    <3>2. row'[j] = [row[j] EXCEPT !.status = call[c].next,
                      !.finishedAt = IF call[c].next = "FINISHED" THEN now ELSE row[j].finishedAt]
      BY <1>3, <2>2 DEF UpdateCommit
    <3>3. row[j] # NoRow /\ call[c].next \in {"RUNNING", "PAUSED", "FINISHED"}
      BY <2>1, <2>2 DEF NoRow, Active, Allowed
    <3>4. QED BY <2>1, <2>2, <3>1, <3>2, <3>3 DEF RowState
  <2>3. CASE call[c].id # j
    BY <1>3, <2>3 DEF UpdateCommit
  <2>4. QED BY <2>2, <2>3
<1>4. ASSUME Retention
      PROVE  \/ row'[j] = row[j]
             \/ row'[j] = [row[j] EXCEPT !.status = "DELETED"] /\ RowExpired(row[j])
  BY <1>4, RetentionDeletes
<1>5. ASSUME NEW i \in Id, RoomDeleted(i)
      PROVE  \/ row'[j] = row[j]
             \/ /\ row'[j] = [row[j] EXCEPT !.status = "DELETED"]
                /\ row[j].kind = "rooms.create" /\ row[j].status = "KEPT"
  BY <1>5 DEF RoomDeleted
<1>6. ASSUME row'[j] = [row[j] EXCEPT !.status = "DELETED"]
      PROVE  /\ row'[j].status = "DELETED"
             /\ row'[j].kind = row[j].kind /\ row'[j].user = row[j].user
             /\ row'[j].payload = row[j].payload /\ row'[j].key = row[j].key
             /\ row'[j].startedAt = row[j].startedAt /\ row'[j].finishedAt = row[j].finishedAt
  BY <1>6 DEF RowState
<1>7. RowExpired(row[j]) \/ row[j].status = "KEPT" => row[j] # NoRow
  BY DEF RowExpired, MessageExpired, SessionExpired, NoRow
<1>8. QED BY <1>1, <1>2, <1>3, <1>4, <1>5, <1>6, <1>7, QuietSteps

\* The row a commit creates.
LEMMA CreatedRow ==
  ASSUME TypeOK, CallsMake, NEW c \in Call, NEW i \in Id, CreateCommit(c, i)
  PROVE  /\ row'[i].kind = call[c].kind /\ row'[i].status = InitialStatus(call[c].kind)
         /\ row'[i].user = call[c].user /\ row'[i].payload = call[c].payload
         /\ row'[i].key = call[c].key
         /\ row'[i].startedAt = now /\ row'[i].finishedAt = now
         /\ call[c].kind \in Kind /\ call[c].user \in User /\ call[c].payload \in Payload
         /\ now' = now
BY DEF CreateCommit, TypeOK, CallsMake, At

\* What a step does to the record of one key.
LEMMA RecordSteps ==
  ASSUME TypeOK, CallsMake, [Next]_vars, NEW o \in Kind, NEW u \in User, NEW k \in Key
  PROVE  \/ record'[o][u][k] = record[o][u][k]
         \/ \E c \in Call, i \in Id :
              /\ CreateCommit(c, i)
              /\ call[c].kind = o /\ call[c].user = u /\ call[c].key = k
              /\ record[o][u][k] = NoRecord
              /\ record'[o][u][k] = [id |-> i, payload |-> call[c].payload, createdAt |-> now]
         \/ Retention /\ RecordExpired(record[o][u][k], now) /\ record'[o][u][k] = NoRecord
<1> USE DEF TypeOK
<1>1. CASE QuietStep
  BY <1>1 DEF QuietStep
<1>2. ASSUME NEW c \in Call, NEW i \in Id, CreateCommit(c, i)
      PROVE  \/ record'[o][u][k] = record[o][u][k]
             \/ /\ call[c].kind = o /\ call[c].user = u /\ call[c].key = k
                /\ record[o][u][k] = NoRecord
                /\ record'[o][u][k] = [id |-> i, payload |-> call[c].payload, createdAt |-> now]
  <2>1. call[c].kind \in Kind /\ call[c].user \in User
    BY <1>2, CreatedRow
  <2>2. CASE call[c].key = None
    BY <1>2, <2>2 DEF CreateCommit
  <2>3. CASE call[c].key # None
    <3>1. record' = [record EXCEPT ![call[c].kind][call[c].user][call[c].key] =
                       [id |-> i, payload |-> call[c].payload, createdAt |-> now]]
      BY <1>2, <2>3 DEF CreateCommit
    <3>2. record[call[c].kind][call[c].user][call[c].key] = NoRecord
      BY <1>2, <2>3 DEF CreateCommit, RecordFits
    <3>3. QED BY <2>1, <3>1, <3>2
  <2>4. QED BY <2>2, <2>3
<1>3. ASSUME NEW c \in Call, UpdateCommit(c)
      PROVE  record' = record
  BY <1>3 DEF UpdateCommit
<1>4. ASSUME Retention
      PROVE  \/ record'[o][u][k] = record[o][u][k]
             \/ RecordExpired(record[o][u][k], now) /\ record'[o][u][k] = NoRecord
  BY <1>4, RetentionDeletes
<1>5. ASSUME NEW i \in Id, RoomDeleted(i)
      PROVE  record' = record
  BY <1>5 DEF RoomDeleted
<1>6. QED BY <1>1, <1>2, <1>3, <1>4, <1>5, QuietSteps

\* Time does not go back.
LEMMA TimeSteps ==
  ASSUME TypeOK, [Next]_vars
  PROVE  now' \in Nat /\ now <= now'
<1>1. \A c \in Call, i \in Id : CreateCommit(c, i) => now' = now
  BY DEF CreateCommit
<1>2. \A c \in Call : UpdateCommit(c) => now' = now
  BY DEF UpdateCommit
<1>3. Retention => now' = now
  BY RetentionDeletes
<1>4. \A i \in Id : RoomDeleted(i) => now' = now
  BY DEF RoomDeleted
<1>5. now \in Nat
  BY DEF TypeOK
<1>6. QED BY <1>1, <1>2, <1>3, <1>4, <1>5, QuietSteps DEF QuietStep

\* A row that is not blank keeps what it was created with.
LEMMA RowsKeep ==
  ASSUME TypeOK, RowsMake, CallsMake, [Next]_vars, NEW j \in Id, row[j] # NoRow
  PROVE  /\ row'[j].kind = row[j].kind /\ row'[j].user = row[j].user
         /\ row'[j].payload = row[j].payload /\ row'[j].key = row[j].key
         /\ row'[j].startedAt = row[j].startedAt
         /\ row'[j] # NoRow
<1>1. row'[j].status \in {"RUNNING", "PAUSED", "FINISHED", "DELETED"} => row'[j] # NoRow
  BY DEF NoRow
<1>2. QED BY <1>1, RowSteps

LEMMA RowsMakeStep ==
  ASSUME TypeOK, RowsMake, CallsMake, [Next]_vars
  PROVE  RowsMake'
<1> SUFFICES ASSUME NEW i \in Id
             PROVE  \/ row'[i] = NoRow
                    \/ /\ row'[i].kind \in Kind /\ row'[i].user \in User
                       /\ row'[i].payload \in Payload
                       /\ row'[i].status \in Present \cup {"DELETED"}
                       /\ row'[i].startedAt <= now'
                       /\ row'[i].startedAt <= row'[i].finishedAt
                       /\ row'[i].status \in Active \cup {"FINISHED"} =>
                            row'[i].kind = "sessions.start"
  BY DEF RowsMake
<1>0. /\ now \in Nat /\ now' \in Nat /\ now <= now'
      /\ row[i].startedAt \in Nat /\ row[i].finishedAt \in Nat
  BY TimeSteps DEF TypeOK, RowState
<1>1. CASE row'[i] = row[i]
  BY <1>0, <1>1 DEF RowsMake
<1>2. ASSUME NEW c \in Call, CreateCommit(c, i)
      PROVE  /\ row'[i].kind \in Kind /\ row'[i].user \in User
             /\ row'[i].payload \in Payload
             /\ row'[i].status \in Present
             /\ row'[i].startedAt <= now'
             /\ row'[i].startedAt <= row'[i].finishedAt
             /\ row'[i].status \in Active \cup {"FINISHED"} =>
                  row'[i].kind = "sessions.start"
  <2>1. InitialStatus(call[c].kind) \in Present
    BY DEF InitialStatus, Present, Active
  <2>2. InitialStatus(call[c].kind) \in Active \cup {"FINISHED"} => call[c].kind = "sessions.start"
    BY DEF InitialStatus, Active
  <2>3. QED BY <1>0, <1>2, <2>1, <2>2, CreatedRow
<1>3. CASE /\ row[i] # NoRow /\ row'[i].status \in {"RUNNING", "PAUSED", "FINISHED", "DELETED"}
           /\ row'[i].kind = row[i].kind /\ row'[i].user = row[i].user
           /\ row'[i].payload = row[i].payload
           /\ row'[i].startedAt = row[i].startedAt
           /\ row'[i].finishedAt \in {row[i].finishedAt, now}
           /\ row'[i].status # "DELETED" => row[i].status \in Active
  BY <1>0, <1>3 DEF RowsMake, Present, Active
<1>4. QED BY <1>1, <1>2, <1>3, RowSteps

LEMMA RecordsMakeStep ==
  ASSUME TypeOK, RowsMake, RecordsMake, CallsMake, [Next]_vars
  PROVE  RecordsMake'
<1> SUFFICES ASSUME NEW o \in Kind, NEW u \in User, NEW k \in Key
             PROVE  \/ record'[o][u][k] = NoRecord
                    \/ /\ record'[o][u][k].id \in Id
                       /\ row'[record'[o][u][k].id].kind = o
                       /\ row'[record'[o][u][k].id].user = u
                       /\ row'[record'[o][u][k].id].key = k
                       /\ row'[record'[o][u][k].id].payload = record'[o][u][k].payload
                       /\ row'[record'[o][u][k].id].startedAt = record'[o][u][k].createdAt
  BY DEF RecordsMake
<1>1. CASE record'[o][u][k] = record[o][u][k]
  <2>1. CASE record[o][u][k] = NoRecord
    BY <1>1, <2>1
  <2>2. CASE record[o][u][k] # NoRecord
    <3> DEFINE i == record[o][u][k].id
    <3>1. i \in Id /\ row[i].kind = o
      BY <2>2 DEF RecordsMake
    <3>2. row[i] # NoRow
      BY <3>1, CreatesAssumption DEF NoRow
    <3>3. QED BY <1>1, <2>2, <3>1, <3>2, RowsKeep DEF RecordsMake
  <2>3. QED BY <2>1, <2>2
<1>2. ASSUME NEW c \in Call, NEW i \in Id, CreateCommit(c, i),
             call[c].kind = o, call[c].user = u, call[c].key = k,
             record'[o][u][k] = [id |-> i, payload |-> call[c].payload, createdAt |-> now]
      PROVE  /\ record'[o][u][k].id \in Id
             /\ row'[record'[o][u][k].id].kind = o
             /\ row'[record'[o][u][k].id].user = u
             /\ row'[record'[o][u][k].id].key = k
             /\ row'[record'[o][u][k].id].payload = record'[o][u][k].payload
             /\ row'[record'[o][u][k].id].startedAt = record'[o][u][k].createdAt
  <2>1. record'[o][u][k].id = i /\ record'[o][u][k].payload = call[c].payload
        /\ record'[o][u][k].createdAt = now
    BY <1>2
  <2>2. /\ row'[i].kind = o /\ row'[i].user = u /\ row'[i].key = k
        /\ row'[i].payload = call[c].payload /\ row'[i].startedAt = now
    BY <1>2, CreatedRow
  <2>3. QED BY <2>1, <2>2
<1>3. QED BY <1>1, <1>2, RecordSteps

\* The step that replaces the record of a key is the one that creates a row,
\* and it finds no record left of an older one.
LEMMA OlderRowsStep ==
  ASSUME TypeOK, RowsMake, RecordsMake, OlderRows, CallsMake, [Next]_vars
  PROVE  OlderRows'
<1> SUFFICES ASSUME NEW i \in Id, NEW o \in Kind, NEW u \in User, NEW k \in Key,
                    row'[i].kind = o, row'[i].user = u, row'[i].key = k
             PROVE  \/ record'[o][u][k].id = i
                    \/ /\ row'[i].startedAt + 1 < now'
                       /\ \/ record'[o][u][k] = NoRecord
                          \/ row'[i].startedAt + 1 < record'[o][u][k].createdAt
  BY DEF OlderRows
<1>0. /\ now \in Nat /\ now' \in Nat /\ now <= now'
      /\ row[i].startedAt \in Nat /\ record[o][u][k].createdAt \in Nat
  <2>1. now \in Nat /\ row[i] \in RowState /\ record[o][u][k] \in RecordState
    BY DEF TypeOK
  <2>2. row[i].startedAt \in Nat /\ record[o][u][k].createdAt \in Nat
    BY <2>1 DEF RowState, RecordState
  <2>3. QED BY <2>1, <2>2, TimeSteps
<1>1. ASSUME NEW c \in Call, CreateCommit(c, i)
      PROVE  record'[o][u][k].id = i
  <2>1. call[c].kind = o /\ call[c].user = u /\ call[c].key = k
    BY <1>1, CreatedRow
  <2>2. record' = [record EXCEPT ![o][u][k] =
                     [id |-> i, payload |-> call[c].payload, createdAt |-> now]]
    BY <1>1, <2>1, CreatesAssumption DEF CreateCommit
  <2>3. QED BY <2>2 DEF TypeOK
<1>2. ASSUME row[i].kind = o, row[i].user = u, row[i].key = k,
             row'[i].startedAt = row[i].startedAt
      PROVE  \/ record'[o][u][k].id = i
             \/ /\ row'[i].startedAt + 1 < now'
                /\ \/ record'[o][u][k] = NoRecord
                   \/ row'[i].startedAt + 1 < record'[o][u][k].createdAt
  <2>1. \/ record[o][u][k].id = i
        \/ /\ row[i].startedAt + 1 < now
           /\ \/ record[o][u][k] = NoRecord
              \/ row[i].startedAt + 1 < record[o][u][k].createdAt
    BY <1>2 DEF OlderRows
  <2>2. CASE record'[o][u][k] = record[o][u][k]
    BY <1>0, <1>2, <2>1, <2>2
  <2>3. ASSUME NEW c \in Call, NEW j \in Id, CreateCommit(c, j),
               record[o][u][k] = NoRecord,
               record'[o][u][k] = [id |-> j, payload |-> call[c].payload, createdAt |-> now]
        PROVE  row[i].startedAt + 1 < now' /\ row[i].startedAt + 1 < record'[o][u][k].createdAt
    <3>1. record[o][u][k].id # i
      BY <2>3, CreatesAssumption DEF NoRecord
    <3>2. QED BY <1>0, <2>1, <2>3, <3>1
  <2>4. ASSUME RecordExpired(record[o][u][k], now), record'[o][u][k] = NoRecord
        PROVE  row[i].startedAt + 1 < now
    <3>1. record[o][u][k].id = i => row[i].startedAt = record[o][u][k].createdAt
      BY <2>4 DEF RecordsMake, RecordExpired, NoRecord
    <3>2. QED BY <1>0, <2>1, <2>4, <3>1 DEF RecordExpired
  <2>5. \/ record'[o][u][k] = record[o][u][k]
        \/ row[i].startedAt + 1 < now' /\ row[i].startedAt + 1 < record'[o][u][k].createdAt
        \/ row[i].startedAt + 1 < now /\ record'[o][u][k] = NoRecord
    <3>1. CASE record'[o][u][k] = record[o][u][k]
      BY <3>1
    <3>2. CASE \E c \in Call, j \in Id :
                 /\ CreateCommit(c, j)
                 /\ call[c].kind = o /\ call[c].user = u /\ call[c].key = k
                 /\ record[o][u][k] = NoRecord
                 /\ record'[o][u][k] =
                      [id |-> j, payload |-> call[c].payload, createdAt |-> now]
      BY <2>3, <3>2
    <3>3. CASE Retention /\ RecordExpired(record[o][u][k], now) /\ record'[o][u][k] = NoRecord
      BY <2>4, <3>3
    <3>4. QED BY <3>1, <3>2, <3>3, RecordSteps
  <2>6. row[i].startedAt + 1 < now => row[i].startedAt + 1 < now'
    BY <1>0
  <2>7. QED BY <1>2, <2>2, <2>5, <2>6
<1>3. QED BY <1>1, <1>2, RowSteps

(***************************************************************************)
(* The calls in flight.                                                    *)
(***************************************************************************)

\* RecordsMake for one key.
LEMMA RecordNames ==
  ASSUME RecordsMake, NEW o \in Kind, NEW u \in User, NEW k \in Key,
         record[o][u][k] # NoRecord
  PROVE  /\ record[o][u][k].id \in Id
         /\ row[record[o][u][k].id].kind = o /\ row[record[o][u][k].id].user = u
         /\ row[record[o][u][k].id].key = k
         /\ row[record[o][u][k].id].payload = record[o][u][k].payload
         /\ row[record[o][u][k].id].startedAt = record[o][u][k].createdAt
BY DEF RecordsMake

\* What one call carries, apart from the rows it refers to.
Carries(k) ==
  /\ k.op = "create" => k.kind \in Kind /\ k.user \in User /\ k.payload \in Payload
  /\ k.op = "create" /\ k.at = "conflicted" => k.key \in Key
  /\ k.op = "create" /\ k.at = "found" => k.id \in Id
  /\ k.at = "committed" => k.id \in Id
  /\ k.op = "update" /\ k.at = "read" =>
       k.id \in Id /\ k.seen \in Active /\ k.next \in Allowed(k.seen)

\* A found row is that of the call.
FindsOwn(rows, k) ==
  k.op = "create" /\ k.at = "found" =>
    /\ rows[k.id] # NoRow
    /\ rows[k.id].kind = k.kind /\ rows[k.id].user = k.user
    /\ rows[k.id].payload = k.payload /\ rows[k.id].key = k.key

\* CallsMake and RepliesWithOwnRow, one call at a time.
LEMMA CallByCall ==
  (CallsMake /\ RepliesWithOwnRow) <=> \A c \in Call : Carries(call[c]) /\ FindsOwn(row, call[c])
BY DEF CallsMake, RepliesWithOwnRow, Carries, FindsOwn, At

LEMMA CallsMakeStep ==
  ASSUME TypeOK, RowsMake, RecordsMake, CallsMake, RepliesWithOwnRow, [Next]_vars
  PROVE  CallsMake' /\ RepliesWithOwnRow'
<1>0. /\ \A c \in Call : call[c] \in CallState /\ Carries(call[c]) /\ FindsOwn(row, call[c])
      /\ call \in [Call -> CallState]
  BY CallByCall DEF TypeOK
<1>1. \A k \in CallState : Carries(k) /\ FindsOwn(row, k) => FindsOwn(row', k)
  <2>1. ASSUME NEW k \in CallState, Carries(k), FindsOwn(row, k), k.op = "create", k.at = "found"
        PROVE  /\ row'[k.id] # NoRow
               /\ row'[k.id].kind = k.kind /\ row'[k.id].user = k.user
               /\ row'[k.id].payload = k.payload /\ row'[k.id].key = k.key
    <3>1. k.id \in Id /\ row[k.id] # NoRow
      BY <2>1 DEF Carries, FindsOwn
    <3>2. QED BY <2>1, <3>1, RowsKeep DEF FindsOwn
  <2>2. QED BY <2>1 DEF FindsOwn
<1>2. Carries(IdleCall) /\ FindsOwn(row', IdleCall)
  BY DEF Carries, FindsOwn, IdleCall
<1>3. ASSUME NEW c \in Call, NEW k, call' = [call EXCEPT ![c] = k],
             Carries(k), FindsOwn(row', k)
      PROVE  \A d \in Call : Carries(call'[d]) /\ FindsOwn(row', call'[d])
  BY <1>0, <1>1, <1>3 DEF FindsOwn
<1>4. ASSUME call' = call
      PROVE  \A d \in Call : Carries(call'[d]) /\ FindsOwn(row', call'[d])
  BY <1>0, <1>1, <1>4 DEF FindsOwn
<1>5. ASSUME NEW c \in Call, Finish(c)
      PROVE  \A d \in Call : Carries(call'[d]) /\ FindsOwn(row', call'[d])
  BY <1>2, <1>3, <1>5 DEF Finish
<1>6. ASSUME NEW c \in Call, NEW u \in User, NEW o \in Kind, NEW p \in Payload,
             NEW k \in Key \cup {None}, Create(c, o, u, p, k)
      PROVE  \A d \in Call : Carries(call'[d]) /\ FindsOwn(row', call'[d])
  <2> DEFINE new == [IdleCall EXCEPT !.op = "create", !.at = "checked", !.kind = o,
                                     !.user = u, !.payload = p, !.key = k]
  <2>1. Carries(new) /\ FindsOwn(row', new)
    BY DEF Carries, FindsOwn, IdleCall
  <2>2. call' = [call EXCEPT ![c] = new]
    BY <1>6 DEF Create
  <2>3. QED BY <1>3, <2>1, <2>2
<1>7. ASSUME NEW c \in Call, NEW u \in User, NEW i \in Id,
             NEW next \in Active \cup {"FINISHED"}, Update(c, u, i, next)
      PROVE  \A d \in Call : Carries(call'[d]) /\ FindsOwn(row', call'[d])
  <2> DEFINE new == [IdleCall EXCEPT !.op = "update", !.at = "read", !.user = u, !.id = i,
                                     !.seen = row[i].status, !.next = next]
  <2>1. next \in Allowed(row[i].status) /\ row[i].status \in Active
    BY <1>7 DEF Update, Allowed, Active
  <2>2. Carries(new) /\ FindsOwn(row', new)
    BY <2>1 DEF Carries, FindsOwn, IdleCall
  <2>3. call' = [call EXCEPT ![c] = new]
    BY <1>7 DEF Update
  <2>4. QED BY <1>3, <2>2, <2>3
<1>8. ASSUME NEW c \in Call, NEW i \in Id, CreateCommit(c, i)
      PROVE  \A d \in Call : Carries(call'[d]) /\ FindsOwn(row', call'[d])
  <2> DEFINE new == [call[c] EXCEPT !.at = "committed", !.id = i]
  <2>1. call[c].op = "create" /\ call[c] \in CallState
    BY <1>0, <1>8 DEF CreateCommit, At
  <2>2. Carries(new) /\ FindsOwn(row', new)
    BY <1>0, <2>1 DEF Carries, FindsOwn, CallState
  <2>3. call' = [call EXCEPT ![c] = new]
    BY <1>8 DEF CreateCommit
  <2>4. QED BY <1>3, <2>2, <2>3
<1>9. ASSUME NEW c \in Call, CreateConflict(c)
      PROVE  \A d \in Call : Carries(call'[d]) /\ FindsOwn(row', call'[d])
  <2> DEFINE new == [call[c] EXCEPT !.at = "conflicted"]
  <2>1. CASE call[c].key = None
    BY <1>5, <1>9, <2>1 DEF CreateConflict
  <2>2. CASE call[c].key # None
    <3>1. call[c].op = "create" /\ call[c] \in CallState
      BY <1>0, <1>9 DEF CreateConflict, At
    <3>2. Carries(new) /\ FindsOwn(row', new)
      BY <1>0, <2>2, <3>1 DEF Carries, FindsOwn, CallState
    <3>3. call' = [call EXCEPT ![c] = new]
      BY <1>9, <2>2 DEF CreateConflict, Advance
    <3>4. QED BY <1>3, <3>2, <3>3
  <2>3. QED BY <2>1, <2>2
<1>10. ASSUME NEW c \in Call, FindRecord(c)
       PROVE  \A d \in Call : Carries(call'[d]) /\ FindsOwn(row', call'[d])
  <2> DEFINE r   == RecordOf(call[c].kind, call[c].user, call[c].key)
             new == [call[c] EXCEPT !.at = "found", !.id = r.id]
  <2>1. CASE ~SameRequest(r, call[c].payload)
    BY <1>5, <1>10, <2>1 DEF FindRecord
  <2>2. CASE SameRequest(r, call[c].payload)
    <3>1. /\ call[c].op = "create" /\ call[c] \in CallState /\ call[c].kind \in Kind
          /\ call[c].user \in User /\ call[c].key \in Key
      BY <1>0, <1>10 DEF FindRecord, At, Carries
    <3>2. /\ r.id \in Id /\ row[r.id].kind = call[c].kind /\ row[r.id].user = call[c].user
          /\ row[r.id].key = call[c].key /\ row[r.id].payload = call[c].payload
      <4>1. PICK o \in Kind, u \in User, k \in Key :
              o = call[c].kind /\ u = call[c].user /\ k = call[c].key
        BY <3>1
      <4>2. r = record[o][u][k]
        BY <4>1 DEF RecordOf
      <4>3. r.id # None /\ r.payload = call[c].payload
        BY <2>2 DEF SameRequest
      <4> HIDE DEF r
      <4>4. record[o][u][k] # NoRecord
        BY <4>2, <4>3 DEF NoRecord
      <4>5. /\ r.id \in Id /\ row[r.id].kind = o /\ row[r.id].user = u
            /\ row[r.id].key = k /\ row[r.id].payload = r.payload
        BY <4>2, <4>4, RecordNames
      <4>6. QED BY <4>1, <4>3, <4>5
    <3>3. row[r.id] # NoRow
      BY <3>1, <3>2, CreatesAssumption DEF NoRow
    <3>4. row' = row
      BY <1>10 DEF FindRecord
    <3>5. /\ new.op = "create" /\ new.at = "found" /\ new.id = r.id
          /\ new.kind = call[c].kind /\ new.user = call[c].user
          /\ new.payload = call[c].payload /\ new.key = call[c].key
      BY <3>1 DEF CallState
    <3>6. Carries(new)
      BY <1>0, <3>1, <3>2, <3>5 DEF Carries
    <3>7. FindsOwn(row', new)
      BY <3>2, <3>3, <3>4, <3>5 DEF FindsOwn
    <3>8. call' = [call EXCEPT ![c] = new]
      BY <1>10, <2>2 DEF FindRecord
    <3>9. QED BY <1>3, <3>6, <3>7, <3>8
  <2>3. QED BY <2>1, <2>2
<1>11. ASSUME NEW c \in Call, UpdateCommit(c)
       PROVE  \A d \in Call : Carries(call'[d]) /\ FindsOwn(row', call'[d])
  <2> DEFINE new == [call[c] EXCEPT !.at = "committed"]
  <2>1. call[c].op = "update" /\ call[c].at = "read" /\ call[c] \in CallState
    BY <1>0, <1>11 DEF UpdateCommit, At
  <2>2. Carries(new) /\ FindsOwn(row', new)
    BY <1>0, <2>1 DEF Carries, FindsOwn, CallState
  <2>3. call' = [call EXCEPT ![c] = new]
    BY <1>11 DEF UpdateCommit, Advance
  <2>4. QED BY <1>3, <2>2, <2>3
<1>12. ASSUME NEW c \in Call, Replay(c) \/ UpdateConflict(c) \/ Announce(c) \/ Crash(c)
       PROVE  \A d \in Call : Carries(call'[d]) /\ FindsOwn(row', call'[d])
  BY <1>5, <1>12 DEF Replay, UpdateConflict, Announce, Crash
<1>13. ASSUME Tick \/ Retention \/ (\E i \in Id : RoomDeleted(i)) \/ UNCHANGED vars
       PROVE  \A d \in Call : Carries(call'[d]) /\ FindsOwn(row', call'[d])
  <2>1. call' = call
    BY <1>13 DEF Tick, Retention, Clean, RoomDeleted, vars
  <2>2. QED BY <1>4, <2>1
<1>14. \A d \in Call : Carries(call'[d]) /\ FindsOwn(row', call'[d])
  <2>1. CASE UNCHANGED vars
    BY <1>13, <2>1
  <2>2. CASE Next
    BY <1>6, <1>7, <1>8, <1>9, <1>10, <1>11, <1>12, <1>13, <2>2, StepCases
  <2>3. QED BY <2>1, <2>2
<1>15. QED BY <1>14 DEF CallsMake, RepliesWithOwnRow, Carries, FindsOwn, At

(***************************************************************************)
(* The theorems.                                                           *)
(***************************************************************************)

LEMMA OneActiveStep ==
  ASSUME TypeOK, RowsMake, CallsMake, OneActiveSession, [Next]_vars
  PROVE  OneActiveSession'
<1> SUFFICES ASSUME NEW i \in Id, NEW j \in Id,
                    row'[i].status \in Active, row'[j].status \in Active,
                    row'[i].user = row'[j].user, row'[i].payload = row'[j].payload,
                    i # j
             PROVE  FALSE
  BY DEF OneActiveSession
<1>1. ASSUME NEW a \in Id, NEW b \in Id, NEW c \in Call, a # b, CreateCommit(c, a),
             row'[a].status \in Active, row'[b].status \in Active,
             row'[a].user = row'[b].user, row'[a].payload = row'[b].payload
      PROVE  FALSE
  <2>1. row'[b] = row[b]
    BY <1>1 DEF CreateCommit, TypeOK
  <2>2. row[b].kind = "sessions.start"
    BY <1>1, <2>1 DEF RowsMake, NoRow, Active
  <2>3. call[c].kind = "sessions.start" /\ row'[a].user = call[c].user
        /\ row'[a].payload = call[c].payload
    BY <1>1, CreatedRow DEF InitialStatus, Active
  <2>4. OneActiveIndex("sessions.start", row[b].user, row[b].payload)
    BY <1>1, <2>1, <2>3 DEF CreateCommit
  <2>5. QED BY <1>1, <2>1, <2>2, <2>4 DEF OneActiveIndex
<1>2. ASSUME NEW a \in Id, row'[a].status \in Active, \A c \in Call : ~CreateCommit(c, a)
      PROVE  /\ row[a].status \in Active
             /\ row'[a].user = row[a].user /\ row'[a].payload = row[a].payload
  BY <1>2, RowSteps DEF Active
<1>3. QED BY <1>1, <1>2 DEF OneActiveSession

LEMMA OneCreateStep ==
  ASSUME TypeOK, RowsMake, RecordsMake, OlderRows, CallsMake, OneCreatePerKeyAndDay,
         [Next]_vars
  PROVE  OneCreatePerKeyAndDay'
<1> SUFFICES ASSUME NEW i \in Id, NEW j \in Id, i # j,
                    row'[i].key # None, row'[i].key = row'[j].key,
                    row'[i].kind = row'[j].kind, row'[i].user = row'[j].user
             PROVE  \/ row'[i].startedAt + 1 < row'[j].startedAt
                    \/ row'[j].startedAt + 1 < row'[i].startedAt
  BY DEF OneCreatePerKeyAndDay
<1>1. ASSUME NEW a \in Id, NEW b \in Id, NEW c \in Call, a # b, CreateCommit(c, a),
             row'[a].key # None, row'[a].key = row'[b].key,
             row'[a].kind = row'[b].kind, row'[a].user = row'[b].user
      PROVE  row'[b].startedAt + 1 < row'[a].startedAt
  <2>1. row'[b] = row[b]
    BY <1>1 DEF CreateCommit, TypeOK
  <2>2. /\ row'[a].key = call[c].key /\ row'[a].kind = call[c].kind
        /\ row'[a].user = call[c].user /\ row'[a].startedAt = now
        /\ call[c].kind \in Kind /\ call[c].user \in User
    BY <1>1, CreatedRow
  <2>3. call[c].key \in Key
    BY <1>1, <2>2 DEF TypeOK, CallState
  <2>4. record[call[c].kind][call[c].user][call[c].key] = NoRecord
    BY <1>1, <2>2 DEF CreateCommit, RecordFits
  <2>5. NoRecord.id # b
    BY CreatesAssumption DEF NoRecord
  <2>6. row[b].kind = call[c].kind /\ row[b].user = call[c].user /\ row[b].key = call[c].key
    BY <1>1, <2>1, <2>2
  <2>7. row[b].startedAt + 1 < now
    BY <2>2, <2>3, <2>4, <2>5, <2>6 DEF OlderRows
  <2>8. QED BY <2>1, <2>2, <2>7
<1>2. ASSUME NEW a \in Id, row'[a].key # None, \A c \in Call : ~CreateCommit(c, a)
      PROVE  /\ row'[a].key = row[a].key /\ row'[a].kind = row[a].kind
             /\ row'[a].user = row[a].user /\ row'[a].startedAt = row[a].startedAt
  BY <1>2, RowSteps
<1>3. QED BY <1>1, <1>2 DEF OneCreatePerKeyAndDay

\* The inductive invariant holds in every state.
THEOREM Invariance == Spec => []IInv
<1>1. Init => IInv
  <2>1. ASSUME Init PROVE TypeOK
    <3>1. NoRow \in RowState /\ NoRecord \in RecordState
      BY DEF NoRow, RowState, NoRecord, RecordState, Statuses
    <3>2. call \in [Call -> CallState] /\ row \in [Id -> RowState]
      BY <2>1, <3>1, CallTypes DEF Init
    <3>3. record \in [Kind -> [User -> [Key -> RecordState]]]
      BY <2>1, <3>1 DEF Init
    <3>4. QED BY <2>1, <3>2, <3>3 DEF Init, TypeOK
  <2>2. ASSUME Init PROVE RowsMake /\ RecordsMake
    BY <2>2 DEF Init, RowsMake, RecordsMake
  <2>3. ASSUME Init PROVE OlderRows /\ OneActiveSession /\ OneCreatePerKeyAndDay
    BY <2>3, CreatesAssumption
    DEF Init, OlderRows, OneActiveSession, OneCreatePerKeyAndDay, NoRow, Active
  <2>4. ASSUME Init PROVE CallsMake /\ RepliesWithOwnRow
    BY <2>4 DEF Init, CallsMake, RepliesWithOwnRow, IdleCall, At
  <2>5. QED BY <2>1, <2>2, <2>3, <2>4 DEF IInv
<1>2. IInv /\ [Next]_vars => IInv'
  BY TypeStep, RowsMakeStep, RecordsMakeStep, OlderRowsStep, CallsMakeStep, OneActiveStep,
     OneCreateStep
  DEF IInv
<1>3. QED BY <1>1, <1>2, PTL DEF Spec

\* Rows, records and calls keep their types.
THEOREM TypeCorrect == Spec => []TypeOK
<1>1. IInv => TypeOK
  BY DEF IInv
<1>2. QED BY <1>1, Invariance, PTL

\* Racing starts leave a user one active session per room.
THEOREM OneSession == Spec => []OneActiveSession
<1>1. IInv => OneActiveSession
  BY DEF IInv
<1>2. QED BY <1>1, Invariance, PTL

\* Retries create once a day, however they overlap.
THEOREM OneCreate == Spec => []OneCreatePerKeyAndDay
<1>1. IInv => OneCreatePerKeyAndDay
  BY DEF IInv
<1>2. QED BY <1>1, Invariance, PTL

\* A retry is answered with its own row.
THEOREM OwnReplies == Spec => []RepliesWithOwnRow
<1>1. IInv => RepliesWithOwnRow
  BY DEF IInv
<1>2. QED BY <1>1, Invariance, PTL

\* Retention deletes what a key created only when the 24 hours of the key's
\* record are over.
LEMMA RecordNamesStep ==
  ASSUME IInv, RecordNamesRow, [Next]_vars
  PROVE  RecordNamesRow'
<1> USE DEF IInv
<1> SUFFICES ASSUME NEW o \in Kind \ {"rooms.create"}, NEW u \in User, NEW k \in Key,
                    record'[o][u][k] # NoRecord,
                    ~RecordExpired(record'[o][u][k], now')
             PROVE  row'[record'[o][u][k].id].status \in Present
  BY DEF RecordNamesRow
<1>1. ASSUME NEW c \in Call, NEW i \in Id, CreateCommit(c, i),
             record'[o][u][k].id = i
      PROVE  row'[i].status \in Present
  BY <1>1, CreatedRow DEF InitialStatus, Present, Active
<1>2. ASSUME record'[o][u][k] = record[o][u][k]
      PROVE  row'[record[o][u][k].id].status \in Present
  <2> DEFINE i == record[o][u][k].id
  <2>0. /\ i \in Id /\ row[i].kind = o
        /\ row[i].startedAt = record[o][u][k].createdAt
        /\ record[o][u][k].createdAt \in Nat /\ i # None
    <3>1. record[o][u][k].createdAt \in Nat
      BY DEF TypeOK, RecordState
    <3>2. QED BY <1>2, <3>1, RecordNames, CreatesAssumption
  <2>a. ~RecordExpired(record[o][u][k], now)
    BY <1>2, <2>0, TimeSteps DEF RecordExpired, TypeOK
  <2>1. row[i].status \in Present
    BY <1>2, <2>0, <2>a DEF RecordNamesRow
  <2>2. row[i] # NoRow
    BY <2>0, <2>1, CreatesAssumption DEF NoRow
  <2>3. ~RowExpired(row[i])
    <3>1. /\ now \in Nat /\ row[i].startedAt \in Nat /\ row[i].finishedAt \in Nat
          /\ row[i].startedAt <= row[i].finishedAt
      BY <2>0, <2>2 DEF TypeOK, RowState, RowsMake
    <3>2. ~(row[i].startedAt + 1 < now)
      BY <2>0, <2>a DEF RecordExpired
    <3>3. RowExpired(row[i]) => row[i].finishedAt + RetentionDays < now
      BY DEF RowExpired, MessageExpired, SessionExpired
    <3>4. QED BY <3>1, <3>2, <3>3, CreatesAssumption
  <2>4. QED BY <2>0, <2>1, <2>2, <2>3, RowSteps DEF Present, Active
<1>3. CASE \E c \in Call, i \in Id :
             /\ CreateCommit(c, i)
             /\ record'[o][u][k] = [id |-> i, payload |-> call[c].payload, createdAt |-> now]
  <2>1. PICK c \in Call, i \in Id :
             /\ CreateCommit(c, i)
             /\ record'[o][u][k] = [id |-> i, payload |-> call[c].payload, createdAt |-> now]
    BY <1>3
  <2>2. record'[o][u][k].id = i
    BY <2>1
  <2>3. QED BY <1>1, <2>1, <2>2
<1>4. QED BY <1>2, <1>3, RecordSteps

\* For the 24 hours of a key's record its message or session is there.
THEOREM RecordsAnswer == Spec => []RecordNamesRow
<1>1. Init => RecordNamesRow
  BY DEF Init, RecordNamesRow
<1>2. QED BY <1>1, RecordNamesStep, Invariance, PTL DEF Spec

\* A finished session stays finished, whatever update had read before.
THEOREM FinishedStays == Spec => FinishedIsFinal
<1>1. ASSUME IInv, [Next]_vars, NEW i \in Id
      PROVE  /\ row[i].status \in {"FINISHED", "DELETED"} =>
                  row'[i].status \in {row[i].status, "DELETED"}
             /\ row[i].status \in Active /\ row'[i].status # row[i].status =>
                  row'[i].status \in Allowed(row[i].status)
  <2> USE <1>1 DEF IInv
  <2>1. row[i] = NoRow => row[i].status = "ABSENT"
    BY DEF NoRow
  <2>2. RowExpired(row[i]) => row[i].status \notin Active
    BY DEF RowExpired, MessageExpired, SessionExpired, Active
  <2>3. row[i].status \in Active => row[i].kind # "rooms.create"
    BY <2>1 DEF RowsMake, Active
  <2>4. QED BY <2>1, <2>2, <2>3, RowSteps DEF Active
<1>2. IInv /\ [Next]_vars =>
        [\A i \in Id :
           /\ row[i].status \in {"FINISHED", "DELETED"} =>
                row'[i].status \in {row[i].status, "DELETED"}
           /\ row[i].status \in Active /\ row'[i].status # row[i].status =>
                row'[i].status \in Allowed(row[i].status)]_row
  BY <1>1
<1>3. QED BY <1>2, Invariance, PTL DEF Spec, FinishedIsFinal

(***************************************************************************)
(* Announcements.                                                          *)
(***************************************************************************)

\* Only rows that exist are announced, or about to be.
AnnouncedExist ==
  /\ \A i \in announced : row[i] # NoRow
  /\ \A c \in Call : At(c, "create", "committed") => row[call[c].id] # NoRow

\* A call that is about to announce a create has committed it in this step, or
\* was about to announce it before.
LEMMA CommittedCalls ==
  ASSUME IInv, [Next]_vars, NEW c \in Call, At(c, "create", "committed")'
  PROVE  \/ \E i \in Id : CreateCommit(c, i) /\ call'[c].id = i
         \/ At(c, "create", "committed") /\ call'[c].id = call[c].id
<1> USE DEF IInv, TypeOK, At, IdleCall
<1>2. ASSUME NEW d \in Call, NEW u \in User, NEW o \in Kind, NEW p \in Payload,
             NEW k \in Key \cup {None}, Create(d, o, u, p, k)
      PROVE  call'[c] = call[c]
  BY <1>2 DEF Create
<1>3. ASSUME NEW d \in Call, NEW u \in User, NEW i \in Id,
             NEW next \in Active \cup {"FINISHED"}, Update(d, u, i, next)
      PROVE  call'[c] = call[c]
  BY <1>3 DEF Update
<1>4. ASSUME NEW d \in Call, NEW i \in Id, CreateCommit(d, i)
      PROVE  \/ call'[c] = call[c]
             \/ d = c /\ call'[c].id = i
  <2>1. call[d] \in CallState
    OBVIOUS
  <2>2. QED BY <1>4, <2>1 DEF CreateCommit, CallState
<1>5. ASSUME NEW d \in Call, \/ CreateConflict(d) \/ FindRecord(d) \/ Replay(d)
                             \/ UpdateConflict(d) \/ Announce(d) \/ Crash(d)
      PROVE  call'[c] = call[c]
  <2>1. call[d] \in CallState
    OBVIOUS
  <2>2. ASSUME Finish(d) \/ Advance(d, "conflicted")
        PROVE  call'[c] = call[c]
    BY <2>1, <2>2 DEF Finish, Advance, CallState
  <2>3. ASSUME FindRecord(d)
        PROVE  call'[c] = call[c]
    BY <2>1, <2>2, <2>3 DEF FindRecord, CallState
  <2>4. QED
    BY <1>5, <2>2, <2>3 DEF CreateConflict, Replay, UpdateConflict, Announce, Crash
<1>6. ASSUME NEW d \in Call, UpdateCommit(d)
      PROVE  call'[c] = call[c]
  <2>1. call[d] \in CallState
    OBVIOUS
  <2>2. QED BY <1>6, <2>1 DEF UpdateCommit, Advance, CallState
<1>7. Tick \/ Retention \/ (\E i \in Id : RoomDeleted(i)) \/ UNCHANGED vars => call' = call
  BY DEF Tick, Retention, Clean, RoomDeleted, vars
<1>8. QED BY <1>2, <1>3, <1>4, <1>5, <1>6, <1>7, StepCases

\* A step announces what a call was about to announce, and frees the call.
LEMMA AnnouncedSteps ==
  ASSUME TypeOK, [Next]_vars
  PROVE  \/ announced' = announced
         \/ \E c \in Call : /\ At(c, "create", "committed")
                            /\ announced' = announced \cup {call[c].id}
                            /\ call' = [call EXCEPT ![c] = IdleCall]
<1>1. ASSUME NEW c \in Call, Announce(c), announced' # announced
      PROVE  /\ At(c, "create", "committed")
             /\ announced' = announced \cup {call[c].id}
             /\ call' = [call EXCEPT ![c] = IdleCall]
  BY <1>1 DEF Announce, At, Finish
<1>2. ASSUME \A c \in Call : ~Announce(c)
      PROVE  announced' = announced
  BY <1>2, StepCases
  DEF vars, Create, Update, CreateCommit, CreateConflict, FindRecord, Replay, UpdateConflict,
      Crash, UpdateCommit, Tick, Retention, Clean, RoomDeleted
<1>3. QED BY <1>1, <1>2

LEMMA AnnouncedStep ==
  ASSUME IInv, AnnouncedExist, AnnouncedOnce, [Next]_vars
  PROVE  AnnouncedExist' /\ AnnouncedOnce'
<1>1. ASSUME NEW i \in Id, row[i] # NoRow
      PROVE  row'[i] # NoRow
  <2>1. row[i].kind # "none" /\ row'[i].kind = row[i].kind
    BY <1>1, RowsKeep, CreatesAssumption DEF IInv, RowsMake
  <2>2. QED BY <2>1 DEF NoRow
<1>2. ASSUME NEW c \in Call, At(c, "create", "committed")
      PROVE  call[c].id \in Id /\ row'[call[c].id] # NoRow
  BY <1>1, <1>2 DEF IInv, CallsMake, At, AnnouncedExist
<1>3. ASSUME NEW c \in Call, NEW i \in Id, CreateCommit(c, i)
      PROVE  row[i] = NoRow /\ row'[i] # NoRow /\ announced' = announced
  <2>1. row[i] = NoRow
    BY <1>3 DEF CreateCommit, IInv, RowsMake, Present, Active
  <2>2. row'[i].status # "ABSENT"
    BY <1>3, CreatedRow DEF IInv, InitialStatus
  <2>3. QED BY <1>3, <2>1, <2>2 DEF CreateCommit, NoRow
<1>4. AnnouncedExist'
  <2>1. \A i \in announced' : row'[i] # NoRow
    BY <1>1, <1>2, AnnouncedSteps DEF IInv, TypeOK, AnnouncedExist
  <2>2. ASSUME NEW c \in Call, At(c, "create", "committed")'
        PROVE  row'[call'[c].id] # NoRow
    BY <1>2, <1>3, <2>2, CommittedCalls
  <2>3. QED BY <2>1, <2>2 DEF AnnouncedExist
<1>5. ASSUME NEW c \in Call, At(c, "create", "committed")'
      PROVE  /\ call'[c].id \notin announced'
             /\ \A d \in Call : At(d, "create", "committed")' /\ call'[d].id = call'[c].id
                                  => d = c
  <2>1. CASE \E i \in Id : CreateCommit(c, i) /\ call'[c].id = i
    <3>1. PICK i \in Id : CreateCommit(c, i) /\ call'[c].id = i
      BY <2>1
    <3>2. call'[c].id \notin announced'
      BY <1>3, <3>1 DEF AnnouncedExist
    <3>3. ASSUME NEW d \in Call, At(d, "create", "committed")', call'[d].id = i, d # c
          PROVE  FALSE
      <4>1. call'[d] = call[d]
        BY <3>1, <3>3 DEF CreateCommit, IInv, TypeOK
      <4>2. At(d, "create", "committed") /\ call[d].id = i
        BY <3>3, <4>1 DEF At
      <4>3. QED BY <1>3, <3>1, <4>2 DEF AnnouncedExist
    <3>4. QED BY <3>1, <3>2, <3>3
  <2>2. CASE At(c, "create", "committed") /\ call'[c].id = call[c].id
    <3>1. call'[c].id \notin announced'
      <4>1. ASSUME NEW d \in Call, At(d, "create", "committed"),
                   announced' = announced \cup {call[d].id},
                   call' = [call EXCEPT ![d] = IdleCall]
            PROVE  call[c].id \notin announced'
        <5>1. d # c
          BY <1>5, <4>1 DEF At, IdleCall, IInv, TypeOK
        <5>2. QED BY <2>2, <4>1, <5>1 DEF AnnouncedOnce
      <4>2. QED BY <2>2, <4>1, AnnouncedSteps DEF AnnouncedOnce, IInv
    <3>2. ASSUME NEW d \in Call, At(d, "create", "committed")', call'[d].id = call'[c].id
          PROVE  d = c
      <4>1. CASE At(d, "create", "committed") /\ call'[d].id = call[d].id
        BY <2>2, <3>2, <4>1 DEF AnnouncedOnce
      <4>2. CASE \E i \in Id : CreateCommit(d, i) /\ call'[d].id = i
        BY <1>3, <2>2, <3>2, <4>2 DEF AnnouncedExist
      <4>3. QED BY <3>2, <4>1, <4>2, CommittedCalls
    <3>3. QED BY <3>1, <3>2
  <2>3. QED BY <1>5, <2>1, <2>2, CommittedCalls
<1>6. AnnouncedOnce'
  BY <1>5 DEF AnnouncedOnce, At
<1>7. QED BY <1>4, <1>6

\* A create is announced at most once, whoever retries it.
THEOREM AnnouncedAtMostOnce == Spec => []AnnouncedOnce
<1>1. Init => AnnouncedExist /\ AnnouncedOnce
  BY DEF Init, AnnouncedExist, AnnouncedOnce, At, IdleCall
<1>2. QED BY <1>1, AnnouncedStep, Invariance, PTL DEF Spec
=============================================================================
