------------------------- MODULE IdempotentCreates -------------------------
(***************************************************************************)
(* The three creates that take an Idempotency-Key (IdempotencyService      *)
(* .execute under rooms.create, chat.send and sessions.start), the updates *)
(* of a study session, and the nightly retention that deletes what both    *)
(* wrote.                                                                  *)
(*                                                                         *)
(* A create that has passed requireMember is one transaction (the record   *)
(* of the key, the row, the audit entry); after a unique violation it      *)
(* reads the record and then the row, each by a statement of its own.  An  *)
(* update reads the session and then writes it if its status has not       *)
(* changed.  Handlers of any number of API instances and the retention run *)
(* between two such steps.  Time is counted in days.                       *)
(*                                                                         *)
(* Memberships are those of module Rooms: a request that fails             *)
(* requireMember changes nothing and is left out here.                     *)
(***************************************************************************)
EXTENDS Naturals

CONSTANTS
  Kind,         \* the operations in use
  User,         \* tenant users
  Title,        \* the requests to create a room, as they are hashed
  Text,         \* the messages to a room
  StudyRoom,    \* the rooms to study in
  Key,          \* idempotency keys
  Id,           \* resource ids, each used once
  Call,         \* HTTP requests that can be in flight at the same time
  None,         \* no user, payload, key or id
  RetentionDays,\* chatRetentionDays and sessionRetentionDays
  MaxDay        \* bound on time

Payload == Title \cup Text \cup StudyRoom

ASSUME CreatesAssumption ==
  /\ Kind \subseteq {"rooms.create", "chat.send", "sessions.start"}
  /\ None \notin User \cup Payload \cup Key \cup Id
  /\ RetentionDays \in Nat \ {0}
  /\ MaxDay \in Nat

VARIABLES
  now,          \* the clock of the database
  row,          \* rooms, chat_messages and study_sessions, by id
  record,       \* idempotency_records, by operation, user and key
  announced,    \* the creates whose realtime event has been published
  call          \* progress of the handlers in flight

vars == <<now, row, record, announced, call>>

Active   == {"RUNNING", "PAUSED"}
Present  == Active \cup {"FINISHED", "KEPT"}       \* KEPT: not a session
Statuses == Present \cup {"ABSENT", "DELETED"}
Stages   == {"idle", "checked", "conflicted", "found", "read", "committed"}

\* Column finishedAt is the sentAt of a message: what retention looks at.  It
\* means nothing (null in the code) for a session that is not finished.
\* The key a row was created with is not stored, it is kept for the properties.
RowState ==
  [kind: Kind \cup {"none"}, status: Statuses, user: User \cup {None},
   payload: Payload \cup {None}, key: Key \cup {None},
   startedAt: Nat, finishedAt: Nat]

NoRow == [kind |-> "none", status |-> "ABSENT", user |-> None, payload |-> None,
          key |-> None, startedAt |-> 0, finishedAt |-> 0]

RecordState == [id: Id \cup {None}, payload: Payload \cup {None}, createdAt: Nat]
NoRecord == [id |-> None, payload |-> None, createdAt |-> 0]

CallState ==
  [op: {"none", "create", "update"}, at: Stages, kind: Kind \cup {"none"},
   user: User \cup {None}, payload: Payload \cup {None}, key: Key \cup {None},
   id: Id \cup {None}, seen: Statuses, next: Statuses]

IdleCall == [op |-> "none", at |-> "idle", kind |-> "none", user |-> None,
             payload |-> None, key |-> None, id |-> None,
             seen |-> "ABSENT", next |-> "ABSENT"]

Init ==
  /\ now = 0
  /\ row = [i \in Id |-> NoRow]
  /\ record = [o \in Kind |-> [u \in User |-> [k \in Key |-> NoRecord]]]
  /\ announced = {}
  /\ call = [c \in Call |-> IdleCall]

At(c, op, stage) == call[c].op = op /\ call[c].at = stage

Advance(c, stage) == call' = [call EXCEPT ![c].at = stage]

Finish(c) == call' = [call EXCEPT ![c] = IdleCall]

(***************************************************************************)
(* Constraints.                                                            *)
(***************************************************************************)

\* Fault: the index sessions_one_active is missing.
NoActiveIndex(o, u, p) == TRUE

\* The partial unique index sessions_one_active on room and user.
OneActiveIndex(o, u, p) ==
  o = "sessions.start" =>
    \A i \in Id : ~(row[i].kind = o /\ row[i].user = u /\ row[i].payload = p
                      /\ row[i].status \in Active)

\* The primary key of idempotency_records lets this one in; without a key
\* no record is written.
RecordFits(o, u, k) == k # None => record[o][u][k] = NoRecord

(***************************************************************************)
(* POST /rooms, /rooms/:id/messages and /rooms/:id/sessions                *)
(***************************************************************************)
Create(c, o, u, p, k) ==
  /\ call[c].op = "none"
  /\ call' = [call EXCEPT ![c] =
       [IdleCall EXCEPT !.op = "create", !.at = "checked", !.kind = o,
                        !.user = u, !.payload = p, !.key = k]]
  /\ UNCHANGED <<now, row, record, announced>>

\* Without a key these are create, send and start.
CreateRoom(c, u, title, k) ==
  "rooms.create" \in Kind /\ Create(c, "rooms.create", u, title, k)

SendMessage(c, u, roomAndText, k) ==
  "chat.send" \in Kind /\ Create(c, "chat.send", u, roomAndText, k)

StartSession(c, u, room, k) ==
  "sessions.start" \in Kind /\ Create(c, "sessions.start", u, room, k)

InitialStatus(o) == IF o = "sessions.start" THEN "RUNNING" ELSE "KEPT"

CreateCommit(c, i) ==
  LET o == call[c].kind
      u == call[c].user
      p == call[c].payload
      k == call[c].key
  IN  /\ At(c, "create", "checked")
      /\ row[i].status = "ABSENT"
      /\ OneActiveIndex(o, u, p)
      /\ RecordFits(o, u, k)
      /\ row' = [row EXCEPT ![i] =
           [kind |-> o, status |-> InitialStatus(o),
            user |-> u, payload |-> p, key |-> k,
            startedAt |-> now, finishedAt |-> now]]
      /\ record' = IF k = None THEN record
                   ELSE [record EXCEPT ![o][u][k] =
                           [id |-> i, payload |-> p, createdAt |-> now]]
      /\ call' = [call EXCEPT ![c].at = "committed", ![c].id = i]
      /\ UNCHANGED <<now, announced>>

\* P2002, of whichever constraint: 409 without a key, else the record is read.
CreateConflict(c) ==
  /\ At(c, "create", "checked")
  /\ \/ ~OneActiveIndex(call[c].kind, call[c].user, call[c].payload)
     \/ ~RecordFits(call[c].kind, call[c].user, call[c].key)
  /\ IF call[c].key = None THEN Finish(c) ELSE Advance(c, "conflicted")
  /\ UNCHANGED <<now, row, record, announced>>

RecordOf(o, u, k) == record[o][u][k]

\* Fault: the hashes of the requests are not compared.
Recorded(r, p) == r.id # None

\* The record exists and its request hash is that of this request.
SameRequest(r, p) == r.id # None /\ r.payload = p

\* Fault: a replay is answered as if this request had created the row.
FindRecordAsCreated(c) ==
  LET r == RecordOf(call[c].kind, call[c].user, call[c].key)
  IN  /\ At(c, "create", "conflicted")
      /\ IF SameRequest(r, call[c].payload)
           THEN call' = [call EXCEPT ![c].at = "committed", ![c].id = r.id]
           ELSE Finish(c)
      /\ UNCHANGED <<now, row, record, announced>>

FindRecord(c) ==
  LET r == RecordOf(call[c].kind, call[c].user, call[c].key)
  IN  /\ At(c, "create", "conflicted")
      /\ IF SameRequest(r, call[c].payload)
           THEN call' = [call EXCEPT ![c].at = "found", ![c].id = r.id]
           ELSE Finish(c)          \* the violation, or 409 idempotency_conflict
      /\ UNCHANGED <<now, row, record, announced>>

\* The row as it is by now, or 409 idempotency_result_unavailable.
Replay(c) ==
  /\ At(c, "create", "found")
  /\ Finish(c)
  /\ UNCHANGED <<now, row, record, announced>>

(***************************************************************************)
(* PATCH /sessions/:id                                                     *)
(***************************************************************************)
Allowed(status) ==
  CASE status = "RUNNING" -> {"PAUSED", "FINISHED"}
    [] status = "PAUSED"  -> {"RUNNING", "FINISHED"}
    [] OTHER              -> {}

Update(c, u, i, next) ==
  /\ call[c].op = "none"
  /\ row[i].kind = "sessions.start"
  /\ row[i].user = u                                      \* 403
  /\ next \in Allowed(row[i].status)                      \* 404, 400
  /\ call' = [call EXCEPT ![c] =
       [IdleCall EXCEPT !.op = "update", !.at = "read", !.user = u, !.id = i,
                        !.seen = row[i].status, !.next = next]]
  /\ UNCHANGED <<now, row, record, announced>>

\* Fault: updateMany filters on the id alone.
StatusOfAnyTime(c) == TRUE

\* The filter of updateMany: nobody has changed the status since the read.
StatusUnchanged(c) == row[call[c].id].status = call[c].seen

UpdateCommit(c) ==
  /\ At(c, "update", "read")
  /\ StatusUnchanged(c)
  /\ row' = [row EXCEPT ![call[c].id].status = call[c].next,
       ![call[c].id].finishedAt = IF call[c].next = "FINISHED" THEN now ELSE @]
  /\ Advance(c, "committed")
  /\ UNCHANGED <<now, record, announced>>

UpdateConflict(c) ==
  /\ At(c, "update", "read")
  /\ ~StatusUnchanged(c)
  /\ Finish(c)                                            \* 409
  /\ UNCHANGED <<now, row, record, announced>>

\* The realtime event, then the member's presence as a snapshot shows it.
Announce(c) ==
  /\ call[c].at = "committed"
  /\ announced' = IF call[c].op = "create" THEN announced \cup {call[c].id} ELSE announced
  /\ Finish(c)
  /\ UNCHANGED <<now, row, record>>

\* The API instance dies.
Crash(c) ==
  /\ call[c].op # "none"
  /\ Finish(c)
  /\ UNCHANGED <<now, row, record, announced>>

(***************************************************************************)
(* The environment: time, the nightly retention, rooms that are deleted.   *)
(***************************************************************************)
Tick ==
  /\ now < MaxDay
  /\ now' = now + 1
  /\ UNCHANGED <<row, record, announced, call>>

\* Fault: a record of the previous day is deleted.
RecordFromYesterday(r, at) == r.id # None /\ r.createdAt + 1 <= at

RecordExpired(r, at) == r.id # None /\ r.createdAt + 1 < at

MessageExpired(w, at) ==
  w.kind = "chat.send" /\ w.status = "KEPT" /\ w.finishedAt + RetentionDays < at

SessionExpired(w, at) == w.status = "FINISHED" /\ w.finishedAt + RetentionDays < at

\* RetentionService.clean: one transaction, under the advisory lock, taken at
\* its commit.  The clock is read anew for the records, the messages and the
\* sessions, and the transaction lasts a minute at most: with the clock in
\* days, the first reading is at most one step behind.
Clean(recordsAt, messagesAt, sessionsAt) ==
  /\ recordsAt <= messagesAt /\ messagesAt <= sessionsAt
  /\ now <= recordsAt + 1
  /\ record' = [o \in Kind |-> [u \in User |-> [k \in Key |->
       IF RecordExpired(record[o][u][k], recordsAt) THEN NoRecord ELSE record[o][u][k]]]]
  /\ row' = [i \in Id |->
       IF MessageExpired(row[i], messagesAt) \/ SessionExpired(row[i], sessionsAt)
         THEN [row[i] EXCEPT !.status = "DELETED"]
         ELSE row[i]]
  /\ UNCHANGED <<now, announced, call>>

Retention ==
  \E recordsAt, messagesAt, sessionsAt \in 0 .. now : Clean(recordsAt, messagesAt, sessionsAt)

RoomDeleted(i) ==
  /\ row[i].kind = "rooms.create"
  /\ row[i].status = "KEPT"
  /\ row' = [row EXCEPT ![i].status = "DELETED"]
  /\ UNCHANGED <<now, record, announced, call>>

(***************************************************************************)
(* The specification.                                                      *)
(***************************************************************************)
Arrive(c) ==
  \E u \in User :
    \/ \E k \in Key \cup {None} :
         \/ \E title \in Title : CreateRoom(c, u, title, k)
         \/ \E text \in Text : SendMessage(c, u, text, k)
         \/ \E room \in StudyRoom : StartSession(c, u, room, k)
    \/ \E i \in Id, next \in Active \cup {"FINISHED"} : Update(c, u, i, next)

Handle(c) ==
  \/ \E i \in Id : CreateCommit(c, i)
  \/ CreateConflict(c)
  \/ FindRecord(c)
  \/ Replay(c)
  \/ UpdateCommit(c)
  \/ UpdateConflict(c)
  \/ Announce(c)

Next ==
  \/ \E c \in Call : Arrive(c) \/ Handle(c) \/ Crash(c)
  \/ Tick
  \/ Retention
  \/ \E i \in Id : RoomDeleted(i)

Spec == Init /\ [][Next]_vars

-----------------------------------------------------------------------------
(***************************************************************************)
(* Properties.                                                             *)
(***************************************************************************)

\* The rows, records and calls have the types of the schema.
TypeOK ==
  /\ now \in Nat
  /\ row \in [Id -> RowState]
  /\ record \in [Kind -> [User -> [Key -> RecordState]]]
  /\ announced \subseteq Id
  /\ call \in [Call -> CallState]

\* A user studies in a room once: starts with different keys, or without one,
\* that race with each other and with resumed sessions leave one active
\* session of that user in that room.
OneActiveSession ==
  \A i, j \in Id :
    /\ row[i].status \in Active /\ row[j].status \in Active
    /\ row[i].user = row[j].user /\ row[i].payload = row[j].payload
    => i = j

\* docs/data-backup-and-idempotency.md: a key creates once, until its record
\* expires after 24 hours.  Retries that overlap, follow a crash, or come
\* after the row was finished or deleted do not create again before that.
OneCreatePerKeyAndDay ==
  \A i, j \in Id :
    /\ i # j
    /\ row[i].key # None /\ row[i].key = row[j].key
    /\ row[i].kind = row[j].kind /\ row[i].user = row[j].user
    => \/ row[i].startedAt + 1 < row[j].startedAt
       \/ row[j].startedAt + 1 < row[i].startedAt

\* A retry is answered with the row its own user created by the same
\* operation, key and request, never with somebody else's, even when the
\* record was replaced between the violation and the read of the record.
RepliesWithOwnRow ==
  \A c \in Call : At(c, "create", "found") =>
    LET w == row[call[c].id]
    IN  /\ w.kind = call[c].kind /\ w.user = call[c].user
        /\ w.payload = call[c].payload /\ w.key = call[c].key

\* A session moves between running and paused until it is finished, and is
\* never active again: a resume that read it before it was finished loses.
FinishedIsFinal ==
  [][\A i \in Id :
       /\ row[i].status \in {"FINISHED", "DELETED"} =>
            row'[i].status \in {row[i].status, "DELETED"}
       /\ row[i].status \in Active /\ row'[i].status # row[i].status =>
            row'[i].status \in Allowed(row[i].status)]_row

\* docs/data-backup-and-idempotency.md has a retry answered for 24 hours:
\* until then retention keeps what a remembered key created, and a retry finds
\* its message or session (a room can be deleted by its owner).  After that
\* the record may outlive its row until the next clean-up.
RecordNamesRow ==
  \A o \in Kind \ {"rooms.create"}, u \in User, k \in Key :
    record[o][u][k] # NoRecord =>
      RecordExpired(record[o][u][k], now) \/ row[record[o][u][k].id].status \in Present

\* However often a create is retried, its event is published at most once: one
\* request of those that name the row has created it, and the others, replays,
\* do not announce it.
AnnouncedOnce ==
  \A c, d \in Call : At(c, "create", "committed") =>
    /\ call[c].id \notin announced
    /\ At(d, "create", "committed") /\ call[d].id = call[c].id => d = c
=============================================================================
