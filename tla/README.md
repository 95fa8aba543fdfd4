# Verification of study_room_sdk

TLA+ models of study_room_sdk 0.4.1: a NestJS server (PostgreSQL, Redis,
Socket.IO), a Dart SDK and Flutter widgets for study rooms. The modules are
translated from the code; `PROJECT.json` names, for every definition, the lines
it stands for. TLC checks the properties on small instances, TLAPS proves the
most important ones for every value of the constants.

    tlc -workers 2 -config Rooms.cfg MCRooms.tla     # a run, see the table of runs
    tlapm RoomsProofs.tla                            # the proofs of a module

## 1. The system

### Server (`server/src`)

| Component | State | Operations | What is hard | What makes it correct |
|---|---|---|---|---|
| **Rooms** `rooms/` | `rooms` (version, deletedAt), `room_memberships`, `join_requests` | create, requestJoin, cancelJoinRequest, decideJoinRequest, removeMember, leave, transferOwnership, delete; reads | every handler checks in one statement and commits in another, on any number of instances; updates are by id | one owner per room; one pending request; entry by approval only; a version counts the operations |
| **Idempotent creates** `common/idempotency.service.ts` | `idempotency_records` | `execute` under rooms.create, chat.send, sessions.start | overlapping retries, crash after commit, records that expire between two reads | a key creates once; a retry is answered with its own row |
| **Study sessions** `sessions/` | `study_sessions` | start, update, listActive | starts race with resumes; a late update of a finished session | one active session per user and room; finished is final |
| **Chat** `chat/` | `chat_messages` | send, history | as for idempotent creates | as above |
| **Retention** `operations/retention.service.ts` | – | `clean`, nightly | deletes what a remembered key names | a remembered key finds its row |
| **Realtime gateway** `realtime/realtime.gateway.ts`, **publisher** | per socket: topics, joinedRoomIds, timers | connect, disconnect, room.subscribe, room.unsubscribe, set-away, room.evict; publications | membership is checked before an await and used after it; evictions cross instances over Redis pub/sub | who is not a member does not hear the room; gone sockets leave no presence |
| **Presence** `realtime/presence.service.ts` | Redis: a key with a TTL per connection, an index set per room | register, setAway, refresh, unregister, removeUser, statusesFor | several Redis commands per operation, from several instances; expiry | a connected member shows as online |
| **Applications** `applications/` | `applications`, a cache per instance | register, update, get | a read refills the cache after an invalidation; lost invalidations | a disabled application stays out |
| **Rate limit** `common/rate-limit.service.ts` | Redis counters per window | consume | the window turns, counters expire | no caller gets more than the limit per window, nobody is blocked for good |
| **Authentication** `auth/` | none (keys of the application) | verify a JWT | – | – |

The components meet in these places. Controllers call the services and then the
publisher (`publishRoom`, `publishUser`, `evictUser`); the gateway asks Rooms
whether a user is a member, and asks Presence to write; removal, departure and
deletion clean the presence and evict sockets on all instances; retention
deletes rows and records that the creates wrote.

### SDK (`packages/study_room_sdk`)

| Component | State | Operations | What is hard | What makes it correct |
|---|---|---|---|---|
| **Synchronization and cache** `sdk_sync_cache.dart` | rooms, messages, sessions, requests; buffered events; remembered event ids | synchronize, apply an event, remove a room, publish the answer of a call | REST answers of different moments, events before, between and after them, local evictions | the cache reaches the server's state and does not go back |
| **Lifecycle** `sdk_lifecycle.dart` | connection state, tasks in flight, timers, token | start, resync, reconnect with back-off, token refresh, subscribe, set-away, close | everything awaits; close and disconnect come in between | a lost connection is replaced; after close nothing is left |
| **Pomodoro** `focus.dart` | status, remaining time, timers, the generation of the stage | start, pause, skip, end, tick | a command comes while the end of the stage awaits the store | no stage is recorded twice, none hangs |
| **Study stores, backups, analytics** `focus.dart` | records, goals, settings | save, merge, export, import | a failing import | all or nothing |

### UI (`packages/study_room_ui`)

| Component | State | Operations | What is hard | What makes it correct |
|---|---|---|---|---|
| **Persistent store** `persistence.dart` | SharedPreferences keys per scope and date | mutate, export, import, migrate legacy data | one write per key, failures and crashes between two writes; mutations wait for imports and the other way round | all or nothing; no deadlock; a migration can be repeated |
| **State holders** (store builder, sound coordinator, lobby, chat) | the scope shown, the player | load, toggle, send | a late answer for the previous scope | the last request wins |
| **Widgets, themes, localizations** | – | – | – | layout, not modelled |

Every component, also those without a model, is listed in `PROJECT.json`
under `components`; the places where it can go wrong are under `hazards`.

## 2. The plan

In the order of importance of the behaviour; done is what this directory holds: modelled, checked, and its safety properties
proved.

| # | Module | Models | Abstract specification, theorems | State |
|---|---|---|---|---|
| 1 | `Rooms`, `RoomAggregate`, `RoomsProofs` | the room aggregate and its handlers | rooms with atomic operations; all safety properties and the refinement proved | done |
| 2 | `IdempotentCreates`, `IdempotentCreatesProofs` | creates with keys, session updates, retention | all safety properties proved | done |
| 3 | `RoomAccess`, `RoomAccessProofs` | subscriptions, evictions, disconnects | all safety properties proved | done |
| 4 | `PresenceIndex`, `PresenceIndexProofs` | presence in Redis, command by command | the safety property proved | done |
| 5 | `SdkSync`, `SdkProofs` | synchronization, buffered events, local evictions | the cache follows the server's versions; all properties proved | done but for what section 6 leaves out |
| 6 | `SdkLifecycle`, `SdkProofs` | tasks, reconnect, token refresh, close | one connection, nothing after close, recovery; all safety properties proved | done but for what section 6 leaves out |
| 7 | `AppAccess`, `AppAccessProofs` | application cache, handshakes, expiry timers, disconnection | all properties proved | done |
| 8 | `RateLimit`, `RateLimitProofs` | the quotas and the guards | all properties proved | done |
| 9 | `Listings`, `RoomsProofs` | the six listings with cursors | the safety property proved | done |
| 10 | `StudyRecords`, `StudyData`, `StudyStore`, `FocusTimerProofs` | the persistent study store: coordinator, imports with rollback | a store of whole mutations and whole imports; exclusion and the refinement proved | done |
| 11 | `FocusTimer`, `FocusTimerProofs` | the Pomodoro controller on the store | all safety properties of the timer proved | done |
| 12 | `LegacyMigration`, `StoreBuilder`, `SoundCoordinator` | the migration of old keys, the remaining state holders | no item is lost; the last request wins | planned |

Compositions: `Rooms` implements `RoomAggregate`; `StudyStore` implements
`StudyData`; `FocusTimer` extends `StudyStore` and calls it. `RoomAccess` takes
the memberships from `Rooms` as two actions, admit and remove; `SdkSync` takes
from the server one event per operation, and loses and reorders them;
`SdkLifecycle` takes from `SdkSync` that a synchronization succeeds, is
degraded or fails.

## 3. What is modelled

### Rooms (`Rooms.tla`, `MCRooms.tla`)

`roomState`, `version`, `role` and `request` are the columns of `rooms`,
`room_memberships` and `join_requests`; `call` is the progress of the HTTP
requests in flight. A step is one database statement, or one transaction taken
at its commit. An operation is the chain of its steps: `RequestJoin`,
`JoinCheckMember`, `JoinFindPending`, `JoinCreate` (or `JoinCreateConflict` when
the unique index refuses) and so on; a failed check frees the call, as the code
answers an error. The owner constraint trigger and the partial unique indexes of
the migrations are operators that the commits ask. `Crash` takes a call away
between any two steps. After the commit, `CleanPresence` and `TakeSnapshot` can
throw (`FollowUpFails`): the rows stay as committed, and the call ends with an
error (`AnswerError`) without the eviction and the event.

`RoomAggregate` is what the service promises: rooms whose operations are
atomic, each advancing the version by one. `Rooms` implements it (the variables
are the same, the calls are left out).

The database lets some orders through that nobody documents either way, and the
model has them: two decisions of one request can both commit, so an approval
can admit a user who was removed since; a cancellation and a decision overwrite
each other, so a user can be a member with a cancelled request; a member can
have a pending request; calls that passed their check go on in a room that was
deleted meanwhile. `RequestSettles` and `ClosedRoomQuiesces` say where this ends.

### Creates, sessions and retention (`IdempotentCreates.tla`)

`row` is a room, message or session by id, `record` is `idempotency_records` by
operation, user and key, `now` is the day. `CreateCommit` is the transaction;
`CreateConflict`, `FindRecord`, `Replay` are the reads after a unique violation,
a statement each; `Update`, `UpdateCommit`, `UpdateConflict` are the compare and
set of `SessionsService.update`; `Clean` is the retention, with the three
readings of the clock that `RetentionService.clean` takes for the records, the
messages and the sessions, one day apart at most because its transaction is
limited to a minute; `Announce` is the publication after the commit. `announced`
is a history variable, and a row remembers its key, which the table does not.

When the retention is exactly a day, a clean-up that begins before the end of a
record's day and reads the clock again after it deletes the row and keeps the
record: a replay then finds no row (409) until the next clean-up. The record has
had its 24 hours by then, and `RecordNamesRow` says that this is the only way it
can outlive its row.

A session that violates the unique index for active sessions, and whose record
expires between the violation and the read, is answered "active session
exists"; sessions outlive a membership. Audit entries are written in the same
transaction and are left out.

### Who hears a room (`RoomAccess.tla`)

One room. `topic` is the Socket.IO room, `joined` is `joinedRoomIds`, `present`
are the presence entries, `member` the memberships. Handlers of a socket
interleave where they await the database: `Subscribe`, `SubscribeCheck`,
`SubscribeJoin`; `SetAway`, `SetAwayCheck`, `SetAwayWrite`. `Disconnect`,
`DisconnectUnregister` and `DisconnectClear` are `handleDisconnect` before, in
and after its loop. An eviction is a `leaveMail` (socketsLeave) and a
`controlMail` (room.evict) per socket: they come in any order and either can be
lost. `Die` is the crash of the instance that holds a socket: the sockets'
state goes, the presence entries stay until `Expire`.

`late` and `lost` are history variables; a property that excuses a state names
the race that leads there, so nothing else can. `late` marks a socket that
joined on a check which a removal and its eviction had overtaken: it hears the
room although its user is no member, until it sets away (which checks again).
Other orders the code accepts: a late eviction throws out a socket whose user
was admitted again, and a late socketsLeave takes a socket out of the topic
that has subscribed again, which stays joined and present. Tokens that expire
end in a `Disconnect`. The entries are taken away by `removeUser` in one step
here; `PresenceIndex` has its commands.

### Presence in Redis (`PresenceIndex.tla`)

One room, one step per Redis command. `ttl` is the time to live of the key of a
connection, `index` and `indexTtl` the room's set; `timer` is the age of the
refresh timer, `kept` says whether the gateway still refreshes. Commands that
one instance sends without awaiting (the two of `write`, of `unregister`, of
`removeUser`) are carried out in the order sent, other instances' commands come
in between; `statusesFor` and `removeUser` read the index and the keys in two
commands and remove in a third. A removal that rests on an earlier read can
take a connection away that was written since: `raced` remembers whom.

Assumed: timers fire on time and a write or refresh is over within a unit of
time, while readers can be slow. A crash of an instance takes its operations
with it between any two commands.

### Applications, handshakes and token expiry (`AppAccess.tla`)

One application. `app` is its row, `cache` the copy of each instance,
`changeMail` the `application.changed` messages, `kickMail` the
`disconnectSockets` of the adapter; `call` is a request or a handshake:
`Begin` (the copy is used if fresh), `Read` and `Store` (the row comes from the
database and is remembered), `Reject` or `Admit`. `Write` commits a change,
`Announce` drops the own copy and publishes; `Hear` drops a copy and, when the
application is disabled, sends the disconnection. `timer` and `token` are the
expiry timer of a connection and the expiry of its token; `FireTimer` sets the
next timer when setTimeout could not wait long enough. History: `overtaken`
(an instance stored a row that had been replaced), `missed` (an invalidation was
lost), `late` (a handshake let in after the disconnection had passed), `spared`
(a disconnection was lost).

### Rate limits (`RateLimit.tla`)

`counter` is Redis' key per quota and window, with the time it expires at; a
request passes its guards one after the other: `Send` computes window and time
to live from a clock that may be up to `Skew` ahead, `Consume` runs the script
later. `passed` and `ran` count, as history, the runs within the limit while the
window lasted on some clock, and all of them.

### Listings (`Listings.tla`)

One table in the order of a listing, and a client that reads it page by page.
The six listings differ in where rows enter, whether they leave, return or
move, and what is checked on each page: a record each (`RoomList` to
`Applications`). `strayed` (the cursor's row has changed since the client got
it) and `steady` (rows untouched since the listing began) are history;
`Passing` are the rows of a page's query, in the order of the table. Active
sessions are sorted by `updatedAt`, which every pause and resume changes: under
that order a listing can skip or repeat rows, and a watched listing can end as
invalid, each only after its cursor strayed. `ListingsInit`, `ListingsNext`,
`ListingsSpec` and `ListingsTypeOK` carry the module's name because
`RoomsProofs` extends `Rooms` as well.

### Synchronization of the SDK (`SdkSync.tla`)

One room and one session. `room` and `revision` are the server, `outbox` the
events on their way (a set: any order), `replies` the answers of the SDK's own
calls, `cache` is `_syncState`, `sync` the locals of `_synchronize`, `buffer`
the events held back meanwhile. The steps are those of the code between two
awaits: `Connect` and `BeginResync`, which start to buffer, `Subscribed`,
`ReadRoom`, `ReadSessions`, `FinishSync`, which replays the buffer
(`FinishBuffer`), and the failures of each; `HandleEvent`, `PublishAnswer`,
`RemoveRoom`.

`rooms.subscribe` of the host goes over both sides: `Subscribe` sends the
command, the gateway looks the membership up (`SubscribeCheck`), then lets the
socket into the topic (`SubscribeJoin`), and `SubscribeAck` is the answer that
makes the room joined for the SDK; events, removals and other calls come in
between. `SubscribeAckFails` is an answer that is late, cancelled or an error:
the call ends, and the socket stays where the gateway has put it. When the
resync that follows fails, `SubscribeUndo`, `UndoLeave` and `UndoEnd` take the
socket out again, or `UndoFails` swallows that this failed. `rooms.unsubscribe`
is `Unsubscribe`, `Leave` and `UnsubscribeEnd`; with `UnsubscribeFails` the SDK
evicts the room though the socket is still in the topic. A command that was
given up can arrive later (`StrayLeave`, `socket.stray`). The subscriptions of a
reconnect have the same two steps, `Admitted` and `Subscribed`; a refused one is
`Turned`. The server handles the commands of a socket in the order they were sent
as far as a leave and a later check are concerned; at most one call of each kind
is under way, and one that was given up.

History: `lossy` (an event was lost, or the socket got into the topic of a joined
room only now, and no synchronization has succeeded since), `exposed` (what could
bring a room in that is not joined: a topic, a synchronization or an answer that
was open when the room was removed, a topic entered without an acknowledgement, a
transfer of a room that was not joined), `behind`, `setBack`, `newest` (what was
heard of the session and of the version). Messages, join requests and
the ring of remembered event ids are left out. `SyncInit`, `SyncNext`, `SyncSpec`
and `SyncTypeOK` carry the module's name because `SdkProofs` extends
`SdkLifecycle` as well.

### Lifecycle of the SDK (`SdkLifecycle.tla`)

`task` is `_lifecycleTask` with the stage its await is at, `open` the
connections that exist, `connection` the one the SDK listens to, `lost`,
`replacement` and `force` the flags that the end of a task looks at (`FollowUp`),
`timer` and `waiters` the reconnect timer and the callbacks that wait for the
running task, `closing` the progress of `close()`. History: `owed` (a forced
refresh was asked for and has not begun), `absorbed` (a task that does not force
served such a request).

What the model shows besides its properties: a callback of the reconnect timer
clears the force flag before it waits for the running task, which then serves it
without forcing (`absorbed`); a resync that fails leaves `connectionState` at
synchronizing; a degraded success resets the back-off.

### The study store (`StudyRecords.tla`, `StudyData.tla`, `StudyStore.tla`)

`StudyRecords` holds the data of one scope and what a mutation or an import
makes of it, as pure operators. `StudyData` is the promise of the store: data
that changes by whole mutations and whole imports. `StudyStore` is
`SharedPreferencesStudyStore` with its coordinator: `scopeTail` and `dateTail`
are the maps of tails, a call carries the set of tails it still waits for
(`barrier`), what it will write (`plan`), the snapshot (`before`) and the keys
left (`todo`). `RunDate` and `RunScope` queue; `LoadKey`, `LoadTasks`,
`Snapshot`, `Write`, `Saved` are the operations between awaits; `ImportFails`,
`Restore`, `Restored`, `RollbackFails` are the way back. The plugin is external:
a write changes its cache at once and is answered when the platform has saved
it or has not; what a failed write leaves in the cache is open. `unsaved` and
`torn` are history, and part of the promise: a restart may forget what the
platform refused to save, and only a crash in the middle of an import, or a
failed rollback, leaves a part of one. The refinement maps the data to what the
running operations found before they began.

Left out: daily goals (day records that nobody increments), change events, and
`MemoryStudyStore`, whose mutations run one after the other without an await.

### The focus timer (`FocusTimer.tla`)

`PomodoroController` on that store. `status` and `previous` are its state,
`expired` says that no time remains, `armed` that the timers are set; the
generation of a stage is abstracted to `saver`, the save that still belongs to
the stage of the moment, None when the stage has been left. Each command is an
action; `Elapse` lets the time run out before the timers fire, so commands can
come in between; `CompleteFocus`, `Answered` and `SaveFailed` are
`_completeStage` before and after its await; `Reopen` is dispose and the next
controller; `Kill` takes the process down together with the store. `saves`
counts, as history, how often the stage has been recorded.

## 4. The runs

| Run | Bounds | Shows |
|---|---|---|
| `rooms` | 1 room, 3 users, 2 requests, 3 calls, version ≤ 5, crashes | owner, pending requests, approval, closing of rooms and requests, and that all interleavings are atomic rooms |
| `rooms_live` | 2 rooms, 2 users, 1 request, 2 calls, version ≤ 4 in the one and ≤ 2 in the other, fair | no handler mixes the rows of two rooms; a committed removal reaches the eviction unless an exception ends its handler or the room is deleted |
| `creates` | the three creates of 1 user (1 title, 2 texts, 1 room to study in), 1 key, 2 ids, 2 calls, 3 days | one active session, one create and one event per key and day, replies, retention |
| `access` | 1 user with 1 socket, 2 calls, fair | who hears the room; evictions arrive, entries of gone sockets go for good |
| `presence` | 2 connections, 2 operations, TTL 2, refresh 1 | a refreshed connection shows as online but for the named races |
| `presence_clean` (violation) | 1 connection, 2 operations | the clean-up of the index drops a connection that was written again |
| `apps` | 2 instances, 1 connection, 1 call, entries and timers of length 1, time ≤ 2, 2 changes | stale copies are explained and short; disabling disconnects; a connection ends with its token, on time and not before |
| `sync` | 2 revisions of a session, 3 changes, losses, failures, token expiries or calls of the host; 1 subscribe and 1 unsubscribe call at a time | what a settled SDK shows is what the server has or an event will bring; a removed user's room is left, and a room that is not joined is shown only for a named reason |
| `lifecycle` | 2 connections, 6 faults, fair | one connection, quiet after close, recovery, close returns |
| `listings` | pages of 1 and 2, 4 rows, 3 changes, 2 listings | complete and without repetition unless the cursor's row has changed |
| `limits` | 2 callers with a shared and an own quota, 2 calls, 4 requests, window 3, skew 1, time ≤ 4 | the quota and the hints to wait, under skew and delay |
| `focus` | 1 day, 1 task, 1 backup in both modes, 2 operations, 2 failed writes or crashes, 1 focus session, fair | exclusion and refinement of the store, the stages of the timer, and that a focus stage ends |

Why the bounds are enough to be of interest. Three calls are the smallest
number with a transfer, a removal of its target and a decision at once; two
requests allow a second one while a late decision of the first is in flight.
Version 5 lets a room take a creation and four more operations; `Accept` in
`Rooms.tla` reserves a version for each call, so that the bound never stops a
call half-way. Version 4 in `rooms_live` is the smallest in which a member exists
(version 2) while a removal of it and a deletion or a transfer of the room are
both under way; the other room only has to exist, for its requests to meet the
owners of the first. Three days let a record expire, its key be used again, and
retention pass by in between. Two texts are enough for a key that is used with
another request; sessions of two rooms have nothing to compete for. Messages differ from sessions only in never being
active, and the records of two users differ in their primary key: both are left
to the proofs, as are several users and sockets of a room's topic. Each socket connects once; more connections add
nothing, because a closed socket shares no state with a new one but its user.
TTL 2 with refresh 1 is the tightest configuration the constructor admits.
Two instances are the one that changes and one that must hear of it; a lifetime
of 1 is already shorter than a database that answers after 1. Three happenings
let a change, a removal and an admission of the user meet one synchronization,
or a removal, a failed read and a lost event one subscription; the steps of a
subscription itself are not counted.
With two connections a late one and its replacement exist at once, and six
faults are two failing attempts with losses in between. Four rows make three
pages of two, so that a cursor can be invalid in the middle. Window 3 with skew 1
lets a counter that one clock started expire while another still counts. In
`focus` an import of two keys and the record are three keys of one scope; two
faults are what a failing import with a failing rollback needs. More than one
day, more operations in the queue and more data are left to the theorems
`Exclusion` and `StoreKeepsItsPromise`, which hold for all of them.

The runs check what several steps, often of several actors, could break. What
follows from it or says only what the variables hold is proved and takes no part
in a run: the type invariants of the modules (`SyncTypeOK` and `ListingsTypeOK`
in two of them; that of `SdkLifecycle` is in its run, because the run's other
properties read its records), `RecordNamesRow` (a key finds its row for the 24
hours it is remembered),
`TopicIsJoined` and `SubscribedIsPresent` of `RoomAccess`, `RejectedIsOverQuota`
and `StageHasAnEnd`.

All runs switch the deadlock check off: the clients may stop calling, and the
bounds on versions, ids, days, faults and connections end every behaviour.

Fairness. On the server a handler that has started runs to its end, unless its
instance dies (`WF` of `Handle(c)`: an event loop that serves every callback);
Redis delivers what it does not lose (`WF` of the delivery of each message);
keys expire (`WF` of `Expire`). In the SDK the token provider, the connector and
the server answer at last, with success or an error, connections close and
timers fire (`SdkLifecycle`): without the first of these `close()` waits for a
provider that never answers, as the code does. In the timer, time passes, a due
timer fires, and the platform answers each write; `CompleteFocus` has strong
fairness because a due timer needs no free slot in `Call`, which is a bound of
the model only. Nothing is assumed of clients, hosts and users: they need never
call, disconnect, resume or retry.

### What the violation run says

* `presence_clean`: `docs/realtime-events.md:11` derives online and offline from
  the connections. `statusesFor` can remove the index entry of a live connection,
  and `refresh` extends but never adds: the member is offline to everybody until
  the next set-away or subscription.

### Where code and documents differ besides

Found while modelling. The models contain these behaviours; the properties name
them as exceptions.

* `docs/realtime-events.md:31` says that a membership removal invokes a
  cross-instance socketsLeave. `removeMember` and `leave` answer 404 when the room
  was deleted after their commit (`rooms.service.ts:260`), and the controller then
  evicts nobody.
* `docs/data-backup-and-idempotency.md:63` has the realtime event in the
  transaction of the create. It is published afterwards, by the request that
  created the row only: a crash in between leaves it unpublished.
* `docs/realtime-events.md:29` says that REST wins over an event. An event of an
  earlier change of a session, delivered while a synchronization reads, is
  applied to what REST has answered (`sdk_sync_cache.dart:233`), and carries no
  version to compare: `behind` in `SdkSync`.
* `rooms.service.ts:259` and `276` await the presence after the commit: when Redis
  throws, the request of a removal that stands is answered with an error, and
  nobody is evicted although the room lives.
* A subscription whose acknowledgement times out or is cancelled throws at
  `sdk_lifecycle.dart:333`, outside the try that would unsubscribe, and a failing
  `room.unsubscribe` is swallowed (343) or comes after the local eviction that
  "is authoritative even when the realtime ACK is lost" (373). The socket stays in
  the topic, and the next `room.state` shows a room that is not joined
  (`exposed` in `SdkSync`).
* A user who is removed between the check of a subscription and its answer gets
  `membership.updated` before the SDK has joined the room. If the synchronization
  then cannot read the room, the SDK keeps it as joined and is degraded until it
  has connected again (`cache.stale` in `JoinedIsMember`).
* A deletion reads the members it will evict before its transaction
  (`rooms.service.ts:316`): an approval that commits in between leaves the new
  member's sockets in the topic.
* A handshake that had read the enabled row connects after the application was
  disabled and its sockets disconnected (`late` in `AppAccess`).
* `pause()` in the moment a focus stage runs out, before its timers fire, keeps
  no time; `resume()` then skips the stage, which is never recorded.
* A legacy migration that fails or is killed between copying and removing leaves
  the old keys in place: the next user who signs in gets a copy too
  (`persistence.dart:119`). A test gives the data to only one user
  (`study_room_ui_test.dart:1026`).
* A write that failed may stay readable in the plugin's cache, and the next
  mutation of the key builds on it and saves it.

## 5. What is proved

For every number of users, sockets, requests, keys, calls and days:

* `RoomsProofs`: `TypeOK`, `ExactlyOneOwner`, `OnePendingPerUser`,
  `CallsAgreeWithRows`, `AdmittedByApproval`, `ClosedRoomQuiesces`,
  `RequestSettles`, and `ImplementsAggregate` (the refinement).
* `IdempotentCreatesProofs`: `TypeOK`, `OneActiveSession`,
  `OneCreatePerKeyAndDay`, `RepliesWithOwnRow`, `RecordNamesRow`,
  `AnnouncedOnce`, `FinishedIsFinal`.
* `RoomAccessProofs`: `TypeOK`, `TopicIsJoined`, `StraySubscriptionRaced`,
  `SubscribedIsPresent`.
* `RateLimitProofs`: `TypeOK`, `WindowQuota`, `RejectedIsOverQuota`,
  `HintSuffices`.
* `AppAccessProofs`: `TypeOK`, `StaleCopyExplained`, `DisabledIsDisconnected`,
  `StaleCopyIsShort`, `EndsWithToken`.
* `PresenceIndexProofs`: `TypeOK`, `RefreshedStaysOnline`.
* `SdkProofs`: of the lifecycle `TypeOK`, `OneConnection`, `ClosedIsQuiet`,
  `NeverStranded`, `ForceRemembered`; of the synchronization `SyncTypeOK`,
  `RoomCurrent`, `SessionCurrent`, `JoinedIsMember`, `GhostExplained`.
* `RoomsProofs`, second part: `ListingsTypeOK` and `ExactUnlessStrayed` of the
  listings.
* `FocusTimerProofs`: of the store `RunsAlone` and `ImplementsStudyData` (the
  refinement), by itself and with the timer as a host; of the timer `TypeOK`,
  `FocusSavedOnce`, `StageHasAnEnd` and `BreakFollowsFocus`.

The arguments. In `Rooms` a commit is admitted only when the rows it leaves
have one owner; the invariant that carries the rest says that a call in flight
names existing rows, and that a request belongs to the room its decider was
checked in. The action properties and the refinement follow action by action
from it. In `IdempotentCreates` the strengthening ties a record to the row it
names (same user, operation, key, request, same day) and every row with a key
to the record or to an expired day; with a retention of a day or more, and
readings of the clock that are in order and the last of them not ahead of it,
the row is then kept for the 24 hours of the record. In `RoomAccess` the three safety properties together
with the shape of the calls are inductive: what excuses a socket goes only in a
step that takes the socket out of the topic, or that puts its user on `lost`.
In `RateLimit` a counter that has started in its window lives to the end of the
window on the slowest clock, so that its count bounds what has passed.

In `AppAccess` neither the age of a copy nor the expiry of a connection can be
read off one variable. The invariant says when things were true: what the
database has answered was the row no longer ago than its latency
(`AnswersAreRecent`), so a copy of a replaced row was stored at most a latency
after the change and expires one lifetime later (`CopiesAreRecent`, which is
`StaleCopyIsShort`); the expiry timer of an open connection fires no later than
its token expires, or is due (`TimerBeforeToken`). In `PresenceIndex` it relates
times as well: the key of a connection that is kept, and that no removal on an
earlier read has hidden, lives at least TTL less the age of its refresh timer
(`KeyLasts`), the index of its room twice the TTL less that age unless the
command that extends it is on its way (`IndexLasts`). `WrittenIsFresh` and
`LeavingFirst` carry this over the gap between the two commands of a write.

In `SdkLifecycle` two connections never exist because an open one is the one the
SDK listens to or one that is being closed, and the task knows which (`Links`);
a task that fetches a token or connects therefore has none. That the SDK is not
stranded and forgets no forced refresh needs to be known of the flags before the
task ends: who began a task decides its kind (`TaskShape`), callbacks wait only
for a task (`WaitersWait`), and a connection in place has a reason to be replaced
some time (`ReasonToWake`). In `SdkSync` nothing under way is ahead of the
database (`NothingAhead`), and as long as the SDK listens, what it shows, what it
has read, and what it falls back on if the synchronization fails each has the
last state or will hear of it, from the outbox or from the buffer
(`RoomFollows`, `SessionFollows`); `RemovalShows` is the same of the end of the
membership, followed through the stages of a subscription, and `RemovedIsGone`
says that a room which nothing exposes is not joined, its socket not in the
topic, and leaves no draft, event or previous state it could come back from. The replay of the buffer is a fold
over events of any order, reasoned about by the events it contains.

In `Listings` a page is what a filter lets through of a table that rows enter,
leave and move in. The invariant (`Bookmark`) says that the cursor marks a
position in the table as it is now, that every untouched row up to there has been
listed, and that no row behind it has been: each change of the table moves
the position, and a change of the cursor's row ends the claim (`strayed`).

In `StudyStore` an operation knows only the tails it met, so exclusion is about
what the barriers reach: c is ahead of d if it is in every set of calls that
holds d's barriers and with each call that call's barriers. The invariant
(`Excludes`) says that the tail of a queue has the whole queue ahead of it, and
that of two calls in conflict one is ahead of the other. Entering puts a call
behind all that its tails have ahead; ending takes a call away that had nobody
ahead. A call that runs has no barriers, hence nobody ahead.

The refinement rests on exclusion. Its invariant (`StoreInv`) follows each call
through its keys: what it will write is the outcome of what it found
(`MutationPlanned`, `ImportPlanned`); a key of its snapshot has the new value,
or the old one, or, while a failed import is taken back, is in doubt between
the two (`Forward`, `Backward`); and a key that is in no snapshot is on
the disk as it is in the cache unless the platform has refused to save it
(`FreeKeysSaved`). By exclusion no key is in two snapshots, so the data that the
mapping shows, the snapshot's where there is one and the cache's elsewhere, stays
as it is while a call writes, and changes by the whole mutation or import when the
last key is written, also when a crash takes calls away in between.

In `FocusTimer`
every step is a step of the store or leaves it alone; the invariant adds that the
timers of a stage stop only for its save, that this save is under way, and
that a stage which has been recorded has no time left.

The proofs rest on the named assumptions of the modules: `RoomsAssumption`,
`CreatesAssumption` (a retention of at least one day: the contract,
`contracts/openapi.yaml:672`, has that minimum), `RoomAccessAssumption`,
`RateLimitAssumption`, `AppAccessAssumption` (lifetimes and delays are not
zero), `PresenceAssumption` (the refresh interval is positive and shorter than
the TTL, as the constructor of the service demands), `ListingsAssumption`,
`SdkSyncAssumption`, `SdkLifecycleAssumption`, `StoreAssumption`,
`RecordsAssumption` (a backup is one that the parser accepts) and
`TimerAssumption`. `Clean` assumes in addition that the clocks of the instances
and of the database agree. `None` is no user, room, request, key, id, socket,
connection, operation, value of a record, or state of the timer.

Model-checked only: the liveness properties `RemovalEvictsInLiveRoom`,
`EvictionArrives`, `GoneSocketsFade`, `Recovers`, `CloseReturns` and `FocusEnds`,
because TLAPS does not reason about fairness and ENABLED. Every other property of
a passing run is a theorem. The library's induction theorems cannot be used with
the installed provers, and RECURSIVE operators are out of its reach; the modules
have none of the latter. Where a proof follows a recursive function, the replay
of the buffer and the filter of a page, it argues about the least
element that would break the claim, which exists by well-foundedness.

Limits of the runs that their theorems make up for, and of the models that
nothing does. `focus` has one day and two calls: longer queues and days in
parallel are in `Exclusion` and `StoreKeepsItsPromise`, a focus stage started
anew while the save of an old one is unanswered in the theorem of
`BreakFollowsFocus`. That a timer longer than setTimeout can wait ends with its
token is in the theorem of `EndsWithToken`; the run has timers of length 1. No
property speaks of a missed refresh of a presence entry (timers are on time), of
the order in which two updates of a session are published (`behind` only names
it), of a forced refresh served by a task that does not force (`absorbed` only
names it), or of a platform that never answers a write.

## 6. What is not modelled

Planned: the legacy migration, the store builder and the sound coordinator (a
value and a generation each), and the composition of `Rooms` and `RoomAccess`,
which would say whose sockets a deletion misses.

Left out in modelled components: set-away and the REST retry with a fresh token
in the SDK; messages, join requests and the 1024 remembered event ids of its
cache; the derivation of a presence status from connections and session, a pure
function; audit entries; daily goals, change events, the memory store and the
analytics (sums over day records) of the study data.

Left out for good: signatures and claims of tokens (a library, no state),
conversion to and from JSON, generated contract types and request DTOs,
telemetry, metrics and health, widgets, themes and localizations, deployment
files, and the scripts that generate contracts, test a deployment end to end and
build releases. These scripts and the generated files are more than half of the
TypeScript and SQL of the repository, which is why the lines that `PROJECT.json`
maps stay a small share of all lines although the handlers of the server are
covered.
