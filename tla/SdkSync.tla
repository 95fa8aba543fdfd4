------------------------------- MODULE SdkSync -------------------------------
(***************************************************************************)
(* What the Flutter SDK shows of a room: the cache that one StudyRoomSdk   *)
(* builds from REST answers and from realtime events, for one room and one *)
(* study session in it.                                                    *)
(*                                                                         *)
(* The server commits a change, then publishes it; publications of two     *)
(* requests, of two instances and over two topics arrive in any order and  *)
(* may be lost, so the events on their way are a set.  Commit and          *)
(* publication are one step here: an event that is not yet published is on *)
(* its way, one whose instance died before publishing it is lost.          *)
(*                                                                         *)
(* The cached room carries two versions: the one it claims, which a        *)
(* presence event overwrites, and the one its content was read at.         *)
(* Messages and join requests are kept by id like the session and are left *)
(* out, and so is the presence of the single members.                      *)
(***************************************************************************)
EXTENDS Naturals, FiniteSets, Sequences

CONSTANTS
  MaxRevision,  \* bound: last revision of the session, the one that ends it
  MaxHappenings \* bound: changes, faults and calls of the host in a behaviour

ASSUME SdkSyncAssumption ==
  MaxRevision \in Nat /\ MaxHappenings \in Nat

VARIABLES
  room,         \* the row of the room and the membership of the SDK's user
  revision,     \* revision of the session, 0 before it starts
  outbox,       \* events and evictions on their way
  replies,      \* answers of the SDK's own calls on their way
  socket,       \* the realtime connection, and whether it is in the room's topic
  phase,        \* what the lifecycle task does
  joined,       \* _joinedRoomIds contains the room
  call,         \* progress of rooms.subscribe, with the room it has read
  leaving,      \* progress of rooms.unsubscribe
  cache,        \* _syncState
  sync,         \* locals of the running _synchronize
  buffering, buffer, \* _bufferingEvents, _bufferedEvents
  lossy,        \* history: an event was lost, or sent while the socket was out of
                \* the topic of a joined room, before or since a synchronization
                \* began that has not succeeded
  exposed,      \* history: what could bring in a room that is not joined
  happened      \* bound: count of changes, faults and calls

server == <<room, revision>>
net    == <<outbox, replies>>
client == <<phase, joined, call, leaving, cache, sync, buffering, buffer>>
syncVars == <<server, net, socket, client, lossy, exposed, happened>>

Versions  == 1 .. MaxHappenings + 1
Revisions == 1 .. MaxRevision

Event == [kind: {"state", "presence"}, at: Versions]
           \cup [kind: {"session"}, at: Revisions]
           \cup [kind: {"gone", "evict"}, at: {0}]

State(v)    == [kind |-> "state", at |-> v]
Presence(v) == [kind |-> "presence", at |-> v]
Session(r)  == [kind |-> "session", at |-> r]
Gone  == [kind |-> "gone", at |-> 0]
Evict == [kind |-> "evict", at |-> 0]

\* newest, behind and setBack are history: the last revision the cache has
\* heard of, whether it then heard of an earlier one, and whether the claimed
\* version was set below the content's.
Cache == [version: {0} \cup Versions, content: {0} \cup Versions,
          session: {0} \cup Revisions, stale: BOOLEAN,
          newest: {0} \cup Revisions, behind: BOOLEAN, setBack: BOOLEAN]

Empty == [version |-> 0, content |-> 0, session |-> 0, stale |-> FALSE,
          newest |-> 0, behind |-> FALSE, setBack |-> FALSE]

\* An abandoned room.unsubscribe on its way is "stray".
Socket == [open: BOOLEAN, subscribed: BOOLEAN, stray: BOOLEAN]
Closed == [open |-> FALSE, subscribed |-> FALSE, stray |-> FALSE]

\* failed: idle, but after a failed resync connectionState still reads
\* synchronizing.
Phases == {"off", "subscribing", "admitted", "reading", "idle", "failed"}
Reads  == {"room", "sessions", "done"}

Sync == [replacing: BOOLEAN, read: Reads, previous: Cache, draft: Cache]
NoSync == [replacing |-> FALSE, read |-> "done", previous |-> Empty, draft |-> Empty]

\* rooms.subscribe: the command is "asked", the server has "checked" the
\* membership, the socket has "entered" the topic, the SDK has "joined" the
\* room and is "syncing" it; "failed", its command to leave again is under way
\* ("undoing") and has arrived ("undone").
Asking == {"asked", "checked", "entered"}
CallStages == Asking \cup {"none", "joined", "syncing", "failed", "undoing", "undone"}

Call == [at: CallStages, seed: {0} \cup Versions]
NoCall == [at |-> "none", seed |-> 0]

\* rooms.unsubscribe: its command is under way, and has arrived.
LeavingStages == {"no", "sent", "left"}

Idle == phase \in {"idle", "failed"}

\* _subscribe goes on without awaiting anything: the SDK does nothing else.
MidTurn == call.at = "failed" \/ (Idle /\ call.at = "joined")

Finished(r) == r = MaxRevision

\* listActive names running and paused sessions only.
Active(r) == IF Finished(r) THEN 0 ELSE r

(***************************************************************************)
(* The cache as a value.                                                   *)
(***************************************************************************)
WithRoom(c, v) == [c EXCEPT !.version = v, !.content = v]

\* A presence event brings a version and no content.
WithPresence(c, v) == [c EXCEPT !.version = v, !.setBack = @ \/ v < c.content]

WithSession(c, r) ==
  [c EXCEPT !.session = Active(r), !.behind = r < c.newest,
            !.newest = IF r > @ THEN r ELSE @]

SyncInit ==
  /\ room = [version |-> 1, member |-> TRUE] /\ revision = 0
  /\ outbox = {} /\ replies = {}
  /\ socket = Closed
  /\ joined = FALSE /\ cache = Empty
  /\ phase = "off" /\ call = NoCall /\ leaving = "no"
  /\ sync = NoSync /\ buffering = FALSE /\ buffer = <<>>
  /\ lossy = "no" /\ exposed = FALSE /\ happened = 0

ApplyState(c, v) == IF c.version <= v THEN WithRoom(c, v) ELSE c

\* Fault: the sessions of the room stay behind, and the room with them.
ForgetNothing(c) == c

\* Everything kept under the room's id is removed; staleRoomIds is not touched.
ForgetRoom(c) == [Empty EXCEPT !.stale = c.stale]

ApplyEvent(c, e) ==
  CASE e.kind = "state"    -> ApplyState(c, e.at)
    [] e.kind = "presence" -> IF c.version = 0 THEN c ELSE WithPresence(c, e.at)
    [] e.kind = "session"  -> WithSession(c, e.at)
    [] e.kind = "gone"     -> ForgetRoom(c)

\* Fault: a synchronization drops what it has buffered.
FinishBufferEmpty(c) == c

\* _finishEventBuffer replays the buffer over a state.
FinishBuffer(c) ==
  LET replayed[i \in 0 .. Len(buffer)] ==
        IF i = 0 THEN c ELSE ApplyEvent(replayed[i - 1], buffer[i])
  IN  replayed[Len(buffer)]

Heard(e) == \E i \in DOMAIN buffer : buffer[i] = e

(***************************************************************************)
(* The server: RoomsController, SessionsController and whoever else        *)
(* changes the room.                                                       *)
(***************************************************************************)
Send(events) == outbox' = outbox \cup events

Commit(member) ==
  room' = [version |-> room.version + 1, member |-> member]

\* Another user joins, leaves or takes the room over.
ChangeRoom ==
  /\ Commit(room.member)
  /\ Send({State(room.version + 1)})
  /\ UNCHANGED <<revision, replies, socket, client, lossy, exposed>>

\* The SDK's user is removed, or leaves from another device.
RemoveUser ==
  /\ room.member
  /\ Commit(FALSE)
  /\ Send({State(room.version + 1), Gone, Evict})
  /\ UNCHANGED <<revision, replies, socket, client, lossy, exposed>>

\* A join request of the user is approved.
ReadmitUser ==
  /\ ~room.member
  /\ Commit(TRUE)
  /\ Send({State(room.version + 1)})
  /\ UNCHANGED <<revision, replies, socket, client, lossy, exposed>>

\* publishPresence publishes a member under the version of a snapshot.
PublishPresence ==
  /\ Send({Presence(room.version)})
  /\ UNCHANGED <<server, replies, socket, client, lossy, exposed>>

\* The session moves on, by this SDK (own) or by another device.
UpdateSession(own) ==
  /\ ~Finished(revision)
  /\ own => replies = {}
  /\ revision' = revision + 1
  /\ Send({Session(revision + 1)})
  /\ replies' = IF own THEN {Session(revision + 1)} ELSE replies
  /\ UNCHANGED <<room, socket, client, lossy, exposed>>

\* The SDK's user hands the room over: the answer is the room, which may be
\* one that the SDK has not joined.
TransferOwnership ==
  /\ room.member /\ replies = {}
  /\ Commit(TRUE)
  /\ Send({State(room.version + 1)})
  /\ replies' = {State(room.version + 1)}
  /\ exposed' = (exposed \/ ~joined)
  /\ UNCHANGED <<revision, socket, client, lossy>>

(***************************************************************************)
(* The network and the SDK's event handler.                                *)
(***************************************************************************)
\* membership.updated goes to the user's topic, the rest to the room's.
Reaches(e) == socket.open /\ (e.kind = "gone" \/ socket.subscribed)

Lose(e) ==
  /\ e = Evict \/ Reaches(e)
  /\ outbox' = outbox \ {e}
  /\ lossy' = "since"
  /\ UNCHANGED <<server, replies, socket, client, exposed>>

StatePending == \E e \in replies : e.kind = "state"

\* A removed room may come back while the server still sends its events, or
\* while an answer from before the removal is on its way.
MayReturn ==
  \/ socket'.subscribed
  \/ phase \in {"subscribing", "admitted", "reading"}
  \/ StatePending

Leaves(e) == e.kind = "gone"

HandleUnbuffered(e) ==
  /\ cache' = ApplyEvent(cache, e)
  /\ joined' = (joined /\ ~Leaves(e))
  /\ exposed' = IF Leaves(e) THEN MayReturn ELSE exposed
  /\ UNCHANGED buffer

\* _handleRealtimeEvent
HandleEvent(e) ==
  IF buffering
  THEN /\ buffer' = Append(buffer, e)
       /\ UNCHANGED <<cache, joined, exposed>>
  ELSE HandleUnbuffered(e)

Deliver(e) ==
  /\ outbox' = outbox \ {e}
  /\ IF e = Evict
     THEN /\ socket' = [socket EXCEPT !.subscribed = FALSE]
          /\ UNCHANGED <<cache, joined, buffer, exposed>>
     ELSE /\ UNCHANGED socket
          /\ IF Reaches(e) THEN HandleEvent(e)
             ELSE UNCHANGED <<cache, joined, buffer, exposed>>
  /\ UNCHANGED <<server, replies, phase, call, leaving, sync, buffering, lossy>>

\* _publishSession and _publishRoom: the answer of a call of this SDK.
PublishAnswer(e) ==
  /\ replies' = replies \ {e}
  /\ cache' = IF e.kind = "session" THEN WithSession(cache, e.at)
               ELSE [WithRoom(cache, e.at) EXCEPT !.setBack = @ \/ e.at < cache.content]
  /\ UNCHANGED <<server, outbox, socket, phase, joined, call, leaving, sync,
                 buffering, buffer, lossy, exposed>>

(***************************************************************************)
(* The lifecycle: connect, subscribe, synchronize.                         *)
(***************************************************************************)
\* A closed connection fails the commands of a call that are on their way.
Abandoned(k) ==
  IF k.at \in Asking THEN NoCall
  ELSE [k EXCEPT !.at = IF @ = "undoing" THEN "undone" ELSE @]

HangUp ==
  /\ socket' = Closed
  /\ leaving' = IF leaving = "sent" THEN "left" ELSE leaving

Disconnect ==
  /\ socket.open
  /\ HangUp
  /\ call' = Abandoned(call)
  /\ UNCHANGED <<server, net, phase, joined, cache, sync, buffering, buffer,
                 lossy, exposed>>

\* _replaceRealtime detaches: the connection was lost, the cache is degraded
\* or the token runs out.
Replace ==
  /\ Idle
  /\ phase' = "off"
  /\ HangUp
  /\ call' = Abandoned(call)
  /\ UNCHANGED <<server, net, joined, cache, sync, buffering, buffer, lossy, exposed>>

\* The rooms to subscribe are listed, and events are buffered from here on.
Connect ==
  /\ phase = "off"
  /\ phase' = "subscribing"
  /\ socket' = [Closed EXCEPT !.open = TRUE]
  /\ buffering' = TRUE /\ buffer' = <<>>
  /\ sync' = [replacing |-> TRUE, read |-> IF joined THEN "room" ELSE "done",
              previous |-> Empty, draft |-> Empty]
  /\ exposed' = (exposed /\ (joined \/ StatePending))
  /\ UNCHANGED <<server, net, joined, call, leaving, cache, lossy>>

\* _synchronize captures the joined rooms and the state it may fall back to.
BeginSync(replacing, isJoined, previous) ==
  /\ phase' = "reading"
  /\ sync' = [replacing |-> replacing, read |-> IF isJoined THEN "room" ELSE "done",
              previous |-> previous, draft |-> Empty]
  /\ lossy' = IF lossy = "since" THEN "before" ELSE lossy

\* _removeRoom forgets the seed of a call that has joined.
Unseeded(k) == IF k.at \in Asking THEN k ELSE [k EXCEPT !.seed = 0]

Listed == sync.read = "room"

\* The answer to room.subscribe: the server looks the membership up before it
\* lets the socket in, and a room that is refused is removed.
Admitted ==
  /\ phase = "subscribing" /\ socket.open /\ Listed /\ room.member
  /\ phase' = "admitted"
  /\ UNCHANGED <<server, net, socket, joined, call, leaving, cache, sync,
                 buffering, buffer, lossy, exposed>>

Turned ==
  /\ phase = "subscribing" /\ socket.open /\ Listed /\ ~room.member
  /\ joined' = FALSE /\ cache' = Empty
  /\ call' = Unseeded(call)
  /\ exposed' = TRUE
  /\ BeginSync(TRUE, FALSE, Empty)
  /\ UNCHANGED <<server, net, socket, leaving, buffering, buffer>>

\* The socket is in the topic and the SDK knows; or there was none to ask for.
Subscribed ==
  /\ socket.open
  /\ \/ phase = "admitted" /\ socket' = [socket EXCEPT !.subscribed = TRUE]
     \/ phase = "subscribing" /\ ~Listed /\ UNCHANGED socket
  /\ BeginSync(TRUE, joined, cache)
  /\ UNCHANGED <<server, net, joined, call, leaving, cache, buffering, buffer, exposed>>

\* A rooms.subscribe that waits for the task that fails, fails too.
Failed(k) == IF k.at \in {"joined", "syncing"} THEN [k EXCEPT !.at = "failed"] ELSE k

\* _replaceRealtime ends in error: the connection is closed again.
TearDown ==
  /\ phase' = "off"
  /\ HangUp
  /\ call' = Failed(Abandoned(call))

SubscribeFails ==
  /\ phase \in {"subscribing", "admitted"}
  /\ TearDown
  /\ UNCHANGED <<server, net, joined, cache, sync, buffering, buffer, lossy, exposed>>

\* Fault: buffering starts when the answers are in.
ResyncUnbuffered == UNCHANGED <<buffering, buffer>>

BeginBuffer == buffering' = TRUE /\ buffer' = <<>>

BeginResync ==
  /\ Idle
  /\ BeginBuffer
  /\ BeginSync(FALSE, joined, cache)
  /\ UNCHANGED <<server, net, socket, joined, leaving, cache, exposed>>

HostResync == BeginResync /\ UNCHANGED call

\* The resync of a rooms.subscribe that has joined.
CallResync == BeginResync /\ call.at = "joined" /\ call' = [call EXCEPT !.at = "syncing"]

\* What is read goes into the draft.
Draft(read, draft) == sync' = [sync EXCEPT !.read = read, !.draft = draft]

\* Fault: a refused room counts as unavailable.
KeepRefused == UNCHANGED <<joined, call, exposed>>

\* _removeRoom with publish: false
RemoveRefused ==
  /\ joined' = FALSE
  /\ call' = Unseeded(call)
  /\ exposed' = MayReturn

\* rooms.get
ReadRoom ==
  /\ phase = "reading" /\ sync.read = "room"
  /\ UNCHANGED <<server, net, socket, phase, leaving, cache, buffering, buffer, lossy>>
  /\ IF room.member
     THEN /\ Draft("sessions", WithRoom(Empty, room.version))
          /\ UNCHANGED <<joined, call, exposed>>
     ELSE /\ sync' = [sync EXCEPT !.read = "done"]
          /\ RemoveRefused

\* A retryable failure keeps what there was before, or the room that
\* rooms.subscribe had read.
ReadRoomFails ==
  LET kept == IF sync.previous.version = 0 /\ call.at \notin Asking /\ call.seed # 0
              THEN WithRoom(sync.previous, call.seed) ELSE sync.previous
  IN /\ phase = "reading" /\ sync.read = "room"
     /\ Draft("done", [kept EXCEPT !.stale = TRUE])
     /\ UNCHANGED <<server, net, socket, phase, joined, call, leaving, cache,
                    buffering, buffer, lossy, exposed>>

\* _allActiveSessions; a refusal fails the synchronization.
ReadSessions ==
  /\ phase = "reading" /\ sync.read = "sessions" /\ room.member
  /\ Draft("done", WithSession(sync.draft, revision))
  /\ UNCHANGED <<server, net, socket, phase, joined, call, leaving, cache,
                 buffering, buffer, lossy, exposed>>

Refused == sync.read = "sessions" /\ ~room.member

\* The sessions of c, with the rest of d.
WithSessionsOf(d, c) ==
  [d EXCEPT !.session = c.session, !.newest = c.newest, !.behind = c.behind]

ReadSessionsFails ==
  /\ phase = "reading" /\ sync.read = "sessions"
  /\ Draft("done", [WithSessionsOf(sync.draft, sync.previous) EXCEPT !.stale = TRUE])
  /\ UNCHANGED <<server, net, socket, phase, joined, call, leaving, cache,
                 buffering, buffer, lossy, exposed>>

EndBuffer == buffering' = FALSE /\ buffer' = <<>>

\* What the buffer does to _joinedRoomIds.
JoinedAfterBuffer ==
  /\ joined' = (joined /\ ~Heard(Gone))
  /\ exposed' = IF Heard(Gone) THEN MayReturn ELSE exposed

\* A connection that was lost meanwhile fails the replacing task.
FinishSync ==
  /\ phase = "reading" /\ sync.read = "done"
  /\ IF sync.replacing /\ ~socket.open THEN TearDown
     ELSE /\ phase' = "idle"
          /\ call' = IF call.at = "syncing" THEN NoCall ELSE call
          /\ UNCHANGED <<socket, leaving>>
  /\ cache' = FinishBuffer(sync.draft)
  /\ JoinedAfterBuffer
  /\ EndBuffer
  /\ sync' = NoSync
  /\ lossy' = IF lossy = "before" /\ ~sync.draft.stale THEN "no" ELSE lossy
  /\ UNCHANGED <<server, net>>

\* Any other failure. What was buffered is applied to the previous state.
FailSync ==
  /\ phase = "reading"
  /\ IF sync.replacing THEN TearDown
     ELSE phase' = "failed" /\ call' = Failed(call) /\ UNCHANGED <<socket, leaving>>
  /\ cache' = IF buffer = <<>> THEN cache ELSE FinishBuffer(sync.previous)
  /\ JoinedAfterBuffer
  /\ EndBuffer
  /\ sync' = NoSync
  /\ UNCHANGED <<server, net, lossy>>

(***************************************************************************)
(* rooms.subscribe and rooms.unsubscribe                                   *)
(***************************************************************************)
\* rooms.get has answered, and the command is sent.
Subscribe ==
  /\ call = NoCall /\ socket.open /\ room.member
  /\ call' = [at |-> "asked", seed |-> room.version]
  /\ UNCHANGED <<server, net, socket, phase, joined, leaving, cache, sync,
                 buffering, buffer, lossy, exposed>>

\* The server looks the membership up, after the commands sent before.
SubscribeCheck ==
  /\ call.at = "asked" /\ leaving # "sent" /\ ~socket.stray
  /\ call' = IF room.member THEN [call EXCEPT !.at = "checked"] ELSE NoCall
  /\ UNCHANGED <<server, net, socket, phase, joined, leaving, cache, sync,
                 buffering, buffer, lossy, exposed>>

\* The socket joins the topic, whatever has happened to the membership.
SubscribeJoin ==
  /\ call.at = "checked"
  /\ call' = [call EXCEPT !.at = "entered"]
  /\ socket' = [socket EXCEPT !.subscribed = TRUE]
  /\ lossy' = IF joined /\ ~socket.subscribed THEN "since" ELSE lossy
  /\ exposed' = (exposed \/ ~joined)
  /\ UNCHANGED <<server, net, phase, joined, leaving, cache, sync, buffering, buffer>>

\* The acknowledgement arrives.
SubscribeAck ==
  /\ call.at = "entered"
  /\ call' = [call EXCEPT !.at = "joined"]
  /\ joined' = TRUE
  /\ UNCHANGED <<server, net, socket, phase, leaving, cache, sync, buffering,
                 buffer, lossy, exposed>>

\* The lookup fails; or the acknowledgement is late or the host cancels, and
\* the socket stays where the server has put it.  One given up before the
\* server lets the socket in ends here after it: the SDK heeds no late answer.
SubscribeAckFails ==
  /\ call.at \in {"asked", "entered"}
  /\ call' = NoCall
  /\ UNCHANGED <<server, net, socket, phase, joined, leaving, cache, sync,
                 buffering, buffer, lossy, exposed>>

\* _removeRoom
RemoveRoom ==
  /\ joined' = FALSE
  /\ cache' = Empty
  /\ exposed' = MayReturn

\* The catch clause sends room.unsubscribe, if there is a connection.
SubscribeUndo ==
  /\ call.at = "failed"
  /\ UNCHANGED <<server, net, socket, phase, leaving, sync, buffering, buffer, lossy>>
  /\ IF socket.open
     THEN call' = [call EXCEPT !.at = "undoing"] /\ UNCHANGED <<joined, cache, exposed>>
     ELSE call' = NoCall /\ RemoveRoom

UndoLeave ==
  /\ call.at = "undoing"
  /\ call' = [call EXCEPT !.at = "undone"]
  /\ socket' = [socket EXCEPT !.subscribed = FALSE]
  /\ UNCHANGED <<server, net, phase, joined, leaving, cache, sync, buffering,
                 buffer, lossy, exposed>>

UndoEnd ==
  /\ call.at = "undone"
  /\ UNCHANGED <<server, net, socket, phase, leaving, sync, buffering, buffer, lossy>>
  /\ call' = NoCall
  /\ RemoveRoom

\* The room is forgotten though its command is still on its way.
GivenUp == socket' = [socket EXCEPT !.stray = TRUE] /\ RemoveRoom

\* The second catch clause swallows the failure.
UndoFails ==
  /\ call.at = "undoing" /\ ~socket.stray
  /\ call' = NoCall
  /\ GivenUp
  /\ UNCHANGED <<server, net, phase, leaving, sync, buffering, buffer, lossy>>

\* The command is sent only in the states connected and degraded.
Unsubscribe ==
  /\ leaving = "no"
  /\ joined \/ cache.version # 0 \/ call # NoCall \/ socket.subscribed
  /\ UNCHANGED <<server, net, socket, phase, sync, buffering, buffer, lossy>>
  /\ IF phase = "idle" /\ socket.open
     THEN leaving' = "sent" /\ UNCHANGED <<joined, call, cache, exposed>>
     ELSE RemoveRoom /\ call' = Unseeded(call) /\ UNCHANGED leaving

Leave ==
  /\ leaving = "sent"
  /\ leaving' = "left"
  /\ socket' = [socket EXCEPT !.subscribed = FALSE]
  /\ UNCHANGED <<server, net, phase, joined, call, cache, sync, buffering,
                 buffer, lossy, exposed>>

UnsubscribeEnd ==
  /\ leaving = "left"
  /\ UNCHANGED <<server, net, socket, phase, sync, buffering, buffer, lossy>>
  /\ leaving' = "no"
  /\ RemoveRoom
  /\ call' = Unseeded(call)

\* The finally clause: the room is evicted though the command has failed.
UnsubscribeFails ==
  /\ leaving = "sent" /\ ~socket.stray
  /\ leaving' = "no"
  /\ GivenUp
  /\ call' = Unseeded(call)
  /\ UNCHANGED <<server, net, phase, sync, buffering, buffer, lossy>>

\* A command that was given up arrives after all.
StrayLeave ==
  /\ socket.stray
  /\ socket' = [socket EXCEPT !.subscribed = FALSE, !.stray = FALSE]
  /\ UNCHANGED <<server, net, client, lossy, exposed>>

\* Changes, faults, calls of the host and expiries of a token are bounded, what
\* follows from them is not.
Happens == happened < MaxHappenings /\ happened' = happened + 1
Follows == UNCHANGED happened

\* The steps of the server and of the network.
ServerNext ==
  \/ Happens /\ ChangeRoom
  \/ Happens /\ RemoveUser
  \/ Happens /\ ReadmitUser
  \/ Happens /\ PublishPresence
  \/ Happens /\ \E own \in BOOLEAN : UpdateSession(own)
  \/ Happens /\ TransferOwnership
  \/ Happens /\ \E e \in outbox : Lose(e)
  \/ Follows /\ SubscribeCheck
  \/ Follows /\ SubscribeJoin
  \/ Follows /\ UndoLeave
  \/ Follows /\ Leave
  \/ Follows /\ StrayLeave

\* The steps of the SDK, each from one await to the next.
Befalls == ~MidTurn /\ Happens
Runs    == ~MidTurn /\ Follows

ClientNext ==
  \/ Befalls /\ Disconnect
  \/ Befalls /\ SubscribeFails
  \/ Befalls /\ ReadRoomFails
  \/ Befalls /\ ReadSessionsFails
  \/ Befalls /\ FailSync
  \/ Befalls /\ Unsubscribe
  \/ Befalls /\ SubscribeAckFails
  \/ Befalls /\ UndoFails
  \/ Befalls /\ UnsubscribeFails
  \/ Befalls /\ joined /\ Subscribe
  \/ Runs    /\ ~joined /\ Subscribe
  \/ Runs    /\ \E e \in outbox : Deliver(e)
  \/ Runs    /\ \E e \in replies : PublishAnswer(e)
  \/ Befalls /\ Replace
  \/ Runs    /\ (cache.stale \/ ~socket.open) /\ Replace
  \/ Runs    /\ Connect
  \/ Runs    /\ Admitted
  \/ Runs    /\ Turned
  \/ Runs    /\ Subscribed
  \/ Runs    /\ ~socket.open /\ SubscribeFails
  \/ Befalls /\ HostResync
  \/ Runs    /\ ReadRoom
  \/ Runs    /\ ReadSessions
  \/ Runs    /\ FinishSync
  \/ Runs    /\ Refused /\ FailSync
  \/ Runs    /\ SubscribeAck
  \/ Runs    /\ UndoEnd
  \/ Runs    /\ UnsubscribeEnd
  \/ Follows /\ CallResync
  \/ Follows /\ SubscribeUndo

SyncNext == ServerNext \/ ClientNext

SyncSpec == SyncInit /\ [][SyncNext]_syncVars

(***************************************************************************)
(* Properties.                                                             *)
(***************************************************************************)
SyncTypeOK ==
  /\ room \in [version: Versions, member: BOOLEAN]
  /\ revision \in 0 .. MaxRevision
  /\ outbox \subseteq Event /\ replies \subseteq Event
  /\ socket \in Socket
  /\ socket.subscribed \/ socket.stray => socket.open
  /\ phase \in Phases
  /\ joined \in BOOLEAN /\ leaving \in LeavingStages
  /\ call \in Call
  /\ cache \in Cache
  /\ sync \in Sync
  /\ buffering \in BOOLEAN
  /\ buffer \in Seq(Event) /\ Len(buffer) <= 3 * MaxHappenings
  /\ lossy \in {"no", "before", "since"} /\ exposed \in BOOLEAN
  /\ phase \in {"subscribing", "admitted", "reading"} => buffering
  /\ Idle => ~buffering

\* The host sees a synchronized room and nothing is under way in the SDK.
Settled ==
  /\ Idle /\ joined /\ call = NoCall /\ leaving = "no"
  /\ socket.subscribed /\ ~cache.stale /\ lossy = "no"

\* A settled SDK shows the room as the database has it, or the event that
\* brings it there is still on its way: reading over REST while events are
\* buffered misses nothing.  The exception is a presence event that set the
\* version below the content it came with.
RoomCurrent ==
  Settled =>
    \/ cache.content = room.version
    \/ State(room.version) \in outbox
    \/ cache.setBack

\* The same of the session, unless the last that was heard of it was older
\* than something heard before.
SessionCurrent ==
  Settled =>
    \/ cache.session = Active(revision)
    \/ Session(revision) \in outbox
    \/ cache.behind

\* A connected SDK keeps the room of a user who is no member any more only
\* until membership.updated arrives.  When that was overtaken by the answer to
\* a subscription, the SDK learns it from the synchronization that follows;
\* when that fails to read the room, it is degraded and connects again.
JoinedIsMember ==
  (Idle /\ joined /\ socket.open /\ call = NoCall) =>
    room.member \/ Gone \in outbox \/ lossy # "no" \/ cache.stale

\* A room that is not joined is shown only if something could bring it in when
\* it was last removed (events of a topic that the socket was still in, a
\* synchronization or the answer to a transfer under way), if a subscription
\* entered its topic without being acknowledged, or if it was handed over
\* without being joined.
GhostExplained ==
  (Idle /\ ~joined /\ cache.version # 0) => exposed
=============================================================================
