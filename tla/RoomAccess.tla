----------------------------- MODULE RoomAccess -----------------------------
(***************************************************************************)
(* Who hears a room: RealtimeGateway, RealtimePublisher.evictUser and the  *)
(* presence entries in Redis, for one room, while memberships come and go. *)
(*                                                                         *)
(* A socket hears the room while it is in the room's Socket.IO topic.  The *)
(* handlers of one socket run on the instance that holds it and interleave *)
(* where they await the database or Redis.  Socket.IO keeps the topics in  *)
(* the memory of that instance, join and leave take effect at the call,    *)
(* and the commands of an instance to Redis are carried out in the order   *)
(* of the calls; what a handler does after the answer of the database is   *)
(* therefore one step.                                                     *)
(*                                                                         *)
(* An eviction is two Redis messages, received by every instance over two  *)
(* connections: one makes the user's sockets leave the topic, the other    *)
(* runs handleRoomEviction, which takes the sockets one after the other.   *)
(* They are modelled as one message of each kind per socket, in any order; *)
(* messages of two evictions that wait for the same socket are one.        *)
(***************************************************************************)
EXTENDS Naturals

CONSTANTS
  User,        \* tenant users
  Socket,      \* connections, each used once
  UserOf,      \* the user whose token a connection presented
  Call,        \* handlers in flight at the same time
  None         \* no user or socket

ASSUME RoomAccessAssumption ==
  /\ UserOf \in [Socket -> User]
  /\ None \notin User \cup Socket

VARIABLES
  member,      \* room_memberships of the room, see module Rooms
  link,        \* what the gateway knows of a socket
  topic,       \* sockets in the room's topic
  joined,      \* sockets whose joinedRoomIds contain the room
  present,     \* sockets with a presence entry for the room
  leaveMail,   \* sockets with a socketsLeave on its way
  controlMail, \* sockets with a room.evict on its way
  call,        \* progress of the handlers in flight
  late,        \* history: sockets that joined on an outdated check
  lost         \* history: users whose last eviction did not reach every socket

vars == <<member, link, topic, joined, present, leaveMail, controlMail,
          call, late, lost>>

sockets == <<link, topic, joined, present>>
mail    == <<leaveMail, controlMail>>
history == <<late, lost>>

SocketsOf(u) == {s \in Socket : UserOf[s] = u}

\* closing: handleDisconnect has not reached the room; left: it has.
Links  == {"new", "open", "closing", "left", "closed"}
Stages == {"idle", "checking", "member", "evicting", "removed", "cleaned"}

CallState == [op: {"none", "subscribe", "setAway", "remove"}, at: Stages,
              socket: Socket \cup {None}, user: User \cup {None}]

IdleCall == [op |-> "none", at |-> "idle", socket |-> None, user |-> None]

Init ==
  /\ member = {}
  /\ link = [s \in Socket |-> "new"]
  /\ topic = {} /\ joined = {} /\ present = {}
  /\ leaveMail = {} /\ controlMail = {}
  /\ call = [c \in Call |-> IdleCall]
  /\ late = {} /\ lost = {}

At(c, op, stage) == call[c].op = op /\ call[c].at = stage
Begin(c, op, stage, s, u) ==
  /\ call[c].op = "none"
  /\ call' = [call EXCEPT ![c] = [op |-> op, at |-> stage, socket |-> s, user |-> u]]
Advance(c, stage) == call' = [call EXCEPT ![c].at = stage]
Finish(c) == call' = [call EXCEPT ![c] = IdleCall]

\* A handler that has yet to send the eviction of user u.
WillEvict(c, u) ==
  /\ call[c].user = u
  /\ call[c].op = "remove" \/ At(c, "setAway", "evicting")

\* The eviction of socket s is on its way, or a handler will send it.
EvictionPending(s) ==
  s \in leaveMail \/ \E c \in Call : WillEvict(c, UserOf[s])

\* PresenceService.unregister deletes the entry of this connection.
EntryOf(s) == {s}

(***************************************************************************)
(* Connections.                                                            *)
(***************************************************************************)
Connect(s) ==
  /\ link[s] = "new"
  /\ link' = [link EXCEPT ![s] = "open"]
  /\ UNCHANGED <<member, topic, joined, present, mail, call, history>>

\* Socket.IO takes the socket out of its topics, then handleDisconnect runs.
\* Handlers of the socket that are awaiting an answer go on.
Disconnect(s) ==
  /\ link[s] = "open"
  /\ link' = [link EXCEPT ![s] = "closing"]
  /\ topic' = topic \ {s}
  /\ late' = late \ {s}
  /\ UNCHANGED <<member, joined, present, mail, call, lost>>

\* The iteration of handleDisconnect comes to the room.
DisconnectUnregister(s) ==
  /\ link[s] = "closing"
  /\ s \in joined
  /\ link' = [link EXCEPT ![s] = "left"]
  /\ present' = present \ EntryOf(s)
  /\ UNCHANGED <<member, topic, joined, mail, call, history>>

\* It has come to its end.
DisconnectClear(s) ==
  /\ link[s] = "left" \/ (link[s] = "closing" /\ s \notin joined)
  /\ link' = [link EXCEPT ![s] = "closed"]
  /\ joined' = joined \ {s}
  /\ UNCHANGED <<member, topic, present, mail, call, history>>

(***************************************************************************)
(* room.subscribe, room.unsubscribe and presence.set-away                  *)
(***************************************************************************)
Subscribe(c, s) ==
  /\ link[s] = "open"
  /\ Begin(c, "subscribe", "checking", s, UserOf[s])
  /\ UNCHANGED <<member, sockets, mail, history>>

SubscribeCheck(c) ==
  /\ At(c, "subscribe", "checking")
  /\ IF call[c].user \in member THEN Advance(c, "member") ELSE Finish(c)
  /\ UNCHANGED <<member, sockets, mail, history>>

\* join of a disconnected socket does nothing; the rest is done all the same.
SubscribeJoin(c) ==
  LET s == call[c].socket
  IN  /\ At(c, "subscribe", "member")
      /\ topic' = IF link[s] = "open" THEN topic \cup {s} ELSE topic
      /\ joined' = joined \cup {s}
      /\ present' = present \cup {s}
      /\ late' = IF link[s] # "open" \/ UserOf[s] \in member \/ EvictionPending(s)
                   THEN late \ {s} ELSE late \cup {s}
      /\ Finish(c)
      /\ UNCHANGED <<member, link, mail, lost>>

Unsubscribe(s) ==
  /\ link[s] = "open"
  /\ joined' = joined \ {s}
  /\ topic' = topic \ {s}
  /\ present' = present \ EntryOf(s)
  /\ late' = late \ {s}
  /\ UNCHANGED <<member, link, mail, call, lost>>

SetAway(c, s) ==
  /\ link[s] = "open"
  /\ s \in joined
  /\ Begin(c, "setAway", "checking", s, UserOf[s])
  /\ UNCHANGED <<member, sockets, mail, history>>

SetAwayCheck(c) ==
  /\ At(c, "setAway", "checking")
  /\ Advance(c, IF call[c].user \in member THEN "member" ELSE "evicting")
  /\ UNCHANGED <<member, sockets, mail, history>>

\* The entry is written whatever has become of the subscription.
SetAwayWrite(c) ==
  /\ At(c, "setAway", "member")
  /\ present' = present \cup {call[c].socket}
  /\ Finish(c)
  /\ UNCHANGED <<member, link, topic, joined, mail, history>>

(***************************************************************************)
(* Memberships, as far as the sockets notice.                              *)
(***************************************************************************)
Admit(u) ==
  /\ u \notin member
  /\ member' = member \cup {u}
  /\ UNCHANGED <<sockets, mail, call, history>>

\* The transaction of removeMember or leave.
Remove(c, u) ==
  /\ u \in member
  /\ member' = member \ {u}
  /\ Begin(c, "remove", "removed", None, u)
  /\ UNCHANGED <<sockets, mail, history>>

\* PresenceService.removeUser deletes the entries that carry the user's id.
RemoveUser(u) == SocketsOf(u)

CleanPresence(c) ==
  /\ At(c, "remove", "removed")
  /\ present' = present \ RemoveUser(call[c].user)
  /\ Advance(c, "cleaned")
  /\ UNCHANGED <<member, link, topic, joined, mail, history>>

\* Fault: the sockets are looked up by their presence entries.
EvictPresent(u) == SocketsOf(u) \cap present

\* Everybody in the user's topic, wherever it is connected; a socket that is
\* still to connect may do so before the message arrives.
Evictable(u) == {s \in SocketsOf(u) : link[s] \in {"new", "open"}}

\* RealtimePublisher.evictUser.
EvictUser(c) ==
  LET u == call[c].user
  IN  /\ At(c, "remove", "cleaned") \/ At(c, "setAway", "evicting")
      /\ leaveMail' = leaveMail \cup Evictable(u)
      /\ controlMail' = controlMail \cup Evictable(u)
      /\ lost' = lost \ {u}
      /\ Finish(c)
      /\ UNCHANGED <<member, sockets, late>>

\* socketsLeave arrives.
LeaveTopic(s) ==
  /\ s \in leaveMail
  /\ leaveMail' = leaveMail \ {s}
  /\ topic' = topic \ {s}
  /\ late' = late \ {s}
  /\ UNCHANGED <<member, link, joined, present, controlMail, call, lost>>

EvictSocket(s) ==
  /\ joined' = joined \ {s}
  /\ topic' = topic \ {s}
  /\ present' = present \ EntryOf(s)
  /\ late' = late \ {s}

\* room.evict arrives and handleRoomEviction comes to the socket; one that is
\* not connected, or has not joined, is passed over.
HandleRoomEviction(s) ==
  /\ s \in controlMail
  /\ controlMail' = controlMail \ {s}
  /\ IF link[s] = "open" /\ s \in joined
       THEN EvictSocket(s)
       ELSE UNCHANGED <<joined, topic, present, late>>
  /\ UNCHANGED <<member, link, leaveMail, call, lost>>

(***************************************************************************)
(* Faults and time.                                                        *)
(***************************************************************************)

\* Redis loses a message to an instance that is reconnecting.
LoseMail(s) ==
  /\ \/ /\ s \in leaveMail
        /\ leaveMail' = leaveMail \ {s}
        /\ UNCHANGED controlMail
     \/ /\ s \in controlMail
        /\ controlMail' = controlMail \ {s}
        /\ UNCHANGED leaveMail
  /\ lost' = lost \cup {UserOf[s]}
  /\ UNCHANGED <<member, sockets, call, late>>

\* The instance dies with the handler of a removal, or answers 404 because
\* the room was deleted meanwhile.
AbortRemoval(c) ==
  /\ call[c].op = "remove"
  /\ lost' = lost \cup {call[c].user}
  /\ Finish(c)
  /\ UNCHANGED <<member, sockets, mail, late>>

\* The instance dies that holds the socket, and with it the socket's handlers.
Die(s) ==
  /\ link[s] \in {"open", "closing", "left"}
  /\ link' = [link EXCEPT ![s] = "closed"]
  /\ topic' = topic \ {s}
  /\ joined' = joined \ {s}
  /\ late' = late \ {s}
  /\ lost' = lost \cup {u \in User : \E c \in Call : call[c].socket = s /\ WillEvict(c, u)}
  /\ call' = [c \in Call |-> IF call[c].socket = s THEN IdleCall ELSE call[c]]
  /\ UNCHANGED <<member, present, mail>>

\* Fault: the timer is not cleared.
RefreshedForEver(s) == s \in joined

\* refreshPresence runs for this socket and room: more often than entries
\* expire, until the timer is cleared when the socket disconnects.
Refreshed(s) == link[s] = "open" /\ s \in joined

\* The entry's time to live is over.
Expire(s) ==
  /\ s \in present
  /\ ~Refreshed(s)
  /\ present' = present \ {s}
  /\ UNCHANGED <<member, link, topic, joined, mail, call, history>>

(***************************************************************************)
(* The specification.                                                      *)
(***************************************************************************)
Handle(c) ==
  \/ SubscribeCheck(c)
  \/ SubscribeJoin(c)
  \/ SetAwayCheck(c)
  \/ SetAwayWrite(c)
  \/ CleanPresence(c)
  \/ EvictUser(c)

Client(s) ==
  \/ Connect(s)
  \/ Disconnect(s)
  \/ Unsubscribe(s)
  \/ \E c \in Call : Subscribe(c, s) \/ SetAway(c, s)

Deliver(s) == LeaveTopic(s) \/ HandleRoomEviction(s)
Close(s)   == DisconnectUnregister(s) \/ DisconnectClear(s)

Next ==
  \/ \E s \in Socket :
       Client(s) \/ Deliver(s) \/ Close(s) \/ LoseMail(s) \/ Die(s) \/ Expire(s)
  \/ \E c \in Call : Handle(c) \/ AbortRemoval(c)
  \/ \E u \in User : Admit(u) \/ \E c \in Call : Remove(c, u)

\* Handlers run to their end, Redis delivers what it does not lose, and
\* entries that nobody refreshes expire.
Fairness ==
  /\ \A c \in Call : WF_vars(Handle(c))
  /\ \A s \in Socket :
       WF_vars(LeaveTopic(s)) /\ WF_vars(HandleRoomEviction(s)) /\ WF_vars(Expire(s))

Spec == Init /\ [][Next]_vars
FairSpec == Spec /\ Fairness

-----------------------------------------------------------------------------
(***************************************************************************)
(* Properties.                                                             *)
(***************************************************************************)

\* Every variable has its type.
TypeOK ==
  /\ member \subseteq User
  /\ link \in [Socket -> Links]
  /\ topic \subseteq Socket /\ joined \subseteq Socket /\ present \subseteq Socket
  /\ leaveMail \subseteq Socket /\ controlMail \subseteq Socket
  /\ call \in [Call -> CallState]
  /\ late \subseteq Socket /\ lost \subseteq User

\* handleRoomEviction passes over sockets that have not joined, so a socket
\* must not be in the topic without having joined, nor after it disconnected.
TopicIsJoined == \A s \in topic : s \in joined /\ link[s] = "open"

\* A socket of a user who is no member hears the room only while its eviction
\* is pending, because the eviction was lost, or because it joined on a check
\* that the removal had overtaken: every other order of subscriptions,
\* set-aways, removals, admissions and late messages is caught.
StraySubscriptionRaced ==
  \A s \in topic : UserOf[s] \notin member =>
    EvictionPending(s) \/ s \in late \/ UserOf[s] \in lost

\* A subscribed connection counts for its user's presence: no unregister,
\* removeUser or expiry takes its entry unless an eviction is under way.
SubscribedIsPresent ==
  \A s \in topic : s \in present \/ EvictionPending(s) \/ UserOf[s] \in lost

\* An eviction that a handler has set out to send reaches every socket of the
\* user on every instance, unless Redis loses it or the handler is aborted.
EvictionArrives ==
  \A s \in Socket :
    (s \in topic /\ EvictionPending(s)) ~> (s \notin topic \/ UserOf[s] \in lost)

\* The entry of a connection that is gone goes too and does not come back,
\* whichever of its handlers were in flight and wherever its instance died.
GoneSocketsFade ==
  \A s \in Socket : link[s] = "closed" ~> [](s \notin present)
=============================================================================
