--------------------------- MODULE PresenceIndex ---------------------------
(***************************************************************************)
(* PresenceService on Redis, for one room: a key with a time to live per   *)
(* connection, and a set that indexes the keys of the room.  A member      *)
(* shows as online when a connection of theirs is in the index and has its *)
(* key (statusesFor).                                                      *)
(*                                                                         *)
(* Every Redis command is a step: other instances' commands come between.  *)
(* Commands that one instance sends without awaiting an answer (the two of *)
(* write, of unregister, of removeUser) are carried out in the order sent. *)
(* Time is counted in units of which TtlSeconds and RefreshSeconds are     *)
(* multiples; timers fire on time and a write or refresh is over within a  *)
(* unit, while readers can be slow.                                        *)
(***************************************************************************)
EXTENDS Naturals

CONSTANTS
  Socket,          \* connections
  Leaver,          \* those of the user whose membership may be removed
  Call,            \* Redis operations in flight at the same time
  None,            \* no connection
  TtlSeconds,
  RefreshSeconds

\* The constructor refuses any other configuration.
ASSUME PresenceAssumption ==
  /\ Leaver \subseteq Socket
  /\ None \notin Socket
  /\ TtlSeconds \in Nat /\ RefreshSeconds \in Nat \ {0}
  /\ RefreshSeconds < TtlSeconds

VARIABLES
  kept,       \* in: the gateway refreshes the entry; gone: the instance died
  ttl,        \* time to live of a connection's key, 0 without key
  index,      \* members of the room's index
  indexTtl,   \* its time to live, 0 when it has none
  timer,      \* time since the refresh timer of a connection fired
  call,       \* progress of the operations in flight
  raced       \* history: connections a removal on an earlier read has dropped

vars == <<kept, ttl, index, indexTtl, timer, call, raced>>

Ops    == {"register", "setAway", "refresh", "unregister", "removeUser", "status"}
Stages == {"idle", "checked", "set", "expired", "missing", "listed", "got", "deleted"}

CallState == [op: Ops \cup {"none"}, at: Stages, socket: Socket \cup {None},
              keys: SUBSET Socket]

IdleCall == [op |-> "none", at |-> "idle", socket |-> None, keys |-> {}]

Init ==
  /\ kept = [s \in Socket |-> "out"]
  /\ ttl = [s \in Socket |-> 0]
  /\ index = {} /\ indexTtl = 0
  /\ timer = [s \in Socket |-> 0]
  /\ call = [c \in Call |-> IdleCall]
  /\ raced = {}

At(c, ops, stage) == call[c].op \in ops /\ call[c].at = stage
Begin(c, op, stage, s, keys) ==
  /\ call[c].op = "none"
  /\ call' = [call EXCEPT ![c] = [op |-> op, at |-> stage, socket |-> s, keys |-> keys]]
Advance(c, stage, keys) == call' = [call EXCEPT ![c].at = stage, ![c].keys = keys]
Finish(c) == call' = [call EXCEPT ![c] = IdleCall]

\* An earlier command for this connection has been sent and comes first.
Sent(s) ==
  \E c \in Call : /\ call[c].socket = s
                  /\ At(c, {"register", "setAway"}, "set") \/ At(c, {"unregister"}, "deleted")

(***************************************************************************)
(* Redis.                                                                  *)
(***************************************************************************)

\* SREM: a set without members is deleted, and its expiry with it.
IndexRemove(keys) ==
  /\ index' = index \ keys
  /\ indexTtl' = IF index \subseteq keys THEN 0 ELSE indexTtl

\* EXPIRE of the index, without effect when there is none.
IndexExpire == indexTtl' = IF index = {} THEN 0 ELSE 2 * TtlSeconds

\* A removal that was decided by an earlier read takes these away.
Race(keys) == raced' = raced \cup {s \in keys : kept[s] = "in"}

(***************************************************************************)
(* write: register and setAway                                             *)
(***************************************************************************)

\* The handler has begun and awaits the membership.
Write(c, s, op) ==
  /\ op = "register" \/ kept[s] = "in"
  /\ kept[s] # "gone"
  /\ Begin(c, op, "checked", s, {})
  /\ UNCHANGED <<kept, ttl, index, indexTtl, timer, raced>>

\* SET with the expiry; joinedRoomIds has the room just before.
WriteSet(c) ==
  LET s == call[c].socket
  IN  /\ At(c, {"register", "setAway"}, "checked")
      /\ ~Sent(s)
      /\ ttl' = [ttl EXCEPT ![s] = TtlSeconds]
      /\ IF call[c].op = "register" /\ kept[s] = "out"
           THEN /\ kept' = [kept EXCEPT ![s] = "in"]
                /\ \E t \in 0..RefreshSeconds : timer' = [timer EXCEPT ![s] = t]
           ELSE UNCHANGED <<kept, timer>>
      /\ Advance(c, "set", {})
      /\ UNCHANGED <<index, indexTtl, raced>>

\* SADD.
WriteAdd(c) ==
  /\ At(c, {"register", "setAway"}, "set")
  /\ index' = index \cup {call[c].socket}
  /\ raced' = IF ttl[call[c].socket] > 0 THEN raced \ {call[c].socket} ELSE raced
  /\ Advance(c, "expired", {})
  /\ UNCHANGED <<kept, ttl, indexTtl, timer>>

\* EXPIRE of the index, after both answers.
WriteExpire(c) ==
  /\ At(c, {"register", "setAway"}, "expired")
  /\ IndexExpire
  /\ Finish(c)
  /\ UNCHANGED <<kept, ttl, index, timer, raced>>

(***************************************************************************)
(* refresh                                                                 *)
(***************************************************************************)

\* The timer fires: EXPIRE of the key, which may be missing.
Refresh(c, s) ==
  /\ kept[s] = "in"
  /\ timer[s] = RefreshSeconds
  /\ timer' = [timer EXCEPT ![s] = 0]
  /\ ttl' = [ttl EXCEPT ![s] = IF @ > 0 THEN TtlSeconds ELSE 0]
  /\ Begin(c, "refresh", IF ttl[s] > 0 THEN "expired" ELSE "missing", s, {})
  /\ UNCHANGED <<kept, index, indexTtl, raced>>

\* Fault: only the key's time is extended.
RefreshKeyOnly(c) ==
  /\ At(c, {"refresh"}, "expired")
  /\ Finish(c)
  /\ UNCHANGED <<kept, ttl, index, indexTtl, timer, raced>>

RefreshIndex(c) ==
  /\ At(c, {"refresh"}, "expired")
  /\ IndexExpire
  /\ Finish(c)
  /\ UNCHANGED <<kept, ttl, index, timer, raced>>

\* SREM of a connection without key.
RefreshMissing(c) ==
  /\ At(c, {"refresh"}, "missing")
  /\ IndexRemove({call[c].socket})
  /\ Race({call[c].socket})
  /\ Finish(c)
  /\ UNCHANGED <<kept, ttl, timer>>

(***************************************************************************)
(* unregister                                                              *)
(***************************************************************************)
Unregister(c, s) ==
  /\ kept[s] = "in"
  /\ ~Sent(s)
  /\ kept' = [kept EXCEPT ![s] = "out"]
  /\ ttl' = [ttl EXCEPT ![s] = 0]
  /\ Begin(c, "unregister", "deleted", s, {})
  /\ UNCHANGED <<index, indexTtl, timer, raced>>

UnregisterIndex(c) ==
  /\ At(c, {"unregister"}, "deleted")
  /\ IndexRemove({call[c].socket})
  /\ Finish(c)
  /\ UNCHANGED <<kept, ttl, timer, raced>>

(***************************************************************************)
(* removeUser and statusesFor: SMEMBERS, MGET, then the removals.          *)
(***************************************************************************)
List(c, op) ==
  /\ op \in {"removeUser", "status"}
  /\ index # {}
  /\ Begin(c, op, "listed", None, index)
  /\ UNCHANGED <<kept, ttl, index, indexTtl, timer, raced>>

\* Index members without a key.
Stale(keys) == {s \in keys : ttl[s] = 0}

\* The keys with the user's id in their value.
Targets(keys) == {s \in keys : ttl[s] > 0 /\ s \in Leaver}

Get(c) ==
  LET keys == IF call[c].op = "status" THEN Stale(call[c].keys) ELSE Targets(call[c].keys)
  IN  /\ At(c, {"removeUser", "status"}, "listed")
      /\ IF keys = {} THEN Finish(c) ELSE Advance(c, "got", keys)
      /\ UNCHANGED <<kept, ttl, index, indexTtl, timer, raced>>

\* DEL of what removeUser has found.
RemoveUserDelete(c) ==
  /\ At(c, {"removeUser"}, "got")
  /\ ttl' = [s \in Socket |-> IF s \in call[c].keys THEN 0 ELSE ttl[s]]
  /\ Race(call[c].keys)
  /\ Advance(c, "deleted", call[c].keys)
  /\ UNCHANGED <<kept, index, indexTtl, timer>>

\* SREM of what either has found.
RemoveFromIndex(c) ==
  /\ At(c, {"removeUser"}, "deleted") \/ At(c, {"status"}, "got")
  /\ IndexRemove(call[c].keys)
  /\ Race(call[c].keys)
  /\ Finish(c)
  /\ UNCHANGED <<kept, ttl, timer>>

(***************************************************************************)
(* Time and crashes.                                                       *)
(***************************************************************************)
Tick ==
  /\ \A s \in Socket : kept[s] = "in" => timer[s] < RefreshSeconds
  /\ \A c \in Call : call[c].op \in {"register", "setAway", "refresh"} => call[c].at = "checked"
  /\ ttl' = [s \in Socket |-> IF ttl[s] > 0 THEN ttl[s] - 1 ELSE 0]
  /\ timer' = [s \in Socket |-> IF kept[s] = "in" THEN timer[s] + 1 ELSE 0]
  /\ indexTtl' = IF indexTtl > 0 THEN indexTtl - 1 ELSE 0
  /\ index' = IF indexTtl = 1 THEN {} ELSE index
  /\ UNCHANGED <<kept, call, raced>>

\* The instance of a connection dies, with the operations it had in flight.
Die(s) ==
  /\ kept[s] # "gone"
  /\ kept' = [kept EXCEPT ![s] = "gone"]
  /\ call' = [c \in Call |-> IF call[c].socket = s THEN IdleCall ELSE call[c]]
  /\ UNCHANGED <<ttl, index, indexTtl, timer, raced>>

(***************************************************************************)
(* The specification.                                                      *)
(***************************************************************************)
Handle(c) ==
  \/ WriteSet(c) \/ WriteAdd(c) \/ WriteExpire(c)
  \/ RefreshIndex(c) \/ RefreshMissing(c)
  \/ UnregisterIndex(c)
  \/ Get(c) \/ RemoveUserDelete(c) \/ RemoveFromIndex(c)

Next ==
  \/ \E c \in Call, s \in Socket :
       \/ Write(c, s, "register") \/ Write(c, s, "setAway")
       \/ Refresh(c, s) \/ Unregister(c, s)
  \/ \E c \in Call : Handle(c) \/ List(c, "removeUser") \/ List(c, "status")
  \/ \E s \in Socket : Die(s)
  \/ Tick

Spec == Init /\ [][Next]_vars

-----------------------------------------------------------------------------
(***************************************************************************)
(* Properties.                                                             *)
(***************************************************************************)

\* Every variable has its type.
TypeOK ==
  /\ kept \in [Socket -> {"in", "out", "gone"}]
  /\ ttl \in [Socket -> 0..TtlSeconds]
  /\ index \subseteq Socket
  /\ indexTtl \in 0..2 * TtlSeconds
  /\ timer \in [Socket -> 0..RefreshSeconds]
  /\ call \in [Call -> CallState]
  /\ raced \subseteq Socket

\* A reader counts this connection.
Shown(s) == ttl[s] > 0 /\ s \in index

\* Its first write is done and no other is half done.
Settled(s) == kept[s] = "in" /\ ~Sent(s)

\* A connection the gateway keeps alive shows as online: neither its key nor
\* the index runs out between two refreshes.  What can hide it is a removal
\* on an earlier read: removeUser, the cleaning of statusesFor, or a refresh
\* that found the key missing while the connection was written again.
RefreshedStaysOnline == \A s \in Socket : Settled(s) => Shown(s) \/ s \in raced

\* docs/realtime-events.md:11: "online/offline and focusing/idle are derived by
\* the server from connections and active sessions".  For a user whose
\* membership nobody touches that leaves no exception.
ConnectedIsIndexed == \A s \in Socket \ Leaver : Settled(s) => Shown(s)
=============================================================================
