------------------------- MODULE PresenceIndexProofs -------------------------
(***************************************************************************)
(* A connection that the gateway refreshes stays online, for any number of *)
(* connections and operations in flight and for any times the constructor  *)
(* accepts: neither the key nor the index runs out between two refreshes.  *)
(***************************************************************************)
EXTENDS PresenceIndex, TLAPS

Writes == {"register", "setAway"}

\* What is about one connection names it.
CallsHaveSockets ==
  \A c \in Call :
    call[c].op \in Writes \cup {"refresh", "unregister"} => call[c].socket \in Socket

\* A connection that is unregistered is not registered again before the
\* commands of the unregistration have been carried out.
LeavingFirst ==
  \A c \in Call : At(c, {"unregister"}, "deleted") => kept[call[c].socket] # "in"

\* A key that has just been written is fresh, or removed again.
WrittenIsFresh ==
  \A c \in Call : At(c, Writes, "set") => ttl[call[c].socket] \in {0, TtlSeconds}

\* The gateway keeps the connection and no removal on an earlier read hid it.
Held(s) == kept[s] = "in" /\ s \notin raced

\* The key lasts until well after the next refresh.
KeyLasts == \A s \in Socket : Held(s) => ttl[s] + timer[s] >= TtlSeconds

\* The next command of c is the one that extends the index.
Extends(c, s) == At(c, Writes \cup {"refresh"}, "expired") /\ call[c].socket = s

IndexIsLong(s) ==
  \/ indexTtl = 0
  \/ indexTtl + timer[s] >= 2 * TtlSeconds
  \/ \E c \in Call : Extends(c, s)

\* So does the index, unless the command that extends it is on its way.
IndexLasts ==
  \A s \in Socket : Held(s) /\ ~Sent(s) => s \in index /\ IndexIsLong(s)

IInv ==
  /\ TypeOK /\ CallsHaveSockets /\ LeavingFirst /\ WrittenIsFresh
  /\ KeyLasts /\ IndexLasts

-----------------------------------------------------------------------------
(***************************************************************************)
(* What becomes of an operation.                                           *)
(***************************************************************************)

LEMMA Times ==
  /\ TtlSeconds \in Nat /\ RefreshSeconds \in Nat
  /\ 0 < RefreshSeconds /\ RefreshSeconds < TtlSeconds
  /\ 2 * TtlSeconds \in Nat /\ TtlSeconds < 2 * TtlSeconds
  BY PresenceAssumption

\* Only operation c changes, and it is of the given fields then.
Becomes(c, op, stage, s, keys) ==
  /\ call' \in [Call -> CallState]
  /\ call'[c].op = op /\ call'[c].at = stage
  /\ call'[c].socket = s /\ call'[c].keys = keys
  /\ \A d \in Call : d # c => call'[d] = call[d]

LEMMA Beginning ==
  ASSUME call \in [Call -> CallState], NEW c \in Call,
         NEW op \in Ops, NEW stage \in Stages, NEW s \in Socket \cup {None},
         NEW keys \in SUBSET Socket, Begin(c, op, stage, s, keys)
  PROVE  Becomes(c, op, stage, s, keys) /\ call[c].op = "none"
<1> DEFINE new == [op |-> op, at |-> stage, socket |-> s, keys |-> keys]
<1>1. new \in CallState BY DEF CallState
<1>2. call' = [call EXCEPT ![c] = new] BY DEF Begin
<1>3. call'[c] = new /\ \A d \in Call : d # c => call'[d] = call[d]
  BY <1>2
<1>4. call' \in [Call -> CallState] BY <1>1, <1>2
<1>5. call[c].op = "none" BY DEF Begin
<1>6. QED BY <1>3, <1>4, <1>5 DEF Becomes

LEMMA Advancing ==
  ASSUME call \in [Call -> CallState], NEW c \in Call,
         NEW stage \in Stages, NEW keys \in SUBSET Socket, Advance(c, stage, keys)
  PROVE  Becomes(c, call[c].op, stage, call[c].socket, keys)
<1> DEFINE atStage == [call EXCEPT ![c].at = stage]
<1>1. atStage \in [Call -> CallState] BY DEF CallState
<1>2. /\ atStage[c].op = call[c].op /\ atStage[c].at = stage
      /\ atStage[c].socket = call[c].socket
      /\ \A d \in Call : d # c => atStage[d] = call[d]
  BY DEF CallState
<1>3. call' = [atStage EXCEPT ![c].keys = keys]
  BY Zenon DEF Advance
<1> HIDE DEF atStage
<1>4. call' \in [Call -> CallState] BY <1>1, <1>3 DEF CallState
<1>5. /\ call'[c].op = atStage[c].op /\ call'[c].at = atStage[c].at
      /\ call'[c].socket = atStage[c].socket /\ call'[c].keys = keys
      /\ \A d \in Call : d # c => call'[d] = atStage[d]
  BY <1>1, <1>3 DEF CallState
<1>6. QED BY <1>2, <1>4, <1>5 DEF Becomes

LEMMA Finishing ==
  ASSUME call \in [Call -> CallState], NEW c \in Call, Finish(c)
  PROVE  Becomes(c, "none", "idle", None, {})
<1>1. IdleCall \in CallState BY DEF IdleCall, CallState, Stages
<1>2. call' = [call EXCEPT ![c] = IdleCall] BY DEF Finish
<1>3. QED BY <1>1, <1>2 DEF Becomes, IdleCall

-----------------------------------------------------------------------------
(***************************************************************************)
(* The invariant, action by action.                                        *)
(***************************************************************************)

LEMMA WriteKeeps ==
  ASSUME IInv, NEW c \in Call, NEW s \in Socket, NEW op \in Writes, Write(c, s, op)
  PROVE  IInv'
<1> USE DEF IInv
<1>1. Becomes(c, op, "checked", s, {}) /\ call[c].op = "none"
  BY Beginning DEF TypeOK, Write, Writes, Ops, Stages
<1>2. TypeOK'
  BY <1>1, Times DEF TypeOK, Becomes, Write
<1>3. CallsHaveSockets'
  BY <1>1 DEF CallsHaveSockets, Becomes, Writes, At, Write
<1>4. LeavingFirst'
  BY <1>1 DEF TypeOK, CallsHaveSockets, LeavingFirst, Becomes, Writes, At, Write
<1>5. WrittenIsFresh'
  BY <1>1 DEF TypeOK, CallsHaveSockets, WrittenIsFresh, Becomes, Writes, At, Write
<1>6. KeyLasts'
  BY <1>1, Times DEF TypeOK, KeyLasts, Held, Write
<1>7. IndexLasts'
  BY <1>1, Times DEF TypeOK, CallsHaveSockets, LeavingFirst, IndexLasts,
                     IndexIsLong, Extends, Held, Sent, Becomes, Writes, At,
                     Write
<1>8. QED BY <1>2, <1>3, <1>4, <1>5, <1>6, <1>7

LEMMA WriteSetKeeps ==
  ASSUME IInv, NEW c \in Call, WriteSet(c)
  PROVE  IInv'
<1> USE DEF IInv
<1>1. Becomes(c, call[c].op, "set", call[c].socket, {})
  BY Advancing DEF TypeOK, WriteSet, Stages
<1>2. call[c].socket \in Socket
  BY DEF CallsHaveSockets, WriteSet, At, Writes
<1>3. TypeOK'
  <2>1. ttl' \in [Socket -> 0..TtlSeconds]
    BY <1>2, Times DEF TypeOK, WriteSet
  <2>2. /\ kept' \in [Socket -> {"in", "out", "gone"}]
        /\ timer' \in [Socket -> 0..RefreshSeconds]
    <3>1. CASE call[c].op = "register" /\ kept[call[c].socket] = "out"
      <4>1. kept' = [kept EXCEPT ![call[c].socket] = "in"] BY <3>1 DEF WriteSet
      <4>2. PICK t \in 0..RefreshSeconds : timer' = [timer EXCEPT ![call[c].socket] = t]
        BY <3>1 DEF WriteSet
      <4>3. QED BY <1>2, <4>1, <4>2 DEF TypeOK
    <3>2. CASE ~(call[c].op = "register" /\ kept[call[c].socket] = "out")
      BY <3>2 DEF TypeOK, WriteSet
    <3>3. QED BY <3>1, <3>2
  <2>3. QED BY <1>1, <2>1, <2>2 DEF TypeOK, WriteSet, Becomes
<1>4. CallsHaveSockets'
  BY <1>1 DEF CallsHaveSockets, Becomes, Writes, At, WriteSet
<1>5. LeavingFirst'
  BY <1>1, <1>2 DEF TypeOK, CallsHaveSockets, LeavingFirst, Becomes, Writes,
                    Sent, At, WriteSet
<1>6. WrittenIsFresh'
  BY <1>1 DEF TypeOK, CallsHaveSockets, WrittenIsFresh, Becomes, Writes, At,
              WriteSet
<1>7. KeyLasts'
  BY <1>1, Times DEF TypeOK, KeyLasts, Held, WriteSet
<1>8. IndexLasts'
  BY <1>1, Times DEF TypeOK, CallsHaveSockets, LeavingFirst, IndexLasts,
                     IndexIsLong, Extends, Held, Sent, Becomes, Writes, At,
                     WriteSet
<1>9. QED BY <1>3, <1>4, <1>5, <1>6, <1>7, <1>8

LEMMA WriteAddKeeps ==
  ASSUME IInv, NEW c \in Call, WriteAdd(c)
  PROVE  IInv'
<1> USE DEF IInv
<1>1. Becomes(c, call[c].op, "expired", call[c].socket, {})
  BY Advancing DEF TypeOK, WriteAdd, Stages
<1>2. call[c].socket \in Socket
  BY DEF CallsHaveSockets, WriteAdd, At, Writes
<1>3. TypeOK'
  BY <1>1, <1>2, Times DEF TypeOK, Becomes, WriteAdd
<1>4. CallsHaveSockets'
  BY <1>1 DEF CallsHaveSockets, Becomes, Writes, At, WriteAdd
<1>5. LeavingFirst'
  BY <1>1 DEF TypeOK, CallsHaveSockets, LeavingFirst, Becomes, Writes, At,
              WriteAdd
<1>6. WrittenIsFresh'
  BY <1>1 DEF TypeOK, CallsHaveSockets, WrittenIsFresh, Becomes, Writes, At,
              WriteAdd
<1>7. KeyLasts'
  BY <1>1, <1>2, Times DEF TypeOK, WrittenIsFresh, KeyLasts, Held, At, Writes,
                           WriteAdd
<1>8. IndexLasts'
  BY <1>1, Times DEF TypeOK, CallsHaveSockets, LeavingFirst, IndexLasts,
                     IndexIsLong, Extends, Held, Sent, Becomes, Writes, At,
                     WriteAdd
<1>9. QED BY <1>3, <1>4, <1>5, <1>6, <1>7, <1>8

LEMMA WriteExpireKeeps ==
  ASSUME IInv, NEW c \in Call, WriteExpire(c)
  PROVE  IInv'
<1> USE DEF IInv
<1>1. Becomes(c, "none", "idle", None, {})
  BY Finishing DEF TypeOK, WriteExpire
<1>2. TypeOK'
  BY <1>1, Times DEF TypeOK, Becomes, WriteExpire, IndexExpire
<1>3. CallsHaveSockets'
  BY <1>1 DEF CallsHaveSockets, Becomes, Writes, At, WriteExpire, IndexExpire
<1>4. LeavingFirst'
  BY <1>1 DEF TypeOK, CallsHaveSockets, LeavingFirst, Becomes, Writes, At,
              WriteExpire, IndexExpire
<1>5. WrittenIsFresh'
  BY <1>1 DEF TypeOK, CallsHaveSockets, WrittenIsFresh, Becomes, Writes, At,
              WriteExpire, IndexExpire
<1>6. KeyLasts'
  BY <1>1, Times DEF TypeOK, KeyLasts, Held, WriteExpire, IndexExpire
<1>7. IndexLasts'
  BY <1>1, Times DEF TypeOK, CallsHaveSockets, LeavingFirst, IndexLasts,
                     IndexIsLong, Extends, Held, Sent, Becomes, Writes, At,
                     WriteExpire, IndexExpire
<1>8. QED BY <1>2, <1>3, <1>4, <1>5, <1>6, <1>7

LEMMA RefreshKeeps ==
  ASSUME IInv, NEW c \in Call, NEW s \in Socket, Refresh(c, s)
  PROVE  IInv'
<1> USE DEF IInv
<1>1. /\ Becomes(c, "refresh", IF ttl[s] > 0 THEN "expired" ELSE "missing", s, {})
      /\ call[c].op = "none"
  BY Beginning DEF TypeOK, Refresh, Ops, Stages
<1>2. TypeOK'
  BY <1>1, Times DEF TypeOK, Becomes, Refresh
<1>3. CallsHaveSockets'
  BY <1>1 DEF CallsHaveSockets, Becomes, Writes, At, Refresh
<1>4. LeavingFirst'
  BY <1>1 DEF TypeOK, CallsHaveSockets, LeavingFirst, Becomes, Writes, At, Refresh
<1>5. WrittenIsFresh'
  BY <1>1 DEF TypeOK, CallsHaveSockets, WrittenIsFresh, Becomes, Writes, At,
              Refresh
<1>6. KeyLasts'
  BY <1>1, Times DEF TypeOK, KeyLasts, Held, Refresh
<1>7. IndexLasts'
  <2> SUFFICES ASSUME NEW t \in Socket, Held(t)', ~Sent(t)'
               PROVE  (t \in index /\ IndexIsLong(t))'
    BY DEF IndexLasts
  <2>1. Held(t) /\ ~Sent(t)
    BY <1>1 DEF Held, Sent, Becomes, At, Refresh
  <2>2. t \in index /\ IndexIsLong(t)
    BY <2>1 DEF IndexLasts
  <2>3. CASE t = s
    <3>1. ttl[s] > 0
      BY <2>1, <2>3, Times DEF TypeOK, KeyLasts, Refresh
    <3>2. Extends(c, s)'
      BY <1>1, <3>1 DEF Becomes, Extends, At
    <3>3. QED BY <2>2, <2>3, <3>2 DEF IndexIsLong, Refresh
  <2>4. CASE t # s
    <3>1. \A d \in Call : Extends(d, t) => Extends(d, t)'
      BY <1>1 DEF Becomes, Extends, At, Writes
    <3>2. timer'[t] = timer[t] /\ indexTtl' = indexTtl /\ index' = index
      BY <2>4 DEF TypeOK, Refresh
    <3>3. QED BY <2>2, <3>1, <3>2 DEF IndexIsLong
  <2>5. QED BY <2>3, <2>4
<1>8. QED BY <1>2, <1>3, <1>4, <1>5, <1>6, <1>7

LEMMA RefreshIndexKeeps ==
  ASSUME IInv, NEW c \in Call, RefreshIndex(c)
  PROVE  IInv'
<1> USE DEF IInv
<1>1. Becomes(c, "none", "idle", None, {})
  BY Finishing DEF TypeOK, RefreshIndex
<1>2. TypeOK'
  BY <1>1, Times DEF TypeOK, Becomes, RefreshIndex, IndexExpire
<1>3. CallsHaveSockets'
  BY <1>1 DEF CallsHaveSockets, Becomes, Writes, At, RefreshIndex, IndexExpire
<1>4. LeavingFirst'
  BY <1>1 DEF TypeOK, CallsHaveSockets, LeavingFirst, Becomes, Writes, At,
              RefreshIndex, IndexExpire
<1>5. WrittenIsFresh'
  BY <1>1 DEF TypeOK, CallsHaveSockets, WrittenIsFresh, Becomes, Writes, At,
              RefreshIndex, IndexExpire
<1>6. KeyLasts'
  BY <1>1, Times DEF TypeOK, KeyLasts, Held, RefreshIndex, IndexExpire
<1>7. IndexLasts'
  BY <1>1, Times DEF TypeOK, CallsHaveSockets, LeavingFirst, IndexLasts,
                     IndexIsLong, Extends, Held, Sent, Becomes, Writes, At,
                     RefreshIndex, IndexExpire
<1>8. QED BY <1>2, <1>3, <1>4, <1>5, <1>6, <1>7

LEMMA RefreshMissingKeeps ==
  ASSUME IInv, NEW c \in Call, RefreshMissing(c)
  PROVE  IInv'
<1> USE DEF IInv
<1>1. Becomes(c, "none", "idle", None, {})
  BY Finishing DEF TypeOK, RefreshMissing
<1>2. call[c].socket \in Socket
  BY DEF CallsHaveSockets, RefreshMissing, At
<1>3. TypeOK'
  BY <1>1, <1>2, Times DEF TypeOK, Becomes, RefreshMissing, IndexRemove, Race
<1>4. CallsHaveSockets'
  BY <1>1 DEF CallsHaveSockets, Becomes, Writes, At, RefreshMissing,
              IndexRemove, Race
<1>5. LeavingFirst'
  BY <1>1 DEF TypeOK, CallsHaveSockets, LeavingFirst, Becomes, Writes, At,
              RefreshMissing, IndexRemove, Race
<1>6. WrittenIsFresh'
  BY <1>1 DEF TypeOK, CallsHaveSockets, WrittenIsFresh, Becomes, Writes, At,
              RefreshMissing, IndexRemove, Race
<1>7. KeyLasts'
  BY <1>1, Times DEF TypeOK, KeyLasts, Held, RefreshMissing, IndexRemove, Race
<1>8. IndexLasts'
  BY <1>1, Times DEF TypeOK, CallsHaveSockets, LeavingFirst, IndexLasts,
                     IndexIsLong, Extends, Held, Sent, Becomes, Writes, At,
                     RefreshMissing, IndexRemove, Race
<1>9. QED BY <1>3, <1>4, <1>5, <1>6, <1>7, <1>8

LEMMA UnregisterKeeps ==
  ASSUME IInv, NEW c \in Call, NEW s \in Socket, Unregister(c, s)
  PROVE  IInv'
<1> USE DEF IInv
<1>1. Becomes(c, "unregister", "deleted", s, {}) /\ call[c].op = "none"
  BY Beginning DEF TypeOK, Unregister, Ops, Stages
<1>2. TypeOK'
  BY <1>1, Times DEF TypeOK, Becomes, Unregister
<1>3. CallsHaveSockets'
  BY <1>1 DEF CallsHaveSockets, Becomes, Writes, At, Unregister
<1>4. LeavingFirst'
  BY <1>1 DEF TypeOK, CallsHaveSockets, LeavingFirst, Becomes, Writes, At,
              Unregister
<1>5. WrittenIsFresh'
  BY <1>1 DEF TypeOK, CallsHaveSockets, WrittenIsFresh, Becomes, Writes, At,
              Unregister
<1>6. KeyLasts'
  BY <1>1, Times DEF TypeOK, KeyLasts, Held, Unregister
<1>7. IndexLasts'
  BY <1>1, Times DEF TypeOK, CallsHaveSockets, LeavingFirst, IndexLasts,
                     IndexIsLong, Extends, Held, Sent, Becomes, Writes, At,
                     Unregister
<1>8. QED BY <1>2, <1>3, <1>4, <1>5, <1>6, <1>7

LEMMA UnregisterIndexKeeps ==
  ASSUME IInv, NEW c \in Call, UnregisterIndex(c)
  PROVE  IInv'
<1> USE DEF IInv
<1>1. Becomes(c, "none", "idle", None, {})
  BY Finishing DEF TypeOK, UnregisterIndex
<1>2. TypeOK'
  BY <1>1, Times DEF TypeOK, Becomes, UnregisterIndex, IndexRemove
<1>3. CallsHaveSockets'
  BY <1>1 DEF CallsHaveSockets, Becomes, Writes, At, UnregisterIndex, IndexRemove
<1>4. LeavingFirst'
  BY <1>1 DEF TypeOK, CallsHaveSockets, LeavingFirst, Becomes, Writes, At,
              UnregisterIndex, IndexRemove
<1>5. WrittenIsFresh'
  BY <1>1 DEF TypeOK, CallsHaveSockets, WrittenIsFresh, Becomes, Writes, At,
              UnregisterIndex, IndexRemove
<1>6. KeyLasts'
  BY <1>1, Times DEF TypeOK, KeyLasts, Held, UnregisterIndex, IndexRemove
<1>7. IndexLasts'
  BY <1>1, Times DEF TypeOK, CallsHaveSockets, LeavingFirst, IndexLasts,
                     IndexIsLong, Extends, Held, Sent, Becomes, Writes, At,
                     UnregisterIndex, IndexRemove
<1>8. QED BY <1>2, <1>3, <1>4, <1>5, <1>6, <1>7

LEMMA ListKeeps ==
  ASSUME IInv, NEW c \in Call, NEW op, List(c, op)
  PROVE  IInv'
<1> USE DEF IInv
<1>1. Becomes(c, op, "listed", None, index) /\ call[c].op = "none"
  BY Beginning DEF TypeOK, List, Ops, Stages
<1>2. TypeOK'
  BY <1>1, Times DEF TypeOK, Becomes, List
<1>3. CallsHaveSockets'
  BY <1>1 DEF CallsHaveSockets, Becomes, Writes, At, List
<1>4. LeavingFirst'
  BY <1>1 DEF TypeOK, CallsHaveSockets, LeavingFirst, Becomes, Writes, At, List
<1>5. WrittenIsFresh'
  BY <1>1 DEF TypeOK, CallsHaveSockets, WrittenIsFresh, Becomes, Writes, At, List
<1>6. KeyLasts'
  BY <1>1, Times DEF TypeOK, KeyLasts, Held, List
<1>7. IndexLasts'
  BY <1>1, Times DEF TypeOK, CallsHaveSockets, LeavingFirst, IndexLasts,
                     IndexIsLong, Extends, Held, Sent, Becomes, Writes, At, List
<1>8. QED BY <1>2, <1>3, <1>4, <1>5, <1>6, <1>7

LEMMA GetKeeps ==
  ASSUME IInv, NEW c \in Call, Get(c)
  PROVE  IInv'
<1> USE DEF IInv
<1> DEFINE keys ==
      IF call[c].op = "status" THEN Stale(call[c].keys) ELSE Targets(call[c].keys)
<1>1. keys \in SUBSET Socket
  BY DEF TypeOK, CallState, Stale, Targets
<1>2. \/ Becomes(c, "none", "idle", None, {})
      \/ Becomes(c, call[c].op, "got", call[c].socket, keys)
  BY <1>1, Finishing, Advancing DEF TypeOK, Get, Stages
<1>3. TypeOK'
  BY <1>2, Times DEF TypeOK, Becomes, Get
<1>4. CallsHaveSockets'
  BY <1>2 DEF CallsHaveSockets, Becomes, Writes, At, Get
<1>5. LeavingFirst'
  BY <1>2 DEF TypeOK, CallsHaveSockets, LeavingFirst, Becomes, Writes, At, Get
<1>6. WrittenIsFresh'
  BY <1>2 DEF TypeOK, CallsHaveSockets, WrittenIsFresh, Becomes, Writes, At, Get
<1>7. KeyLasts'
  BY <1>2, Times DEF TypeOK, KeyLasts, Held, Get
<1>8. IndexLasts'
  BY <1>2, Times DEF TypeOK, CallsHaveSockets, LeavingFirst, IndexLasts,
                     IndexIsLong, Extends, Held, Sent, Becomes, Writes, At, Get
<1>9. QED BY <1>3, <1>4, <1>5, <1>6, <1>7, <1>8

LEMMA RemoveUserDeleteKeeps ==
  ASSUME IInv, NEW c \in Call, RemoveUserDelete(c)
  PROVE  IInv'
<1> USE DEF IInv
<1>1. call[c].keys \in SUBSET Socket BY DEF TypeOK, CallState
<1>2. Becomes(c, call[c].op, "deleted", call[c].socket, call[c].keys)
  BY <1>1, Advancing DEF TypeOK, RemoveUserDelete, Stages
<1>3. TypeOK'
  BY <1>1, <1>2, Times DEF TypeOK, Becomes, RemoveUserDelete, Race
<1>4. CallsHaveSockets'
  BY <1>2 DEF CallsHaveSockets, Becomes, Writes, At, RemoveUserDelete, Race
<1>5. LeavingFirst'
  BY <1>2 DEF TypeOK, CallsHaveSockets, LeavingFirst, Becomes, Writes, At,
              RemoveUserDelete, Race
<1>6. WrittenIsFresh'
  BY <1>2 DEF TypeOK, CallsHaveSockets, WrittenIsFresh, Becomes, Writes, At,
              RemoveUserDelete, Race
<1>7. KeyLasts'
  BY <1>2, Times DEF TypeOK, KeyLasts, Held, RemoveUserDelete, Race
<1>8. IndexLasts'
  BY <1>2, Times DEF TypeOK, CallsHaveSockets, LeavingFirst, IndexLasts,
                     IndexIsLong, Extends, Held, Sent, Becomes, Writes, At,
                     RemoveUserDelete, Race
<1>9. QED BY <1>3, <1>4, <1>5, <1>6, <1>7, <1>8

LEMMA RemoveFromIndexKeeps ==
  ASSUME IInv, NEW c \in Call, RemoveFromIndex(c)
  PROVE  IInv'
<1> USE DEF IInv
<1>1. Becomes(c, "none", "idle", None, {})
  BY Finishing DEF TypeOK, RemoveFromIndex
<1>2. call[c].keys \in SUBSET Socket BY DEF TypeOK, CallState
<1>3. TypeOK'
  BY <1>1, <1>2, Times DEF TypeOK, Becomes, RemoveFromIndex, IndexRemove, Race
<1>4. CallsHaveSockets'
  BY <1>1 DEF CallsHaveSockets, Becomes, Writes, At, RemoveFromIndex,
              IndexRemove, Race
<1>5. LeavingFirst'
  BY <1>1 DEF TypeOK, CallsHaveSockets, LeavingFirst, Becomes, Writes, At,
              RemoveFromIndex, IndexRemove, Race
<1>6. WrittenIsFresh'
  BY <1>1 DEF TypeOK, CallsHaveSockets, WrittenIsFresh, Becomes, Writes, At,
              RemoveFromIndex, IndexRemove, Race
<1>7. KeyLasts'
  BY <1>1, Times DEF TypeOK, KeyLasts, Held, RemoveFromIndex, IndexRemove, Race
<1>8. IndexLasts'
  BY <1>1, Times DEF TypeOK, CallsHaveSockets, LeavingFirst, IndexLasts,
                     IndexIsLong, Extends, Held, Sent, Becomes, Writes, At,
                     RemoveFromIndex, IndexRemove, Race
<1>9. QED BY <1>3, <1>4, <1>5, <1>6, <1>7, <1>8

LEMMA TickKeeps ==
  ASSUME IInv, Tick
  PROVE  IInv'
<1> USE DEF IInv
<1>1. TypeOK'
  BY Times DEF TypeOK, Tick
<1>2. CallsHaveSockets'
  BY DEF CallsHaveSockets, Writes, At, Tick
<1>3. LeavingFirst'
  BY DEF TypeOK, CallsHaveSockets, LeavingFirst, Writes, At, Tick
<1>4. WrittenIsFresh'
  BY DEF TypeOK, CallsHaveSockets, WrittenIsFresh, Writes, At, Tick
<1>5. KeyLasts'
  BY Times DEF TypeOK, KeyLasts, Held, Tick
<1>6. IndexLasts'
  BY Times DEF TypeOK, CallsHaveSockets, LeavingFirst, IndexLasts, IndexIsLong,
               Extends, Held, Sent, Writes, At, Tick
<1>7. QED BY <1>1, <1>2, <1>3, <1>4, <1>5, <1>6

LEMMA DieKeeps ==
  ASSUME IInv, NEW s \in Socket, Die(s)
  PROVE  IInv'
<1> USE DEF IInv
<1>1. TypeOK'
  <2>1. IdleCall \in CallState BY DEF IdleCall, CallState, Stages
  <2>2. QED BY <2>1 DEF TypeOK, Die
<1>2. CallsHaveSockets'
  BY DEF CallsHaveSockets, Writes, At, Die, IdleCall
<1>3. LeavingFirst'
  BY DEF TypeOK, CallsHaveSockets, LeavingFirst, Writes, At, Die, IdleCall
<1>4. WrittenIsFresh'
  BY DEF TypeOK, CallsHaveSockets, WrittenIsFresh, Writes, At, Die, IdleCall
<1>5. KeyLasts'
  BY Times DEF TypeOK, KeyLasts, Held, Die, IdleCall
<1>6. IndexLasts'
  BY Times DEF TypeOK, CallsHaveSockets, LeavingFirst, IndexLasts, IndexIsLong,
               Extends, Held, Sent, Writes, At, Die, IdleCall
<1>7. QED BY <1>1, <1>2, <1>3, <1>4, <1>5, <1>6

LEMMA InitIInv == Init => IInv
<1> SUFFICES ASSUME Init PROVE IInv OBVIOUS
<1>1. IdleCall \in CallState BY DEF IdleCall, CallState, Stages
<1>2. \A c \in Call : call[c].op = "none" /\ call[c].at = "idle"
  BY DEF Init, IdleCall
<1>3. TypeOK BY <1>1, Times DEF Init, TypeOK
<1>4. QED
  BY <1>2, <1>3 DEF Init, IInv, CallsHaveSockets, LeavingFirst, WrittenIsFresh,
                    KeyLasts, IndexLasts, Held, At, Writes

LEMMA NextIInv == IInv /\ [Next]_vars => IInv'
<1> SUFFICES ASSUME IInv, [Next]_vars PROVE IInv' OBVIOUS
<1>1. ASSUME NEW c \in Call, NEW s \in Socket, NEW op \in Writes, Write(c, s, op)
      PROVE  IInv'
  BY <1>1, WriteKeeps
<1>2. ASSUME NEW c \in Call, NEW s \in Socket, Refresh(c, s) \/ Unregister(c, s)
      PROVE  IInv'
  BY <1>2, RefreshKeeps, UnregisterKeeps
<1>3. ASSUME NEW c \in Call, Handle(c)
      PROVE  IInv'
  BY <1>3, WriteSetKeeps, WriteAddKeeps, WriteExpireKeeps, RefreshIndexKeeps,
     RefreshMissingKeeps, UnregisterIndexKeeps, GetKeeps, RemoveUserDeleteKeeps,
     RemoveFromIndexKeeps DEF Handle
<1>4. ASSUME NEW c \in Call, NEW op, List(c, op)
      PROVE  IInv'
  BY <1>4, ListKeeps
<1>5. ASSUME NEW s \in Socket, Die(s)
      PROVE  IInv'
  BY <1>5, DieKeeps
<1>6. CASE Tick
  BY <1>6, TickKeeps
<1>7. CASE UNCHANGED vars
  BY <1>7 DEF vars, IInv, TypeOK, CallsHaveSockets, LeavingFirst, WrittenIsFresh,
              KeyLasts, IndexLasts, IndexIsLong, Extends, Held, Sent, At
<1>8. "register" \in Writes /\ "setAway" \in Writes
  BY DEF Writes
<1>9. QED
  BY <1>1, <1>2, <1>3, <1>4, <1>5, <1>6, <1>7, <1>8 DEF Next

LEMMA Invariant == Spec => []IInv
  BY InitIInv, NextIInv, PTL DEF Spec

\* Every variable keeps its type, whatever PresenceService does and however
\* instances die.
THEOREM TypeCorrect == Spec => []TypeOK
<1>1. IInv => TypeOK BY DEF IInv
<1>2. QED BY <1>1, Invariant, PTL

\* A connection that the gateway keeps refreshing shows as online, unless a
\* removal that an earlier read decided has taken it away: neither its key nor
\* the room's index runs out between two refreshes (register, setAway, refresh,
\* removeUser and statusesFor of PresenceService).
THEOREM RefreshedAreOnline == Spec => []RefreshedStaysOnline
<1>1. IInv => RefreshedStaysOnline
  <2> SUFFICES ASSUME IInv, NEW s \in Socket, Settled(s), s \notin raced
               PROVE  Shown(s)
    BY DEF RefreshedStaysOnline
  <2>1. Held(s) /\ ~Sent(s) BY DEF Settled, Held
  <2>2. ttl[s] + timer[s] >= TtlSeconds BY <2>1 DEF IInv, KeyLasts
  <2>3. ttl[s] > 0 BY <2>2, Times DEF IInv, TypeOK
  <2>4. s \in index BY <2>1 DEF IInv, IndexLasts
  <2>5. QED BY <2>3, <2>4 DEF Shown
<1>2. QED BY <1>1, Invariant, PTL
=============================================================================
