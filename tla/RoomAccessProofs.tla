-------------------------- MODULE RoomAccessProofs --------------------------
(***************************************************************************)
(* Theorems about RoomAccess for every set of users, sockets and handlers. *)
(***************************************************************************)
EXTENDS RoomAccess, TLAPS

\* What a handler in flight has bound.
CallsMake ==
  \A c \in Call :
    /\ call[c].op # "none" => call[c].user \in User
    /\ call[c].op \in {"subscribe", "setAway"} =>
         call[c].socket \in Socket /\ call[c].user = UserOf[call[c].socket]
    /\ call[c].op = "subscribe" => call[c].at \in {"checking", "member"}
    /\ call[c].op = "setAway" => call[c].at \in {"checking", "member", "evicting"}

\* The reasons for which a socket in the topic may be out of order.
Excused(s) == EvictionPending(s) \/ UserOf[s] \in lost

\* The inductive invariant.
IInv ==
  /\ TypeOK
  /\ CallsMake
  /\ TopicIsJoined
  /\ StraySubscriptionRaced
  /\ SubscribedIsPresent

-----------------------------------------------------------------------------
(***************************************************************************)
(* Types and calls.                                                        *)
(***************************************************************************)

\* Starting, moving and freeing a call keeps the calls well typed.
LEMMA CallSteps ==
  ASSUME call \in [Call -> CallState], NEW c \in Call
  PROVE  /\ \A op \in {"subscribe", "setAway", "remove"}, stage \in Stages,
               s \in Socket \cup {None}, u \in User :
              Begin(c, op, stage, s, u) => call' \in [Call -> CallState]
         /\ \A stage \in Stages : Advance(c, stage) => call' \in [Call -> CallState]
         /\ Finish(c) => call' \in [Call -> CallState]
<1>1. IdleCall \in CallState
  BY DEF IdleCall, CallState, Stages
<1>2. QED BY <1>1 DEF Begin, Advance, Finish, CallState

\* Every step is a step of one socket, call or user.
LEMMA StepCases ==
  ASSUME Next
  PROVE  \/ \E s \in Socket : \/ Connect(s) \/ Disconnect(s) \/ Unsubscribe(s)
                              \/ DisconnectUnregister(s) \/ DisconnectClear(s)
                              \/ LeaveTopic(s) \/ HandleRoomEviction(s)
                              \/ LoseMail(s) \/ Expire(s)
         \/ \E s \in Socket : Die(s)
         \/ \E c \in Call, s \in Socket : Subscribe(c, s) \/ SetAway(c, s)
         \/ \E c \in Call : \/ SubscribeCheck(c) \/ SubscribeJoin(c) \/ SetAwayCheck(c)
                            \/ SetAwayWrite(c) \/ CleanPresence(c) \/ EvictUser(c)
                            \/ AbortRemoval(c)
         \/ \E u \in User : Admit(u)
         \/ \E c \in Call, u \in User : Remove(c, u)
BY DEF Next, Client, Deliver, Close, Handle

LEMMA TypeStep ==
  ASSUME TypeOK, CallsMake, [Next]_vars
  PROVE  TypeOK'
<1>1. CASE UNCHANGED vars
  BY <1>1 DEF TypeOK, vars
<1>2. ASSUME NEW s \in Socket,
             \/ Connect(s) \/ Disconnect(s) \/ Unsubscribe(s)
             \/ DisconnectUnregister(s) \/ DisconnectClear(s)
             \/ LeaveTopic(s) \/ HandleRoomEviction(s) \/ LoseMail(s) \/ Expire(s)
      PROVE  TypeOK'
  BY <1>2, RoomAccessAssumption
  DEF TypeOK, Connect, Disconnect, Unsubscribe, DisconnectUnregister, DisconnectClear,
      LeaveTopic, HandleRoomEviction, EvictSocket, LoseMail, Expire, Links,
      sockets, mail, history
<1>3. ASSUME NEW s \in Socket, Die(s)
      PROVE  TypeOK'
  <2>1. IdleCall \in CallState
    BY DEF IdleCall, CallState, Stages
  <2>2. call' \in [Call -> CallState]
    BY <1>3, <2>1 DEF Die, TypeOK
  <2>3. QED BY <1>3, <2>2 DEF Die, TypeOK, Links, mail
<1>4. ASSUME NEW c \in Call, NEW s \in Socket, Subscribe(c, s) \/ SetAway(c, s)
      PROVE  TypeOK'
  <2>1. UserOf[s] \in User /\ "checking" \in Stages
    BY RoomAccessAssumption DEF Stages
  <2>2. call' \in [Call -> CallState]
    BY <1>4, <2>1, CallSteps DEF Subscribe, SetAway, TypeOK
  <2>3. QED BY <1>4, <2>2 DEF Subscribe, SetAway, TypeOK, sockets, mail, history
<1>5. ASSUME NEW c \in Call,
             \/ SubscribeCheck(c) \/ SubscribeJoin(c) \/ SetAwayCheck(c)
             \/ SetAwayWrite(c) \/ CleanPresence(c) \/ EvictUser(c) \/ AbortRemoval(c)
      PROVE  TypeOK'
  <2>1. {"member", "evicting", "cleaned"} \subseteq Stages
    BY DEF Stages
  <2>2. call' \in [Call -> CallState]
    BY <1>5, <2>1, CallSteps
    DEF SubscribeCheck, SubscribeJoin, SetAwayCheck, SetAwayWrite, CleanPresence,
        EvictUser, AbortRemoval, TypeOK
  <2>3. call[c].op \in {"subscribe", "setAway"} => call[c].socket \in Socket
    BY DEF CallsMake
  <2>4. call[c].op = "remove" => call[c].user \in User
    BY DEF CallsMake
  <2>5. QED
    BY <1>5, <2>2, <2>3, <2>4
    DEF SubscribeCheck, SubscribeJoin, SetAwayCheck, SetAwayWrite, CleanPresence,
        EvictUser, AbortRemoval, TypeOK, At, Evictable, SocketsOf, sockets, mail, history
<1>6. ASSUME NEW u \in User, Admit(u)
      PROVE  TypeOK'
  BY <1>6 DEF Admit, TypeOK, sockets, mail, history
<1>7. ASSUME NEW c \in Call, NEW u \in User, Remove(c, u)
      PROVE  TypeOK'
  <2>1. call' \in [Call -> CallState]
    BY <1>7, CallSteps DEF Remove, TypeOK, Stages
  <2>2. QED BY <1>7, <2>1 DEF Remove, TypeOK, sockets, mail, history
<1>8. QED BY <1>1, <1>2, <1>3, <1>4, <1>5, <1>6, <1>7, StepCases

LEMMA CallsMakeStep ==
  ASSUME TypeOK, CallsMake, [Next]_vars
  PROVE  CallsMake'
<1>1. CASE call' = call
  BY <1>1 DEF CallsMake
<1>2. ASSUME NEW s \in Socket, Die(s)
      PROVE  CallsMake'
  BY <1>2 DEF Die, TypeOK, CallsMake, IdleCall
<1>3. ASSUME NEW c \in Call, NEW s \in Socket, Subscribe(c, s) \/ SetAway(c, s)
      PROVE  CallsMake'
  BY <1>3, RoomAccessAssumption DEF Subscribe, SetAway, Begin, TypeOK, CallsMake
<1>4. ASSUME NEW c \in Call, Finish(c)
      PROVE  CallsMake'
  BY <1>4 DEF Finish, TypeOK, CallsMake, IdleCall
<1>5. ASSUME NEW c \in Call, SubscribeCheck(c) \/ SetAwayCheck(c) \/ CleanPresence(c)
      PROVE  CallsMake'
  <2>1. CASE Finish(c)
    BY <2>1, <1>4
  <2>2. CASE At(c, "subscribe", "checking") /\ Advance(c, "member")
    BY <2>2 DEF At, Advance, TypeOK, CallState, CallsMake
  <2>3. CASE At(c, "setAway", "checking") /\ (Advance(c, "member") \/ Advance(c, "evicting"))
    BY <2>3 DEF At, Advance, TypeOK, CallState, CallsMake
  <2>4. CASE At(c, "remove", "removed") /\ Advance(c, "cleaned")
    BY <2>4 DEF At, Advance, TypeOK, CallState, CallsMake
  <2>5. QED
    BY <1>5, <2>1, <2>2, <2>3, <2>4 DEF SubscribeCheck, SetAwayCheck, CleanPresence
<1>6. ASSUME NEW c \in Call,
             SubscribeJoin(c) \/ SetAwayWrite(c) \/ EvictUser(c) \/ AbortRemoval(c)
      PROVE  CallsMake'
  BY <1>6, <1>4 DEF SubscribeJoin, SetAwayWrite, EvictUser, AbortRemoval
<1>7. ASSUME NEW c \in Call, NEW u \in User, Remove(c, u)
      PROVE  CallsMake'
  BY <1>7 DEF Remove, Begin, TypeOK, CallsMake
<1>8. ASSUME NEW s \in Socket,
             \/ Connect(s) \/ Disconnect(s) \/ Unsubscribe(s)
             \/ DisconnectUnregister(s) \/ DisconnectClear(s)
             \/ LeaveTopic(s) \/ HandleRoomEviction(s) \/ LoseMail(s) \/ Expire(s)
      PROVE  call' = call
  BY <1>8
  DEF Connect, Disconnect, Unsubscribe, DisconnectUnregister, DisconnectClear,
      LeaveTopic, HandleRoomEviction, LoseMail, Expire
<1>9. ASSUME NEW u \in User, Admit(u)
      PROVE  call' = call
  BY <1>9 DEF Admit
<1>10. CASE UNCHANGED vars
  BY <1>10, <1>1 DEF vars
<1>11. QED
  BY <1>1, <1>2, <1>3, <1>5, <1>6, <1>7, <1>8, <1>9, <1>10, StepCases

-----------------------------------------------------------------------------
(***************************************************************************)
(* Evictions are sent.                                                     *)
(***************************************************************************)

\* A handler that will send an eviction remains, or the eviction is on its way
\* to every open socket, or it is recorded as lost; nothing else takes an
\* excuse from a socket that stays in the topic.
LEMMA ExcusedStep ==
  ASSUME TypeOK, CallsMake, TopicIsJoined, [Next]_vars,
         NEW t \in Socket, t \in topic, t \in topic', Excused(t)
  PROVE  Excused(t)'
<1> DEFINE u == UserOf[t]
<1>1. u \in User /\ link[t] = "open"
  BY RoomAccessAssumption DEF TopicIsJoined
<1>2. CASE call' = call /\ leaveMail' = leaveMail /\ lost' = lost
  BY <1>2 DEF Excused, EvictionPending, WillEvict, At
<1>3. ASSUME NEW c \in Call, call[c].op = "none" \/ ~WillEvict(c, u),
             \A d \in Call \ {c} : call'[d] = call[d],
             leaveMail' = leaveMail, lost' = lost
      PROVE  Excused(t)'
  <2>1. \A d \in Call \ {c} : WillEvict(d, u) => WillEvict(d, u)'
    BY <1>3 DEF WillEvict, At
  <2>2. ~WillEvict(c, u)
    BY <1>3 DEF WillEvict, At
  <2>3. QED BY <1>3, <2>1, <2>2 DEF Excused, EvictionPending
<1>4. ASSUME NEW s \in Socket, LeaveTopic(s) \/ LoseMail(s)
      PROVE  Excused(t)'
  <2>1. call' = call /\ lost \subseteq lost'
    BY <1>4 DEF LeaveTopic, LoseMail
  <2>2. t \in leaveMail => t \in leaveMail' \/ u \in lost'
    BY <1>4, RoomAccessAssumption DEF LeaveTopic, LoseMail
  <2>3. QED BY <2>1, <2>2 DEF Excused, EvictionPending, WillEvict, At
<1>5. ASSUME NEW s \in Socket, Die(s)
      PROVE  Excused(t)'
  <2>1. \A d \in Call : WillEvict(d, u) => WillEvict(d, u)' \/ u \in lost'
    BY <1>5, <1>1 DEF Die, WillEvict, At, TypeOK
  <2>2. leaveMail' = leaveMail /\ lost \subseteq lost'
    BY <1>5 DEF Die, mail
  <2>3. QED BY <2>1, <2>2 DEF Excused, EvictionPending
<1>6. ASSUME NEW c \in Call, NEW s \in Socket, Subscribe(c, s) \/ SetAway(c, s)
      PROVE  Excused(t)'
  BY <1>6, <1>3 DEF Subscribe, SetAway, Begin, TypeOK, mail, history
<1>7. ASSUME NEW c \in Call, SubscribeCheck(c) \/ SubscribeJoin(c) \/ SetAwayWrite(c)
      PROVE  Excused(t)'
  <2>1. ~WillEvict(c, u)
    BY <1>7 DEF SubscribeCheck, SubscribeJoin, SetAwayWrite, At, WillEvict
  <2>2. \A d \in Call \ {c} : call'[d] = call[d]
    BY <1>7 DEF SubscribeCheck, SubscribeJoin, SetAwayWrite, Advance, Finish, TypeOK
  <2>3. leaveMail' = leaveMail /\ lost' = lost
    BY <1>7 DEF SubscribeCheck, SubscribeJoin, SetAwayWrite, mail, history
  <2>4. QED BY <2>1, <2>2, <2>3, <1>3
<1>8. ASSUME NEW c \in Call, SetAwayCheck(c) \/ CleanPresence(c)
      PROVE  Excused(t)'
  <2>1. \A d \in Call : WillEvict(d, u) => WillEvict(d, u)'
    BY <1>8 DEF SetAwayCheck, CleanPresence, Advance, At, WillEvict, TypeOK, CallState
  <2>2. leaveMail' = leaveMail /\ lost' = lost
    BY <1>8 DEF SetAwayCheck, CleanPresence, mail, history
  <2>3. QED BY <2>1, <2>2 DEF Excused, EvictionPending
<1>9. ASSUME NEW c \in Call, EvictUser(c)
      PROVE  Excused(t)'
  <2>1. CASE call[c].user = u
    <3>1. t \in Evictable(u)
      BY <1>1 DEF Evictable, SocketsOf
    <3>2. QED BY <1>9, <2>1, <3>1 DEF EvictUser, Excused, EvictionPending
  <2>2. CASE call[c].user # u
    <3>1. \A d \in Call : WillEvict(d, u) => WillEvict(d, u)'
      BY <1>9, <2>2 DEF EvictUser, Finish, WillEvict, At, TypeOK
    <3>2. leaveMail \subseteq leaveMail' /\ (u \in lost => u \in lost')
      BY <1>9, <2>2 DEF EvictUser
    <3>3. QED BY <3>1, <3>2 DEF Excused, EvictionPending
  <2>3. QED BY <2>1, <2>2
<1>10. ASSUME NEW c \in Call, AbortRemoval(c)
      PROVE  Excused(t)'
  <2>1. \A d \in Call : WillEvict(d, u) => WillEvict(d, u)' \/ u \in lost'
    BY <1>10 DEF AbortRemoval, Finish, WillEvict, At, TypeOK
  <2>2. leaveMail' = leaveMail /\ lost \subseteq lost'
    BY <1>10 DEF AbortRemoval, mail
  <2>3. QED BY <2>1, <2>2 DEF Excused, EvictionPending
<1>11. ASSUME NEW c \in Call, NEW v \in User, Remove(c, v)
      PROVE  Excused(t)'
  BY <1>11, <1>3 DEF Remove, Begin, TypeOK, mail, history
<1>12. ASSUME NEW s \in Socket,
              \/ Connect(s) \/ Disconnect(s) \/ Unsubscribe(s)
              \/ DisconnectUnregister(s) \/ DisconnectClear(s)
              \/ HandleRoomEviction(s) \/ Expire(s)
      PROVE  Excused(t)'
  BY <1>12, <1>2
  DEF Connect, Disconnect, Unsubscribe, DisconnectUnregister, DisconnectClear,
      HandleRoomEviction, Expire, mail, history
<1>13. ASSUME NEW v \in User, Admit(v)
      PROVE  Excused(t)'
  BY <1>13, <1>2 DEF Admit, mail, history
<1>14. CASE UNCHANGED vars
  BY <1>14, <1>2 DEF vars
<1>15. QED
  BY <1>4, <1>5, <1>6, <1>7, <1>8, <1>9, <1>10, <1>11, <1>12, <1>13, <1>14, StepCases

-----------------------------------------------------------------------------
(***************************************************************************)
(* The topic.                                                              *)
(***************************************************************************)

\* A socket enters the topic by SubscribeJoin only.
LEMMA TopicStep ==
  ASSUME TypeOK, CallsMake, [Next]_vars, NEW t \in Socket, t \notin topic, t \in topic'
  PROVE  \E c \in Call : SubscribeJoin(c) /\ call[c].socket = t /\ link[t] = "open"
<1>1. ~UNCHANGED vars
  BY DEF vars
<1>2. \A s \in Socket :
        ~(\/ Connect(s) \/ Disconnect(s) \/ Unsubscribe(s) \/ DisconnectUnregister(s)
          \/ DisconnectClear(s) \/ LeaveTopic(s) \/ HandleRoomEviction(s)
          \/ LoseMail(s) \/ Expire(s) \/ Die(s))
  BY DEF Connect, Disconnect, Unsubscribe, DisconnectUnregister, DisconnectClear,
      LeaveTopic, HandleRoomEviction, EvictSocket, LoseMail, Expire, Die, sockets
<1>3. \A c \in Call, s \in Socket : ~(Subscribe(c, s) \/ SetAway(c, s))
  BY DEF Subscribe, SetAway, sockets
<1>4. \A c \in Call : ~(\/ SubscribeCheck(c) \/ SetAwayCheck(c) \/ SetAwayWrite(c)
                         \/ CleanPresence(c) \/ EvictUser(c) \/ AbortRemoval(c))
  BY DEF SubscribeCheck, SetAwayCheck, SetAwayWrite, CleanPresence, EvictUser,
      AbortRemoval, sockets
<1>5. \A u \in User : ~Admit(u) /\ \A c \in Call : ~Remove(c, u)
  BY DEF Admit, Remove, sockets
<1>6. PICK c \in Call : SubscribeJoin(c)
  BY <1>1, <1>2, <1>3, <1>4, <1>5, StepCases
<1>7. call[c].socket = t /\ link[t] = "open"
  BY <1>6 DEF SubscribeJoin
<1>8. QED BY <1>6, <1>7

LEMMA TopicIsJoinedStep ==
  ASSUME TypeOK, CallsMake, TopicIsJoined, [Next]_vars
  PROVE  TopicIsJoined'
<1> SUFFICES ASSUME NEW t \in Socket, t \in topic'
             PROVE  t \in joined' /\ link'[t] = "open"
  <2>1. topic' \subseteq Socket
    BY TypeStep DEF TypeOK
  <2>2. QED BY <2>1 DEF TopicIsJoined
<1>1. CASE t \notin topic
  <2>1. PICK c \in Call : SubscribeJoin(c) /\ call[c].socket = t /\ link[t] = "open"
    BY <1>1, TopicStep
  <2>2. QED BY <2>1 DEF SubscribeJoin
<1>2. CASE t \in topic
  <2>1. t \in joined /\ link[t] = "open"
    BY <1>2 DEF TopicIsJoined
  <2>2. CASE UNCHANGED vars
    BY <2>1, <2>2 DEF vars
  <2>3. ASSUME NEW s \in Socket,
               \/ Connect(s) \/ Disconnect(s) \/ Unsubscribe(s) \/ DisconnectUnregister(s)
               \/ DisconnectClear(s) \/ LeaveTopic(s) \/ HandleRoomEviction(s)
               \/ LoseMail(s) \/ Expire(s) \/ Die(s)
        PROVE  t \in joined' /\ link'[t] = "open"
    BY <2>1, <2>3
    DEF TypeOK, Connect, Disconnect, Unsubscribe, DisconnectUnregister, DisconnectClear,
        LeaveTopic, HandleRoomEviction, EvictSocket, LoseMail, Expire, Die, sockets
  <2>4. ASSUME NEW c \in Call, NEW s \in Socket, Subscribe(c, s) \/ SetAway(c, s)
        PROVE  t \in joined' /\ link'[t] = "open"
    BY <2>1, <2>4 DEF Subscribe, SetAway, sockets
  <2>5. ASSUME NEW c \in Call,
               \/ SubscribeCheck(c) \/ SubscribeJoin(c) \/ SetAwayCheck(c)
               \/ SetAwayWrite(c) \/ CleanPresence(c) \/ EvictUser(c) \/ AbortRemoval(c)
        PROVE  t \in joined' /\ link'[t] = "open"
    BY <2>1, <2>5
    DEF SubscribeCheck, SubscribeJoin, SetAwayCheck, SetAwayWrite, CleanPresence,
        EvictUser, AbortRemoval, sockets
  <2>6. ASSUME NEW u \in User, Admit(u) \/ \E c \in Call : Remove(c, u)
        PROVE  t \in joined' /\ link'[t] = "open"
    BY <2>1, <2>6 DEF Admit, Remove, sockets
  <2>7. QED BY <2>2, <2>3, <2>4, <2>5, <2>6, StepCases
<1>3. QED BY <1>1, <1>2

\* A removal gives the sockets of its user an excuse, and a socket is no
\* longer late only when it leaves the topic or joins again.
LEMMA StrayStep ==
  ASSUME TypeOK, CallsMake, TopicIsJoined, StraySubscriptionRaced, [Next]_vars
  PROVE  StraySubscriptionRaced'
<1> SUFFICES ASSUME NEW t \in Socket, t \in topic', UserOf[t] \notin member'
             PROVE  Excused(t)' \/ t \in late'
  <2>1. topic' \subseteq Socket
    BY TypeStep DEF TypeOK
  <2>2. QED BY <2>1 DEF StraySubscriptionRaced, Excused
<1>1. CASE t \notin topic
  <2>1. PICK c \in Call : SubscribeJoin(c) /\ call[c].socket = t /\ link[t] = "open"
    BY <1>1, TopicStep
  <2>2. member' = member
    BY <2>1 DEF SubscribeJoin
  <2>3. CASE t \in late'
    BY <2>3
  <2>4. CASE EvictionPending(t)
    <3>1. leaveMail' = leaveMail /\ \A d \in Call \ {c} : call'[d] = call[d]
      BY <2>1 DEF SubscribeJoin, Finish, TypeOK, mail
    <3>2. ~WillEvict(c, UserOf[t])
      BY <2>1 DEF SubscribeJoin, At, WillEvict
    <3>3. \A d \in Call : WillEvict(d, UserOf[t]) => WillEvict(d, UserOf[t])'
      BY <3>1, <3>2 DEF WillEvict, At
    <3>4. QED BY <2>4, <3>1, <3>3 DEF EvictionPending, Excused
  <2>5. QED BY <2>1, <2>2, <2>3, <2>4 DEF SubscribeJoin
<1>2. CASE t \in topic /\ Excused(t)
  BY <1>2, ExcusedStep
<1>3. CASE t \in topic /\ UserOf[t] \in member
  <2>1. PICK c \in Call : Remove(c, UserOf[t])
    <3>1. member' # member
      BY <1>3
    <3>2. PICK v \in User : Admit(v) \/ \E c \in Call : Remove(c, v)
      BY <3>1, StepCases
      DEF vars, Connect, Disconnect, Unsubscribe, DisconnectUnregister, DisconnectClear,
          LeaveTopic, HandleRoomEviction, LoseMail, Expire, Die, Subscribe, SetAway,
          SubscribeCheck, SubscribeJoin, SetAwayCheck, SetAwayWrite, CleanPresence,
          EvictUser, AbortRemoval
    <3>3. v = UserOf[t]
      BY <1>3, <3>2 DEF Admit, Remove
    <3>4. QED BY <1>3, <3>2, <3>3 DEF Admit
  <2>2. WillEvict(c, UserOf[t])'
    BY <2>1 DEF Remove, Begin, WillEvict, TypeOK
  <2>3. QED BY <2>2 DEF Excused, EvictionPending
<1>4. CASE t \in topic /\ t \in late /\ ~Excused(t) /\ UserOf[t] \notin member
  <2>1. CASE UNCHANGED vars
    BY <1>4, <2>1 DEF vars
  <2>2. ASSUME NEW s \in Socket,
               \/ Connect(s) \/ Disconnect(s) \/ Unsubscribe(s) \/ DisconnectUnregister(s)
               \/ DisconnectClear(s) \/ LeaveTopic(s) \/ HandleRoomEviction(s)
               \/ LoseMail(s) \/ Expire(s) \/ Die(s)
        PROVE  t \in late'
    BY <1>4, <2>2
    DEF Connect, Disconnect, Unsubscribe, DisconnectUnregister, DisconnectClear,
        LeaveTopic, HandleRoomEviction, EvictSocket, LoseMail, Expire, Die, sockets, history
  <2>3. ASSUME NEW c \in Call, NEW s \in Socket, Subscribe(c, s) \/ SetAway(c, s)
        PROVE  t \in late'
    BY <1>4, <2>3 DEF Subscribe, SetAway, history
  <2>4. ASSUME NEW c \in Call, SubscribeJoin(c)
        PROVE  t \in late'
    BY <1>4, <2>4 DEF SubscribeJoin, Excused, TopicIsJoined
  <2>5. ASSUME NEW c \in Call,
               \/ SubscribeCheck(c) \/ SetAwayCheck(c) \/ SetAwayWrite(c)
               \/ CleanPresence(c) \/ EvictUser(c) \/ AbortRemoval(c)
        PROVE  t \in late'
    BY <1>4, <2>5
    DEF SubscribeCheck, SetAwayCheck, SetAwayWrite, CleanPresence, EvictUser,
        AbortRemoval, history
  <2>6. ASSUME NEW u \in User, Admit(u) \/ \E c \in Call : Remove(c, u)
        PROVE  t \in late'
    BY <1>4, <2>6 DEF Admit, Remove, history
  <2>7. QED BY <2>1, <2>2, <2>3, <2>4, <2>5, <2>6, StepCases
<1>5. QED BY <1>1, <1>2, <1>3, <1>4 DEF StraySubscriptionRaced, Excused

\* What takes the entry of a socket also takes the socket out of the topic, or
\* is the removal of its user.
LEMMA PresentStep ==
  ASSUME TypeOK, CallsMake, TopicIsJoined, SubscribedIsPresent, [Next]_vars
  PROVE  SubscribedIsPresent'
<1> SUFFICES ASSUME NEW t \in Socket, t \in topic'
             PROVE  t \in present' \/ Excused(t)'
  <2>1. topic' \subseteq Socket
    BY TypeStep DEF TypeOK
  <2>2. QED BY <2>1 DEF SubscribedIsPresent, Excused
<1>1. CASE t \notin topic
  <2>1. PICK c \in Call : SubscribeJoin(c) /\ call[c].socket = t
    BY <1>1, TopicStep
  <2>2. QED BY <2>1 DEF SubscribeJoin
<1>2. CASE t \in topic /\ Excused(t)
  BY <1>2, ExcusedStep
<1>3. CASE t \in topic /\ t \in present
  <2>1. link[t] = "open" /\ t \in joined
    BY <1>3 DEF TopicIsJoined
  <2>2. CASE UNCHANGED vars
    BY <1>3, <2>2 DEF vars
  <2>3. ASSUME NEW s \in Socket,
               \/ Connect(s) \/ Disconnect(s) \/ Unsubscribe(s) \/ DisconnectUnregister(s)
               \/ DisconnectClear(s) \/ LeaveTopic(s) \/ HandleRoomEviction(s)
               \/ LoseMail(s) \/ Expire(s) \/ Die(s)
        PROVE  t \in present'
    BY <1>3, <2>1, <2>3
    DEF Connect, Disconnect, Unsubscribe, DisconnectUnregister, DisconnectClear,
        LeaveTopic, HandleRoomEviction, EvictSocket, EntryOf, LoseMail, Expire,
        Refreshed, Die, sockets
  <2>4. ASSUME NEW c \in Call, NEW s \in Socket, Subscribe(c, s) \/ SetAway(c, s)
        PROVE  t \in present'
    BY <1>3, <2>4 DEF Subscribe, SetAway, sockets
  <2>5. ASSUME NEW c \in Call,
               \/ SubscribeCheck(c) \/ SubscribeJoin(c) \/ SetAwayCheck(c)
               \/ SetAwayWrite(c) \/ EvictUser(c) \/ AbortRemoval(c)
        PROVE  t \in present'
    BY <1>3, <2>5
    DEF SubscribeCheck, SubscribeJoin, SetAwayCheck, SetAwayWrite, EvictUser,
        AbortRemoval, sockets
  <2>6. ASSUME NEW c \in Call, CleanPresence(c)
        PROVE  t \in present' \/ Excused(t)'
    <3>1. CASE call[c].user = UserOf[t]
      <4>1. WillEvict(c, UserOf[t])
        BY <2>6, <3>1 DEF CleanPresence, At, WillEvict
      <4>2. QED BY <4>1, <1>2, <1>3 DEF Excused, EvictionPending
    <3>2. CASE call[c].user # UserOf[t]
      BY <1>3, <2>6, <3>2 DEF CleanPresence, RemoveUser, SocketsOf
    <3>3. QED BY <3>1, <3>2
  <2>7. ASSUME NEW u \in User, Admit(u) \/ \E c \in Call : Remove(c, u)
        PROVE  t \in present'
    BY <1>3, <2>7 DEF Admit, Remove, sockets
  <2>8. QED BY <2>2, <2>3, <2>4, <2>5, <2>6, <2>7, StepCases
<1>4. QED BY <1>1, <1>2, <1>3 DEF SubscribedIsPresent, Excused

-----------------------------------------------------------------------------
(***************************************************************************)
(* The theorems.                                                           *)
(***************************************************************************)

\* The inductive invariant holds in every state.
THEOREM Invariance == Spec => []IInv
<1>1. Init => IInv
  <2>1. IdleCall \in CallState
    BY DEF IdleCall, CallState, Stages
  <2>2. ASSUME Init PROVE TypeOK
    BY <2>1, <2>2 DEF Init, TypeOK, Links
  <2>3. ASSUME Init PROVE CallsMake
    BY <2>3 DEF Init, CallsMake, IdleCall
  <2>4. ASSUME Init PROVE TopicIsJoined /\ StraySubscriptionRaced /\ SubscribedIsPresent
    BY <2>4 DEF Init, TopicIsJoined, StraySubscriptionRaced, SubscribedIsPresent
  <2>5. QED BY <2>2, <2>3, <2>4 DEF IInv
<1>2. IInv /\ [Next]_vars => IInv'
  BY TypeStep, CallsMakeStep, TopicIsJoinedStep, StrayStep, PresentStep DEF IInv
<1>3. QED BY <1>1, <1>2, PTL DEF Spec

\* The gateway keeps its types.
THEOREM TypeCorrect == Spec => []TypeOK
<1>1. IInv => TypeOK
  BY DEF IInv
<1>2. QED BY <1>1, Invariance, PTL

\* A socket in the topic is connected and has joined: an eviction finds it.
THEOREM TopicJoined == Spec => []TopicIsJoined
<1>1. IInv => TopicIsJoined
  BY DEF IInv
<1>2. QED BY <1>1, Invariance, PTL

\* Only a lost eviction or an overtaken check leaves a stray socket.
THEOREM StraysRaced == Spec => []StraySubscriptionRaced
<1>1. IInv => StraySubscriptionRaced
  BY DEF IInv
<1>2. QED BY <1>1, Invariance, PTL

\* A subscribed connection has its presence entry.
THEOREM SubscribedPresent == Spec => []SubscribedIsPresent
<1>1. IInv => SubscribedIsPresent
  BY DEF IInv
<1>2. QED BY <1>1, Invariance, PTL
=============================================================================
