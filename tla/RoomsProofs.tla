---------------------------- MODULE RoomsProofs ----------------------------
(***************************************************************************)
(* Theorems about Rooms for every set of rooms, users, requests and calls, *)
(* and about Listings for every number of rows, changes and pages.         *)
(***************************************************************************)
EXTENDS Rooms, Listings, WellFoundedInduction, TLAPS

\* Every step is the creation of a room or a step of one call.
LEMMA StepCases ==
  ASSUME Next
  PROVE  \/ \E u \in User, r \in Room : CreateRoom(u, r)
         \/ \E c \in Call, u \in User, r \in Room :
              \/ RequestJoin(c, u, r) \/ Leave(c, u, r) \/ DeleteRoom(c, u, r)
              \/ \E target \in User : RemoveMember(c, u, r, target)
              \/ \E target \in User : TransferOwnership(c, u, r, target)
              \/ \E q \in Request : CancelJoinRequest(c, u, r, q)
              \/ \E q \in Request, verdict \in Verdicts :
                   DecideJoinRequest(c, u, r, q, verdict)
         \/ \E c \in Call : Handle(c)
         \/ \E c \in Call : Crash(c)
BY DEF Next, Arrive

\* An update of one field keeps a call a call.  The sets of operations and
\* stages stay folded here, which keeps the record facts small.
LEMMA CallUpdates ==
  ASSUME NEW k \in CallState
  PROVE  /\ \A stage \in Stages : [k EXCEPT !.at = stage] \in CallState
         /\ \A u \in User : [k EXCEPT !.subject = u] \in CallState
         /\ \A q \in Request : [k EXCEPT !.req = q] \in CallState
         /\ \A q \in Request, v \in Verdicts :
              [k EXCEPT !.req = q, !.verdict = v] \in CallState
         /\ \A stage \in Stages, us \in SUBSET User :
              [k EXCEPT !.at = stage, !.listed = us] \in CallState
BY DEF CallState

\* A call that is idle has the type of a call.
LEMMA IdleCallType == IdleCall \in CallState
BY DEF IdleCall, CallState, Stages, Verdicts

\* So has a call that was just accepted.
LEMMA NewCallType ==
  ASSUME NEW op \in Ops, NEW stage \in Stages, NEW r \in Room, NEW u \in User
  PROVE  NewCall(op, stage, r, u) \in CallState
<1>1. "REJECTED" \in Verdicts
  BY DEF Verdicts
<1>2. QED BY <1>1 DEF NewCall, CallState

\* Moving or freeing a call keeps the calls well typed.
LEMMA CallSteps ==
  ASSUME call \in [Call -> CallState], NEW c \in Call
  PROVE  /\ \A stage \in Stages : Advance(c, stage) => call' \in [Call -> CallState]
         /\ Finish(c) => call' \in [Call -> CallState]
<1>1. call[c] \in CallState
  OBVIOUS
<1>2. ASSUME NEW stage \in Stages, Advance(c, stage)
      PROVE  call' \in [Call -> CallState]
  <2>1. call' = [call EXCEPT ![c] = [call[c] EXCEPT !.at = stage]]
    BY <1>2 DEF Advance
  <2>2. QED BY <2>1, <1>1, CallUpdates
<1>3. QED BY <1>2, IdleCallType DEF Finish

\* A new status leaves the requests well typed.
LEMMA RequestUpdates ==
  ASSUME NEW f \in [Request -> [status: Statuses \cup {"ABSENT"},
                                room: Room \cup {None}, user: User \cup {None}]],
         NEW q, NEW s \in Statuses
  PROVE  [f EXCEPT ![q].status = s]
           \in [Request -> [status: Statuses \cup {"ABSENT"},
                            room: Room \cup {None}, user: User \cup {None}]]
<1>1. q \in Request => [f[q] EXCEPT !.status = s]
                         \in [status: Statuses \cup {"ABSENT"},
                             room: Room \cup {None}, user: User \cup {None}]
  OBVIOUS
<1>2. QED BY <1>1

\* The type invariant: no handler writes a row or a call of another shape.
THEOREM TypeCorrect == Spec => []TypeOK
<1>1. Init => TypeOK
  BY IdleCallType DEF Init, TypeOK, NoRequest, Roles
<1>2. ASSUME TypeOK, [Next]_vars
      PROVE  TypeOK'
  <2> USE <1>2 DEF TypeOK
  <2>0. /\ "join" \in Ops /\ "cancel" \in Ops /\ "decide" \in Ops /\ "remove" \in Ops
        /\ "leave" \in Ops /\ "transfer" \in Ops /\ "delete" \in Ops
        /\ "checked" \in Stages /\ "notMember" \in Stages /\ "nonePending" \in Stages
        /\ "read" \in Stages /\ "committed" \in Stages /\ "cleaned" \in Stages
        /\ "announcing" \in Stages /\ "failing" \in Stages
        /\ "PENDING" \in Statuses /\ "CANCELLED" \in Statuses /\ Verdicts \subseteq Statuses
        /\ "NONE" \in Roles /\ "MEMBER" \in Roles /\ "OWNER" \in Roles
    BY DEF Ops, Stages, Statuses, Verdicts, Roles
  <2>1. ASSUME NEW u \in User, NEW r \in Room, CreateRoom(u, r)
        PROVE  TypeOK'
    BY <2>0, <2>1 DEF CreateRoom
  <2>2. ASSUME NEW c \in Call, NEW fields \in CallState, Accept(c, fields),
               UNCHANGED <<roomState, version, role, request>>
        PROVE  TypeOK'
    BY <2>0, <2>2 DEF Accept
  <2>3. ASSUME NEW c \in Call, NEW stage \in Stages, Advance(c, stage)
        PROVE  call' \in [Call -> CallState]
    BY <2>3, CallSteps
  <2>4. ASSUME NEW c \in Call, Finish(c)
        PROVE  call' \in [Call -> CallState]
    BY <2>4, CallSteps
  <2>5. ASSUME NEW c \in Call, NEW u \in User, NEW r \in Room,
               \/ RequestJoin(c, u, r) \/ Leave(c, u, r) \/ DeleteRoom(c, u, r)
               \/ \E target \in User : RemoveMember(c, u, r, target)
               \/ \E target \in User : TransferOwnership(c, u, r, target)
               \/ \E q \in Request : CancelJoinRequest(c, u, r, q)
               \/ \E q \in Request, verdict \in Verdicts :
                    DecideJoinRequest(c, u, r, q, verdict)
        PROVE  TypeOK'
    <3>1. \A op \in Ops, stage \in Stages : NewCall(op, stage, r, u) \in CallState
      BY NewCallType
    <3>2. CASE RequestJoin(c, u, r)
      BY <2>0, <3>1, <3>2, <2>2 DEF RequestJoin
    <3>3. CASE Leave(c, u, r)
      <4>1. [NewCall("leave", "read", r, u) EXCEPT !.subject = u] \in CallState
        BY <3>1, <2>0, CallUpdates
      <4>2. QED BY <2>0, <4>1, <3>3, <2>2 DEF Leave
    <3>4. CASE DeleteRoom(c, u, r)
      BY <2>0, <3>1, <3>4, <2>2 DEF DeleteRoom
    <3>5. ASSUME NEW target \in User, RemoveMember(c, u, r, target)
          PROVE  TypeOK'
      <4>1. [NewCall("remove", "checked", r, u) EXCEPT !.subject = target] \in CallState
        BY <3>1, <2>0, CallUpdates
      <4>2. QED BY <2>0, <4>1, <3>5, <2>2 DEF RemoveMember
    <3>6. ASSUME NEW target \in User, TransferOwnership(c, u, r, target)
          PROVE  TypeOK'
      <4>1. [NewCall("transfer", "checked", r, u) EXCEPT !.subject = target] \in CallState
        BY <3>1, <2>0, CallUpdates
      <4>2. QED BY <2>0, <4>1, <3>6, <2>2 DEF TransferOwnership
    <3>7. ASSUME NEW q \in Request, CancelJoinRequest(c, u, r, q)
          PROVE  TypeOK'
      <4>1. [NewCall("cancel", "read", r, u) EXCEPT !.req = q] \in CallState
        BY <3>1, <2>0, CallUpdates
      <4>2. QED BY <2>0, <4>1, <3>7, <2>2 DEF CancelJoinRequest
    <3>8. ASSUME NEW q \in Request, NEW verdict \in Verdicts,
                 DecideJoinRequest(c, u, r, q, verdict)
          PROVE  TypeOK'
      <4>1. [NewCall("decide", "checked", r, u) EXCEPT !.req = q, !.verdict = verdict]
              \in CallState
        BY <3>1, <2>0, CallUpdates
      <4>2. QED BY <2>0, <4>1, <3>8, <2>2 DEF DecideJoinRequest
    <3>9. QED BY <2>5, <3>2, <3>3, <3>4, <3>5, <3>6, <3>7, <3>8
  <2>6. ASSUME NEW r \in Room, NEW rows \in [User -> Roles], CommitRoom(r, rows)
        PROVE  version' \in [Room -> Nat] /\ role' \in [Room -> [User -> Roles]]
    <3>1. /\ role' = [role EXCEPT ![r] = rows]
          /\ version' = [version EXCEPT ![r] = @ + 1]
      BY <2>6 DEF CommitRoom
    <3>2. role \in [Room -> [User -> Roles]] /\ version \in [Room -> Nat]
      OBVIOUS
    <3>3. QED BY ONLY <2>6, <3>1, <3>2
  <2>7. ASSUME NEW c \in Call, Handle(c)
        PROVE  TypeOK'
    <3>1. CASE JoinCheckMember(c)
      BY <2>0, <3>1, <2>3, <2>4 DEF JoinCheckMember
    <3>2. CASE JoinFindPending(c)
      BY <2>0, <3>2, <2>3, <2>4 DEF JoinFindPending
    <3>3. ASSUME NEW q \in Request, JoinCreate(c, q)
          PROVE  TypeOK'
      <4>1. call[c].room \in Room \cup {None} /\ call[c].actor \in User \cup {None}
        BY <2>0 DEF CallState
      <4>2. QED BY <2>0, <3>3, <4>1, <2>3 DEF JoinCreate
    <3>4. CASE JoinCreateConflict(c) \/ JoinAnnounce(c) \/ Announce(c)
      BY <2>0, <3>4, <2>4 DEF JoinCreateConflict, JoinAnnounce, Announce
    <3>5. CASE CancelCommit(c)
      <4>1. request' = [request EXCEPT ![call[c].req].status = "CANCELLED"]
            /\ Finish(c) /\ UNCHANGED <<roomState, version, role>>
        BY <3>5 DEF CancelCommit
      <4>2. request' \in [Request -> [status: Statuses \cup {"ABSENT"},
                                      room: Room \cup {None}, user: User \cup {None}]]
        BY <2>0, <4>1, RequestUpdates
      <4>3. QED BY <4>1, <4>2, <2>4
    <3>6. CASE DecideFindPending(c)
      BY <2>0, <3>6, <2>3, <2>4 DEF DecideFindPending
    <3>7. CASE DecideCommit(c)
      <4>1. call[c].verdict \in Statuses
        BY <2>0 DEF CallState
      <4>2. request' \in [Request -> [status: Statuses \cup {"ABSENT"},
                                      room: Room \cup {None}, user: User \cup {None}]]
        BY <3>7, <4>1, RequestUpdates DEF DecideCommit
      <4>3. version' \in [Room -> Nat] /\ role' \in [Room -> [User -> Roles]]
        <5>1. CASE call[c].verdict # "APPROVED"
          BY <2>0, <5>1, <3>7 DEF DecideCommit
        <5>2. CASE call[c].verdict = "APPROVED" /\ call[c].room \in Room
          <6>1. Admit(role[call[c].room], request[call[c].req].user) \in [User -> Roles]
            <7>1. role[call[c].room] \in [User -> Roles]
              BY <5>2
            <7>2. QED BY <2>0, <7>1 DEF Admit
          <6>2. QED BY <2>0, <6>1, <5>2, <3>7, <2>6 DEF DecideCommit
        <5>3. CASE call[c].verdict = "APPROVED" /\ call[c].room \notin Room
          <6>1. PICK r, rows : /\ r \notin Room /\ role' = [role EXCEPT ![r] = rows]
                               /\ version' = [version EXCEPT ![r] = @ + 1]
            BY <5>3, <3>7 DEF DecideCommit, CommitRoom
          <6>2. role \in [Room -> [User -> Roles]] /\ version \in [Room -> Nat]
            OBVIOUS
          <6>3. QED BY ONLY <6>1, <6>2
        <5>4. QED BY <5>1, <5>2, <5>3
      <4>4. QED BY <2>0, <3>7, <4>2, <4>3, <2>3, <2>4 DEF DecideCommit
    <3>8. CASE RemoveFindTarget(c)
      BY <2>0, <3>8, <2>3, <2>4 DEF RemoveFindTarget
    <3>9. CASE DepartCommit(c)
      <4>1. CASE call[c].room \in Room
        <5>1. WithoutMember(role[call[c].room], call[c].subject) \in [User -> Roles]
          BY <2>0, <4>1 DEF WithoutMember
        <5>2. /\ CommitRoom(call[c].room, WithoutMember(role[call[c].room], call[c].subject))
              /\ Advance(c, "committed") /\ UNCHANGED <<roomState, request>>
          BY <3>9 DEF DepartCommit
        <5>3. version' \in [Room -> Nat] /\ role' \in [Room -> [User -> Roles]]
          BY <4>1, <5>1, <5>2, <2>6
        <5>4. QED BY <2>0, <5>2, <5>3, <2>3
      <4>2. CASE call[c].room \notin Room
        BY <2>0, <4>2, <3>9, <2>3 DEF DepartCommit, CommitRoom
      <4>3. QED BY <4>1, <4>2
    <3>10. CASE DepartAbort(c)
      BY <2>0, <3>10, <2>4 DEF DepartAbort
    <3>11. CASE TransferFindTarget(c)
      BY <2>0, <3>11, <2>3, <2>4 DEF TransferFindTarget
    <3>12. CASE TransferCommit(c)
      <4>1. CASE call[c].room \in Room
        <5>1. HandOver(role[call[c].room], call[c].actor, call[c].subject) \in [User -> Roles]
          BY <2>0, <4>1 DEF HandOver
        <5>2. /\ CommitRoom(call[c].room, HandOver(role[call[c].room], call[c].actor, call[c].subject))
              /\ Advance(c, "committed") /\ UNCHANGED <<roomState, request>>
          BY <3>12 DEF TransferCommit
        <5>3. version' \in [Room -> Nat] /\ role' \in [Room -> [User -> Roles]]
          BY <4>1, <5>1, <5>2, <2>6
        <5>4. QED BY <2>0, <5>2, <5>3, <2>3
      <4>2. CASE call[c].room \notin Room
        BY <2>0, <4>2, <3>12, <2>3 DEF TransferCommit, CommitRoom
      <4>3. QED BY <4>1, <4>2
    <3>13. CASE TransferAbort(c)
      BY <2>0, <3>13, <2>4 DEF TransferAbort
    <3>14. CASE DeleteReadMembers(c)
      <4>1. {u \in User : role[call[c].room][u] # "NONE"} \in SUBSET User
        OBVIOUS
      <4>2. call' \in [Call -> CallState]
        <5>1. call' = [call EXCEPT ![c] = [call[c] EXCEPT !.at = "read",
                         !.listed = {u \in User : role[call[c].room][u] # "NONE"}]]
          BY <3>14 DEF DeleteReadMembers
        <5>2. QED BY <2>0, <4>1, <5>1, CallUpdates
      <4>3. QED BY <2>0, <4>2, <3>14 DEF DeleteReadMembers
    <3>15. CASE DeleteCommit(c)
      <4>1. roomState' \in [Room -> {"absent", "live", "deleted"}]
        BY <2>0, <3>15 DEF DeleteCommit
      <4>2. CASE call[c].room \in Room
        BY <2>0, <4>1, <4>2, <3>15, <2>6, <2>3 DEF DeleteCommit
      <4>3. CASE call[c].room \notin Room
        BY <2>0, <4>1, <4>3, <3>15, <2>3 DEF DeleteCommit, CommitRoom
      <4>4. QED BY <4>2, <4>3
    <3>16. CASE CleanPresence(c)
      BY <2>0, <3>16, <2>3 DEF CleanPresence
    <3>17. CASE TakeSnapshot(c)
      BY <2>0, <3>17, <2>3, <2>4 DEF TakeSnapshot
    <3>18. CASE FollowUpFails(c) \/ AnswerError(c)
      BY <2>0, <3>18, <2>3, <2>4 DEF FollowUpFails, AnswerError
    <3>19. QED
      BY <2>7, <3>1, <3>2, <3>3, <3>4, <3>5, <3>6, <3>7, <3>8, <3>9, <3>10, <3>11,
         <3>12, <3>13, <3>14, <3>15, <3>16, <3>17, <3>18 DEF Handle
  <2>8. ASSUME NEW c \in Call, Crash(c)
        PROVE  TypeOK'
    BY <2>0, <2>8, <2>4 DEF Crash
  <2>9. CASE UNCHANGED vars
    BY <2>0, <2>9 DEF vars
  <2>10. QED BY <2>1, <2>5, <2>7, <2>8, <2>9, StepCases
<1>3. QED BY <1>1, <1>2, PTL DEF Spec

-----------------------------------------------------------------------------
\* Only six kinds of step write rows; arrivals, checks, aborts, publications
\* and crashes change nothing but the calls.
LEMMA RowsChange ==
  ASSUME [Next]_vars
  PROVE  \/ UNCHANGED <<roomState, version, role, request>>
         \/ \E u \in User, r \in Room : CreateRoom(u, r)
         \/ \E c \in Call :
              \/ \E q \in Request : JoinCreate(c, q)
              \/ CancelCommit(c) \/ DecideCommit(c) \/ DepartCommit(c)
              \/ TransferCommit(c) \/ DeleteCommit(c)
<1>1. ASSUME NEW c \in Call, Arrive(c) \/ Crash(c)
      PROVE  UNCHANGED <<roomState, version, role, request>>
  BY <1>1 DEF Arrive, Crash, RequestJoin, Leave, DeleteRoom, RemoveMember,
              TransferOwnership, CancelJoinRequest, DecideJoinRequest
<1>2. ASSUME NEW c \in Call, Handle(c),
             ~\E q \in Request : JoinCreate(c, q),
             ~(CancelCommit(c) \/ DecideCommit(c) \/ DepartCommit(c)
                 \/ TransferCommit(c) \/ DeleteCommit(c))
      PROVE  UNCHANGED <<roomState, version, role, request>>
  BY <1>2 DEF Handle, JoinCheckMember, JoinFindPending, JoinCreateConflict,
              JoinAnnounce, DecideFindPending, RemoveFindTarget, DepartAbort,
              TransferFindTarget, TransferAbort, DeleteReadMembers, CleanPresence,
              TakeSnapshot, FollowUpFails, AnswerError, Announce
<1>3. QED BY <1>1, <1>2 DEF Next, vars

-----------------------------------------------------------------------------
\* docs/api-contract.md: "A room has exactly one owner".  TypeOK makes the
\* invariant inductive: a handler acts on checks that may be stale, and it is
\* the constraint of the commit, on the rows it leaves, that restores it.
LEMMA CommitKeepsOwner ==
  ASSUME TypeOK, ExactlyOneOwner, NEW r, NEW rows, CommitRoom(r, rows),
         \A s \in Room : s # r => roomState'[s] = roomState[s]
  PROVE  ExactlyOneOwner'
<1> SUFFICES ASSUME NEW s \in Room, roomState'[s] # "absent"
             PROVE  \E u \in User : \A v \in User : role'[s][v] = "OWNER" <=> v = u
  BY DEF ExactlyOneOwner
<1>1. CASE s = r
  BY <1>1 DEF CommitRoom, CanCommit, AssertExactlyOneOwner, TypeOK
<1>2. CASE s # r
  BY <1>2 DEF CommitRoom, ExactlyOneOwner, TypeOK
<1>3. QED BY <1>1, <1>2

THEOREM OneOwner == Spec => []ExactlyOneOwner
<1>1. Init => ExactlyOneOwner
  BY DEF Init, ExactlyOneOwner
<1>2. ASSUME TypeOK, ExactlyOneOwner, [Next]_vars
      PROVE  ExactlyOneOwner'
  <2> USE <1>2
  <2>1. ASSUME UNCHANGED <<roomState, role>>
        PROVE  ExactlyOneOwner'
    BY <2>1 DEF ExactlyOneOwner
  <2>2. ASSUME NEW u \in User, NEW r \in Room, CreateRoom(u, r)
        PROVE  ExactlyOneOwner'
    <3>1. \A v \in User : role'[r][v] = "OWNER" <=> v = u
      BY <2>2 DEF CreateRoom, TypeOK
    <3>2. \A s \in Room : s # r => role'[s] = role[s] /\ roomState'[s] = roomState[s]
      BY <2>2 DEF CreateRoom, TypeOK
    <3>3. QED BY <3>1, <3>2 DEF ExactlyOneOwner
  <2>3. ASSUME NEW c \in Call, DecideCommit(c)
        PROVE  ExactlyOneOwner'
    <3>1. CASE call[c].verdict = "APPROVED"
      BY <2>3, <3>1, CommitKeepsOwner DEF DecideCommit
    <3>2. CASE call[c].verdict # "APPROVED"
      BY <2>3, <3>2, <2>1 DEF DecideCommit
    <3>3. QED BY <3>1, <3>2
  <2>4. ASSUME NEW c \in Call, DepartCommit(c) \/ TransferCommit(c)
        PROVE  ExactlyOneOwner'
    BY <2>4, CommitKeepsOwner DEF DepartCommit, TransferCommit
  <2>5. ASSUME NEW c \in Call, DeleteCommit(c)
        PROVE  ExactlyOneOwner'
    BY <2>5, CommitKeepsOwner DEF DeleteCommit, TypeOK
  <2>6. ASSUME NEW c \in Call, CancelCommit(c) \/ \E q \in Request : JoinCreate(c, q)
        PROVE  ExactlyOneOwner'
    BY <2>6, <2>1 DEF CancelCommit, JoinCreate
  <2>7. QED BY <2>1, <2>2, <2>3, <2>4, <2>5, <2>6, RowsChange
<1>3. QED BY <1>1, <1>2, TypeCorrect, PTL DEF Spec

-----------------------------------------------------------------------------
\* Concurrent requestJoin calls leave one pending request per user and room:
\* JoinCreate is the only step that makes a request pending.
THEOREM OnePending == Spec => []OnePendingPerUser
<1>1. Init => OnePendingPerUser
  BY DEF Init, OnePendingPerUser, NoRequest
<1>2. ASSUME TypeOK, OnePendingPerUser, [Next]_vars
      PROVE  OnePendingPerUser'
  <2> USE <1>2
  <2>1. ASSUME \A q \in Request : request'[q].status = "PENDING" => request'[q] = request[q]
        PROVE  OnePendingPerUser'
    BY <2>1 DEF OnePendingPerUser
  <2>2. ASSUME NEW c \in Call, NEW q \in Request, JoinCreate(c, q)
        PROVE  OnePendingPerUser'
    <3>1. request'[q] = [status |-> "PENDING", room |-> call[c].room, user |-> call[c].actor]
      BY <2>2 DEF JoinCreate, TypeOK
    <3>2. \A p \in Request : p # q => request'[p] = request[p]
      BY <2>2 DEF JoinCreate, TypeOK
    <3>3. \A p \in Request : ~Pending(p, call[c].room, call[c].actor)
      BY <2>2 DEF JoinCreate, OnePendingIndex, HasPending
    <3>4. QED BY <3>1, <3>2, <3>3 DEF OnePendingPerUser, Pending
  <2>3. ASSUME NEW c \in Call, CancelCommit(c)
        PROVE  OnePendingPerUser'
    BY <2>3, <2>1 DEF CancelCommit, TypeOK
  <2>4. ASSUME NEW c \in Call, DecideCommit(c)
        PROVE  OnePendingPerUser'
    <3>1. call[c].verdict # "PENDING"
      BY DEF TypeOK, CallState, Verdicts
    <3>2. \A q \in Request : \/ request'[q] = request[q]
                            \/ request'[q].status = call[c].verdict
      BY <2>4 DEF DecideCommit, TypeOK
    <3>3. QED BY <3>1, <3>2, <2>1
  <2>5. CASE UNCHANGED request
    BY <2>5, <2>1
  <2>6. QED
    BY <2>2, <2>3, <2>4, <2>5, RowsChange
       DEF CreateRoom, DepartCommit, TransferCommit, DeleteCommit
<1>3. QED BY <1>1, <1>2, TypeCorrect, PTL DEF Spec

-----------------------------------------------------------------------------
\* What accepting, moving and freeing a call do to the calls.
LEMMA CallEffects ==
  ASSUME TypeOK, NEW c \in Call
  PROVE  /\ \A k : Accept(c, k) =>
              call'[c] = k /\ \A d \in Call : d # c => call'[d] = call[d]
         /\ Finish(c) =>
              call'[c] = IdleCall /\ \A d \in Call : d # c => call'[d] = call[d]
         /\ \A stage : Advance(c, stage) =>
              /\ call'[c].at = stage
              /\ call'[c].op = call[c].op /\ call'[c].room = call[c].room
              /\ call'[c].actor = call[c].actor /\ call'[c].subject = call[c].subject
              /\ call'[c].req = call[c].req
              /\ \A d \in Call : d # c => call'[d] = call[d]
         /\ DeleteReadMembers(c) =>
              /\ call'[c].at = "read" /\ call'[c].op = "delete"
              /\ call'[c].op = call[c].op /\ call'[c].room = call[c].room
              /\ call'[c].actor = call[c].actor /\ call'[c].subject = call[c].subject
              /\ call'[c].req = call[c].req
              /\ \A d \in Call : d # c => call'[d] = call[d]
<1>1. call \in [Call -> CallState] /\ call[c] \in CallState
  BY DEF TypeOK
<1>2. ASSUME NEW k, Accept(c, k)
      PROVE  call'[c] = k /\ \A d \in Call : d # c => call'[d] = call[d]
  BY <1>1, <1>2 DEF Accept
<1>3. ASSUME NEW stage, Advance(c, stage)
      PROVE  /\ call'[c].at = stage
             /\ call'[c].op = call[c].op /\ call'[c].room = call[c].room
             /\ call'[c].actor = call[c].actor /\ call'[c].subject = call[c].subject
             /\ call'[c].req = call[c].req
             /\ \A d \in Call : d # c => call'[d] = call[d]
  BY <1>1, <1>3 DEF Advance, CallState
<1>4. ASSUME DeleteReadMembers(c)
      PROVE  /\ call'[c].at = "read" /\ call'[c].op = "delete"
             /\ call'[c].op = call[c].op /\ call'[c].room = call[c].room
             /\ call'[c].actor = call[c].actor /\ call'[c].subject = call[c].subject
             /\ call'[c].req = call[c].req
             /\ \A d \in Call : d # c => call'[d] = call[d]
  BY <1>1, <1>4 DEF DeleteReadMembers, At, CallState
<1>5. Finish(c) => call'[c] = IdleCall /\ \A d \in Call : d # c => call'[d] = call[d]
  BY <1>1 DEF Finish
<1>6. QED BY <1>2, <1>3, <1>4, <1>5

\* What the fields of a call are when it arrives.
Arriving(k) ==
  /\ k.op # "none" /\ k.room \in Room /\ k.actor \in User
  /\ roomState[k.room] # "absent" \/ \E q \in Request : Pending(q, k.room, k.actor)
  /\ k.op \in {"remove", "leave", "transfer"} => k.subject \in User
  /\ k.op = "transfer" => k.subject # k.actor
  /\ k.op \in {"decide", "remove", "leave", "transfer", "delete"} => roomState[k.room] = "live"
  /\ k.op \in {"cancel", "decide"} =>
       k.req \in Request /\ request[k.req].status # "ABSENT"
  /\ k.op = "decide" => k.at = "checked"
  /\ k.op = "cancel" => Pending(k.req, k.room, k.actor)

LEMMA Arrivals ==
  ASSUME NEW c \in Call, Arrive(c)
  PROVE  \E k : Accept(c, k) /\ Arriving(k)
<1>1. PICK u \in User, r \in Room :
        \/ RequestJoin(c, u, r) \/ Leave(c, u, r) \/ DeleteRoom(c, u, r)
        \/ \E target \in User : RemoveMember(c, u, r, target)
        \/ \E target \in User : TransferOwnership(c, u, r, target)
        \/ \E q \in Request : CancelJoinRequest(c, u, r, q)
        \/ \E q \in Request, verdict \in Verdicts : DecideJoinRequest(c, u, r, q, verdict)
  BY DEF Arrive
<1>2. CASE RequestJoin(c, u, r)
  <2>1. Arriving(NewCall("join", "checked", r, u))
    BY <1>2 DEF RequestJoin, Arriving, NewCall
  <2>2. QED BY <2>1, <1>2 DEF RequestJoin
<1>3. CASE DeleteRoom(c, u, r)
  <2>1. Arriving(NewCall("delete", "checked", r, u))
    BY <1>3 DEF DeleteRoom, RequireOwner, IsMember, Arriving, NewCall
  <2>2. QED BY <2>1, <1>3 DEF DeleteRoom
<1>4. CASE Leave(c, u, r)
  <2>1. Arriving([NewCall("leave", "read", r, u) EXCEPT !.subject = u])
    BY <1>4 DEF Leave, IsMember, Arriving, NewCall
  <2>2. QED BY <2>1, <1>4 DEF Leave
<1>5. ASSUME NEW target \in User, RemoveMember(c, u, r, target)
      PROVE  \E k : Accept(c, k) /\ Arriving(k)
  <2>1. Arriving([NewCall("remove", "checked", r, u) EXCEPT !.subject = target])
    BY <1>5 DEF RemoveMember, RequireOwner, IsMember, Arriving, NewCall
  <2>2. QED BY <2>1, <1>5 DEF RemoveMember
<1>6. ASSUME NEW target \in User, TransferOwnership(c, u, r, target)
      PROVE  \E k : Accept(c, k) /\ Arriving(k)
  <2>1. Arriving([NewCall("transfer", "checked", r, u) EXCEPT !.subject = target])
    BY <1>6 DEF TransferOwnership, RequireOwner, IsMember, Arriving, NewCall
  <2>2. QED BY <2>1, <1>6 DEF TransferOwnership
<1>7. ASSUME NEW q \in Request, CancelJoinRequest(c, u, r, q)
      PROVE  \E k : Accept(c, k) /\ Arriving(k)
  <2>1. Arriving([NewCall("cancel", "read", r, u) EXCEPT !.req = q])
    BY <1>7 DEF CancelJoinRequest, Pending, Arriving, NewCall
  <2>2. QED BY <2>1, <1>7 DEF CancelJoinRequest
<1>8. ASSUME NEW q \in Request, NEW verdict \in Verdicts,
             DecideJoinRequest(c, u, r, q, verdict)
      PROVE  \E k : Accept(c, k) /\ Arriving(k)
  <2>1. Arriving([NewCall("decide", "checked", r, u) EXCEPT !.req = q, !.verdict = verdict])
    BY <1>8 DEF DecideJoinRequest, RequireOwner, IsMember, Arriving, NewCall
  <2>2. QED BY <2>1, <1>8 DEF DecideJoinRequest
<1>9. QED BY <1>1, <1>2, <1>3, <1>4, <1>5, <1>6, <1>7, <1>8

\* A handler step frees its call or moves it on.
LEMMA Moves ==
  ASSUME NEW c \in Call, Handle(c)
  PROVE  \/ Finish(c)
         \/ DecideFindPending(c) /\ Advance(c, "read")
         \/ (RemoveFindTarget(c) \/ TransferFindTarget(c)) /\ Advance(c, "read")
         \/ DeleteReadMembers(c)
         \/ \E stage : Advance(c, stage) /\ stage # "read" /\ stage # "checked"
BY DEF Handle, JoinCheckMember, JoinFindPending, JoinCreate, JoinCreateConflict,
       JoinAnnounce, CancelCommit, DecideFindPending, DecideCommit, RemoveFindTarget,
       DepartCommit, DepartAbort, TransferFindTarget, TransferCommit, TransferAbort,
       DeleteReadMembers, DeleteCommit, CleanPresence, TakeSnapshot, FollowUpFails,
       AnswerError, Announce

\* A step touches one call.
LEMMA OneCallMoves ==
  ASSUME TypeOK, [Next]_vars
  PROVE  \/ call' = call
         \/ \E c \in Call : /\ Arrive(c) \/ Handle(c) \/ Crash(c)
                           /\ \A d \in Call : d # c => call'[d] = call[d]
<1>1. ASSUME NEW c \in Call, Arrive(c)
      PROVE  \A d \in Call : d # c => call'[d] = call[d]
  BY <1>1, Arrivals, CallEffects
<1>2. ASSUME NEW c \in Call, Handle(c)
      PROVE  \A d \in Call : d # c => call'[d] = call[d]
  BY <1>2, Moves, CallEffects
<1>3. ASSUME NEW c \in Call, Crash(c)
      PROVE  \A d \in Call : d # c => call'[d] = call[d]
  BY <1>3, CallEffects DEF Crash
<1>4. QED BY <1>1, <1>2, <1>3 DEF Next, CreateRoom, vars

\* Rooms are never created twice and requests never return to ABSENT.
LEMMA RowsStay ==
  ASSUME TypeOK, CallsAgreeWithRows, [Next]_vars
  PROVE  /\ \A r \in Room : roomState[r] # "absent" => roomState'[r] # "absent"
         /\ \A q \in Request : request[q].status # "ABSENT" =>
              /\ request'[q].status # "ABSENT"
              /\ request'[q].room = request[q].room
              /\ request'[q].user = request[q].user
<1>1. \A c \in Call : call[c].verdict # "ABSENT"
  BY DEF TypeOK, CallState, Verdicts
<1>2. ASSUME NEW c \in Call, NEW q \in Request, JoinCreate(c, q)
      PROVE  /\ \A r \in Room : roomState'[r] = roomState[r]
             /\ \A p \in Request : request[p].status # "ABSENT" => request'[p] = request[p]
  BY <1>2 DEF JoinCreate, TypeOK
<1>3. ASSUME NEW c \in Call, CancelCommit(c) \/ DecideCommit(c)
      PROVE  /\ \A r \in Room : roomState'[r] = roomState[r]
             /\ \A p \in Request : /\ request'[p].status # "ABSENT" \/ request'[p] = request[p]
                                  /\ request'[p].room = request[p].room
                                  /\ request'[p].user = request[p].user
  BY <1>1, <1>3 DEF CancelCommit, DecideCommit, TypeOK
<1>4. ASSUME NEW c \in Call, DepartCommit(c) \/ TransferCommit(c) \/ DeleteCommit(c)
      PROVE  /\ \A r \in Room : roomState[r] # "absent" => roomState'[r] # "absent"
             /\ request' = request
  BY <1>4 DEF DepartCommit, TransferCommit, DeleteCommit, TypeOK
<1>5. ASSUME NEW u \in User, NEW r \in Room, CreateRoom(u, r)
      PROVE  /\ \A s \in Room : roomState[s] # "absent" => roomState'[s] # "absent"
             /\ request' = request
  BY <1>5 DEF CreateRoom, TypeOK
<1>6. QED BY <1>2, <1>3, <1>4, <1>5, RowsChange

\* What calls and requests refer to exists, and an owner decides requests of
\* the room that owner was checked in.
THEOREM CallsAgree == Spec => []CallsAgreeWithRows
<1> DEFINE ReqOK(q) ==
             request[q].status # "ABSENT" =>
               /\ request[q].room \in Room /\ roomState[request[q].room] # "absent"
               /\ request[q].user \in User
           CallOK(c) ==
             InFlight(c) =>
               /\ call[c].room \in Room /\ roomState[call[c].room] # "absent"
               /\ call[c].actor \in User
               /\ call[c].op \in {"remove", "leave", "transfer"} => call[c].subject \in User
               /\ call[c].op = "transfer" => call[c].subject # call[c].actor
               /\ call[c].op \in {"cancel", "decide"} =>
                    /\ call[c].req \in Request
                    /\ request[call[c].req].status # "ABSENT"
                    /\ call[c].at = "read" => request[call[c].req].room = call[c].room
<1>1. Init => CallsAgreeWithRows
  BY DEF Init, CallsAgreeWithRows, NoRequest, InFlight, IdleCall
<1>2. ASSUME TypeOK, CallsAgreeWithRows, [Next]_vars
      PROVE  CallsAgreeWithRows'
  <2> USE <1>2
  <2>1. (\A q \in Request : ReqOK(q)) /\ (\A c \in Call : CallOK(c))
    BY DEF CallsAgreeWithRows
  <2>2. ASSUME NEW q \in Request
        PROVE  ReqOK(q)'
    <3>1. CASE request[q].status # "ABSENT"
      BY <2>1, <3>1, RowsStay
    <3>2. CASE request'[q] = request[q]
      BY <2>1, <3>2, RowsStay
    <3>3. CASE request[q].status = "ABSENT" /\ request'[q] # request[q]
      <4>1. PICK c \in Call : JoinCreate(c, q)
        <5>1. ASSUME NEW c \in Call, CancelCommit(c) \/ DecideCommit(c)
              PROVE  call[c].req # q
          BY <2>1, <3>3, <5>1 DEF CancelCommit, DecideCommit, At, InFlight
        <5>2. QED
          BY <3>3, <5>1, RowsChange
             DEF CreateRoom, JoinCreate, CancelCommit, DecideCommit, DepartCommit,
                 TransferCommit, DeleteCommit, TypeOK
      <4>2. CallOK(c) /\ InFlight(c)
        BY <2>1, <4>1 DEF JoinCreate, At, InFlight
      <4>3. request'[q].room = call[c].room /\ request'[q].user = call[c].actor
        BY <4>1 DEF JoinCreate, TypeOK
      <4>4. QED BY <4>2, <4>3, RowsStay
    <3>4. QED BY <3>1, <3>2, <3>3
  <2>3. ASSUME NEW d \in Call
        PROVE  CallOK(d)'
    <3>1. CASE call'[d] = call[d]
      BY <2>1, <3>1, RowsStay DEF InFlight
    <3>2. CASE call'[d] = IdleCall
      BY <3>2 DEF InFlight, IdleCall
    <3>3. CASE Arrive(d)
      <4>1. PICK k : Accept(d, k) /\ Arriving(k)
        BY <3>3, Arrivals
      <4>2. call'[d] = k
        BY <4>1, CallEffects
      <4>3. roomState'[k.room] # "absent"
        BY <2>1, <4>1, RowsStay DEF Arriving, Pending
      <4>4. QED BY <4>1, <4>2, <4>3, RowsStay DEF Arriving, Pending
    <3>4. CASE Handle(d) /\ call'[d] # IdleCall
      <4>1. /\ call'[d].op = call[d].op /\ call'[d].room = call[d].room
            /\ call'[d].actor = call[d].actor /\ call'[d].subject = call[d].subject
            /\ call'[d].req = call[d].req
        BY <3>4, Moves, CallEffects
      <4>2. call[d].op \in {"cancel", "decide"} /\ call'[d].at = "read"
              => request[call[d].req].room = call[d].room
        <5>1. CASE DecideFindPending(d) /\ Advance(d, "read")
          BY <3>4, <5>1, CallEffects DEF DecideFindPending
        <5>2. CASE ~(DecideFindPending(d) /\ Advance(d, "read"))
          BY <3>4, <5>2, Moves, CallEffects DEF RemoveFindTarget, TransferFindTarget, At
        <5>3. QED BY <5>1, <5>2
      <4>3. QED BY <2>1, <4>1, <4>2, RowsStay DEF InFlight
    <3>5. QED
      BY <3>1, <3>2, <3>3, <3>4, OneCallMoves DEF Crash, Finish, TypeOK
  <2>4. QED BY <2>2, <2>3 DEF CallsAgreeWithRows
<1>3. QED BY <1>1, <1>2, TypeCorrect, PTL DEF Spec

-----------------------------------------------------------------------------
\* Nobody enters an existing room except by the step that approves a request.
THEOREM AdmissionNeedsApproval == Spec => AdmittedByApproval
<1>1. ASSUME TypeOK, CallsAgreeWithRows, [Next]_vars,
             NEW r \in Room, NEW u \in User,
             roomState[r] # "absent", role[r][u] = "NONE", role'[r][u] # "NONE"
      PROVE  \E q \in Request : /\ request[q].room = r /\ request[q].user = u
                               /\ request'[q].status = "APPROVED"
  <2> USE <1>1
  <2>1. ASSUME NEW c \in Call, DecideCommit(c)
        PROVE  \E q \in Request : /\ request[q].room = r /\ request[q].user = u
                                 /\ request'[q].status = "APPROVED"
    <3> DEFINE q == call[c].req
    <3>1. call[c].verdict = "APPROVED" /\ call[c].room = r
      BY <2>1 DEF DecideCommit, CommitRoom, TypeOK
    <3>2. q \in Request /\ request[q].room = r
      BY <2>1, <3>1 DEF DecideCommit, At, InFlight, CallsAgreeWithRows
    <3>3. role'[r] = Admit(role[r], request[q].user)
      BY <2>1, <3>1 DEF DecideCommit, CommitRoom, TypeOK
    <3>4. request[q].user = u
      BY <3>3 DEF Admit, TypeOK
    <3>5. request'[q].status = "APPROVED"
      BY <2>1, <3>1, <3>2 DEF DecideCommit, TypeOK
    <3>6. QED BY <3>2, <3>4, <3>5
  <2>2. ASSUME NEW c \in Call, DepartCommit(c)
        PROVE  FALSE
    BY <2>2 DEF DepartCommit, CommitRoom, WithoutMember, TypeOK
  <2>3. ASSUME NEW c \in Call, TransferCommit(c)
        PROVE  FALSE
    BY <2>3 DEF TransferCommit, CommitRoom, HandOver, BothMembers, TypeOK
  <2>4. ASSUME NEW c \in Call, DeleteCommit(c)
        PROVE  FALSE
    BY <2>4 DEF DeleteCommit, CommitRoom, TypeOK
  <2>5. ASSUME NEW v \in User, NEW s \in Room, CreateRoom(v, s)
        PROVE  FALSE
    BY <2>5 DEF CreateRoom, TypeOK
  <2>6. QED
    BY <2>1, <2>2, <2>3, <2>4, <2>5, RowsChange DEF CancelCommit, JoinCreate
<1>2. TypeOK /\ CallsAgreeWithRows /\ [Next]_vars =>
        [\A r \in Room, u \in User :
           /\ roomState[r] # "absent"
           /\ role[r][u] = "NONE" /\ role'[r][u] # "NONE"
           => \E q \in Request :
                /\ request[q].room = r /\ request[q].user = u
                /\ request'[q].status = "APPROVED"]_vars
  BY <1>1
<1>3. QED BY <1>2, TypeCorrect, CallsAgree, PTL DEF Spec, AdmittedByApproval

\* A call gets hold of a request only while the request is pending.
LEMMA HeldWhilePending ==
  ASSUME TypeOK, [Next]_vars, NEW d \in Call, NEW q \in Request,
         HoldsRequest(d, q)', ~HoldsRequest(d, q)
  PROVE  request[q].status = "PENDING"
<1>1. call'[d] # call[d] /\ call'[d].req = q /\ call'[d].at = "read"
      /\ call'[d].op \in {"cancel", "decide"}
  BY DEF HoldsRequest, At
<1>2. Arrive(d) \/ Handle(d) \/ Crash(d)
  BY <1>1, OneCallMoves
<1>3. CASE Arrive(d)
  <2>1. PICK k : Accept(d, k) /\ Arriving(k)
    BY <1>3, Arrivals
  <2>2. call'[d] = k
    BY <2>1, CallEffects
  <2>3. QED BY <1>1, <2>1, <2>2 DEF Arriving, Pending
<1>4. CASE Crash(d)
  BY <1>1, <1>4, CallEffects DEF Crash, IdleCall
<1>5. CASE Handle(d)
  <2>1. DecideFindPending(d) /\ Advance(d, "read")
    BY <1>1, <1>5, Moves, CallEffects
       DEF RemoveFindTarget, TransferFindTarget, At, IdleCall
  <2>2. request[call[d].req].status = "PENDING"
    <3>1. call'[d] # IdleCall
      BY <1>1 DEF IdleCall
    <3>2. QED BY <2>1, <3>1, CallEffects DEF DecideFindPending
  <2>3. QED BY <1>1, <2>1, <2>2, CallEffects
<1>6. QED BY <1>2, <1>3, <1>4, <1>5

\* A decision is final once every call that found the request pending is gone.
THEOREM RequestsSettle == Spec => RequestSettles
<1>1. ASSUME TypeOK, [Next]_vars, NEW q \in Request,
             request[q].status \in Decided, \A c \in Call : ~HoldsRequest(c, q)
      PROVE  request'[q] = request[q] /\ (\A c \in Call : ~HoldsRequest(c, q))'
  <2> USE <1>1
  <2>1. request[q].status # "PENDING" /\ request[q].status # "ABSENT"
    BY DEF Decided, Statuses
  <2>2. \A c \in Call : CancelCommit(c) \/ DecideCommit(c) => call[c].req # q
    BY DEF CancelCommit, DecideCommit, HoldsRequest
  <2>3. \A c \in Call : CancelCommit(c) \/ DecideCommit(c) => request'[q] = request[q]
    BY <2>2 DEF CancelCommit, DecideCommit, TypeOK
  <2>4. \A c \in Call, p \in Request : JoinCreate(c, p) => request'[q] = request[q]
    BY <2>1 DEF JoinCreate, TypeOK
  <2>5. request'[q] = request[q]
    BY <2>3, <2>4, RowsChange DEF CreateRoom, DepartCommit, TransferCommit, DeleteCommit
  <2>6. QED BY <2>1, <2>5, HeldWhilePending
<1>2. TypeOK /\ [Next]_vars =>
        [\A q \in Request :
           (request[q].status \in Decided /\ \A c \in Call : ~HoldsRequest(c, q))
           => /\ request'[q] = request[q]
              /\ \A c \in Call : ~HoldsRequest(c, q)']_vars
  BY <1>1
<1>3. QED BY <1>2, TypeCorrect, PTL DEF Spec, RequestSettles

-----------------------------------------------------------------------------
\* Once the calls that passed their check before the deletion are gone, a
\* deleted room is frozen for good.
THEOREM ClosedRoomsQuiesce == Spec => ClosedRoomQuiesces
<1>1. ASSUME TypeOK, [Next]_vars, NEW r \in Room,
             roomState[r] = "deleted", \A c \in Call : ~Holds(c, r)
      PROVE  /\ role'[r] = role[r] /\ version'[r] = version[r]
             /\ \A c \in Call : ~Holds(c, r)'
  <2> USE <1>1
  <2>1. ASSUME NEW c \in Call,
               DecideCommit(c) \/ DepartCommit(c) \/ TransferCommit(c) \/ DeleteCommit(c)
        PROVE  role'[r] = role[r] /\ version'[r] = version[r]
    <3>1. call[c].room # r
      BY <2>1 DEF DecideCommit, DepartCommit, Departing, TransferCommit, DeleteCommit, At, Holds
    <3>2. QED
      BY <2>1, <3>1 DEF DecideCommit, DepartCommit, TransferCommit, DeleteCommit,
                        CommitRoom, TypeOK
  <2>2. ASSUME NEW u \in User, NEW s \in Room, CreateRoom(u, s)
        PROVE  role'[r] = role[r] /\ version'[r] = version[r]
    BY <2>2 DEF CreateRoom, TypeOK
  <2>3. role'[r] = role[r] /\ version'[r] = version[r]
    BY <2>1, <2>2, RowsChange DEF JoinCreate, CancelCommit
  <2>4. ASSUME NEW d \in Call, Holds(d, r)'
        PROVE  FALSE
    <3>1. /\ call'[d] # call[d] /\ call'[d] # IdleCall /\ call'[d].room = r
          /\ call'[d].op \in {"decide", "remove", "leave", "transfer", "delete"}
          /\ call'[d].at \in {"checked", "read"}
      BY <2>4 DEF Holds, IdleCall
    <3>2. CASE Arrive(d)
      <4>1. PICK k : Accept(d, k) /\ Arriving(k)
        BY <3>2, Arrivals
      <4>2. call'[d] = k
        BY <4>1, CallEffects
      <4>3. QED BY <3>1, <4>1, <4>2 DEF Arriving
    <3>3. CASE Handle(d)
      <4>1. \/ DecideFindPending(d) \/ RemoveFindTarget(d) \/ TransferFindTarget(d)
            \/ DeleteReadMembers(d)
        BY <3>1, <3>3, Moves, CallEffects
      <4>2. call[d].at = "checked" /\ call[d].op \in {"decide", "remove", "transfer", "delete"}
        BY <4>1 DEF DecideFindPending, RemoveFindTarget, TransferFindTarget,
                    DeleteReadMembers, At
      <4>3. call[d].room = r
        BY <3>1, <3>3, Moves, CallEffects
      <4>4. QED BY <4>2, <4>3 DEF Holds
    <3>4. CASE Crash(d)
      BY <3>1, <3>4, CallEffects DEF Crash
    <3>5. QED BY <3>1, <3>2, <3>3, <3>4, OneCallMoves
  <2>5. QED BY <2>3, <2>4
<1>2. TypeOK /\ [Next]_vars =>
        [\A r \in Room :
           (roomState[r] = "deleted" /\ \A c \in Call : ~Holds(c, r))
           => /\ role'[r] = role[r] /\ version'[r] = version[r]
              /\ \A c \in Call : ~Holds(c, r)']_vars
  BY <1>1
<1>3. QED BY <1>2, TypeCorrect, PTL DEF Spec, ClosedRoomQuiesces

-----------------------------------------------------------------------------
\* The handlers implement the atomic rooms: a commit maps to one operation of
\* RoomAggregate and every other step to a stutter.  That the stale checks do
\* no harm is where ExactlyOneOwner is needed: a departure that would take the
\* owner and a transfer by somebody who no longer is the owner cannot commit.
LEMMA CommitSteps ==
  ASSUME TypeOK, NEW r \in Room, roomState[r] # "absent", NEW rows, CommitRoom(r, rows)
  PROVE  Aggregate!Step(r, rows)
BY DEF CommitRoom, Aggregate!Step, Aggregate!Exists

LEMMA DecideImplements ==
  ASSUME TypeOK, CallsAgreeWithRows, NEW c \in Call, DecideCommit(c)
  PROVE  Aggregate!Next \/ UNCHANGED <<roomState, version, role>>
<1> DEFINE r == call[c].room
           u == request[call[c].req].user
<1>1. CASE call[c].verdict = "APPROVED"
  <2>1. r \in Room /\ roomState[r] # "absent" /\ u \in User
    BY DEF DecideCommit, At, InFlight, CallsAgreeWithRows
  <2>2. Aggregate!Step(r, Admit(role[r], u)) /\ UNCHANGED roomState
    BY <1>1, <2>1, CommitSteps DEF DecideCommit
  <2>3. CASE role[r][u] = "NONE"
    <3>1. Admit(role[r], u) = [role[r] EXCEPT ![u] = "MEMBER"]
      BY <2>1, <2>3 DEF Admit, TypeOK
    <3>2. Aggregate!Admit(r, u)
      BY <2>2, <2>3, <3>1 DEF Aggregate!Admit
    <3>3. QED BY <2>1, <3>2 DEF Aggregate!Next
  <2>4. CASE role[r][u] # "NONE"
    <3>1. Admit(role[r], u) = role[r]
      BY <2>1, <2>4 DEF Admit, TypeOK
    <3>2. Aggregate!Repeat(r)
      BY <2>2, <3>1 DEF Aggregate!Repeat
    <3>3. QED BY <2>1, <3>2 DEF Aggregate!Next
  <2>5. QED BY <2>3, <2>4
<1>2. CASE call[c].verdict # "APPROVED"
  BY <1>2 DEF DecideCommit
<1>3. QED BY <1>1, <1>2

LEMMA DepartImplements ==
  ASSUME TypeOK, CallsAgreeWithRows, ExactlyOneOwner, NEW c \in Call, DepartCommit(c)
  PROVE  Aggregate!Next
<1> DEFINE r == call[c].room
           u == call[c].subject
<1>1. r \in Room /\ roomState[r] # "absent" /\ u \in User
  BY DEF DepartCommit, Departing, At, InFlight, CallsAgreeWithRows
<1>2. Aggregate!Step(r, WithoutMember(role[r], u)) /\ UNCHANGED roomState
  BY <1>1, CommitSteps DEF DepartCommit
<1>3. AssertExactlyOneOwner(WithoutMember(role[r], u)) /\ role[r][u] # "NONE"
  BY DEF DepartCommit, CommitRoom, CanCommit
<1>4. PICK o \in User : \A v \in User : role[r][v] = "OWNER" <=> v = o
  BY <1>1 DEF ExactlyOneOwner
<1>5. u # o
  BY <1>1, <1>3, <1>4 DEF AssertExactlyOneOwner, WithoutMember, TypeOK
<1>6. role[r][u] = "MEMBER"
  BY <1>1, <1>3, <1>4, <1>5 DEF TypeOK, Roles
<1>7. Aggregate!Depart(r, u)
  BY <1>2, <1>6 DEF Aggregate!Depart, WithoutMember
<1>8. QED BY <1>1, <1>7 DEF Aggregate!Next

LEMMA TransferImplements ==
  ASSUME TypeOK, CallsAgreeWithRows, ExactlyOneOwner, NEW c \in Call, TransferCommit(c)
  PROVE  Aggregate!Next
<1> DEFINE r == call[c].room
           from == call[c].actor
           to == call[c].subject
           rows == HandOver(role[r], from, to)
<1>1. r \in Room /\ roomState[r] # "absent" /\ from \in User /\ to \in User /\ to # from
  BY DEF TransferCommit, At, InFlight, CallsAgreeWithRows
<1>2. Aggregate!Step(r, rows) /\ UNCHANGED roomState
  BY <1>1, CommitSteps DEF TransferCommit
<1>3. AssertExactlyOneOwner(rows) /\ role[r][from] # "NONE" /\ role[r][to] # "NONE"
  BY DEF TransferCommit, CommitRoom, CanCommit, BothMembers
<1>4. PICK o \in User : \A v \in User : role[r][v] = "OWNER" <=> v = o
  BY <1>1 DEF ExactlyOneOwner
<1>5. /\ rows \in [User -> Roles] /\ rows[from] = "MEMBER" /\ rows[to] = "OWNER"
      /\ \A v \in User : v # from /\ v # to => rows[v] = role[r][v]
  BY <1>1 DEF HandOver, TypeOK, Roles
<1>6. ASSUME o # from, o # to
      PROVE  FALSE
  <2>1. rows[o] = "OWNER"
    BY <1>4, <1>5, <1>6
  <2>2. QED BY <1>1, <1>3, <1>5, <1>6, <2>1 DEF AssertExactlyOneOwner
<1>7. CASE o = from
  <2>1. role[r][from] = "OWNER" /\ role[r][to] = "MEMBER"
    BY <1>1, <1>3, <1>4, <1>7 DEF TypeOK, Roles
  <2>2. Aggregate!HandOver(r, from, to)
    BY <1>2, <2>1 DEF Aggregate!HandOver, HandOver
  <2>3. QED BY <1>1, <2>2 DEF Aggregate!Next
<1>8. CASE o = to
  <2>1. role[r][from] = "MEMBER" /\ role[r][to] = "OWNER"
    BY <1>1, <1>3, <1>4, <1>8 DEF TypeOK, Roles
  <2>2. rows = role[r]
    <3>1. role[r] \in [User -> Roles] /\ \A v \in User : rows[v] = role[r][v]
      BY <1>1, <1>5, <2>1 DEF TypeOK
    <3>2. QED BY <3>1, <1>5
  <2>3. Aggregate!Repeat(r)
    BY <1>2, <2>2 DEF Aggregate!Repeat
  <2>4. QED BY <1>1, <2>3 DEF Aggregate!Next
<1>9. QED BY <1>6, <1>7, <1>8

LEMMA DeleteImplements ==
  ASSUME TypeOK, CallsAgreeWithRows, NEW c \in Call, DeleteCommit(c)
  PROVE  Aggregate!Next
<1> DEFINE r == call[c].room
<1>1. r \in Room /\ roomState[r] # "absent"
  BY DEF DeleteCommit, At, InFlight, CallsAgreeWithRows
<1>2. Aggregate!Close(r)
  BY <1>1, CommitSteps DEF DeleteCommit, Aggregate!Close
<1>3. QED BY <1>1, <1>2 DEF Aggregate!Next

THEOREM RoomsImplementAggregate == Spec => ImplementsAggregate
<1>1. Init => Aggregate!Init
  BY DEF Init, Aggregate!Init
<1>2. ASSUME TypeOK, CallsAgreeWithRows, ExactlyOneOwner, [Next]_vars
      PROVE  [Aggregate!Next]_(Aggregate!vars)
  <2> USE <1>2
  <2>1. ASSUME NEW u \in User, NEW r \in Room, CreateRoom(u, r)
        PROVE  Aggregate!Next
    <3>1. Aggregate!Open(r, u)
      BY <2>1 DEF CreateRoom, Aggregate!Open, Aggregate!Exists
    <3>2. QED BY <3>1 DEF Aggregate!Next
  <2>2. ASSUME NEW c \in Call, CancelCommit(c) \/ \E q \in Request : JoinCreate(c, q)
        PROVE  UNCHANGED <<roomState, version, role>>
    BY <2>2 DEF CancelCommit, JoinCreate
  <2>3. QED
    BY <2>1, <2>2, RowsChange, DecideImplements, DepartImplements, TransferImplements,
       DeleteImplements DEF Aggregate!vars
<1>3. QED
  BY <1>1, <1>2, TypeCorrect, CallsAgree, OneOwner, PTL
     DEF Spec, ImplementsAggregate, Aggregate!Spec

-----------------------------------------------------------------------------
(***************************************************************************)
(* Listings: sequences, the filter and the page.                           *)
(***************************************************************************)

\* What 0 has and every number of 1 .. n has once its predecessor has it, all
\* numbers of 0 .. n have.
LEMMA Counting ==
  ASSUME NEW n \in Nat, NEW S, 0 \in S,
         \A i \in 1 .. n : i - 1 \in S => i \in S
  PROVE  0 .. n \subseteq S
<1> DEFINE T == (0 .. n) \ S
           R == OpToRel(<, Nat)
<1> SUFFICES ASSUME T # {} PROVE FALSE
  OBVIOUS
<1>1. IsWellFoundedOn(R, Nat)
  BY NatLessThanWellFounded, Zenon
<1>2. T \subseteq Nat
  OBVIOUS
<1>3. PICK x \in T : \A y \in T : ~(<<y, x>> \in R)
  <2> HIDE DEF T, R
  <2>1. QED BY <1>1, <1>2, WFMin
<1>4. x \in 1 .. n /\ x - 1 \in T
  OBVIOUS
<1>5. <<x - 1, x>> \in R
  BY <1>4 DEF OpToRel
<1>6. QED BY <1>3, <1>4, <1>5

\* f holds the shown rows among the first n of s, in their order; h are their
\* positions.
Picks(f, h, s, n) ==
  /\ f \in Seq(Row) /\ h \in Seq(Nat) /\ Len(f) = Len(h)
  /\ \A j \in 1 .. Len(h) : h[j] \in 1 .. n /\ f[j] = s[h[j]] /\ f[j] \in shown
  /\ \A i, j \in 1 .. Len(h) : i < j => h[i] < h[j]
  /\ \A i \in 1 .. n : s[i] \in shown => \E j \in 1 .. Len(h) : h[j] = i

LEMMA PickOne ==
  ASSUME NEW s, NEW i \in Nat, i # 0, NEW f, NEW h, Picks(f, h, s, i - 1),
         s[i] \in Row
  PROVE  /\ s[i] \in shown => Picks(Append(f, s[i]), Append(h, i), s, i)
         /\ s[i] \notin shown => Picks(f, h, s, i)
<1> DEFINE m == Len(h)
           g == Append(h, i)
           e == Append(f, s[i])
<1>1. /\ f \in Seq(Row) /\ h \in Seq(Nat) /\ Len(f) = m /\ m \in Nat
      /\ \A j \in 1 .. m : /\ h[j] \in Nat /\ h[j] <= i - 1 /\ h[j] >= 1
                           /\ f[j] = s[h[j]] /\ f[j] \in shown
      /\ \A k, j \in 1 .. m : k < j => h[k] < h[j]
      /\ \A k \in 1 .. i - 1 : s[k] \in shown => \E j \in 1 .. m : h[j] = k
  BY DEF Picks
<1>2. ASSUME s[i] \in shown
      PROVE  Picks(e, g, s, i)
  <2>1. /\ e \in Seq(Row) /\ g \in Seq(Nat) /\ Len(e) = m + 1 /\ Len(g) = m + 1
        /\ \A j \in 1 .. m : g[j] = h[j] /\ e[j] = f[j]
        /\ g[m + 1] = i /\ e[m + 1] = s[i]
    BY <1>1
  <2> HIDE DEF g, e, m
  <2>2. \A j \in 1 .. m + 1 : j \in 1 .. m \/ j = m + 1
    BY <1>1
  <2>3. \A j \in 1 .. m + 1 : g[j] \in 1 .. i /\ e[j] = s[g[j]] /\ e[j] \in shown
    <3>1. ASSUME NEW j \in 1 .. m
          PROVE  g[j] \in 1 .. i /\ e[j] = s[g[j]] /\ e[j] \in shown
      <4>1. g[j] = h[j] /\ e[j] = f[j] BY <2>1
      <4>2. h[j] \in 1 .. i BY <1>1
      <4>3. QED BY <1>1, <4>1, <4>2
    <3>2. g[m + 1] \in 1 .. i /\ e[m + 1] = s[g[m + 1]] /\ e[m + 1] \in shown
      BY <1>2, <2>1
    <3>3. QED BY <2>2, <3>1, <3>2
  <2>4. ASSUME NEW k \in 1 .. m + 1, NEW j \in 1 .. m + 1, k < j
        PROVE  g[k] < g[j]
    <3>1. k \in 1 .. m BY <1>1, <2>4
    <3>2. CASE j = m + 1
      <4>1. g[j] = i /\ g[k] = h[k] BY <2>1, <3>1, <3>2
      <4>2. h[k] \in Nat /\ h[k] <= i - 1 BY <1>1, <3>1
      <4>3. QED BY <4>1, <4>2
    <3>3. CASE j \in 1 .. m BY <1>1, <2>1, <2>4, <3>1, <3>3
    <3>4. QED BY <2>2, <3>2, <3>3
  <2>5. ASSUME NEW k \in 1 .. i, s[k] \in shown
        PROVE  \E j \in 1 .. m + 1 : g[j] = k
    <3>1. CASE k = i BY <1>1, <2>1, <3>1
    <3>2. CASE k \in 1 .. i - 1
      <4>1. PICK j \in 1 .. m : h[j] = k BY <1>1, <2>5, <3>2
      <4>2. j \in 1 .. m + 1 BY <1>1
      <4>3. QED BY <2>1, <4>1, <4>2
    <3>3. QED BY <3>1, <3>2
  <2>6. QED BY <2>1, <2>3, <2>4, <2>5 DEF Picks
<1>3. ASSUME s[i] \notin shown
      PROVE  Picks(f, h, s, i)
  <2>1. \A k \in 1 .. i : k = i \/ k \in 1 .. i - 1
    OBVIOUS
  <2> HIDE DEF m
  <2>2. \A k \in 1 .. i : s[k] \in shown => \E j \in 1 .. m : h[j] = k
    BY <1>1, <1>3, <2>1
  <2>3. \A j \in 1 .. m : h[j] \in 1 .. i
    BY <1>1
  <2> USE DEF m
  <2>4. QED BY <1>1, <2>2, <2>3 DEF Picks
<1>4. QED BY <1>2, <1>3

\* What the filter has let through of the first rows of s, one row after the
\* other.
Filters(g, s, n) ==
  /\ g = [i \in 0 .. n |-> g[i]]
  /\ g[0] = <<>>
  /\ \A i \in 1 .. n :
       g[i] = IF s[i] \in shown THEN Append(g[i - 1], s[i]) ELSE g[i - 1]

LEMMA FilterExists ==
  ASSUME NEW n \in Nat, NEW s
  PROVE  \E g : Filters(g, s, n)
<1> DEFINE S == {k \in Nat : \E g : Filters(g, s, k)}
<1>1. 0 \in S
  <2>1. Filters([i \in 0 .. 0 |-> <<>>], s, 0)
    BY DEF Filters
  <2>2. QED BY <2>1
<1>2. ASSUME NEW i \in 1 .. n, i - 1 \in S
      PROVE  i \in S
  <2>1. PICK g : Filters(g, s, i - 1)
    BY <1>2
  <2> DEFINE Next2(f, k) == IF s[k] \in shown THEN Append(f, s[k]) ELSE f
             new == Next2(g[i - 1], i)
             h == [k \in 0 .. i |-> IF k = i THEN new ELSE g[k]]
  <2>2. h[0] = <<>>
    BY <2>1 DEF Filters
  <2>3. ASSUME NEW k \in 1 .. i
        PROVE  h[k] = Next2(h[k - 1], k)
    <3>1. CASE k = i
      <4> HIDE DEF new, Next2
      <4>1. h[k] = new /\ h[k - 1] = g[i - 1] BY <3>1
      <4>2. QED BY <3>1, <4>1 DEF new
    <3>2. CASE k # i
      <4>1. k \in 1 .. i - 1 BY <3>2
      <4> HIDE DEF new
      <4>2. h[k] = g[k] /\ h[k - 1] = g[k - 1] BY <4>1
      <4>3. QED BY <2>1, <4>1, <4>2 DEF Filters
    <3>3. QED BY <3>1, <3>2
  <2>4. Filters(h, s, i)
    BY <2>2, <2>3 DEF Filters
  <2>5. QED BY <2>4
<1> HIDE DEF S
<1>3. 0 .. n \subseteq S
  BY <1>1, <1>2, Counting
<1>4. QED BY <1>3 DEF S

\* Passing takes the rows of s that are shown, in their order.
LEMMA PassingPicks ==
  ASSUME NEW s \in Seq(Row)
  PROVE  \E h : Picks(Passing(s), h, s, Len(s))
<1> DEFINE n == Len(s)
           Step(f) == [i \in 0 .. n |->
             IF i = 0 THEN <<>>
             ELSE IF s[i] \in shown THEN Append(f[i - 1], s[i]) ELSE f[i - 1]]
           g == CHOOSE f : f = Step(f)
<1>1. n \in Nat /\ \A i \in 1 .. n : s[i] \in Row
  OBVIOUS
<1>2. Filters(g, s, n)
  <2>1. PICK f : Filters(f, s, n)
    BY <1>1, FilterExists
  <2>2. f = Step(f)
    <3>1. f = [i \in 0 .. n |-> f[i]]
      BY <2>1 DEF Filters
    <3>2. ASSUME NEW i \in 0 .. n
          PROVE  f[i] = IF i = 0 THEN <<>>
                        ELSE IF s[i] \in shown THEN Append(f[i - 1], s[i])
                        ELSE f[i - 1]
      <4>1. CASE i = 0 BY <2>1, <4>1 DEF Filters
      <4>2. CASE i \in 1 .. n
        <5>1. i # 0 BY <4>2
        <5>2. QED BY <2>1, <4>2, <5>1 DEF Filters
      <4>3. QED BY <1>1, <4>1, <4>2
    <3>3. QED BY <3>1, <3>2, Zenon
  <2>3. g = Step(g)
    <3> HIDE DEF Step
    <3>1. QED BY <2>2
  <2>4. QED
    <3> HIDE DEF g
    <3>1. g = [i \in 0 .. n |-> g[i]] BY <2>3
    <3>2. g[0] = <<>> BY <1>1, <2>3
    <3>3. ASSUME NEW i \in 1 .. n
          PROVE  g[i] = IF s[i] \in shown THEN Append(g[i - 1], s[i]) ELSE g[i - 1]
      <4>1. i \in 0 .. n /\ i # 0 BY <1>1
      <4>2. QED BY <2>3, <4>1
    <3>4. QED BY <3>1, <3>2, <3>3 DEF Filters
<1>3. Passing(s) = g[n]
  BY DEF Passing
<1> HIDE DEF g
<1> DEFINE S == {i \in 0 .. n : \E h : Picks(g[i], h, s, i)}
<1>4. 0 \in S
  <2>1. Picks(<<>>, <<>>, s, 0) BY DEF Picks
  <2>2. g[0] = <<>> BY <1>2 DEF Filters
  <2>3. QED BY <1>1, <2>1, <2>2
<1>5. ASSUME NEW i \in 1 .. n, i - 1 \in S
      PROVE  i \in S
  <2>1. PICK h : Picks(g[i - 1], h, s, i - 1)
    BY <1>5
  <2>2. g[i] = IF s[i] \in shown THEN Append(g[i - 1], s[i]) ELSE g[i - 1]
    BY <1>2 DEF Filters
  <2>3. i \in Nat /\ i # 0 /\ s[i] \in Row
    BY <1>1
  <2>4. /\ s[i] \in shown => Picks(Append(g[i - 1], s[i]), Append(h, i), s, i)
        /\ s[i] \notin shown => Picks(g[i - 1], h, s, i)
    BY <2>1, <2>3, PickOne
  <2>5. \E e : Picks(g[i], e, s, i)
    BY <2>2, <2>4
  <2>6. QED BY <1>1, <2>5
<1>6. n \in S
  <2> HIDE DEF S
  <2>1. 0 .. n \subseteq S BY <1>1, <1>4, <1>5, Counting
  <2>2. QED BY <1>1, <2>1
<1>7. QED BY <1>3, <1>6

LEMMA UpToIs ==
  ASSUME NEW R, NEW s \in Seq(R), NEW n \in Nat
  PROVE  /\ UpTo(s, n) \in Seq(R)
         /\ Len(UpTo(s, n)) = IF Len(s) > n THEN n ELSE Len(s)
         /\ \A j \in 1 .. Len(UpTo(s, n)) : UpTo(s, n)[j] = s[j]
BY DEF UpTo

LEMMA TailIs ==
  ASSUME NEW R, NEW s \in Seq(R), NEW k \in 1 .. Len(s) + 1
  PROVE  /\ SubSeq(s, k, Len(s)) \in Seq(R)
         /\ Len(SubSeq(s, k, Len(s))) = Len(s) + 1 - k
         /\ \A j \in 1 .. Len(s) + 1 - k : SubSeq(s, k, Len(s))[j] = s[k + j - 1]
<1> DEFINE t == SubSeq(s, k, Len(s))
<1>1. t = [j \in 1 .. Len(s) - k + 1 |-> s[k + j - 1]]
  OBVIOUS
<1> HIDE DEF t
<1>2. Len(s) - k + 1 \in Nat /\ Len(s) - k + 1 = Len(s) + 1 - k
  OBVIOUS
<1>3. \A j \in 1 .. Len(s) - k + 1 : k + j - 1 \in 1 .. Len(s)
  OBVIOUS
<1>4. \A j \in 1 .. Len(s) - k + 1 : s[k + j - 1] \in R
  BY <1>3
<1>5. t \in Seq(R) /\ Len(t) = Len(s) - k + 1
  BY <1>1, <1>2, <1>4
<1>6. QED BY <1>1, <1>2, <1>5 DEF t

\* Whatever the cursor, a page holds shown rows of the table and is at most
\* one row longer than asked for.
LEMMA PageTypes ==
  ASSUME table \in Seq(Row), NEW cursor \in Row \cup {NoCursor}, NEW take \in Nat
  PROVE  /\ FindMany(cursor, take) \in Seq(Row)
         /\ Len(FindMany(cursor, take)) <= take + 1
         /\ \A j \in DOMAIN FindMany(cursor, take) :
              FindMany(cursor, take)[j] \in ToSet(table)
<1> DEFINE s == From(cursor)
           found == Passing(s)
           skip == IF cursor = NoCursor THEN 0 ELSE 1
           rest == SubSeq(found, 1 + skip, Len(found))
<1>1. s \in Seq(Row) /\ \A i \in 1 .. Len(s) : s[i] \in ToSet(table)
  <2>1. CASE cursor = NoCursor
    BY <2>1 DEF From, ToSet
  <2>2. CASE cursor # NoCursor /\ cursor \notin ToSet(table)
    BY <2>2 DEF From
  <2>3. CASE cursor # NoCursor /\ cursor \in ToSet(table)
    <3> DEFINE k == CHOOSE i \in DOMAIN table : table[i] = cursor
    <3>1. k \in 1 .. Len(table) /\ Len(table) \in Nat
      BY <2>3 DEF ToSet
    <3>2. s = SubSeq(table, k, Len(table))
      BY <2>3 DEF From
    <3> HIDE DEF k, s
    <3>3. k \in 1 .. Len(table) + 1
      BY <3>1
    <3>4. /\ s \in Seq(Row) /\ Len(s) = Len(table) + 1 - k
          /\ \A j \in 1 .. Len(table) + 1 - k : s[j] = table[k + j - 1]
      BY <3>2, <3>3, TailIs
    <3>5. ASSUME NEW j \in 1 .. Len(s)
          PROVE  s[j] \in ToSet(table)
      <4>1. k + j - 1 \in 1 .. Len(table) BY <3>1, <3>4
      <4>2. s[j] = table[k + j - 1] BY <3>4
      <4>3. QED BY <4>1, <4>2 DEF ToSet
    <3>6. QED BY <3>4, <3>5
  <2>4. QED BY <2>1, <2>2, <2>3
<1> HIDE DEF s
<1>2. PICK h : Picks(found, h, s, Len(s))
  BY <1>1, PassingPicks
<1> HIDE DEF found
<1>3. found \in Seq(Row) /\ Len(found) \in Nat
  BY <1>2 DEF Picks
<1>4. \A j \in 1 .. Len(found) : found[j] \in ToSet(table)
  BY <1>1, <1>2 DEF Picks
<1>5. /\ rest \in Seq(Row) /\ Len(rest) \in Nat
      /\ \A j \in 1 .. Len(rest) : rest[j] \in ToSet(table)
  <2>1. CASE Len(found) = 0 BY <1>3, <2>1
  <2>2. CASE Len(found) # 0
    <3>1. 1 + skip \in 1 .. Len(found) + 1 BY <1>3, <2>2
    <3> HIDE DEF skip
    <3>2. /\ rest \in Seq(Row) /\ Len(rest) = Len(found) + 1 - (1 + skip)
          /\ \A j \in 1 .. Len(found) + 1 - (1 + skip) :
               rest[j] = found[(1 + skip) + j - 1]
      BY <1>3, <3>1, TailIs
    <3>3. \A j \in 1 .. Len(rest) : (1 + skip) + j - 1 \in 1 .. Len(found)
      BY <1>3, <3>1, <3>2
    <3>4. QED BY <1>3, <1>4, <3>2, <3>3
  <2>3. QED BY <2>1, <2>2
<1>6. FindMany(cursor, take) = UpTo(rest, take + 1)
  BY DEF FindMany, found, s
<1> HIDE DEF rest
<1>7. take + 1 \in Nat
  OBVIOUS
<1> DEFINE page == UpTo(rest, take + 1)
<1>8. /\ page \in Seq(Row)
      /\ Len(page) = IF Len(rest) > take + 1 THEN take + 1 ELSE Len(rest)
      /\ \A j \in 1 .. Len(page) : page[j] = rest[j]
  BY <1>5, <1>7, UpToIs
<1> HIDE DEF page
<1>9. Len(page) <= take + 1 /\ Len(page) <= Len(rest) /\ Len(page) \in Nat
  BY <1>5, <1>8
<1>10. \A j \in 1 .. Len(page) : j \in 1 .. Len(rest)
  BY <1>5, <1>9
<1>11. DOMAIN page = 1 .. Len(page)
  BY <1>8
<1>12. QED BY <1>5, <1>6, <1>8, <1>9, <1>10, <1>11 DEF page

\* The rows found are those at the positions h, in order, behind position p;
\* whatever else is shown behind p comes after the last of a full page.
PageFrom(found, h, p, take) ==
  /\ h \in Seq(Nat) /\ Len(h) = Len(found)
  /\ \A j \in 1 .. Len(h) : /\ h[j] \in 1 .. Len(table) /\ h[j] > p
                            /\ found[j] = table[h[j]] /\ found[j] \in shown
  /\ \A i, j \in 1 .. Len(h) : i < j => h[i] < h[j]
  /\ \A i \in 1 .. Len(table) :
       i > p /\ table[i] \in shown =>
         \/ \E j \in 1 .. Len(h) : h[j] = i
         \/ Len(h) = take + 1 /\ h[take + 1] < i

\* A full page of rest, or all of it.
LEMMA CutPage ==
  ASSUME NEW rest \in Seq(Row), NEW g \in Seq(Nat), Len(g) = Len(rest),
         NEW p \in Nat, NEW take \in Nat, Len(table) \in Nat,
         \A j \in 1 .. Len(g) : /\ g[j] \in 1 .. Len(table) /\ g[j] > p
                                /\ rest[j] = table[g[j]] /\ rest[j] \in shown,
         \A i, j \in 1 .. Len(g) : i < j => g[i] < g[j],
         \A i \in 1 .. Len(table) :
           i > p /\ table[i] \in shown => \E j \in 1 .. Len(g) : g[j] = i
  PROVE  \E h : PageFrom(UpTo(rest, take + 1), h, p, take)
<1> DEFINE page == UpTo(rest, take + 1)
           h == UpTo(g, take + 1)
<1>1. take + 1 \in Nat /\ Len(g) \in Nat
  OBVIOUS
<1>2. /\ page \in Seq(Row)
      /\ Len(page) = IF Len(rest) > take + 1 THEN take + 1 ELSE Len(rest)
      /\ \A j \in 1 .. Len(page) : page[j] = rest[j]
  BY <1>1, UpToIs
<1>3. /\ h \in Seq(Nat)
      /\ Len(h) = IF Len(g) > take + 1 THEN take + 1 ELSE Len(g)
      /\ \A j \in 1 .. Len(h) : h[j] = g[j]
  BY <1>1, UpToIs
<1> HIDE DEF h, page
<1>4. /\ Len(h) = Len(page) /\ Len(h) \in Nat
      /\ \A j \in 1 .. Len(h) : j \in 1 .. Len(g)
  BY <1>1, <1>2, <1>3
<1>5. \A j \in 1 .. Len(h) : /\ h[j] \in 1 .. Len(table) /\ h[j] > p
                             /\ page[j] = table[h[j]] /\ page[j] \in shown
  BY <1>2, <1>3, <1>4
<1>6. \A i, j \in 1 .. Len(h) : i < j => h[i] < h[j]
  BY <1>3, <1>4
<1>7. ASSUME NEW i \in 1 .. Len(table), i > p, table[i] \in shown
      PROVE  \/ \E j \in 1 .. Len(h) : h[j] = i
             \/ Len(h) = take + 1 /\ h[take + 1] < i
  <2>1. PICK j \in 1 .. Len(g) : g[j] = i
    BY <1>7
  <2>2. CASE j <= Len(h)
    <3>1. j \in 1 .. Len(h) BY <1>1, <1>4, <2>2
    <3>2. QED BY <1>3, <2>1, <3>1
  <2>3. CASE j > Len(h)
    <3>1. /\ Len(h) = take + 1 /\ take + 1 < j
          /\ take + 1 \in 1 .. Len(h) /\ take + 1 \in 1 .. Len(g)
      BY <1>1, <1>3, <2>3
    <3>2. g[take + 1] < g[j] BY <3>1
    <3>3. h[take + 1] = g[take + 1] BY <1>3, <3>1
    <3>4. QED BY <2>1, <3>1, <3>2, <3>3
  <2>4. QED BY <1>4, <2>2, <2>3
<1>8. PageFrom(page, h, p, take)
  BY <1>3, <1>4, <1>5, <1>6, <1>7 DEF PageFrom
<1>9. QED BY <1>8 DEF page

\* The first page begins at the front.
LEMMA FirstPage ==
  ASSUME table \in Seq(Row), NEW take \in Nat
  PROVE  \E h : PageFrom(FindMany(NoCursor, take), h, 0, take)
<1> DEFINE found == Passing(table)
<1>1. PICK g : Picks(found, g, table, Len(table))
  BY PassingPicks
<1>2. FindMany(NoCursor, take) = UpTo(SubSeq(found, 1, Len(found)), take + 1)
  BY DEF FindMany, From
<1> HIDE DEF found
<1>3. found \in Seq(Row) /\ g \in Seq(Nat) /\ Len(g) = Len(found) /\ Len(table) \in Nat
  BY <1>1 DEF Picks
<1>4. SubSeq(found, 1, Len(found)) = found
  BY <1>3
<1>5. \A j \in 1 .. Len(g) : /\ g[j] \in 1 .. Len(table) /\ g[j] > 0
                             /\ found[j] = table[g[j]] /\ found[j] \in shown
  BY <1>1 DEF Picks
<1>6. \A i, j \in 1 .. Len(g) : i < j => g[i] < g[j]
  BY <1>1 DEF Picks
<1>7. \A i \in 1 .. Len(table) :
        i > 0 /\ table[i] \in shown => \E j \in 1 .. Len(g) : g[j] = i
  BY <1>1 DEF Picks
<1>8. \E h : PageFrom(UpTo(found, take + 1), h, 0, take)
  BY <1>3, <1>5, <1>6, <1>7, CutPage
<1>9. QED BY <1>2, <1>4, <1>8

\* Every other page begins behind the cursor, while that is still shown.
LEMMA PageBehind ==
  ASSUME table \in Seq(Row), IsInjective(table), NEW take \in Nat,
         NEW p \in DOMAIN table, table[p] \in shown, table[p] # NoCursor
  PROVE  \E h : PageFrom(FindMany(table[p], take), h, p, take)
<1> DEFINE s == From(table[p])
           found == Passing(s)
           rest == SubSeq(found, 2, Len(found))
           n == Len(table)
<1>1. n \in Nat /\ p \in 1 .. n /\ p \in 1 .. n + 1
  OBVIOUS
<1>2. s = SubSeq(table, p, n)
  <2>1. table[p] \in ToSet(table) BY DEF ToSet
  <2>2. \A i \in DOMAIN table : table[i] = table[p] => i = p
    BY DEF IsInjective
  <2>3. (CHOOSE i \in DOMAIN table : table[i] = table[p]) = p
    BY <2>2
  <2>4. QED BY <2>1, <2>3 DEF From
<1>3. FindMany(table[p], take) = UpTo(rest, take + 1)
  BY DEF FindMany
<1> HIDE DEF s
<1>4. /\ s \in Seq(Row) /\ Len(s) = n + 1 - p
      /\ \A j \in 1 .. n + 1 - p : s[j] = table[p + j - 1]
  BY <1>1, <1>2, TailIs
<1>5. PICK e : Picks(found, e, s, Len(s))
  BY <1>4, PassingPicks
<1> HIDE DEF found, n
<1> DEFINE m == Len(e)
<1>6. /\ found \in Seq(Row) /\ e \in Seq(Nat) /\ Len(found) = m /\ m \in Nat
      /\ \A j \in 1 .. m : /\ e[j] \in 1 .. n + 1 - p /\ e[j] \in Nat
                           /\ found[j] = s[e[j]] /\ found[j] \in shown
      /\ \A i, j \in 1 .. m : i < j => e[i] < e[j]
      /\ \A i \in 1 .. n + 1 - p : s[i] \in shown => \E j \in 1 .. m : e[j] = i
  <2>1. Len(found) \in Nat
    BY <1>5 DEF Picks
  <2>2. \A x \in 1 .. n + 1 - p : x \in Nat
    BY <1>1
  <2> HIDE DEF m
  <2>3. /\ found \in Seq(Row) /\ e \in Seq(Nat) /\ Len(found) = m
        /\ \A j \in 1 .. m : e[j] \in 1 .. n + 1 - p /\ found[j] = s[e[j]] /\ found[j] \in shown
        /\ \A i, j \in 1 .. m : i < j => e[i] < e[j]
        /\ \A i \in 1 .. n + 1 - p : s[i] \in shown => \E j \in 1 .. m : e[j] = i
    BY <1>4, <1>5 DEF Picks, m
  <2>4. QED BY <2>1, <2>2, <2>3
<1> HIDE DEF m
\* The first row found is the cursor.
<1>7. m >= 1 /\ e[1] = 1
  <2>1. 1 \in 1 .. n + 1 - p /\ s[1] = table[p]
    <3>1. 1 \in 1 .. n + 1 - p /\ p + 1 - 1 = p BY <1>1
    <3>2. s[1] = table[p + 1 - 1] BY <1>4, <3>1
    <3>3. QED BY <3>1, <3>2
  <2>2. PICK j \in 1 .. m : e[j] = 1
    BY <1>6, <2>1
  <2>3. 1 \in 1 .. m BY <1>6
  <2>4. j = 1 \/ 1 < j BY <1>6
  <2>5. e[1] \in Nat /\ e[1] >= 1 BY <1>1, <1>6, <2>3
  <2>6. 1 < j => e[1] < e[j] BY <1>6, <2>3
  <2>7. j = 1 BY <2>2, <2>4, <2>5, <2>6
  <2>8. QED BY <2>2, <2>3, <2>7, <1>6
<1>8. /\ rest \in Seq(Row) /\ Len(rest) = m - 1 /\ m - 1 \in Nat
      /\ \A j \in 1 .. m - 1 : rest[j] = found[j + 1]
  <2>1. 2 \in 1 .. Len(found) + 1 BY <1>6, <1>7
  <2>2. /\ rest \in Seq(Row) /\ Len(rest) = m + 1 - 2
        /\ \A j \in 1 .. m + 1 - 2 : rest[j] = found[2 + j - 1]
    BY <1>6, <2>1, TailIs
  <2> HIDE DEF rest
  <2>3. m + 1 - 2 = m - 1 /\ \A j \in 1 .. m - 1 : 2 + j - 1 = j + 1
    BY <1>6
  <2>4. QED BY <1>6, <1>7, <2>2, <2>3
<1> DEFINE g == [j \in 1 .. m - 1 |-> p + e[j + 1] - 1]
<1>9. \A j \in 1 .. m - 1 :
        /\ j + 1 \in 1 .. m /\ e[j + 1] \in Nat /\ e[j + 1] > 1 /\ e[j + 1] <= n + 1 - p
        /\ g[j] = p + e[j + 1] - 1
  <2>1. ASSUME NEW j \in 1 .. m - 1
        PROVE  /\ j + 1 \in 1 .. m /\ e[j + 1] \in Nat /\ e[j + 1] > 1
               /\ e[j + 1] <= n + 1 - p
    <3>1. j + 1 \in 1 .. m /\ 1 \in 1 .. m /\ 1 < j + 1 BY <1>6, <1>7
    <3>2. e[1] < e[j + 1] BY <1>6, <3>1
    <3>3. e[j + 1] \in 1 .. n + 1 - p /\ e[j + 1] \in Nat BY <1>6, <3>1
    <3>4. QED BY <1>1, <1>7, <3>1, <3>2, <3>3
  <2>2. QED BY <2>1
<1>10. \A j \in 1 .. m - 1 : g[j] \in Nat /\ g[j] \in 1 .. n /\ g[j] > p
  BY <1>1, <1>9
<1>11. g \in Seq(Nat) /\ Len(g) = m - 1
  <2>1. \A j \in 1 .. m - 1 : p + e[j + 1] - 1 \in Nat BY <1>9, <1>10
  <2>2. QED BY <1>8, <2>1
<1> HIDE DEF g, rest
<1>12. \A j \in 1 .. m - 1 : rest[j] = table[g[j]] /\ rest[j] \in shown
  <2>1. ASSUME NEW j \in 1 .. m - 1
        PROVE  rest[j] = table[g[j]] /\ rest[j] \in shown
    <3>1. rest[j] = found[j + 1] BY <1>8
    <3>2. found[j + 1] = s[e[j + 1]] /\ found[j + 1] \in shown BY <1>6, <1>9
    <3>3. e[j + 1] \in 1 .. n + 1 - p BY <1>1, <1>9
    <3>4. s[e[j + 1]] = table[p + e[j + 1] - 1] BY <1>4, <3>3
    <3>5. QED BY <1>9, <3>1, <3>2, <3>4
  <2>2. QED BY <2>1
<1>13. \A i, j \in 1 .. m - 1 : i < j => g[i] < g[j]
  <2>1. ASSUME NEW i \in 1 .. m - 1, NEW j \in 1 .. m - 1, i < j
        PROVE  g[i] < g[j]
    <3>1. i + 1 \in 1 .. m /\ j + 1 \in 1 .. m /\ i + 1 < j + 1 BY <1>9, <2>1
    <3>2. e[i + 1] < e[j + 1] BY <1>6, <3>1
    <3>3. g[i] = p + e[i + 1] - 1 /\ g[j] = p + e[j + 1] - 1
          /\ e[i + 1] \in Nat /\ e[j + 1] \in Nat
      BY <1>9
    <3>4. QED BY <1>1, <3>2, <3>3
  <2>2. QED BY <2>1
<1>14. \A i \in 1 .. n :
         i > p /\ table[i] \in shown => \E j \in 1 .. m - 1 : g[j] = i
  <2>1. ASSUME NEW i \in 1 .. n, i > p, table[i] \in shown
        PROVE  \E j \in 1 .. m - 1 : g[j] = i
    <3> DEFINE x == i + 1 - p
    <3>1. x \in 1 .. n + 1 - p /\ x > 1 /\ p + x - 1 = i BY <1>1, <2>1
    <3> HIDE DEF x
    <3>2. s[x] = table[i] BY <1>4, <3>1
    <3>3. PICK j \in 1 .. m : e[j] = x BY <1>6, <2>1, <3>1, <3>2
    <3>4. j # 1 BY <1>7, <3>1, <3>3
    <3>5. j - 1 \in 1 .. m - 1 /\ (j - 1) + 1 = j BY <1>6, <3>4
    <3>6. g[j - 1] = p + e[j] - 1 BY <1>9, <3>5
    <3>7. QED BY <3>1, <3>3, <3>5, <3>6
  <2>2. QED BY <2>1
<1>15. \E h : PageFrom(UpTo(rest, take + 1), h, p, take)
  <2>1. p \in Nat /\ Len(table) \in Nat BY <1>1 DEF n
  <2>2. Len(g) = Len(rest) BY <1>8, <1>11
  <2>3. \A j \in 1 .. Len(g) : /\ g[j] \in 1 .. Len(table) /\ g[j] > p
                               /\ rest[j] = table[g[j]] /\ rest[j] \in shown
    BY <1>10, <1>11, <1>12 DEF n
  <2>4. \A i, j \in 1 .. Len(g) : i < j => g[i] < g[j]
    BY <1>11, <1>13
  <2>5. \A i \in 1 .. Len(table) :
          i > p /\ table[i] \in shown => \E j \in 1 .. Len(g) : g[j] = i
    BY <1>11, <1>14 DEF n
  <2>6. QED BY <1>8, <1>11, <2>1, <2>2, <2>3, <2>4, <2>5, CutPage
<1>16. QED BY <1>3, <1>15 DEF found, rest

-----------------------------------------------------------------------------
(***************************************************************************)
(* Listings: what a reader has seen of the table.                          *)
(***************************************************************************)

\* Only rows that were created have been listed, each once.
Listed ==
  /\ ToSet(reader.got) \subseteq 1 .. created
  /\ ~strayed => IsInjective(reader.got)

\* A reader without a cursor is at its first page.
AtFirst == Reading /\ reader.cursor = NoCursor => reader.got = <<>>

\* The rows up to position k are done with: those that have been there all
\* the time were listed, and none of those behind was.
DoneUpTo(k) ==
  /\ \A i \in DOMAIN table : i > k => table[i] \notin ToSet(reader.got)
  /\ \A i \in DOMAIN table :
       i <= k /\ table[i] \in steady => table[i] \in ToSet(reader.got)

\* The cursor marks the row that the reader has come to, wherever rows have
\* come, gone and moved.
Bookmark ==
  Reading /\ ~strayed /\ reader.cursor # NoCursor =>
    /\ reader.cursor \in shown
    /\ \E k \in DOMAIN table : table[k] = reader.cursor /\ DoneUpTo(k)

ListingsInv ==
  ListingsTypeOK /\ Listed /\ AtFirst /\ Bookmark /\ ExactUnlessStrayed

\* The bounds of the model.
LEMMA ListingsTypes ==
  ASSUME ListingsTypeOK
  PROVE  /\ table \in Seq(Row) /\ Len(table) \in Nat /\ DOMAIN table = 1 .. Len(table)
         /\ \A i, j \in DOMAIN table : table[i] = table[j] => i = j
         /\ \A i \in DOMAIN table : table[i] \in Nat /\ table[i] >= 1 /\ table[i] <= created
         /\ reader.got \in Seq(Row) /\ Len(reader.got) \in Nat
         /\ DOMAIN reader.got = 1 .. Len(reader.got)
         /\ FirstRows \in Nat /\ MaxChanges \in Nat /\ created \in Nat /\ changes \in Nat
         /\ created <= FirstRows + changes /\ changes <= MaxChanges
         /\ steady \subseteq shown
         /\ \A r \in shown : r \in Nat /\ r >= 1 /\ r <= created
<1>1. /\ table \in Seq(Row) /\ IsInjective(table) /\ ToSet(table) \subseteq 1 .. created
      /\ shown \subseteq ToSet(table) /\ steady \subseteq shown
      /\ created \in Nat /\ created <= FirstRows + changes /\ changes \in 0 .. MaxChanges
      /\ reader.got \in Seq(Row)
  BY DEF ListingsTypeOK
<1>2. Len(table) \in Nat /\ DOMAIN table = 1 .. Len(table)
  BY <1>1
<1>3. \A i, j \in DOMAIN table : table[i] = table[j] => i = j
  BY <1>1 DEF IsInjective
<1>4. \A i \in DOMAIN table : table[i] \in 1 .. created
  BY <1>1 DEF ToSet
<1>5. Len(reader.got) \in Nat /\ DOMAIN reader.got = 1 .. Len(reader.got)
  BY <1>1
<1>6. \A r \in shown : r \in 1 .. created
  BY <1>1
<1>7. QED BY <1>1, <1>2, <1>3, <1>4, <1>5, <1>6, ListingsAssumption

LEMMA CatIs ==
  ASSUME NEW R, NEW s \in Seq(R), NEW t \in Seq(R)
  PROVE  /\ s \o t \in Seq(R) /\ Len(s \o t) = Len(s) + Len(t)
         /\ \A i \in 1 .. Len(s) + Len(t) :
              (s \o t)[i] = IF i <= Len(s) THEN s[i] ELSE t[i - Len(s)]
OBVIOUS

\* A row enters at position q.
Enters(t, q, new) ==
  /\ t \in Seq(Row) /\ Len(t) = Len(table) + 1
  /\ q \in 1 .. Len(table) + 1 /\ t[q] = new
  /\ \A i \in 1 .. Len(table) + 1 :
       /\ i < q => t[i] = table[i]
       /\ i > q => t[i] = table[i - 1]

LEMMA GrowEnters ==
  ASSUME ListingsTypeOK, Grow, changes < MaxChanges
  PROVE  \E q \in 1 .. Len(table) + 1 : Enters(table', q, created + 1)
<1> DEFINE n == Len(table)
           new == created + 1
<1>1. table \in Seq(Row) /\ n \in Nat
  BY ListingsTypes
<1>2. new \in Row
  BY ListingsTypes DEF Row
<1> HIDE DEF new
<1>3. CASE table' = <<new>> \o table
  <2>1. Enters(table', 1, new)
    BY <1>1, <1>2, <1>3 DEF Enters
  <2>2. QED BY <1>1, <2>1 DEF new
<1>4. CASE table' = Append(table, new)
  <2>1. Enters(table', n + 1, new)
    BY <1>1, <1>2, <1>4 DEF Enters
  <2>2. QED BY <1>1, <2>1 DEF new
<1>5. ASSUME NEW q \in 1 .. n + 1, table' = InsertAt(table, q, new)
      PROVE  Enters(table', q, new)
  <2> DEFINE front == SubSeq(table, 1, q - 1)
             back  == SubSeq(table, q, n)
             start == front \o <<new>>
  <2>1. /\ front \in Seq(Row) /\ Len(front) = q - 1
        /\ \A i \in 1 .. q - 1 : front[i] = table[i]
    BY <1>1
  <2>2. /\ back \in Seq(Row) /\ Len(back) = n + 1 - q
        /\ \A i \in 1 .. n + 1 - q : back[i] = table[q + i - 1]
    BY <1>1, TailIs
  <2>3. table' = start \o back
    BY <1>5 DEF InsertAt
  <2> HIDE DEF front, back
  <2>4. /\ start \in Seq(Row) /\ Len(start) = q /\ start[q] = new
        /\ \A i \in 1 .. q - 1 : start[i] = table[i]
    <3>1. /\ start \in Seq(Row) /\ Len(start) = q - 1 + 1
          /\ \A i \in 1 .. q - 1 + 1 :
               start[i] = IF i <= q - 1 THEN front[i] ELSE <<new>>[i - (q - 1)]
      BY <1>2, <2>1, CatIs
    <3>2. /\ q - 1 + 1 = q /\ q \in 1 .. q - 1 + 1 /\ ~(q <= q - 1) /\ q - (q - 1) = 1
          /\ \A i \in 1 .. q - 1 : i \in 1 .. q - 1 + 1 /\ i <= q - 1
      BY <1>1
    <3> HIDE DEF start
    <3>3. start[q] = <<new>>[1] BY <3>1, <3>2
    <3>4. \A i \in 1 .. q - 1 : start[i] = front[i] BY <3>1, <3>2
    <3>5. QED BY <2>1, <3>1, <3>2, <3>3, <3>4
  <2> HIDE DEF start
  <2>5. /\ table' \in Seq(Row) /\ Len(table') = n + 1
        /\ \A i \in 1 .. n + 1 :
             table'[i] = IF i <= q THEN start[i] ELSE back[i - q]
    <3>1. /\ start \o back \in Seq(Row) /\ Len(start \o back) = q + Len(back)
          /\ \A i \in 1 .. q + Len(back) :
               (start \o back)[i] = IF i <= q THEN start[i] ELSE back[i - q]
      BY <2>2, <2>4, CatIs
    <3>2. q + Len(back) = n + 1 BY <1>1, <2>2
    <3>3. QED BY <2>3, <3>1, <3>2
  <2>6. table'[q] = new
    BY <1>1, <2>4, <2>5
  <2>7. ASSUME NEW i \in 1 .. n + 1
        PROVE  /\ i < q => table'[i] = table[i]
               /\ i > q => table'[i] = table[i - 1]
    <3>1. ASSUME i < q PROVE table'[i] = table[i]
      <4>1. i \in 1 .. q - 1 /\ i <= q BY <3>1
      <4>2. QED BY <2>4, <2>5, <4>1
    <3>2. ASSUME i > q PROVE table'[i] = table[i - 1]
      <4>1. i - q \in 1 .. n + 1 - q /\ ~(i <= q) /\ q + (i - q) - 1 = i - 1
        BY <1>1, <3>2
      <4>2. QED BY <2>2, <2>5, <4>1
    <3>3. QED BY <3>1, <3>2
  <2>8. QED BY <2>5, <2>6, <2>7 DEF Enters
<1>6. QED BY <1>3, <1>4, <1>5 DEF Grow, new

\* The row at position p goes to the front.
LEMMA ToFrontIs ==
  ASSUME ListingsTypeOK, NEW p \in DOMAIN table
  PROVE  /\ ToFront(table[p]) \in Seq(Row) /\ Len(ToFront(table[p])) = Len(table)
         /\ ToFront(table[p])[1] = table[p]
         /\ \A i \in 2 .. Len(table) :
              /\ i <= p => ToFront(table[p])[i] = table[i - 1]
              /\ i > p => ToFront(table[p])[i] = table[i]
<1> DEFINE n == Len(table)
           t == [i \in 1 .. n |->
                   IF i = 1 THEN table[p] ELSE IF i <= p THEN table[i - 1] ELSE table[i]]
<1>1. n \in Nat /\ DOMAIN table = 1 .. n /\ p \in 1 .. n
      /\ \A i \in 1 .. n : table[i] \in Row
  BY ListingsTypes
<1>2. ToFront(table[p]) = t
  <2>1. \A i \in DOMAIN table : table[i] = table[p] => i = p
    BY ListingsTypes
  <2>2. (CHOOSE i \in DOMAIN table : table[i] = table[p]) = p
    BY <2>1
  <2>3. QED BY <1>1, <2>2 DEF ToFront
<1> HIDE DEF n
<1>3. \A i \in 1 .. n :
        (IF i = 1 THEN table[p] ELSE IF i <= p THEN table[i - 1] ELSE table[i]) \in Row
  BY <1>1
<1>4. t \in Seq(Row) /\ Len(t) = n
  BY <1>1, <1>3
<1>5. QED BY <1>1, <1>2, <1>4 DEF n

\* A new row beside the old ones: the table stays in order.
LEMMA EntersKeeps ==
  ASSUME ListingsTypeOK, NEW q, NEW t, Enters(t, q, created + 1)
  PROVE  IsInjective(t) /\ ToSet(t) = ToSet(table) \cup {created + 1}
<1> DEFINE n == Len(table)
           new == created + 1
<1>1. /\ n \in Nat /\ DOMAIN table = 1 .. n /\ created \in Nat
      /\ \A i, j \in 1 .. n : table[i] = table[j] => i = j
      /\ \A i \in 1 .. n : table[i] \in Nat /\ table[i] <= created
  BY ListingsTypes
<1>2. /\ DOMAIN t = 1 .. n + 1 /\ q \in 1 .. n + 1 /\ t[q] = new
      /\ \A i \in 1 .. n + 1 : i < q => i \in 1 .. n /\ t[i] = table[i]
      /\ \A i \in 1 .. n + 1 : i > q => i - 1 \in 1 .. n /\ t[i] = table[i - 1]
  BY <1>1 DEF Enters
<1>8. \A i \in 1 .. n : table[i] # new
  BY <1>1
<1> HIDE DEF n, new
<1>3. ASSUME NEW i \in 1 .. n + 1, NEW j \in 1 .. n + 1, t[i] = t[j]
      PROVE  i = j
  <2>1. /\ i < q \/ i = q \/ i > q
        /\ j < q \/ j = q \/ j > q
    BY <1>2
  <2>2. CASE i = q BY <1>1, <1>2, <1>8, <1>3, <2>1, <2>2
  <2>3. CASE j = q BY <1>1, <1>2, <1>8, <1>3, <2>1, <2>3
  <2>4. CASE i < q /\ j < q BY <1>1, <1>2, <1>8, <1>3, <2>4
  <2>5. CASE i > q /\ j > q BY <1>1, <1>2, <1>8, <1>3, <2>5
  <2>6. CASE i < q /\ j > q
    <3>1. i = j - 1 BY <1>1, <1>2, <1>8, <1>3, <2>6
    <3>2. QED BY <1>2, <2>6, <3>1
  <2>7. CASE i > q /\ j < q
    <3>1. i - 1 = j BY <1>1, <1>2, <1>8, <1>3, <2>7
    <3>2. QED BY <1>2, <2>7, <3>1
  <2>8. QED BY <2>1, <2>2, <2>3, <2>4, <2>5, <2>6, <2>7
<1>4. \A r \in ToSet(t) : r = new \/ r \in ToSet(table)
  <2>1. ASSUME NEW r \in ToSet(t)
        PROVE  r = new \/ r \in ToSet(table)
    <3>1. PICK i \in 1 .. n + 1 : t[i] = r BY <1>2 DEF ToSet
    <3>2. t[i] = new \/ \E j \in 1 .. n : t[i] = table[j] BY <1>1, <1>2
    <3>3. QED BY <1>1, <3>1, <3>2 DEF ToSet
  <2>2. QED BY <2>1
<1>5. \A r \in ToSet(table) : r \in ToSet(t)
  <2>1. ASSUME NEW j \in 1 .. n PROVE \E i \in 1 .. n + 1 : t[i] = table[j]
    <3>1. CASE j < q
      <4>1. j \in 1 .. n + 1 BY <1>1
      <4>2. QED BY <1>2, <3>1, <4>1
    <3>2. CASE j >= q
      <4>1. j + 1 \in 1 .. n + 1 /\ j + 1 > q /\ (j + 1) - 1 = j BY <1>1, <1>2, <3>2
      <4>2. QED BY <1>2, <4>1
    <3>3. QED BY <1>2, <3>1, <3>2
  <2>2. ASSUME NEW r \in ToSet(table)
        PROVE  r \in ToSet(t)
    <3>1. PICK j \in 1 .. n : table[j] = r BY <1>1 DEF ToSet
    <3>2. PICK i \in 1 .. n + 1 : t[i] = r BY <2>1, <3>1
    <3>3. QED BY <1>2, <3>2 DEF ToSet
  <2>3. QED BY <2>2
<1>6. new \in ToSet(t) BY <1>2 DEF ToSet
<1>7. QED BY <1>2, <1>3, <1>4, <1>5, <1>6 DEF IsInjective, new

LEMMA ToFrontKeeps ==
  ASSUME ListingsTypeOK, NEW p \in DOMAIN table, NEW t, t = ToFront(table[p])
  PROVE  IsInjective(t) /\ ToSet(t) = ToSet(table)
<1> DEFINE n == Len(table)
<1>1. /\ n \in Nat /\ DOMAIN table = 1 .. n /\ p \in 1 .. n
      /\ \A i, j \in 1 .. n : table[i] = table[j] => i = j
  BY ListingsTypes
<1>2. /\ DOMAIN t = 1 .. n /\ t[1] = table[p]
      /\ \A i \in 2 .. n : i <= p => t[i] = table[i - 1]
      /\ \A i \in 2 .. n : i > p => t[i] = table[i]
  BY ToFrontIs
<1> HIDE DEF n
<1> DEFINE Was(i) == IF i = 1 THEN p ELSE IF i <= p THEN i - 1 ELSE i
<1>3. \A i \in 1 .. n : Was(i) \in 1 .. n /\ t[i] = table[Was(i)]
  BY <1>1, <1>2
<1>4. \A i, j \in 1 .. n : Was(i) = Was(j) => i = j
  BY <1>1
<1>5. \A j \in 1 .. n : \E i \in 1 .. n : Was(i) = j
  <2>1. ASSUME NEW j \in 1 .. n PROVE \E i \in 1 .. n : Was(i) = j
    <3>1. CASE j = p
      <4>1. 1 \in 1 .. n /\ Was(1) = j BY <1>1, <3>1
      <4>2. QED BY <4>1
    <3>2. CASE j < p
      <4>1. j + 1 \in 1 .. n /\ Was(j + 1) = j BY <1>1, <3>2
      <4>2. QED BY <4>1
    <3>3. CASE j > p
      <4>1. Was(j) = j BY <1>1, <3>3
      <4>2. QED BY <4>1
    <3>4. QED BY <1>1, <3>1, <3>2, <3>3
  <2>2. QED BY <2>1
<1> HIDE DEF Was
<1>6. IsInjective(t)
  BY <1>1, <1>2, <1>3, <1>4 DEF IsInjective
<1>7. ToSet(t) = ToSet(table)
  <2>1. \A r \in ToSet(t) : r \in ToSet(table)
    BY <1>1, <1>2, <1>3 DEF ToSet
  <2>2. ASSUME NEW r \in ToSet(table)
        PROVE  r \in ToSet(t)
    <3>1. PICK j \in 1 .. n : table[j] = r BY <1>1 DEF ToSet
    <3>2. PICK i \in 1 .. n : Was(i) = j BY <1>5
    <3>3. t[i] = r BY <1>3, <3>1, <3>2
    <3>4. QED BY <1>2, <3>3 DEF ToSet
  <2>3. QED BY <2>1, <2>2
<1>8. QED BY <1>6, <1>7

LEMMA ReaderTypes ==
  ASSUME ListingsTypeOK
  PROVE  /\ reader \in [at : ReaderStages, take : Takes \cup {1}, cursor : Row \cup {NoCursor},
                        seen : SUBSET Row, got : Seq(Row)]
         /\ reader.take \in Nat /\ reader.take >= 1
         /\ reader.cursor \in Row \cup {NoCursor} /\ reader.got \in Seq(Row)
         /\ reader.seen \subseteq ToSet(reader.got)
         /\ reader.cursor # NoCursor => reader.cursor \in reader.seen
<1>1. /\ reader \in [at : ReaderStages, take : Takes \cup {1}, cursor : Row \cup {NoCursor},
                     seen : SUBSET Row, got : Seq(Row)]
      /\ reader.seen \subseteq ToSet(reader.got)
      /\ reader.cursor \in reader.seen \cup {NoCursor}
  BY DEF ListingsTypeOK
<1>2. reader.take \in Takes \cup {1} /\ reader.cursor \in Row \cup {NoCursor}
      /\ reader.got \in Seq(Row)
  BY <1>1
<1>3. \A take \in Takes \cup {1} : take \in Nat /\ take >= 1
  BY ListingsAssumption
<1>4. QED BY <1>1, <1>2, <1>3

\* What the reader has got once a page is added.
WithPage(got, found, take) == got \o UpTo(found, take)

LEMMA PageAdds ==
  ASSUME NEW got \in Seq(Row), NEW found \in Seq(Row), NEW take \in Nat, take >= 1
  PROVE  LET next == WithPage(got, found, take) IN
         /\ next \in Seq(Row)
         /\ \A r \in ToSet(next) :
              r \in ToSet(got) \/ \E j \in 1 .. Len(found) : j <= take /\ found[j] = r
         /\ \A r \in ToSet(got) : r \in ToSet(next)
         /\ \A j \in 1 .. Len(found) : j <= take => found[j] \in ToSet(next)
<1> DEFINE page == UpTo(found, take)
           m == Len(page)
           n == Len(got)
           next == WithPage(got, found, take)
<1>1. /\ page \in Seq(Row) /\ m = IF Len(found) > take THEN take ELSE Len(found)
      /\ \A j \in 1 .. m : page[j] = found[j]
  BY UpToIs
<1>2. n \in Nat /\ m \in Nat /\ Len(found) \in Nat
      /\ m <= Len(found) /\ m <= take
      /\ \A j \in 1 .. Len(found) : j <= take => j \in 1 .. m
      /\ \A k \in 1 .. m : k \in 1 .. Len(found)
  BY <1>1
<1>3. DOMAIN got = 1 .. n OBVIOUS
<1>4. next = got \o page BY DEF WithPage
<1> HIDE DEF page, next
<1>5. /\ next \in Seq(Row) /\ Len(next) = n + m
      /\ \A i \in 1 .. n + m : next[i] = IF i <= n THEN got[i] ELSE page[i - n]
  <2>1. /\ got \o page \in Seq(Row) /\ Len(got \o page) = n + m
        /\ \A i \in 1 .. n + m :
             (got \o page)[i] = IF i <= n THEN got[i] ELSE page[i - n]
    BY <1>1, CatIs
  <2>2. QED BY <1>4, <2>1
<1>6. DOMAIN next = 1 .. n + m
  BY <1>5
<1> HIDE DEF m, n
<1>7. ASSUME NEW r \in ToSet(next)
      PROVE  r \in ToSet(got) \/ \E j \in 1 .. Len(found) : j <= take /\ found[j] = r
  <2>1. PICK i \in 1 .. n + m : next[i] = r
    BY <1>6, <1>7 DEF ToSet
  <2>2. CASE i <= n
    <3>1. i \in 1 .. n /\ got[i] = r BY <1>2, <1>5, <2>1, <2>2
    <3>2. QED BY <1>3, <3>1 DEF ToSet
  <2>3. CASE i > n
    <3>1. i - n \in 1 .. m BY <1>2, <2>3
    <3>2. page[i - n] = r
      <4>1. ~(i <= n) BY <1>2, <2>3
      <4>2. QED BY <1>5, <2>1, <4>1
    <3>3. i - n \in 1 .. Len(found) /\ i - n <= take BY <1>2, <3>1
    <3>4. found[i - n] = r BY <1>1, <3>1, <3>2
    <3>5. QED BY <3>3, <3>4
  <2>4. QED BY <1>2, <2>2, <2>3
<1>8. ASSUME NEW r \in ToSet(got)
      PROVE  r \in ToSet(next)
  <2>1. PICK i \in 1 .. n : got[i] = r BY <1>3 DEF ToSet
  <2>2. i \in 1 .. n + m /\ next[i] = r BY <1>2, <1>5, <2>1
  <2>3. QED BY <1>6, <2>2 DEF ToSet
<1>9. ASSUME NEW j \in 1 .. Len(found), j <= take
      PROVE  found[j] \in ToSet(next)
  <2>1. j \in 1 .. m BY <1>2, <1>9
  <2>2. n + j \in 1 .. n + m /\ ~(n + j <= n) /\ (n + j) - n = j BY <1>2, <2>1
  <2>3. next[n + j] = found[j] BY <1>1, <1>5, <2>1, <2>2
  <2>4. QED BY <1>6, <2>2, <2>3 DEF ToSet
<1>10. QED BY <1>5, <1>7, <1>8, <1>9 DEF next

\* Rows of an ordered page that were not got before are got once.
LEMMA PageOnce ==
  ASSUME NEW got \in Seq(Row), NEW found \in Seq(Row), NEW take \in Nat, take >= 1,
         IsInjective(got),
         \A i, j \in 1 .. Len(found) : found[i] = found[j] => i = j,
         \A j \in 1 .. Len(found) : found[j] \notin ToSet(got)
  PROVE  IsInjective(WithPage(got, found, take))
<1> DEFINE page == UpTo(found, take)
           m == Len(page)
           n == Len(got)
           next == got \o page
<1>1. /\ page \in Seq(Row) /\ m = IF Len(found) > take THEN take ELSE Len(found)
      /\ \A j \in 1 .. m : page[j] = found[j]
  BY UpToIs
<1>2. n \in Nat /\ m \in Nat /\ \A j \in 1 .. m : j \in 1 .. Len(found)
  BY <1>1
<1>3. DOMAIN got = 1 .. n OBVIOUS
<1> HIDE DEF page
<1>4. /\ next \in Seq(Row) /\ Len(next) = n + m
      /\ \A i \in 1 .. n + m : next[i] = IF i <= n THEN got[i] ELSE page[i - n]
  BY <1>1, CatIs
<1> HIDE DEF next, n, m
<1>5. DOMAIN next = 1 .. n + m
  BY <1>4
<1>6. \A i, j \in 1 .. n : got[i] = got[j] => i = j
  BY <1>3 DEF IsInjective
<1>7. \A i \in 1 .. n, j \in 1 .. m : got[i] # found[j]
  BY <1>2, <1>3 DEF ToSet
<1>8. \A i \in 1 .. n + m :
        \/ i \in 1 .. n /\ next[i] = got[i]
        \/ i - n \in 1 .. m /\ next[i] = found[i - n]
  <2>1. ASSUME NEW i \in 1 .. n + m
        PROVE  \/ i \in 1 .. n /\ next[i] = got[i]
               \/ i - n \in 1 .. m /\ next[i] = found[i - n]
    <3>1. CASE i <= n BY <1>2, <1>4, <3>1
    <3>2. CASE i > n
      <4>1. i - n \in 1 .. m /\ ~(i <= n) BY <1>2, <3>2
      <4>2. QED BY <1>1, <1>4, <4>1
    <3>3. QED BY <1>2, <3>1, <3>2
  <2>2. QED BY <2>1
<1>9. ASSUME NEW i \in 1 .. n + m, NEW j \in 1 .. n + m, next[i] = next[j]
      PROVE  i = j
  <2>1. CASE i \in 1 .. n /\ next[i] = got[i]
    <3>1. j \in 1 .. n /\ next[j] = got[j] BY <1>7, <1>8, <1>9, <2>1
    <3>2. QED BY <1>6, <1>9, <2>1, <3>1
  <2>2. CASE i - n \in 1 .. m /\ next[i] = found[i - n]
    <3>1. j - n \in 1 .. m /\ next[j] = found[j - n] BY <1>7, <1>8, <1>9, <2>2
    <3>2. i - n = j - n BY <1>2, <1>9, <2>2, <3>1
    <3>3. QED BY <1>2, <3>2
  <2>3. QED BY <1>8, <2>1, <2>2
<1>10. IsInjective(next)
  BY <1>5, <1>9 DEF IsInjective
<1>11. QED BY <1>10 DEF next, page, WithPage

\* A page behind p, read by somebody who is done with the rows up to p: no row
\* comes twice, and the reader is done with the rows up to the last of a page
\* that is not the last, and with all rows after the last page.
LEMMA PageExact ==
  ASSUME ListingsTypeOK, NEW p \in Nat, DoneUpTo(p), IsInjective(reader.got),
         NEW take \in Nat, take >= 1, NEW found \in Seq(Row), NEW h,
         PageFrom(found, h, p, take), NEW next,
         next = WithPage(reader.got, found, take)
  PROVE  /\ IsInjective(next)
         /\ Len(found) <= take => steady \subseteq ToSet(next)
         /\ Len(found) > take =>
              /\ found[take] \in shown /\ found[take] \notin ToSet(reader.got)
              /\ \E k \in DOMAIN table :
                   /\ table[k] = found[take]
                   /\ \A i \in DOMAIN table : i > k => table[i] \notin ToSet(next)
                   /\ \A i \in DOMAIN table :
                        i <= k /\ table[i] \in steady => table[i] \in ToSet(next)
<1> DEFINE n == Len(table)
           m == Len(found)
<1>1. /\ n \in Nat /\ DOMAIN table = 1 .. n /\ steady \subseteq shown
      /\ \A i, j \in 1 .. n : table[i] = table[j] => i = j
      /\ reader.got \in Seq(Row)
  BY ListingsTypes
<1>2. /\ m \in Nat /\ Len(h) = m
      /\ \A j \in 1 .. m : /\ h[j] \in 1 .. n /\ h[j] > p
                           /\ found[j] = table[h[j]] /\ found[j] \in shown
      /\ \A i, j \in 1 .. m : i < j => h[i] < h[j]
      /\ \A i \in 1 .. n : i > p /\ table[i] \in shown =>
           (\E j \in 1 .. m : h[j] = i) \/ (m = take + 1 /\ h[take + 1] < i)
  BY DEF PageFrom
<1>3. /\ \A i \in 1 .. n : i > p => table[i] \notin ToSet(reader.got)
      /\ \A i \in 1 .. n : i <= p /\ table[i] \in steady => table[i] \in ToSet(reader.got)
  BY <1>1 DEF DoneUpTo
<1>4. /\ next \in Seq(Row)
      /\ \A r \in ToSet(next) :
           r \in ToSet(reader.got) \/ \E j \in 1 .. m : j <= take /\ found[j] = r
      /\ \A r \in ToSet(reader.got) : r \in ToSet(next)
      /\ \A j \in 1 .. m : j <= take => found[j] \in ToSet(next)
  <2> DEFINE more == WithPage(reader.got, found, take)
  <2>1. reader.got \in Seq(Row) /\ found \in Seq(Row) /\ take \in Nat /\ take >= 1
        /\ next = more
    BY <1>1
  <2>2. /\ more \in Seq(Row)
        /\ \A r \in ToSet(more) :
             r \in ToSet(reader.got) \/ \E j \in 1 .. Len(found) : j <= take /\ found[j] = r
        /\ \A r \in ToSet(reader.got) : r \in ToSet(more)
        /\ \A j \in 1 .. Len(found) : j <= take => found[j] \in ToSet(more)
    BY <2>1, PageAdds
  <2> HIDE DEF more
  <2>3. QED BY <2>1, <2>2
<1>5. \A j \in 1 .. m : found[j] \notin ToSet(reader.got)
  BY <1>2, <1>3
<1>6. IsInjective(next)
  <2>1. ASSUME NEW i \in 1 .. m, NEW j \in 1 .. m, found[i] = found[j]
        PROVE  i = j
    <3>1. h[i] = h[j] BY <1>1, <1>2, <2>1
    <3>2. h[i] \in Nat /\ i \in Nat /\ j \in Nat BY <1>1, <1>2
    <3>3. QED BY <1>2, <3>1, <3>2
  <2>2. QED BY <1>1, <1>5, <2>1, PageOnce
<1> HIDE DEF n, m
<1>7. ASSUME m <= take
      PROVE  steady \subseteq ToSet(next)
  <2>1. ASSUME NEW r \in steady
        PROVE  r \in ToSet(next)
    <3>1. PICK i \in 1 .. n : table[i] = r
      BY <1>1 DEF ListingsTypeOK, ToSet
    <3>2. CASE i <= p BY <1>3, <1>4, <2>1, <3>1, <3>2
    <3>3. CASE i > p
      <4>1. PICK j \in 1 .. m : h[j] = i BY <1>1, <1>2, <1>7, <2>1, <3>1, <3>3
      <4>2. j <= take BY <1>2, <1>7
      <4>3. QED BY <1>2, <1>4, <3>1, <4>1, <4>2
    <3>4. QED BY <3>2, <3>3
  <2>2. QED BY <2>1
<1>8. ASSUME m > take
      PROVE  /\ found[take] \in shown /\ found[take] \notin ToSet(reader.got)
             /\ h[take] \in 1 .. n /\ table[h[take]] = found[take]
             /\ \A i \in 1 .. n : i > h[take] => table[i] \notin ToSet(next)
             /\ \A i \in 1 .. n :
                  i <= h[take] /\ table[i] \in steady => table[i] \in ToSet(next)
  <2>1. take \in 1 .. m
    BY <1>2, <1>8
  <2>2. h[take] \in 1 .. n /\ h[take] > p /\ \A j \in 1 .. m : h[j] \in Nat
    BY <1>1, <1>2, <2>1
  <2>3. ASSUME NEW i \in 1 .. n, i > h[take], table[i] \in ToSet(next)
        PROVE  FALSE
    <3>1. i > p BY <1>1, <2>2, <2>3
    <3>2. PICK j \in 1 .. m : j <= take /\ found[j] = table[i] BY <1>3, <1>4, <2>3, <3>1
    <3>3. h[j] = i BY <1>1, <1>2, <3>2
    <3>4. j = take \/ j < take BY <2>1, <3>2
    <3>5. h[j] <= h[take] BY <1>2, <2>1, <2>2, <3>4
    <3>6. QED BY <1>1, <2>2, <2>3, <3>3, <3>5
  <2>4. ASSUME NEW i \in 1 .. n, i <= h[take], table[i] \in steady
        PROVE  table[i] \in ToSet(next)
    <3>1. CASE i <= p BY <1>3, <1>4, <2>4, <3>1
    <3>2. CASE i > p
      <4>1. (\E j \in 1 .. m : h[j] = i) \/ (m = take + 1 /\ h[take + 1] < i)
        BY <1>1, <1>2, <2>4, <3>2
      <4>2. ~(m = take + 1 /\ h[take + 1] < i)
        <5>1. SUFFICES ASSUME m = take + 1, h[take + 1] < i PROVE FALSE OBVIOUS
        <5>2. take + 1 \in 1 .. m /\ take < take + 1 BY <2>1, <5>1
        <5>3. h[take] < h[take + 1] BY <1>2, <2>1, <5>2
        <5>4. h[take + 1] \in Nat BY <2>2, <5>2
        <5>5. QED BY <2>2, <2>4, <5>1, <5>3, <5>4
      <4>3. PICK j \in 1 .. m : h[j] = i BY <4>1, <4>2
      <4>4. j <= take
        <5>1. ~(take < j) BY <1>2, <2>1, <2>2, <2>4, <4>3
        <5>2. QED BY <2>1, <5>1
      <4>5. QED BY <1>2, <1>4, <4>3, <4>4
    <3>3. QED BY <2>2, <3>1, <3>2
  <2>5. QED BY <1>2, <1>5, <2>1, <2>2, <2>3, <2>4
<1>9. QED BY <1>1, <1>2, <1>6, <1>7, <1>8 DEF m

-----------------------------------------------------------------------------
(***************************************************************************)
(* Listings: every step keeps the invariant.                               *)
(***************************************************************************)

\* A change of the table keeps the types.
LEMMA TableTypes ==
  ASSUME ListingsTypeOK, table' \in Seq(Row), IsInjective(table'),
         ToSet(table') \subseteq 1 .. created', created' \in Nat,
         created' <= FirstRows + changes', changes' \in 0 .. MaxChanges,
         shown' \subseteq ToSet(table'), steady' \subseteq shown', strayed' \in BOOLEAN,
         granted' \in BOOLEAN, UNCHANGED <<listing, reader, listings>>
  PROVE  ListingsTypeOK'
BY DEF ListingsTypeOK

\* Position k2 of the new table parts what k parted in the old one.
Parts(k, k2) ==
  \A i \in DOMAIN table' :
    /\ i > k2 => \/ table'[i] \notin ToSet(reader.got)
                 \/ \E j \in DOMAIN table : j > k /\ table[j] = table'[i]
    /\ i <= k2 /\ table'[i] \in steady' =>
         \E j \in DOMAIN table : j <= k /\ table[j] = table'[i]

\* A change of the table for which the cursor's row still parts the rows that
\* were listed from the others keeps the invariant.
LEMMA StillMarked ==
  ASSUME ListingsInv, ListingsTypeOK', created <= created', reader' = reader,
         strayed => strayed', steady' \subseteq steady,
         \A k \in DOMAIN table :
           Reading /\ ~strayed' /\ table[k] = reader.cursor /\ table[k] \in shown =>
             /\ reader.cursor \in shown'
             /\ \E k2 \in DOMAIN table' : table'[k2] = reader.cursor /\ Parts(k, k2)
  PROVE  ListingsInv'
<1>1. Listed'
  <2>1. created \in Nat /\ created' \in Nat BY DEF ListingsInv, ListingsTypeOK
  <2>2. \A x \in 1 .. created : x \in 1 .. created' BY <2>1
  <2>3. QED BY <2>2 DEF ListingsInv, Listed
<1>2. AtFirst'
  BY DEF ListingsInv, AtFirst, Reading
<1>3. Bookmark'
  <2>1. SUFFICES ASSUME Reading, ~strayed', reader.cursor # NoCursor
                 PROVE  /\ reader.cursor \in shown'
                        /\ \E k \in DOMAIN table' :
                             table'[k] = reader.cursor /\ DoneUpTo(k)'
    BY DEF Bookmark, Reading
  <2>2. PICK k \in DOMAIN table : table[k] = reader.cursor /\ DoneUpTo(k)
    BY <2>1 DEF ListingsInv, Bookmark
  <2>3. reader.cursor \in shown
    BY <2>1 DEF ListingsInv, Bookmark
  <2>4. PICK k2 \in DOMAIN table' : table'[k2] = reader.cursor /\ Parts(k, k2)
    BY <2>1, <2>2, <2>3
  <2>5. DoneUpTo(k2)'
    <3>1. ASSUME NEW i \in DOMAIN table', i > k2
          PROVE  table'[i] \notin ToSet(reader.got)
      BY <2>2, <2>4, <3>1 DEF Parts, DoneUpTo
    <3>2. ASSUME NEW i \in DOMAIN table', i <= k2, table'[i] \in steady'
          PROVE  table'[i] \in ToSet(reader.got)
      BY <2>2, <2>4, <3>2 DEF Parts, DoneUpTo
    <3>3. QED BY <3>1, <3>2 DEF DoneUpTo
  <2>6. QED BY <2>1, <2>2, <2>3, <2>4, <2>5
<1>4. ExactUnlessStrayed'
  BY DEF ListingsInv, ExactUnlessStrayed
<1>5. QED BY <1>1, <1>2, <1>3, <1>4 DEF ListingsInv

\* The counters of a change.
LEMMA Counts ==
  ASSUME ListingsTypeOK, changes < MaxChanges, changes' = changes + 1
  PROVE  changes' \in 0 .. MaxChanges /\ created <= FirstRows + changes'
         /\ created + 1 \in Nat /\ created + 1 <= FirstRows + changes'
BY ListingsTypes

LEMMA GrowKeeps ==
  ASSUME ListingsInv, changes < MaxChanges, changes' = changes + 1, Grow,
         UNCHANGED <<listing, reader, listings, granted>>
  PROVE  ListingsInv'
<1> DEFINE n == Len(table)
           new == created + 1
<1>1. /\ ListingsTypeOK /\ n \in Nat /\ DOMAIN table = 1 .. n /\ created \in Nat
      /\ steady \subseteq shown
      /\ \A r \in shown : r \in Nat /\ r <= created
      /\ \A i \in 1 .. n : table[i] \in Nat /\ table[i] <= created
  BY ListingsTypes DEF ListingsInv
<1>2. PICK q \in 1 .. n + 1 : Enters(table', q, new)
  BY <1>1, GrowEnters
<1>3. /\ table' \in Seq(Row) /\ DOMAIN table' = 1 .. n + 1 /\ table'[q] = new
      /\ \A i \in 1 .. n + 1 : i < q => i \in 1 .. n /\ table'[i] = table[i]
      /\ \A i \in 1 .. n + 1 : i > q => i - 1 \in 1 .. n /\ table'[i] = table[i - 1]
  BY <1>1, <1>2 DEF Enters
<1>4. IsInjective(table') /\ ToSet(table') = ToSet(table) \cup {new}
  BY <1>1, <1>2, EntersKeeps
<1>5. created' = new /\ shown' = shown \cup {new} /\ strayed' = strayed /\ steady' = steady
  BY DEF Grow, history
<1>6. ListingsTypeOK'
  <2>1. changes' \in 0 .. MaxChanges /\ new \in Nat /\ new <= FirstRows + changes'
    BY <1>1, Counts
  <2>2. ToSet(table) \subseteq 1 .. created /\ shown \subseteq ToSet(table)
        /\ strayed \in BOOLEAN /\ granted \in BOOLEAN
    BY <1>1 DEF ListingsTypeOK
  <2>3. ToSet(table') \subseteq 1 .. new
    BY <1>1, <1>4, <2>2
  <2>4. shown' \subseteq ToSet(table') /\ steady' \subseteq shown'
    BY <1>1, <1>4, <1>5, <2>2
  <2> HIDE DEF new
  <2>5. QED BY <1>1, <1>3, <1>4, <1>5, <2>1, <2>2, <2>3, <2>4, TableTypes
<1>7. new \notin steady /\ new \notin ToSet(reader.got)
  BY <1>1 DEF ListingsInv, Listed
<1>8. ASSUME NEW k \in 1 .. n, table[k] = reader.cursor
      PROVE  \E k2 \in DOMAIN table' : table'[k2] = reader.cursor /\ Parts(k, k2)
  <2> DEFINE k2 == IF q <= k THEN k + 1 ELSE k
  <2> HIDE DEF new, n
  <2>1. k2 \in 1 .. n + 1 /\ table'[k2] = reader.cursor
    <3>1. CASE q <= k
      <4>1. k + 1 \in 1 .. n + 1 /\ k + 1 > q /\ (k + 1) - 1 = k BY <1>1, <3>1
      <4>2. table'[k + 1] = table[k] BY <1>3, <4>1
      <4>3. QED BY <1>8, <3>1, <4>1, <4>2
    <3>2. CASE ~(q <= k)
      <4>1. k \in 1 .. n + 1 /\ k < q BY <1>1, <3>2
      <4>2. table'[k] = table[k] BY <1>3, <4>1
      <4>3. QED BY <1>8, <3>2, <4>1, <4>2
    <3>3. QED BY <3>1, <3>2
  <2>2. ASSUME NEW i \in 1 .. n + 1
        PROVE  /\ i > k2 => \/ table'[i] \notin ToSet(reader.got)
                            \/ \E j \in 1 .. n : j > k /\ table[j] = table'[i]
               /\ i <= k2 /\ table'[i] \in steady' =>
                    \E j \in 1 .. n : j <= k /\ table[j] = table'[i]
    <3>1. CASE i = q BY <1>3, <1>5, <1>7, <3>1
    <3>2. CASE i < q
      <4>1. i \in 1 .. n /\ table'[i] = table[i] BY <1>3, <3>2
      <4>2. i > k2 => i > k BY <1>1, <3>2
      <4>3. i <= k2 => i <= k BY <1>1, <3>2
      <4>4. QED BY <4>1, <4>2, <4>3
    <3>3. CASE i > q
      <4>1. i - 1 \in 1 .. n /\ table'[i] = table[i - 1] BY <1>3, <3>3
      <4>2. i > k2 => i - 1 > k BY <1>1, <3>3
      <4>3. i <= k2 => i - 1 <= k BY <1>1, <3>3
      <4>4. QED BY <4>1, <4>2, <4>3
    <3>4. QED BY <3>1, <3>2, <3>3
  <2> HIDE DEF k2
  <2>3. Parts(k, k2) BY <1>1, <1>3, <2>2 DEF Parts
  <2>4. QED BY <1>3, <2>1, <2>3
<1>9. created <= created' BY <1>1, <1>5
<1> HIDE DEF new, n
<1>10. QED BY <1>1, <1>5, <1>6, <1>8, <1>9, StillMarked

\* The row at position p goes to the front; it is not steady any more, and is
\* not the cursor unless the reader strays.
LEMMA FrontKeeps ==
  ASSUME ListingsInv, changes < MaxChanges, changes' = changes + 1,
         NEW p \in DOMAIN table, table' = ToFront(table[p]), UNCHANGED created,
         shown' = shown \/ shown' = shown \ {table[p]}, Disturb({table[p]}),
         UNCHANGED <<listing, reader, listings, granted>>
  PROVE  ListingsInv'
<1> DEFINE n == Len(table)
           r == table[p]
<1>1. /\ ListingsTypeOK /\ n \in Nat /\ DOMAIN table = 1 .. n /\ p \in 1 .. n
      /\ created \in Nat /\ steady \subseteq shown
  BY ListingsTypes DEF ListingsInv
<1>2. /\ table' \in Seq(Row) /\ DOMAIN table' = 1 .. n /\ table'[1] = r
      /\ \A i \in 2 .. n : i <= p => table'[i] = table[i - 1]
      /\ \A i \in 2 .. n : i > p => table'[i] = table[i]
  BY <1>1, ToFrontIs
<1>3. IsInjective(table') /\ ToSet(table') = ToSet(table)
  BY <1>1, ToFrontKeeps
<1>4. /\ strayed' = (strayed \/ (Reading /\ reader.cursor = r))
      /\ steady' = steady \ {r}
  BY DEF Disturb
<1> HIDE DEF n, r
<1>5. ListingsTypeOK'
  <2>1. changes' \in 0 .. MaxChanges /\ created <= FirstRows + changes'
    BY <1>1, Counts
  <2>2. ToSet(table) \subseteq 1 .. created /\ shown \subseteq ToSet(table)
        /\ strayed \in BOOLEAN /\ granted \in BOOLEAN
    BY <1>1 DEF ListingsTypeOK
  <2>3. steady' \subseteq shown'
    BY <1>1, <1>4 DEF r
  <2>4. shown' \subseteq ToSet(table') BY <1>3, <2>2
  <2>5. strayed' \in BOOLEAN BY <1>4
  <2>6. QED BY <1>1, <1>2, <1>3, <2>1, <2>2, <2>3, <2>4, <2>5, TableTypes
<1>6. ASSUME NEW k \in 1 .. n, Reading, ~strayed', table[k] = reader.cursor
      PROVE  \E k2 \in DOMAIN table' : table'[k2] = reader.cursor /\ Parts(k, k2)
  <2> DEFINE k2 == IF p > k THEN k + 1 ELSE k
  <2>1. k # p BY <1>4, <1>6 DEF r
  <2>2. k2 \in 1 .. n /\ table'[k2] = reader.cursor
    <3>1. CASE p > k
      <4>1. k + 1 \in 2 .. n /\ k + 1 <= p /\ (k + 1) - 1 = k /\ k + 1 \in 1 .. n
        BY <1>1, <3>1
      <4>2. table'[k + 1] = table[k] BY <1>2, <4>1
      <4>3. QED BY <1>6, <3>1, <4>1, <4>2
    <3>2. CASE ~(p > k)
      <4>1. k \in 2 .. n /\ k > p BY <1>1, <2>1, <3>2
      <4>2. table'[k] = table[k] BY <1>2, <4>1
      <4>3. QED BY <1>6, <3>2, <4>1, <4>2
    <3>3. QED BY <3>1, <3>2
  <2>3. ASSUME NEW i \in 1 .. n
        PROVE  /\ i > k2 => \/ table'[i] \notin ToSet(reader.got)
                            \/ \E j \in 1 .. n : j > k /\ table[j] = table'[i]
               /\ i <= k2 /\ table'[i] \in steady' =>
                    \E j \in 1 .. n : j <= k /\ table[j] = table'[i]
    <3>1. CASE i = 1
      <4>1. ~(i > k2) BY <1>1, <3>1
      <4>2. table'[i] \notin steady' BY <1>2, <1>4, <3>1
      <4>3. QED BY <4>1, <4>2
    <3>2. CASE i # 1 /\ i <= p
      <4>1. i \in 2 .. n /\ i - 1 \in 1 .. n BY <1>1, <3>2
      <4>2. table'[i] = table[i - 1] BY <1>2, <3>2, <4>1
      <4>3. i > k2 => i - 1 > k BY <1>1, <3>2
      <4>4. i <= k2 => i - 1 <= k BY <1>1, <3>2
      <4>5. QED BY <4>1, <4>2, <4>3, <4>4
    <3>3. CASE i # 1 /\ i > p
      <4>1. i \in 2 .. n BY <1>1, <3>3
      <4>2. table'[i] = table[i] BY <1>2, <3>3, <4>1
      <4>3. i > k2 => i > k BY <1>1, <3>3
      <4>4. i <= k2 => i <= k BY <1>1, <2>1, <3>3
      <4>5. QED BY <4>2, <4>3, <4>4
    <3>4. QED BY <1>1, <3>1, <3>2, <3>3
  <2> HIDE DEF k2
  <2>4. Parts(k, k2) BY <1>1, <1>2, <2>3 DEF Parts
  <2>5. QED BY <1>2, <2>2, <2>4
<1>7. ASSUME NEW k \in 1 .. n, Reading, ~strayed', table[k] = reader.cursor,
             table[k] \in shown
      PROVE  reader.cursor \in shown'
  <2>1. reader.cursor # r
    <3>1. reader.cursor = r => strayed' BY <1>4, <1>7, Zenon
    <3>2. QED BY <1>7, <3>1
  <2>2. QED BY <1>7, <2>1 DEF r
<1>8. created <= created' /\ steady' \subseteq steady /\ (strayed => strayed')
  <2>1. strayed => strayed' BY <1>4, Zenon
  <2>2. QED BY <1>1, <1>4, <2>1
<1>9. QED BY <1>1, <1>5, <1>6, <1>7, <1>8, StillMarked

\* A row stays where it is, and is not steady any more.
LEMMA MarkKeeps ==
  ASSUME ListingsInv, changes < MaxChanges, changes' = changes + 1,
         NEW r \in ToSet(table), UNCHANGED <<table, created>>,
         shown' = shown \cup {r} \/ shown' = shown \ {r}, Disturb({r}),
         UNCHANGED <<listing, reader, listings, granted>>
  PROVE  ListingsInv'
<1>1. /\ ListingsTypeOK /\ created \in Nat /\ steady \subseteq shown
      /\ DOMAIN table = 1 .. Len(table) /\ Len(table) \in Nat
  BY ListingsTypes DEF ListingsInv
<1>2. /\ strayed' = (strayed \/ (Reading /\ reader.cursor = r))
      /\ steady' = steady \ {r}
  BY DEF Disturb
<1>3. ListingsTypeOK'
  <2>1. changes' \in 0 .. MaxChanges /\ created <= FirstRows + changes'
    BY <1>1, Counts
  <2>2. /\ ToSet(table) \subseteq 1 .. created /\ shown \subseteq ToSet(table)
        /\ strayed \in BOOLEAN /\ granted \in BOOLEAN
        /\ table \in Seq(Row) /\ IsInjective(table)
    BY <1>1 DEF ListingsTypeOK
  <2>3. steady' \subseteq shown' /\ shown' \subseteq ToSet(table)
    BY <1>1, <1>2, <2>2
  <2>4. strayed' \in BOOLEAN BY <1>2
  <2>5. table' = table /\ created' = created OBVIOUS
  <2>6. QED BY <1>1, <2>1, <2>2, <2>3, <2>4, <2>5, TableTypes
<1>4. ASSUME NEW k \in DOMAIN table, Reading, ~strayed', table[k] = reader.cursor,
             table[k] \in shown
      PROVE  /\ reader.cursor \in shown'
             /\ \E k2 \in DOMAIN table' : table'[k2] = reader.cursor /\ Parts(k, k2)
  <2>1. reader.cursor # r
    <3>1. reader.cursor = r => strayed' BY <1>2, <1>4, Zenon
    <3>2. QED BY <1>4, <3>1
  <2>2. Parts(k, k)
    BY <1>1 DEF Parts
  <2>3. QED BY <1>4, <2>1, <2>2
<1>5. created <= created' /\ steady' \subseteq steady /\ (strayed => strayed')
  <2>1. strayed => strayed' BY <1>2, Zenon
  <2>2. QED BY <1>1, <1>2, <2>1
<1>6. QED BY <1>3, <1>4, <1>5, StillMarked

\* The retention leaves the front of the table.
LEMMA AgeKeeps ==
  ASSUME ListingsInv, changes < MaxChanges, changes' = changes + 1, Age,
         UNCHANGED <<listing, reader, listings, granted>>
  PROVE  ListingsInv'
<1> DEFINE n == Len(table)
           gone == ToSet(table) \ ToSet(table')
<1>1. /\ ListingsTypeOK /\ created \in Nat /\ steady \subseteq shown
      /\ table \in Seq(Row) /\ DOMAIN table = 1 .. n /\ n \in Nat
      /\ \A i, j \in 1 .. n : table[i] = table[j] => i = j
  BY ListingsTypes DEF ListingsInv
<1>2. PICK m \in 0 .. n - 1 : table' = SubSeq(table, 1, m)
  BY DEF Age
<1>3. /\ table' \in Seq(Row) /\ DOMAIN table' = 1 .. m /\ m \in Nat /\ m <= n
      /\ \A i \in 1 .. m : i \in 1 .. n /\ table'[i] = table[i]
  BY <1>1, <1>2
<1>4. /\ strayed' = (strayed \/ (Reading /\ reader.cursor \in gone))
      /\ steady' = steady \ gone /\ shown' = shown \cap ToSet(table')
      /\ created' = created
  BY DEF Age, Disturb
<1> HIDE DEF n
<1>5. IsInjective(table') /\ ToSet(table') \subseteq ToSet(table)
  <2>1. IsInjective(table') BY <1>1, <1>3 DEF IsInjective
  <2>2. ASSUME NEW r \in ToSet(table') PROVE r \in ToSet(table)
    <3>1. PICK i \in 1 .. m : table'[i] = r BY <1>3 DEF ToSet
    <3>2. QED BY <1>1, <1>3, <3>1 DEF ToSet
  <2>3. QED BY <2>1, <2>2
<1>6. ListingsTypeOK'
  <2>1. changes' \in 0 .. MaxChanges /\ created <= FirstRows + changes'
    BY <1>1, Counts
  <2>2. /\ ToSet(table) \subseteq 1 .. created /\ shown \subseteq ToSet(table)
        /\ strayed \in BOOLEAN /\ granted \in BOOLEAN
    BY <1>1 DEF ListingsTypeOK
  <2>3. steady' \subseteq shown' /\ shown' \subseteq ToSet(table')
    BY <1>1, <1>4, <2>2
  <2>4. strayed' \in BOOLEAN BY <1>4
  <2>5. ToSet(table') \subseteq 1 .. created BY <1>5, <2>2
  <2>6. QED BY <1>1, <1>3, <1>4, <1>5, <2>1, <2>2, <2>3, <2>4, <2>5, TableTypes
<1>7. ASSUME NEW k \in DOMAIN table, Reading, ~strayed', table[k] = reader.cursor,
             table[k] \in shown
      PROVE  /\ reader.cursor \in shown'
             /\ \E k2 \in DOMAIN table' : table'[k2] = reader.cursor /\ Parts(k, k2)
  <2>1. reader.cursor \notin gone
    <3>1. reader.cursor \in gone => strayed' BY <1>4, <1>7, Zenon
    <3>2. QED BY <1>7, <3>1
  <2>2. reader.cursor \in ToSet(table') /\ reader.cursor \in shown'
    <3>1. reader.cursor \in ToSet(table) BY <1>7 DEF ToSet
    <3>2. QED BY <1>4, <1>7, <2>1, <3>1
  <2>3. PICK i \in 1 .. m : table'[i] = reader.cursor BY <1>3, <2>2 DEF ToSet
  <2>4. i = k BY <1>1, <1>3, <1>7, <2>3
  <2>5. Parts(k, k) BY <1>1, <1>3 DEF Parts
  <2>6. QED BY <1>3, <2>2, <2>3, <2>4, <2>5
<1>8. created <= created' /\ steady' \subseteq steady /\ (strayed => strayed')
  <2>1. strayed => strayed' BY <1>4, Zenon
  <2>2. QED BY <1>1, <1>4, <2>1
<1>9. QED BY <1>1, <1>6, <1>7, <1>8, StillMarked

\* What is neither of the reader nor of the rows does not matter.
LEMMA RevokeKeeps ==
  ASSUME ListingsInv, changes < MaxChanges, changes' = changes + 1, Revoke,
         UNCHANGED <<listing, reader, listings>>
  PROVE  ListingsInv'
<1>1. UNCHANGED <<table, created, shown, strayed, steady, reader, listing, listings>>
      /\ granted' = FALSE
  BY DEF Revoke, tableVars, history
<1>2. ListingsTypeOK /\ changes' \in 0 .. MaxChanges /\ created <= FirstRows + changes'
  BY Counts DEF ListingsInv
<1>3. ListingsTypeOK'
  BY <1>1, <1>2 DEF ListingsTypeOK
<1>4. Listed' /\ AtFirst' /\ Bookmark' /\ ExactUnlessStrayed'
  BY <1>1 DEF ListingsInv, Listed, AtFirst, Bookmark, DoneUpTo, ExactUnlessStrayed, Reading
<1>5. QED BY <1>3, <1>4 DEF ListingsInv

LEMMA ChangeKeeps ==
  ASSUME ListingsInv, Change
  PROVE  ListingsInv'
<1>1. /\ changes < MaxChanges /\ changes' = changes + 1
      /\ UNCHANGED <<listing, reader, listings>>
  BY DEF Change
<1>2. CASE Grow /\ UNCHANGED granted
  BY <1>1, <1>2, GrowKeeps
<1>3. CASE Age /\ UNCHANGED granted
  BY <1>1, <1>3, AgeKeeps
<1>4. ASSUME NEW r \in ToSet(table), Hide(r), UNCHANGED granted
      PROVE  ListingsInv'
  <2>1. /\ UNCHANGED created /\ Disturb({r}) /\ shown' = shown \ {r}
        /\ table' = ToFront(r) \/ table' = table
    BY <1>4 DEF Hide
  <2>2. PICK p \in DOMAIN table : table[p] = r BY DEF ToSet
  <2>3. CASE table' = table BY <1>1, <1>4, <2>1, <2>3, MarkKeeps
  <2>4. CASE table' = ToFront(r) BY <1>1, <1>4, <2>1, <2>2, <2>4, FrontKeeps
  <2>5. QED BY <2>1, <2>3, <2>4
<1>5. ASSUME NEW r \in ToSet(table), Return(r), UNCHANGED granted
      PROVE  ListingsInv'
  <2>1. UNCHANGED <<table, created>> /\ Disturb({r}) /\ shown' = shown \cup {r}
    BY <1>5 DEF Return
  <2>2. QED BY <1>1, <1>5, <2>1, MarkKeeps
<1>6. ASSUME NEW r \in ToSet(table), Move(r), UNCHANGED granted
      PROVE  ListingsInv'
  <2>1. UNCHANGED <<created, shown>> /\ Disturb({r}) /\ table' = ToFront(r)
    BY <1>6 DEF Move
  <2>2. PICK p \in DOMAIN table : table[p] = r BY DEF ToSet
  <2>3. QED BY <1>1, <1>6, <2>1, <2>2, FrontKeeps
<1>7. CASE Revoke
  BY <1>1, <1>7, RevokeKeeps
<1>8. QED BY <1>2, <1>3, <1>4, <1>5, <1>6, <1>7 DEF Change

\* A listing begins with nothing.
LEMMA BeginKeeps ==
  ASSUME ListingsInv, Begin
  PROVE  ListingsInv'
<1>1. PICK take \in Takes :
        reader' = [at |-> "asking", take |-> take, cursor |-> NoCursor, seen |-> {},
                   got |-> <<>>]
  BY DEF Begin
<1>2. /\ UNCHANGED <<listing, table, created, shown, granted, changes>>
      /\ strayed' = FALSE /\ steady' = shown
      /\ listings' = listings + 1 /\ listings < MaxListings
  BY DEF Begin, tableVars
<1>3. /\ reader'.at = "asking" /\ reader'.cursor = NoCursor /\ reader'.seen = {}
      /\ reader'.got = <<>>
  BY <1>1
<1>4. ListingsTypeOK'
  <2>1. reader' \in [at : ReaderStages, take : Takes \cup {1}, cursor : Row \cup {NoCursor},
                     seen : SUBSET Row, got : Seq(Row)]
    BY <1>1 DEF ReaderStages
  <2>2. ListingsTypeOK /\ listings' \in 0 .. MaxListings
    BY <1>2, ListingsAssumption DEF ListingsInv, ListingsTypeOK
  <2>3. QED BY <1>2, <1>3, <2>1, <2>2 DEF ListingsTypeOK
<1>5. DOMAIN reader'.got = {} BY <1>3
<1>6. Listed' /\ AtFirst' /\ Bookmark' /\ ExactUnlessStrayed'
  BY <1>3, <1>5 DEF Listed, AtFirst, Bookmark, ExactUnlessStrayed, IsInjective, ToSet
<1>7. QED BY <1>4, <1>6 DEF ListingsInv

\* The check of the caller's role, and a failure, only change the stage.
LEMMA StageKeeps ==
  ASSUME ListingsInv, Reading, NEW stage \in {"granted", "refused", "failed"},
         reader' = [reader EXCEPT !.at = stage],
         UNCHANGED <<listing, tableVars, granted, history, changes, listings>>
  PROVE  ListingsInv'
<1>1. UNCHANGED <<listing, table, created, shown, granted, strayed, steady, changes, listings>>
  BY DEF tableVars, history
<1>2. ListingsTypeOK BY DEF ListingsInv
<1>3. /\ reader'.at = stage /\ reader'.cursor = reader.cursor /\ reader'.seen = reader.seen
      /\ reader'.got = reader.got
      /\ reader' \in [at : ReaderStages, take : Takes \cup {1}, cursor : Row \cup {NoCursor},
                      seen : SUBSET Row, got : Seq(Row)]
  BY <1>2, ReaderTypes DEF ReaderStages, Ended
<1>4. ListingsTypeOK'
  BY <1>1, <1>2, <1>3 DEF ListingsTypeOK
<1>5. Listed' /\ AtFirst' /\ Bookmark' /\ ExactUnlessStrayed'
  BY <1>1, <1>3 DEF ListingsInv, Listed, AtFirst, Bookmark, DoneUpTo, ExactUnlessStrayed,
     Reading
<1>6. QED BY <1>4, <1>5 DEF ListingsInv

\* A page: the reader is done with the rows up to its cursor, and then with
\* those up to the next one.
LEMMA AnswerKeeps ==
  ASSUME ListingsInv, Answer
  PROVE  ListingsInv'
<1> DEFINE found == FindMany(reader.cursor, reader.take)
           take == reader.take
           next == NextCursor(found, take)
           got == WithPage(reader.got, found, take)
<1>1. UNCHANGED <<listing, table, created, shown, granted, strayed, steady, changes, listings>>
  BY DEF Answer, tableVars, history
<1>2. /\ reader.at = "granted" /\ Reading /\ reader'.cursor = next
      /\ reader'.got = got /\ reader'.take = take
      /\ reader'.seen = reader.seen \cup (IF next = NoCursor THEN {} ELSE {next})
      /\ reader'.at \in {"done", "invalid", "asking"}
      /\ next = NoCursor <=> reader'.at = "done"
      /\ reader'.at = "invalid" => next \in reader.seen
      /\ reader' = [at |-> reader'.at, take |-> take, cursor |-> next,
                    seen |-> reader'.seen, got |-> got]
  <2> DEFINE ended == IF next = NoCursor THEN "done"
                      ELSE IF listing.watched /\ next \in reader.seen THEN "invalid"
                      ELSE "asking"
             seen == reader.seen \cup (IF next = NoCursor THEN {} ELSE {next})
  <2>1. /\ reader.at = "granted"
        /\ reader' = [at |-> ended, take |-> take, cursor |-> next, seen |-> seen,
                      got |-> got]
    BY DEF Answer, WithPage
  <2>2. /\ ended \in {"done", "invalid", "asking"}
        /\ next = NoCursor <=> ended = "done"
        /\ ended = "invalid" => next \in reader.seen
    <3> HIDE DEF next
    <3>1. QED OBVIOUS
  <2> HIDE DEF ended, seen, next, got, take
  <2>3. /\ reader'.at = ended /\ reader'.cursor = next /\ reader'.got = got
        /\ reader'.take = take /\ reader'.seen = seen
    BY <2>1
  <2>4. Reading BY <2>1 DEF Reading, Ended
  <2>5. QED BY <2>1, <2>2, <2>3, <2>4 DEF seen
<1>3. /\ ListingsTypeOK /\ take \in Nat /\ take >= 1 /\ take \in Takes \cup {1}
      /\ reader.cursor \in Row \cup {NoCursor} /\ reader.got \in Seq(Row)
      /\ reader.seen \in SUBSET Row /\ reader.seen \subseteq ToSet(reader.got)
      /\ reader.cursor # NoCursor => reader.cursor \in reader.seen
  BY ReaderTypes DEF ListingsInv
<1>4. table \in Seq(Row) /\ created \in Nat /\ ToSet(table) \subseteq 1 .. created
  BY <1>3 DEF ListingsTypeOK
<1>5. /\ found \in Seq(Row) /\ Len(found) <= take + 1
      /\ \A j \in DOMAIN found : found[j] \in ToSet(table)
  BY <1>3, <1>4, PageTypes
<1> HIDE DEF found, take
<1>6. /\ got \in Seq(Row)
      /\ \A r \in ToSet(got) :
           r \in ToSet(reader.got) \/ \E j \in 1 .. Len(found) : j <= take /\ found[j] = r
      /\ \A r \in ToSet(reader.got) : r \in ToSet(got)
      /\ \A j \in 1 .. Len(found) : j <= take => found[j] \in ToSet(got)
  BY <1>3, <1>5, PageAdds
<1>7. /\ Len(found) > take => next = found[take] /\ take \in 1 .. Len(found)
      /\ ~(Len(found) > take) => next = NoCursor
  BY <1>3, <1>5 DEF NextCursor
<1> HIDE DEF next, got
<1>8. next # NoCursor => next \in Row /\ next \in ToSet(got)
  BY <1>3, <1>5, <1>6, <1>7
<1>9. ListingsTypeOK'
  <2>1. reader'.seen \in SUBSET Row /\ reader'.seen \subseteq ToSet(got)
    BY <1>2, <1>3, <1>6, <1>8
  <2>2. reader'.at \in ReaderStages BY <1>2 DEF ReaderStages, Ended
  <2>3. next \in Row \cup {NoCursor} BY <1>8
  <2>4. next \in reader'.seen \cup {NoCursor} BY <1>2
  <2>5. reader' \in [at : ReaderStages, take : Takes \cup {1}, cursor : Row \cup {NoCursor},
                     seen : SUBSET Row, got : Seq(Row)]
    BY <1>2, <1>3, <1>6, <2>1, <2>2, <2>3
  <2>6. QED BY <1>1, <1>2, <1>3, <2>1, <2>4, <2>5 DEF ListingsTypeOK
<1>10. ToSet(got) \subseteq 1 .. created
  <2>1. \A r \in ToSet(reader.got) : r \in 1 .. created
    BY DEF ListingsInv, Listed
  <2>2. \A j \in 1 .. Len(found) : found[j] \in 1 .. created
    BY <1>4, <1>5
  <2>3. QED BY <1>6, <2>1, <2>2
\* Where the reader is, and what that means for the page.
<1>11. ASSUME ~strayed
       PROVE  /\ IsInjective(got)
              /\ Len(found) <= take => steady \subseteq ToSet(got)
              /\ Len(found) > take =>
                   /\ found[take] \in shown /\ found[take] \notin ToSet(reader.got)
                   /\ \E k \in DOMAIN table :
                        /\ table[k] = found[take]
                        /\ \A i \in DOMAIN table : i > k => table[i] \notin ToSet(got)
                        /\ \A i \in DOMAIN table :
                             i <= k /\ table[i] \in steady => table[i] \in ToSet(got)
  <2>1. IsInjective(reader.got) BY <1>11 DEF ListingsInv, Listed
  <2>2. PICK p \in Nat : DoneUpTo(p) /\ \E h : PageFrom(found, h, p, take)
    <3>1. CASE reader.cursor = NoCursor
      <4>1. reader.got = <<>> BY <1>2, <3>1 DEF ListingsInv, AtFirst
      <4>2. ToSet(reader.got) = {} BY <4>1 DEF ToSet
      <4>3. DoneUpTo(0) BY <1>4, <4>2 DEF DoneUpTo
      <4>4. \E h : PageFrom(found, h, 0, take)
        BY <1>3, <1>4, <3>1, FirstPage DEF found, take
      <4>5. QED BY <4>3, <4>4
    <3>2. CASE reader.cursor # NoCursor
      <4>1. PICK k \in DOMAIN table : table[k] = reader.cursor /\ DoneUpTo(k)
        BY <1>2, <1>11, <3>2 DEF ListingsInv, Bookmark
      <4>2. reader.cursor \in shown
        BY <1>2, <1>11, <3>2 DEF ListingsInv, Bookmark
      <4>3. IsInjective(table) BY <1>3 DEF ListingsTypeOK
      <4>4. \E h : PageFrom(FindMany(table[k], take), h, k, take)
        BY <1>3, <1>4, <3>2, <4>1, <4>2, <4>3, PageBehind
      <4>5. k \in Nat BY <1>4
      <4>6. QED BY <4>1, <4>4, <4>5 DEF found, take
    <3>3. QED BY <3>1, <3>2
  <2>3. PICK h : PageFrom(found, h, p, take) BY <2>2
  <2>4. QED BY <1>3, <1>5, <2>1, <2>2, <2>3, PageExact DEF got
<1>12. Len(found) \in Nat BY <1>5
<1>13. Listed' BY <1>1, <1>2, <1>10, <1>11 DEF Listed
<1>14. AtFirst' BY <1>2 DEF AtFirst, Reading, Ended
<1>15. Bookmark'
  <2>1. SUFFICES ASSUME ~strayed, next # NoCursor
                 PROVE  next \in shown /\ \E k \in DOMAIN table :
                          /\ table[k] = next
                          /\ \A i \in DOMAIN table : i > k => table[i] \notin ToSet(got)
                          /\ \A i \in DOMAIN table :
                               i <= k /\ table[i] \in steady => table[i] \in ToSet(got)
    BY <1>1, <1>2 DEF Bookmark, DoneUpTo
  <2>2. Len(found) > take /\ next = found[take] BY <1>7, <2>1
  <2>3. QED BY <1>11, <2>1, <2>2
<1>16. ExactUnlessStrayed'
  <2>1. SUFFICES ASSUME ~strayed
                 PROVE  /\ IsInjective(got)
                        /\ reader'.at = "done" => steady \subseteq ToSet(got)
                        /\ reader'.at # "invalid"
    BY <1>1, <1>2 DEF ExactUnlessStrayed
  <2>2. ASSUME reader'.at = "done" PROVE steady \subseteq ToSet(got)
    <3>1. next = NoCursor BY <1>2, <2>2
    <3>2. ~(Len(found) > take)
      <4>1. Len(found) > take => next \in Row
        BY <1>5, <1>7
      <4>2. NoCursor \notin Row BY ListingsAssumption DEF NoCursor, Row
      <4>3. QED BY <3>1, <4>1, <4>2
    <3>3. QED BY <1>3, <1>11, <1>12, <2>1, <3>2
  <2>3. ASSUME reader'.at = "invalid" PROVE FALSE
    <3>1. next \in reader.seen /\ next # NoCursor BY <1>2, <2>3
    <3>2. Len(found) > take /\ next = found[take] BY <1>7, <3>1
    <3>3. QED BY <1>3, <1>11, <2>1, <3>1, <3>2
  <2>4. QED BY <1>11, <2>1, <2>2, <2>3
<1>17. QED BY <1>9, <1>13, <1>14, <1>15, <1>16 DEF ListingsInv

LEMMA ListingsStart == ListingsInit => ListingsInv
<1> SUFFICES ASSUME ListingsInit PROVE ListingsInv
  OBVIOUS
<1>1. /\ listing \in Listing /\ created = FirstRows /\ shown = 1 .. FirstRows
      /\ granted = TRUE /\ strayed = FALSE /\ steady = {} /\ changes = 0 /\ listings = 0
      /\ reader = [at |-> "idle", take |-> 1, cursor |-> NoCursor, seen |-> {},
                   got |-> <<>>]
  BY DEF ListingsInit
<1>2. PICK front \in BOOLEAN : table = [i \in 1 .. FirstRows |->
                                 IF front THEN FirstRows + 1 - i ELSE i]
  <2>1. CASE listing.grows = "front" BY <2>1 DEF ListingsInit
  <2>2. CASE listing.grows # "front" BY <2>2 DEF ListingsInit
  <2>3. QED BY <2>1, <2>2
<1>3. FirstRows \in Nat /\ MaxChanges \in Nat /\ MaxListings \in Nat
  BY ListingsAssumption
<1>4. \A i \in 1 .. FirstRows :
        /\ i \in 1 .. FirstRows + MaxChanges
        /\ FirstRows + 1 - i \in 1 .. FirstRows
        /\ FirstRows + 1 - i \in 1 .. FirstRows + MaxChanges
        /\ FirstRows + 1 - (FirstRows + 1 - i) = i
  BY <1>3
<1>5. table \in Seq(Row) /\ DOMAIN table = 1 .. FirstRows
  <2>1. \A i \in 1 .. FirstRows : (IF front THEN FirstRows + 1 - i ELSE i) \in Row
    BY <1>4 DEF Row
  <2>2. QED BY <1>2, <1>3, <2>1
<1>6. IsInjective(table)
  BY <1>2, <1>3, <1>5 DEF IsInjective
<1>7. ToSet(table) = 1 .. FirstRows
  <2>1. \A r \in ToSet(table) : r \in 1 .. FirstRows
    BY <1>2, <1>4, <1>5 DEF ToSet
  <2>2. ASSUME NEW r \in 1 .. FirstRows PROVE r \in ToSet(table)
    <3>1. CASE front
      <4>1. table[FirstRows + 1 - r] = r BY <1>2, <1>4, <3>1
      <4>2. QED BY <1>4, <1>5, <4>1 DEF ToSet
    <3>2. CASE ~front
      <4>1. table[r] = r BY <1>2, <3>2
      <4>2. QED BY <1>5, <4>1 DEF ToSet
    <3>3. QED BY <3>1, <3>2
  <2>3. QED BY <2>1, <2>2
<1>8. /\ reader.at = "idle" /\ reader.cursor = NoCursor /\ reader.seen = {}
      /\ reader.got = <<>>
      /\ reader \in [at : ReaderStages, take : Takes \cup {1}, cursor : Row \cup {NoCursor},
                     seen : SUBSET Row, got : Seq(Row)]
  BY <1>1 DEF ReaderStages, Ended
<1>9. ListingsTypeOK
  <2>1. created \in Nat /\ created <= FirstRows + changes
        /\ changes \in 0 .. MaxChanges /\ listings \in 0 .. MaxListings
    BY <1>1, <1>3
  <2>2. shown \subseteq ToSet(table) /\ ToSet(table) \subseteq 1 .. created
        /\ steady \subseteq shown
    BY <1>1, <1>7
  <2>3. QED BY <1>1, <1>5, <1>6, <1>8, <2>1, <2>2 DEF ListingsTypeOK
<1>10. DOMAIN reader.got = {} BY <1>8
<1>11. Listed /\ AtFirst /\ Bookmark /\ ExactUnlessStrayed
  BY <1>1, <1>8, <1>10 DEF Listed, AtFirst, Bookmark, ExactUnlessStrayed, IsInjective,
     ToSet, Reading, Ended
<1>12. QED BY <1>9, <1>11 DEF ListingsInv

LEMMA ListingsStep == ListingsInv /\ [ListingsNext]_listingsVars => ListingsInv'
<1> SUFFICES ASSUME ListingsInv, [ListingsNext]_listingsVars PROVE ListingsInv'
  OBVIOUS
<1>1. CASE Change BY <1>1, ChangeKeeps
<1>2. CASE Begin BY <1>2, BeginKeeps
<1>3. CASE Check
  <2>1. Reading BY <1>3 DEF Check, Reading, Ended
  <2>2. PICK stage \in {"granted", "refused", "failed"} :
          reader' = [reader EXCEPT !.at = stage]
    BY <1>3 DEF Check
  <2>3. UNCHANGED <<listing, tableVars, granted, history, changes, listings>>
    BY <1>3 DEF Check
  <2>4. QED BY <2>1, <2>2, <2>3, StageKeeps
<1>4. CASE Answer BY <1>4, AnswerKeeps
<1>5. CASE Fail
  <2>1. /\ Reading /\ reader' = [reader EXCEPT !.at = "failed"]
        /\ UNCHANGED <<listing, tableVars, granted, history, changes, listings>>
    BY <1>5 DEF Fail
  <2>2. QED BY <2>1, StageKeeps
<1>6. CASE UNCHANGED listingsVars
  BY <1>6 DEF listingsVars, tableVars, history, ListingsInv, ListingsTypeOK, Listed, AtFirst,
     Bookmark, DoneUpTo, ExactUnlessStrayed, Reading
<1>7. QED BY <1>1, <1>2, <1>3, <1>4, <1>5, <1>6 DEF ListingsNext

LEMMA ListingsInvariant == ListingsSpec => []ListingsInv
BY ListingsStart, ListingsStep, PTL DEF ListingsSpec

\* The variables of Listings keep their types.
THEOREM ListingsTypeCorrect == ListingsSpec => []ListingsTypeOK
<1>1. ListingsInv => ListingsTypeOK BY DEF ListingsInv
<1>2. QED BY <1>1, ListingsInvariant, PTL

\* However rows come, go and move between the pages of a listing: unless the
\* cursor's own row changed while the client held it, no row is listed twice,
\* a complete listing holds every row that was there all the time, and none is
\* given up for a cursor that came before.
THEOREM ListingsAreExact == ListingsSpec => []ExactUnlessStrayed
<1>1. ListingsInv => ExactUnlessStrayed BY DEF ListingsInv
<1>2. QED BY <1>1, ListingsInvariant, PTL
=============================================================================
