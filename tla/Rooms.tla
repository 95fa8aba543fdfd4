------------------------------- MODULE Rooms -------------------------------
(***************************************************************************)
(* The room aggregate of the server: rooms, memberships and join requests  *)
(* in PostgreSQL, and the HTTP handlers of RoomsService/RoomsController    *)
(* that change them.                                                       *)
(*                                                                         *)
(* Any number of API instances run the handlers, so every database         *)
(* statement of a handler that is not inside one transaction is a step of  *)
(* its own and other handlers run between two steps.  A transaction whose  *)
(* statements only write rows it has locked is one step, taken at commit;  *)
(* decideJoinRequest reads before it writes, at READ COMMITTED, so that    *)
(* read is a separate step.  A check that fails before anything was        *)
(* written answers an error and changes nothing: a first check is then the *)
(* guard of the step, a later one frees the call.                          *)
(*                                                                         *)
(* One tenant is modelled: every query filters on the caller's appId.      *)
(***************************************************************************)
EXTENDS Naturals, FiniteSets

CONSTANTS
  Room,        \* room ids
  User,        \* tenant users
  Request,     \* ids of join requests, each used for one request
  Call,        \* HTTP requests that can be in flight at the same time
  None,        \* no room, user or request
  MaxVersion,  \* bound on rooms.version, for each room
  MayCrash     \* whether an API instance may die with calls in flight

ASSUME RoomsAssumption ==
  /\ None \notin Room \cup User \cup Request
  /\ MaxVersion \in [Room -> Nat]
  /\ MayCrash \in BOOLEAN

VARIABLES
  roomState,   \* rooms.deletedAt: absent until created, then live, then deleted
  version,     \* rooms.version
  role,        \* room_memberships: role of a user in a room, NONE without a row
  request,     \* join_requests
  call         \* progress of the handlers in flight

vars == <<roomState, version, role, request, call>>

Roles    == {"NONE", "MEMBER", "OWNER"}
Statuses == {"PENDING", "APPROVED", "REJECTED", "CANCELLED"}
Decided  == Statuses \ {"PENDING"}
Verdicts == {"APPROVED", "REJECTED"}
Ops      == {"join", "cancel", "decide", "remove", "leave", "transfer", "delete"}

(***************************************************************************)
(* Where a call is: "checked" after its first check, "notMember" and       *)
(* "nonePending" inside requestJoin, "read" when the rows it will write    *)
(* have been read, "committed" after its transaction, "cleaned" after      *)
(* presence.removeUser, "announcing" when only the realtime publications   *)
(* and the eviction are left, "failing" when an exception after the commit *)
(* is on its way to the error answer.                                      *)
(***************************************************************************)
Stages == {"idle", "checked", "notMember", "nonePending", "read",
           "committed", "cleaned", "announcing", "failing"}

CallState ==
  [op: Ops \cup {"none"}, at: Stages, room: Room \cup {None},
   actor: User \cup {None}, subject: User \cup {None},
   req: Request \cup {None}, verdict: Verdicts, listed: SUBSET User]

IdleCall == [op |-> "none", at |-> "idle", room |-> None, actor |-> None,
             subject |-> None, req |-> None, verdict |-> "REJECTED",
             listed |-> {}]

NoRequest == [status |-> "ABSENT", room |-> None, user |-> None]

Init ==
  /\ roomState = [r \in Room |-> "absent"]
  /\ version   = [r \in Room |-> 0]
  /\ role      = [r \in Room |-> [u \in User |-> "NONE"]]
  /\ request   = [q \in Request |-> NoRequest]
  /\ call      = [c \in Call |-> IdleCall]

(***************************************************************************)
(* Reads and constraints.                                                  *)
(***************************************************************************)

\* Fault: the membership query does not look at deletedAt.
IsMemberEvenIfDeleted(r, u) == roomState[r] # "absent" /\ role[r][u] # "NONE"

\* isMember and requireMember: the query joins rooms with deletedAt null.
IsMember(r, u) == roomState[r] = "live" /\ role[r][u] # "NONE"

\* requireOwner.
RequireOwner(r, u) == IsMember(r, u) /\ role[r][u] = "OWNER"

\* Fault: the query does not filter on the status.
PendingInAnyStatus(q, r, u) == request[q].room = r /\ request[q].user = u

Pending(q, r, u) ==
  request[q].status = "PENDING" /\ request[q].room = r /\ request[q].user = u

HasPending(r, u) == \E q \in Request : Pending(q, r, u)

\* Fault: the migration with the constraint triggers is missing.
NoOwnerTrigger(rowsOfRoom) == TRUE

\* The deferred constraint trigger on rooms and room_memberships.
AssertExactlyOneOwner(rowsOfRoom) ==
  \E u \in User : \A v \in User : rowsOfRoom[v] = "OWNER" <=> v = u

\* The unique index room_one_owner, checked by every statement.
RoomOneOwner(rowsOfRoom) ==
  \A u, v \in User : rowsOfRoom[u] = "OWNER" /\ rowsOfRoom[v] = "OWNER" => u = v

\* A transaction that leaves rowsOfRoom in room r can commit.
CanCommit(rowsOfRoom) ==
  RoomOneOwner(rowsOfRoom) /\ AssertExactlyOneOwner(rowsOfRoom)

\* Fault: the partial unique index is missing.
NoPendingIndex(r, u) == TRUE

\* The unique index join_requests_one_pending lets one more request in.
OnePendingIndex(r, u) == ~HasPending(r, u)

(***************************************************************************)
(* Bookkeeping of the calls in flight.                                     *)
(***************************************************************************)
At(c, op, stage) == call[c].op = op /\ call[c].at = stage

InFlight(c) == call[c].op # "none"

Advance(c, stage) == call' = [call EXCEPT ![c].at = stage]

Finish(c) == call' = [call EXCEPT ![c] = IdleCall]

\* Accepts a call; MaxVersion bounds the commits a room can still take.
Accept(c, fields) ==
  /\ ~InFlight(c)
  /\ version[fields.room]
       + Cardinality({d \in Call : call[d].room = fields.room})
         < MaxVersion[fields.room]
  /\ call' = [call EXCEPT ![c] = fields]

NewCall(op, stage, r, u) ==
  [op |-> op, at |-> stage, room |-> r, actor |-> u, subject |-> None,
   req |-> None, verdict |-> "REJECTED", listed |-> {}]

\* The writes of a transaction on the memberships of room r: every one of
\* them also increments rooms.version.
CommitRoom(r, rowsOfRoom) ==
  /\ CanCommit(rowsOfRoom)
  /\ role' = [role EXCEPT ![r] = rowsOfRoom]
  /\ version' = [version EXCEPT ![r] = @ + 1]

(***************************************************************************)
(* POST /rooms: the room and its owner in one transaction.                 *)
(***************************************************************************)
CreateRoom(u, r) ==
  /\ roomState[r] = "absent"
  /\ roomState' = [roomState EXCEPT ![r] = "live"]
  /\ version' = [version EXCEPT ![r] = 1]
  /\ role' = [role EXCEPT ![r] = [v \in User |-> IF v = u THEN "OWNER" ELSE "NONE"]]
  /\ UNCHANGED <<request, call>>

(***************************************************************************)
(* POST /rooms/:id/join-requests                                           *)
(***************************************************************************)
\* Every request id is used once: a bound on the requests ever made.
RequestIdsLeft ==
  Cardinality({d \in Call : call[d].op = "join" /\ call[d].at # "committed"})
    < Cardinality({q \in Request : request[q].status = "ABSENT"})

RequestJoin(c, u, r) ==
  /\ roomState[r] = "live"
  /\ RequestIdsLeft
  /\ Accept(c, NewCall("join", "checked", r, u))
  /\ UNCHANGED <<roomState, version, role, request>>

JoinCheckMember(c) ==
  /\ At(c, "join", "checked")
  /\ IF IsMember(call[c].room, call[c].actor)
       THEN Finish(c)                                     \* 409
       ELSE Advance(c, "notMember")
  /\ UNCHANGED <<roomState, version, role, request>>

JoinFindPending(c) ==
  /\ At(c, "join", "notMember")
  /\ IF HasPending(call[c].room, call[c].actor)
       THEN Finish(c)                                     \* returns it
       ELSE Advance(c, "nonePending")
  /\ UNCHANGED <<roomState, version, role, request>>

JoinCreate(c, q) ==
  /\ At(c, "join", "nonePending")
  /\ request[q].status = "ABSENT"
  /\ OnePendingIndex(call[c].room, call[c].actor)
  /\ request' = [request EXCEPT ![q] =
       [status |-> "PENDING", room |-> call[c].room, user |-> call[c].actor]]
  /\ Advance(c, "committed")
  /\ UNCHANGED <<roomState, version, role>>

\* P2002: the concurrent request is returned, or the error when it is decided.
JoinCreateConflict(c) ==
  /\ At(c, "join", "nonePending")
  /\ ~OnePendingIndex(call[c].room, call[c].actor)
  /\ Finish(c)
  /\ UNCHANGED <<roomState, version, role, request>>

\* ownerUserId, then join-request.created to that user; 404 without an owner.
JoinAnnounce(c) ==
  /\ At(c, "join", "committed")
  /\ Finish(c)
  /\ UNCHANGED <<roomState, version, role, request>>

(***************************************************************************)
(* DELETE /rooms/:id/join-requests: the update is by id alone, so it       *)
(* overwrites whatever status the request has by then.                     *)
(***************************************************************************)
CancelJoinRequest(c, u, r, q) ==
  /\ Pending(q, r, u)
  /\ Accept(c, [NewCall("cancel", "read", r, u) EXCEPT !.req = q])
  /\ UNCHANGED <<roomState, version, role, request>>

CancelCommit(c) ==
  /\ At(c, "cancel", "read")
  /\ request' = [request EXCEPT ![call[c].req].status = "CANCELLED"]
  /\ Finish(c)
  /\ UNCHANGED <<roomState, version, role>>

(***************************************************************************)
(* PATCH /rooms/:id/join-requests/:requestId                               *)
(***************************************************************************)
DecideJoinRequest(c, u, r, q, verdict) ==
  /\ RequireOwner(r, u)
  /\ request[q].status # "ABSENT"                         \* a listed request
  /\ Accept(c, [NewCall("decide", "checked", r, u) EXCEPT !.req = q, !.verdict = verdict])
  /\ UNCHANGED <<roomState, version, role, request>>

\* Fault: the request is looked up by id without the room of the route.
DecideFindAnyRoom(c) ==
  LET q == call[c].req
  IN  /\ At(c, "decide", "checked")
      /\ IF request[q].status = "PENDING" THEN Advance(c, "read") ELSE Finish(c)
      /\ UNCHANGED <<roomState, version, role, request>>

DecideFindPending(c) ==
  LET q == call[c].req
  IN  /\ At(c, "decide", "checked")
      /\ IF request[q].status = "PENDING" /\ request[q].room = call[c].room
           THEN Advance(c, "read")
           ELSE Finish(c)                                 \* 404
      /\ UNCHANGED <<roomState, version, role, request>>

\* The membership upsert: a row that exists keeps its role.
Admit(rowsOfRoom, u) ==
  [rowsOfRoom EXCEPT ![u] = IF @ = "NONE" THEN "MEMBER" ELSE @]

\* Fault: the membership is written whatever the decision is.
DecideAdmitsAlways(c) ==
  LET q == call[c].req
      r == call[c].room
  IN  /\ At(c, "decide", "read")
      /\ request' = [request EXCEPT ![q].status = call[c].verdict]
      /\ CommitRoom(r, Admit(role[r], request[q].user)) /\ Advance(c, "committed")
      /\ UNCHANGED roomState

DecideCommit(c) ==
  LET q == call[c].req
      r == call[c].room
  IN  /\ At(c, "decide", "read")
      /\ request' = [request EXCEPT ![q].status = call[c].verdict]
      /\ IF call[c].verdict = "APPROVED"
           THEN CommitRoom(r, Admit(role[r], request[q].user)) /\ Advance(c, "committed")
           ELSE Finish(c) /\ UNCHANGED <<role, version>>
      /\ UNCHANGED roomState

(***************************************************************************)
(* DELETE /rooms/:id/members/:userId and DELETE /rooms/:id/members/me      *)
(***************************************************************************)
RemoveMember(c, u, r, target) ==
  /\ RequireOwner(r, u)
  /\ Accept(c, [NewCall("remove", "checked", r, u) EXCEPT !.subject = target])
  /\ UNCHANGED <<roomState, version, role, request>>

RemoveFindTarget(c) ==
  /\ At(c, "remove", "checked")
  /\ IF role[call[c].room][call[c].subject] = "MEMBER"
       THEN Advance(c, "read")
       ELSE Finish(c)                                     \* 404, 409 for the owner
  /\ UNCHANGED <<roomState, version, role, request>>

Leave(c, u, r) ==
  /\ IsMember(r, u)
  /\ role[r][u] # "OWNER"                                 \* 409 for the owner
  /\ Accept(c, [NewCall("leave", "read", r, u) EXCEPT !.subject = u])
  /\ UNCHANGED <<roomState, version, role, request>>

Departing(c) == At(c, "remove", "read") \/ At(c, "leave", "read")

WithoutMember(rowsOfRoom, u) == [rowsOfRoom EXCEPT ![u] = "NONE"]

DepartCommit(c) ==
  LET r == call[c].room
  IN  /\ Departing(c)
      /\ role[r][call[c].subject] # "NONE"
      /\ CommitRoom(r, WithoutMember(role[r], call[c].subject))
      /\ Advance(c, "committed")
      /\ UNCHANGED <<roomState, request>>

\* P2025 when the row is gone, 23514 when the target became the owner.
DepartAbort(c) ==
  LET r == call[c].room
  IN  /\ Departing(c)
      /\ \/ role[r][call[c].subject] = "NONE"
         \/ ~CanCommit(WithoutMember(role[r], call[c].subject))
      /\ Finish(c)
      /\ UNCHANGED <<roomState, version, role, request>>

(***************************************************************************)
(* PUT /rooms/:id/owner (a transfer to oneself only reads)                 *)
(***************************************************************************)
TransferOwnership(c, u, r, target) ==
  /\ RequireOwner(r, u)
  /\ target # u
  /\ Accept(c, [NewCall("transfer", "checked", r, u) EXCEPT !.subject = target])
  /\ UNCHANGED <<roomState, version, role, request>>

TransferFindTarget(c) ==
  /\ At(c, "transfer", "checked")
  /\ IF role[call[c].room][call[c].subject] # "NONE"
       THEN Advance(c, "read")
       ELSE Finish(c)                                     \* 404
  /\ UNCHANGED <<roomState, version, role, request>>

HandOver(rowsOfRoom, from, to) ==
  [rowsOfRoom EXCEPT ![from] = "MEMBER", ![to] = "OWNER"]

BothMembers(c) ==
  /\ role[call[c].room][call[c].actor] # "NONE"
  /\ role[call[c].room][call[c].subject] # "NONE"

\* Fault: the transfer forgets to increment rooms.version.
TransferKeepsVersion(c) ==
  LET r == call[c].room
  IN  /\ At(c, "transfer", "read")
      /\ BothMembers(c)
      /\ CanCommit(HandOver(role[r], call[c].actor, call[c].subject))
      /\ role' = [role EXCEPT ![r] = HandOver(@, call[c].actor, call[c].subject)]
      /\ Advance(c, "committed")
      /\ UNCHANGED <<roomState, version, request>>

TransferCommit(c) ==
  LET r == call[c].room
  IN  /\ At(c, "transfer", "read")
      /\ BothMembers(c)
      /\ CommitRoom(r, HandOver(role[r], call[c].actor, call[c].subject))
      /\ Advance(c, "committed")
      /\ UNCHANGED <<roomState, request>>

\* P2025 when a row is gone, P2002 when somebody else owns the room by now.
TransferAbort(c) ==
  LET r == call[c].room
  IN  /\ At(c, "transfer", "read")
      /\ \/ ~BothMembers(c)
         \/ ~CanCommit(HandOver(role[r], call[c].actor, call[c].subject))
      /\ Finish(c)
      /\ UNCHANGED <<roomState, version, role, request>>

(***************************************************************************)
(* DELETE /rooms/:id: a soft delete, the memberships stay.                 *)
(***************************************************************************)
DeleteRoom(c, u, r) ==
  /\ RequireOwner(r, u)
  /\ Accept(c, NewCall("delete", "checked", r, u))
  /\ UNCHANGED <<roomState, version, role, request>>

DeleteReadMembers(c) ==
  /\ At(c, "delete", "checked")
  /\ call' = [call EXCEPT ![c].at = "read",
                          ![c].listed = {u \in User : role[call[c].room][u] # "NONE"}]
  /\ UNCHANGED <<roomState, version, role, request>>

DeleteCommit(c) ==
  LET r == call[c].room
  IN  /\ At(c, "delete", "read")
      /\ roomState' = [roomState EXCEPT ![r] = "deleted"]
      /\ CommitRoom(r, role[r])
      /\ Advance(c, "committed")
      /\ UNCHANGED request

(***************************************************************************)
(* What follows a commit.                                                  *)
(***************************************************************************)

\* Fault: leave answers as soon as the presence is removed.
CleanPresenceEndsLeave(c) ==
  /\ call[c].op \in {"remove", "leave", "delete"}
  /\ call[c].at = "committed"
  /\ IF call[c].op = "leave"
       THEN Finish(c)
       ELSE Advance(c, IF call[c].op = "delete" THEN "announcing" ELSE "cleaned")
  /\ UNCHANGED <<roomState, version, role, request>>

\* presence.removeUser, for the subject or for every listed member.
CleanPresence(c) ==
  /\ call[c].op \in {"remove", "leave", "delete"}
  /\ call[c].at = "committed"
  /\ Advance(c, IF call[c].op = "delete" THEN "announcing" ELSE "cleaned")
  /\ UNCHANGED <<roomState, version, role, request>>

NeedsSnapshot(c) ==
  \/ call[c].op \in {"remove", "leave"} /\ call[c].at = "cleaned"
  \/ call[c].op \in {"decide", "transfer"} /\ call[c].at = "committed"

\* The snapshot of the room; without one the handler answers 404 (a decision
\* is answered normally) and neither evicts nor publishes anything more.
TakeSnapshot(c) ==
  /\ NeedsSnapshot(c)
  /\ IF roomState[call[c].room] = "live" THEN Advance(c, "announcing") ELSE Finish(c)
  /\ UNCHANGED <<roomState, version, role, request>>

\* removeUser (Redis) or the snapshot (PostgreSQL) throws: the transaction
\* stands, but the exception passes over all that would follow it.
FollowUpFails(c) ==
  /\ \/ call[c].op \in {"remove", "leave", "delete"} /\ call[c].at = "committed"
     \/ NeedsSnapshot(c)
  /\ Advance(c, "failing")
  /\ UNCHANGED <<roomState, version, role, request>>

\* The error answer to a call whose commit stands.
AnswerError(c) ==
  /\ call[c].at = "failing"
  /\ Finish(c)
  /\ UNCHANGED <<roomState, version, role, request>>

\* The users whose sockets the handler makes leave the room's topic.
Evicted(c) ==
  CASE call[c].op \in {"remove", "leave"} -> {call[c].subject}
    [] call[c].op = "delete"              -> call[c].listed
    [] OTHER                              -> {}

\* evictUser, membership.updated and room.state, as the handler has them.
Announce(c) ==
  /\ call[c].at = "announcing"
  /\ Finish(c)
  /\ UNCHANGED <<roomState, version, role, request>>

\* The API instance dies, or a statement fails before the commit and the
\* handler answers an error: what the call has not done yet is never done.
Crash(c) ==
  /\ MayCrash
  /\ InFlight(c)
  /\ Finish(c)
  /\ UNCHANGED <<roomState, version, role, request>>

(***************************************************************************)
(* The specification.                                                      *)
(***************************************************************************)
Arrive(c) ==
  \E u \in User, r \in Room :
    \/ RequestJoin(c, u, r)
    \/ Leave(c, u, r)
    \/ DeleteRoom(c, u, r)
    \/ \E target \in User : RemoveMember(c, u, r, target)
    \/ \E target \in User : TransferOwnership(c, u, r, target)
    \/ \E q \in Request : CancelJoinRequest(c, u, r, q)
    \/ \E q \in Request, verdict \in Verdicts : DecideJoinRequest(c, u, r, q, verdict)

Handle(c) ==
  \/ JoinCheckMember(c)
  \/ JoinFindPending(c)
  \/ \E q \in Request : JoinCreate(c, q)
  \/ JoinCreateConflict(c)
  \/ JoinAnnounce(c)
  \/ CancelCommit(c)
  \/ DecideFindPending(c)
  \/ DecideCommit(c)
  \/ RemoveFindTarget(c)
  \/ DepartCommit(c)
  \/ DepartAbort(c)
  \/ TransferFindTarget(c)
  \/ TransferCommit(c)
  \/ TransferAbort(c)
  \/ DeleteReadMembers(c)
  \/ DeleteCommit(c)
  \/ CleanPresence(c)
  \/ TakeSnapshot(c)
  \/ FollowUpFails(c)
  \/ AnswerError(c)
  \/ Announce(c)

Next ==
  \/ \E u \in User, r \in Room : CreateRoom(u, r)
  \/ \E c \in Call : Arrive(c) \/ Handle(c) \/ Crash(c)

\* A handler that has started runs to its end unless its instance dies: what
\* it awaits is answered or throws, and no fairness says which.
Fairness == \A c \in Call : WF_vars(Handle(c))

Spec == Init /\ [][Next]_vars
FairSpec == Spec /\ Fairness

-----------------------------------------------------------------------------
(***************************************************************************)
(* Properties.                                                             *)
(***************************************************************************)

\* The rows have the types of the schema, and a call in flight names the
\* room, users and request that its stage has bound.
TypeOK ==
  /\ roomState \in [Room -> {"absent", "live", "deleted"}]
  /\ version \in [Room -> Nat]
  /\ role \in [Room -> [User -> Roles]]
  /\ request \in [Request -> [status: Statuses \cup {"ABSENT"},
                              room: Room \cup {None}, user: User \cup {None}]]
  /\ call \in [Call -> CallState]

\* What a call in flight is about was there when it was read and still is:
\* rows are never deleted except memberships.  In particular the request an
\* owner is about to decide belongs to the room that owner was checked in.
CallsAgreeWithRows ==
  /\ \A q \in Request : request[q].status # "ABSENT" =>
       /\ request[q].room \in Room /\ roomState[request[q].room] # "absent"
       /\ request[q].user \in User
  /\ \A c \in Call : InFlight(c) =>
       /\ call[c].room \in Room /\ roomState[call[c].room] # "absent"
       /\ call[c].actor \in User
       /\ call[c].op \in {"remove", "leave", "transfer"} => call[c].subject \in User
       /\ call[c].op = "transfer" => call[c].subject # call[c].actor
       /\ call[c].op \in {"cancel", "decide"} =>
            /\ call[c].req \in Request
            /\ request[call[c].req].status # "ABSENT"
            /\ call[c].at = "read" => request[call[c].req].room = call[c].room

\* docs/api-contract.md: a room has exactly one owner.  It holds in every
\* committed state, for rooms already deleted too, whatever transfers,
\* removals and departures interleave between their checks and commits.
ExactlyOneOwner ==
  \A r \in Room : roomState[r] # "absent" =>
    \E u \in User : \A v \in User : role[r][v] = "OWNER" <=> v = u

\* Two requestJoin calls of one user that both found nothing pending do not
\* leave two pending requests for the owner to decide.
OnePendingPerUser ==
  \A q1, q2 \in Request :
    /\ request[q1].status = "PENDING" /\ request[q2].status = "PENDING"
    /\ request[q1].room = request[q2].room
    /\ request[q1].user = request[q2].user
    => q1 = q2

\* A user enters an existing room only in the step that records the approval
\* of a request of that user for that room (decideJoinRequest is one
\* transaction), however many decisions on the request are in flight.
AdmittedByApproval ==
  [][\A r \in Room, u \in User :
       /\ roomState[r] # "absent"
       /\ role[r][u] = "NONE" /\ role'[r][u] # "NONE"
       => \E q \in Request :
            /\ request[q].room = r /\ request[q].user = u
            /\ request'[q].status = "APPROVED"]_vars

\* A call that has passed its membership check in room r and may still write.
Holds(c, r) ==
  /\ call[c].room = r
  /\ call[c].op \in {"decide", "remove", "leave", "transfer", "delete"}
  /\ call[c].at \in {"checked", "read"}

\* deletedAt closes a room: after the deletion only the calls that had passed
\* their check before it still change the memberships, and when the last of
\* them is gone the room is frozen and stays free of such calls.
ClosedRoomQuiesces ==
  [][\A r \in Room :
       (roomState[r] = "deleted" /\ \A c \in Call : ~Holds(c, r))
       => /\ role'[r] = role[r] /\ version'[r] = version[r]
          /\ \A c \in Call : ~Holds(c, r)']_vars

\* A cancellation or decision that has found the request pending.
HoldsRequest(c, q) ==
  (At(c, "cancel", "read") \/ At(c, "decide", "read")) /\ call[c].req = q

\* The updates of join_requests are by id alone, so a late decision or
\* cancellation overwrites an earlier one; but only calls that had found the
\* request pending can, and when they are gone its decision is final.
RequestSettles ==
  [][\A q \in Request :
       (request[q].status \in Decided /\ \A c \in Call : ~HoldsRequest(c, q))
       => /\ request'[q] = request[q]
          /\ \A c \in Call : ~HoldsRequest(c, q)']_vars

\* The memberships, versions and deletions of all interleavings of handlers
\* are those of a room whose operations are atomic.
Aggregate == INSTANCE RoomAggregate
  WITH roomState <- roomState, version <- version, role <- role
ImplementsAggregate == Aggregate!Spec

\* The transaction of a removal or departure of user u from r has committed.
Removed(c, u, r) ==
  /\ At(c, "remove", "committed") \/ At(c, "leave", "committed")
  /\ call[c].subject = u /\ call[c].room = r

\* A committed removal reaches the eviction of the user's sockets unless an
\* exception ends its handler or the room is deleted meanwhile: no transfer,
\* approval or other removal stands in its way.  (A deletion can: its members
\* are read before, and the snapshot after it is 404.)
RemovalEvictsInLiveRoom ==
  \A c \in Call, u \in User, r \in Room :
    Removed(c, u, r) ~>
      \/ call[c].at = "announcing" /\ u \in Evicted(c)
      \/ call[c].at = "failing"
      \/ roomState[r] # "live"
=============================================================================
