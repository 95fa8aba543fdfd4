--------------------------- MODULE RoomAggregate ---------------------------
(***************************************************************************)
(* What the room service promises: rooms whose operations are atomic.      *)
(* Every operation on an existing room advances its version by one, so a   *)
(* client that holds version n has seen n operations; the owner changes    *)
(* only by a hand-over from the owner of the moment to a member, and only  *)
(* plain members depart.                                                   *)
(***************************************************************************)
EXTENDS Naturals

CONSTANTS Room, User

VARIABLES roomState, version, role

vars == <<roomState, version, role>>

Init ==
  /\ roomState = [r \in Room |-> "absent"]
  /\ version   = [r \in Room |-> 0]
  /\ role      = [r \in Room |-> [u \in User |-> "NONE"]]

Exists(r) == roomState[r] # "absent"

\* One operation on room r that leaves its memberships as rows.
Step(r, rows) ==
  /\ Exists(r)
  /\ version' = [version EXCEPT ![r] = @ + 1]
  /\ role' = [role EXCEPT ![r] = rows]

Open(r, u) ==
  /\ ~Exists(r)
  /\ roomState' = [roomState EXCEPT ![r] = "live"]
  /\ version' = [version EXCEPT ![r] = 1]
  /\ role' = [role EXCEPT ![r] = [v \in User |-> IF v = u THEN "OWNER" ELSE "NONE"]]

Admit(r, u) ==
  /\ role[r][u] = "NONE"
  /\ Step(r, [role[r] EXCEPT ![u] = "MEMBER"])
  /\ UNCHANGED roomState

Depart(r, u) ==
  /\ role[r][u] = "MEMBER"
  /\ Step(r, [role[r] EXCEPT ![u] = "NONE"])
  /\ UNCHANGED roomState

HandOver(r, from, to) ==
  /\ role[r][from] = "OWNER"
  /\ role[r][to] = "MEMBER"
  /\ Step(r, [role[r] EXCEPT ![from] = "MEMBER", ![to] = "OWNER"])
  /\ UNCHANGED roomState

\* An operation that had nothing left to do: the user was already admitted,
\* or the target of the transfer already was the owner.
Repeat(r) == Step(r, role[r]) /\ UNCHANGED roomState

Close(r) == Step(r, role[r]) /\ roomState' = [roomState EXCEPT ![r] = "deleted"]

Next ==
  \E r \in Room :
    \/ \E u \in User : Open(r, u) \/ Admit(r, u) \/ Depart(r, u)
    \/ \E from, to \in User : HandOver(r, from, to)
    \/ Repeat(r)
    \/ Close(r)

Spec == Init /\ [][Next]_vars
=============================================================================
