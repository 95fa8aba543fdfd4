------------------------------ MODULE MCRooms ------------------------------
(***************************************************************************)
(* Rooms for TLC: users are interchangeable, and so are requests and calls *)
(* in flight.  One room has a long life, any other takes a single call: it *)
(* is there for the requests of the one to meet the owners of the other.   *)
(***************************************************************************)
EXTENDS Rooms, TLC

CONSTANT LongestLife  \* the version the first room can reach

Lives ==
  LET first == CHOOSE r \in Room : TRUE
  IN  [r \in Room |-> IF r = first THEN LongestLife ELSE 2]

Symmetry == Permutations(User) \cup Permutations(Request) \cup Permutations(Call)
=============================================================================
