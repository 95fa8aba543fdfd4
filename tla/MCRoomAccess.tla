---------------------------- MODULE MCRoomAccess ----------------------------
(***************************************************************************)
(* RoomAccess for TLC: the connections of one user.                        *)
(***************************************************************************)
EXTENDS RoomAccess

CONSTANT u1

OneUser == [s \in Socket |-> u1]
=============================================================================
