---------------------------- MODULE MCAppAccess ----------------------------
(***************************************************************************)
(* AppAccess for TLC: two instances, a connection to one of them.         *)
(***************************************************************************)
EXTENDS AppAccess

CONSTANT i1

HomeOfAll == [s \in Socket |-> i1]
=============================================================================
