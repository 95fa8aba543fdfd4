---------------------------- MODULE MCRateLimit ----------------------------
(***************************************************************************)
(* RateLimit for TLC: the quotas of an application and two of its users.   *)
(***************************************************************************)
EXTENDS RateLimit, TLC

Keys == {"app", "user1", "user2"}

Guards == [u1 |-> <<"app", "user1">>, u2 |-> <<"app", "user2">>]

Limits == [app |-> 2, user1 |-> 1, user2 |-> 1]

Symmetry == Permutations(Call)
=============================================================================
