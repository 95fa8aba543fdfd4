-------------------------- MODULE MCPresenceIndex --------------------------
(***************************************************************************)
(* PresenceIndex for TLC: operations in flight are interchangeable.        *)
(***************************************************************************)
EXTENDS PresenceIndex, TLC

Symmetry == Permutations(Call)
=============================================================================
