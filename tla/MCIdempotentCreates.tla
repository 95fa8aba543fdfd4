------------------------ MODULE MCIdempotentCreates ------------------------
(***************************************************************************)
(* IdempotentCreates for TLC: users, the requests of each kind, keys, ids  *)
(* and calls are interchangeable.                                          *)
(***************************************************************************)
EXTENDS IdempotentCreates, TLC

Symmetry ==
  Permutations(User) \cup Permutations(Title) \cup Permutations(Text)
    \cup Permutations(StudyRoom) \cup Permutations(Key)
    \cup Permutations(Id) \cup Permutations(Call)
=============================================================================
