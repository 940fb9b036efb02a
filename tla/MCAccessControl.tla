-------------------------- MODULE MCAccessControl ---------------------------
(* Small instances of AccessControl for TLC. *)
EXTENDS AccessControl, TLC

MCSymmetry ==
  Permutations(Sessions) \cup Permutations(Invitations) \cup Permutations(Requests)
    \cup Permutations(Founders) \cup Permutations(People \ Founders)
=============================================================================
