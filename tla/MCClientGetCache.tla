-------------------------- MODULE MCClientGetCache --------------------------
(* Small instances of ClientGetCache for TLC: two panels of one URL. *)
EXTENDS ClientGetCache, TLC

CONSTANTS u1, x1, x2

OneUrl == x1 :> u1 @@ x2 :> u1
OneUrlSymmetry == Permutations(Slots) \cup Permutations(Readers)
=============================================================================
