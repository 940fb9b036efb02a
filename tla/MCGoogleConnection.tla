-------------------------- MODULE MCGoogleConnection --------------------------
(* Small instances of GoogleConnection for TLC. *)
EXTENDS GoogleConnection, TLC

CONSTANTS a1, a2

TwoDomains == a1 :> "old" @@ a2 :> "new"
MCSymmetry == Permutations(Attempts) \cup Permutations(Disconnects)
=============================================================================
