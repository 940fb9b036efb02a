--------------------------- MODULE MCGmailFiling ----------------------------
(* Small instances of GmailFiling for TLC. *)
EXTENDS GmailFiling, TLC

MCSymmetry == Permutations(Requests) \cup Permutations(Projects)
=============================================================================
