---------------------------- MODULE MCFormLeads -----------------------------
(* A small instance of FormLeads for TLC. *)
EXTENDS FormLeads, TLC

MCSymmetry == Permutations(Scans) \cup Permutations(Responses \ Real)
=============================================================================
