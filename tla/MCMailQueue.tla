---------------------------- MODULE MCMailQueue -----------------------------
(* A small instance of MailQueue for TLC. *)
EXTENDS MailQueue, TLC

MCSymmetry == Permutations(Sweeps) \cup Permutations(Messages)
=============================================================================
