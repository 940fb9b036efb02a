---------------------------- MODULE MCFolderRename ---------------------------
(* A small instance of FolderRename for TLC. *)
EXTENDS FolderRename, TLC

MCSymmetry == Permutations(Requests) \cup Permutations(Folders)
=============================================================================
