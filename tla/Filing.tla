------------------------------- MODULE Filing -------------------------------
(***************************************************************************)
(* What filing a Gmail message promises, without requests, leases or       *)
(* retries: a message is approved for one project, its files are copied to *)
(* that project's Drive folders, and only then is it filed, for good.      *)
(***************************************************************************)
EXTENDS Naturals

CONSTANTS Projects, FileCount, NoProject

VARIABLES phase, project, copies

promise == <<phase, project, copies>>

\* The .eml of the message is file 1, its attachments follow.
Files == 1 .. FileCount

Init ==
  /\ phase = "unfiled"
  /\ project = NoProject
  /\ copies = {}

\* An administrator approves the message for p.
Approve(p) ==
  /\ phase = "unfiled"
  /\ phase' = "approved"
  /\ project' = p
  /\ UNCHANGED copies

\* Drive holds f under its stable source identity.
Copy(f) ==
  /\ phase = "approved"
  /\ copies' = copies \cup {f}
  /\ UNCHANGED <<phase, project>>

\* The archive is closed once every file is in Drive.
File ==
  /\ phase = "approved"
  /\ copies = Files
  /\ phase' = "filed"
  /\ UNCHANGED <<project, copies>>

Next ==
  \/ \E p \in Projects : Approve(p)
  \/ \E f \in Files : Copy(f)
  \/ File

Spec == Init /\ [][Next]_promise
=============================================================================
