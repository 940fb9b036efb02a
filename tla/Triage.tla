------------------------------- MODULE Triage --------------------------------
(***************************************************************************)
(* What the sweeps, the review queue and the filing of a message together  *)
(* promise of its review row.  Machines rewrite it while it is open, a     *)
(* person decides what is under review, a filing accepts an open row in the*)
(* step that files the message, and what is settled stays settled.         *)
(* GmailFiling and MailQueue both implement it, each with the other's part *)
(* as its environment.                                                     *)
(***************************************************************************)

VARIABLES
  status,        \* of the review row
  filed          \* the message is in its project's folders

row == <<status, filed>>

Init == status = "absent" /\ ~ filed

Analyse ==
  /\ status \in {"absent", "needs-review", "failed"}
  /\ status' \in {"needs-review", "failed", "skipped-noise"}
  /\ filed' = filed

Decide ==
  /\ status = "needs-review"
  /\ status' \in {"accepted", "dismissed"}
  /\ filed' = filed

File ==
  /\ ~ filed /\ filed'
  /\ status' = IF status \in {"needs-review", "failed"} THEN "accepted" ELSE status

Next == Analyse \/ Decide \/ File

Spec == Init /\ [][Next]_row
=============================================================================
