------------------------------- MODULE Tenancy -------------------------------
(***************************************************************************)
(* What the company's Google connection promises: every mailbox is linked  *)
(* by a credential that was never linked before, all linked mailboxes are  *)
(* of one domain, a disconnected mailbox keeps its place until it is linked*)
(* again with another credential, and a tenant is discarded only whole and *)
(* only when every mailbox is disconnected.                                *)
(***************************************************************************)
CONSTANTS Accounts, Domain, Credentials, Unlinked, Severed

VARIABLES link, spent
tenancy == <<link, spent>>

Known(a) == link[a] # Unlinked

Init == link = [a \in Accounts |-> Unlinked] /\ spent = {}

Connect(a, c) ==
  /\ c \notin spent
  /\ \A b \in Accounts : Known(b) => Domain[b] = Domain[a]
  /\ link' = [link EXCEPT ![a] = c] /\ spent' = spent \cup {c}

Disconnect(a) ==
  /\ link[a] \in Credentials
  /\ link' = [link EXCEPT ![a] = Severed] /\ UNCHANGED spent

Discard ==
  /\ \A a \in Accounts : Known(a) => link[a] = Severed
  /\ link' = [a \in Accounts |-> Unlinked] /\ UNCHANGED spent

Next ==
  \/ \E a \in Accounts : Disconnect(a) \/ \E c \in Credentials : Connect(a, c)
  \/ Discard

Spec == Init /\ [][Next]_tenancy
=============================================================================
