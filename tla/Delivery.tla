------------------------------ MODULE Delivery ------------------------------
(***************************************************************************)
(* What the transactional outbox promises to the rest of the system, with  *)
(* no leases, workers or versions: an accepted event is owed until it is   *)
(* settled exactly once, either completed, and then its effect really was  *)
(* applied by the provider, or dead-lettered, and then exactly one piece   *)
(* of evidence says so.                                                    *)
(***************************************************************************)

CONSTANT Events

VARIABLES
  phase,      \* phase[e]: none, owed, completed or dead
  delivered,  \* events whose effect the provider has applied
  letters     \* events with a dead-letter activity record

abstractVars == <<phase, delivered, letters>>

Init ==
  /\ phase = [e \in Events |-> "none"]
  /\ delivered = {}
  /\ letters = {}

Accept(e) ==
  /\ phase[e] = "none"
  /\ phase' = [phase EXCEPT ![e] = "owed"]
  /\ UNCHANGED <<delivered, letters>>

\* The provider may apply an effect late, even after the event was settled.
Apply(e) ==
  /\ phase[e] # "none"
  /\ delivered' = delivered \cup {e}
  /\ UNCHANGED <<phase, letters>>

Complete(e) ==
  /\ phase[e] = "owed"
  /\ e \in delivered
  /\ phase' = [phase EXCEPT ![e] = "completed"]
  /\ UNCHANGED <<delivered, letters>>

DeadLetter(e) ==
  /\ phase[e] = "owed"
  /\ phase' = [phase EXCEPT ![e] = "dead"]
  /\ letters' = letters \cup {e}
  /\ UNCHANGED delivered

Next == \E e \in Events : Accept(e) \/ Apply(e) \/ Complete(e) \/ DeadLetter(e)

Spec == Init /\ [][Next]_abstractVars
=============================================================================
