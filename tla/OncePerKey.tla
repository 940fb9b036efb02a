---------------------------- MODULE OncePerKey -------------------------------
(***************************************************************************)
(* What the keyed creation of records promises, whatever the locks and     *)
(* statements below it: the first request that settles a key decides it    *)
(* for good, in one step with the record and the one event it owes, and    *)
(* an answer that names a record is the settled answer of that key to the  *)
(* same intent.                                                            *)
(***************************************************************************)
CONSTANTS
  Attempts,      \* requests; the record an attempt creates carries its name
  Keys,
  Intents,       \* what can be asked for; each names its key
  Nothing

VARIABLES
  asked,         \* intent of each attempt
  settled,       \* what each key has been decided to
  made,          \* attempts whose record exists
  owed,          \* attempts whose record has its event in the outbox
  told           \* answer of each attempt

vars == <<asked, settled, made, owed, told>>

Verdict(status, record) == [status |-> status, record |-> record]

\* Answers that decide nothing.
Shrugs == {Verdict("error", Nothing), Verdict("review-not-found", Nothing)}

Init ==
  /\ asked = [a \in Attempts |-> Nothing]
  /\ settled = [k \in Keys |-> Nothing]
  /\ made = {}
  /\ owed = {}
  /\ told = [a \in Attempts |-> Nothing]

Ask(a) ==
  /\ asked[a] = Nothing
  /\ \E i \in Intents : asked' = [asked EXCEPT ![a] = i]
  /\ UNCHANGED <<settled, made, owed, told>>

Unanswered(a) == asked[a] # Nothing /\ told[a] = Nothing

\* The key is decided by this attempt, whether or not it hears of it.
Settle(a) ==
  /\ Unanswered(a)
  /\ settled[asked[a].key] = Nothing
  /\ \E verdict \in {Verdict("completed", a), Verdict("failed", Nothing)} :
       /\ settled' = [settled EXCEPT ![asked[a].key] = [intent |-> asked[a], verdict |-> verdict]]
       /\ made' = IF verdict.status = "completed" THEN made \cup {a} ELSE made
       /\ owed' = IF verdict.status = "completed" THEN owed \cup {a} ELSE owed
       /\ \E heard \in {verdict, Verdict("error", Nothing)} : told' = [told EXCEPT ![a] = heard]
  /\ UNCHANGED asked

\* A decided key answers the same intent alike and turns another away.
Recall(a) ==
  /\ Unanswered(a)
  /\ settled[asked[a].key] # Nothing
  /\ told' = [told EXCEPT ![a] = IF settled[asked[a].key].intent = asked[a]
                                  THEN settled[asked[a].key].verdict
                                  ELSE Verdict("idempotency-conflict", Nothing)]
  /\ UNCHANGED <<asked, settled, made, owed>>

GiveUp(a) ==
  /\ Unanswered(a)
  /\ \E shrug \in Shrugs : told' = [told EXCEPT ![a] = shrug]
  /\ UNCHANGED <<asked, settled, made, owed>>

Next == \E a \in Attempts : Ask(a) \/ Settle(a) \/ Recall(a) \/ GiveUp(a)

Spec == Init /\ [][Next]_vars
=============================================================================
