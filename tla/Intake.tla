------------------------------- MODULE Intake --------------------------------
(***************************************************************************)
(* What the intake of Form responses promises, however many scans overlap, *)
(* whichever saves last and whatever each had read before: a batch takes   *)
(* effect at once, puts up responses that nobody has seen, and leaves      *)
(* nothing behind the mark it sets; and what a person decided is decided.  *)
(***************************************************************************)
EXTENDS Naturals, Sequences

CONSTANTS
  Responses,
  Real           \* those that wait for the launch

VARIABLES
  sheet,         \* the responses in the order of the Sheet
  intact,        \* the Sheet has only grown
  queue,         \* where each response stands
  mark,          \* how far the intake has come
  tenant         \* whose Sheet and queue these are

vars == <<sheet, intact, queue, mark, tenant>>

Nothing == [r \in Responses |-> "absent"]

Init ==
  /\ sheet = <<>> /\ intact = TRUE
  /\ queue = Nothing /\ mark = 0
  /\ tenant = 0

InSheet(r) == \E p \in 1 .. Len(sheet) : sheet[p] = r

Submit(r) ==
  /\ ~ InSheet(r)
  /\ sheet' = Append(sheet, r)
  /\ UNCHANGED <<intact, queue, mark, tenant>>

\* An editor deletes or inserts rows: positions mean nothing any more.
Rewrite ==
  /\ sheet' \in Seq(Responses)
  /\ intact' = FALSE
  /\ UNCHANGED <<queue, mark, tenant>>

\* A batch of unseen responses goes up for review, real ones never.
PutUp(batch) ==
  /\ \A r \in batch : r \notin Real /\ queue[r] = "absent" /\ (intact => InSheet(r))
  /\ queue' = [r \in Responses |-> IF r \in batch THEN "needs-review" ELSE queue[r]]
  /\ mark' \in Nat
  /\ intact => mark' <= Len(sheet) /\ \A p \in 1 .. mark' : queue'[sheet[p]] # "absent"
  /\ UNCHANGED <<sheet, intact, tenant>>

Decide(r) ==
  /\ queue[r] = "needs-review"
  /\ queue' = [queue EXCEPT ![r] = "decided"]
  /\ UNCHANGED <<sheet, intact, mark, tenant>>

\* The next tenant begins from nothing.
Reset ==
  /\ tenant' = tenant + 1
  /\ sheet' = <<>> /\ intact' = TRUE
  /\ queue' = Nothing /\ mark' = 0

Next ==
  \/ \E r \in Responses : Submit(r) \/ Decide(r)
  \/ \E batch \in SUBSET Responses : PutUp(batch)
  \/ Rewrite \/ Reset

Spec == Init /\ [][Next]_vars
=============================================================================
