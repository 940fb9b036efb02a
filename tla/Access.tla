------------------------------- MODULE Access -------------------------------
(***************************************************************************)
(* What the administration of access promises, without transactions,       *)
(* versions or clocks: a change of a person's access ends every session of *)
(* that person in the same instant, only a live session of an active       *)
(* administrator makes one, an administrator always remains, and a session *)
(* that ended stays ended.                                                 *)
(***************************************************************************)
CONSTANTS People, Sessions, Projects, Founders, Nobody

VARIABLES
  access,    \* what each person may do
  session    \* what became of each session, and whose it is

promise == <<access, session>>

Outsider == [status |-> "none", role |-> "none", projects |-> {}]

Grants == [status : {"active"}, projects : SUBSET Projects,
           role : {"administrator", "office_operations", "project_manager"}]

Administrators(a) ==
  {p \in People : a[p].status = "active" /\ a[p].role = "administrator"}

SignedIn(p) == {s \in Sessions : session[s] = [state |-> "live", of |-> p]}

Init ==
  /\ access = [p \in People |->
                 IF p \in Founders
                 THEN [status |-> "active", role |-> "administrator", projects |-> {}]
                 ELSE Outsider]
  /\ session = [s \in Sessions |-> [state |-> "new", of |-> Nobody]]

\* A session is used once; it may be over before it is first presented.
Open(p, s) ==
  /\ session[s].state = "new"
  /\ \E state \in {"live", "ended"} :
       session' = [session EXCEPT ![s] = [state |-> state, of |-> p]]

SignIn(p, s) ==
  /\ access[p].status = "active"
  /\ Open(p, s)
  /\ UNCHANGED access

Admit(p, s, grant) ==
  /\ access[p] = Outsider
  /\ access' = [access EXCEPT ![p] = grant]
  /\ Open(p, s)

\* Sessions end by logout, or with time.
End(over) ==
  /\ session' = [s \in Sessions |->
                   IF s \in over /\ session[s].state = "live"
                   THEN [session[s] EXCEPT !.state = "ended"] ELSE session[s]]
  /\ UNCHANGED access

\* An administrator gives p new access, or signs p out everywhere.
Decide(p, grant) ==
  /\ \E a \in Administrators(access) : SignedIn(a) # {}
  /\ access[p].status # "none"
  /\ access' = [access EXCEPT ![p] = grant]
  /\ Administrators(access') # {}
  /\ session' = [s \in Sessions |->
                   IF s \in SignedIn(p)
                   THEN [session[s] EXCEPT !.state = "ended"] ELSE session[s]]

Next ==
  \/ \E p \in People, s \in Sessions :
       SignIn(p, s) \/ \E grant \in Grants : Admit(p, s, grant)
  \/ \E over \in SUBSET Sessions : End(over)
  \/ \E p \in People :
       \/ access[p].status = "active" /\ \E grant \in Grants : Decide(p, grant)
       \/ access[p].status = "active" /\ Decide(p, [access[p] EXCEPT !.status = "disabled"])
       \/ Decide(p, access[p])

Spec == Init /\ [][Next]_promise
=============================================================================
