------------------------------ MODULE Replica --------------------------------
(***************************************************************************)
(* What the browser's GET cache promises of every URL, however many        *)
(* requests are open, in whichever order they are answered and whatever    *)
(* becomes of their answers: one copy of the server's state that moves     *)
(* forward or is lost, and of which a mutation leaves nothing.             *)
(***************************************************************************)
EXTENDS Naturals

CONSTANTS
  Urls,
  Blanks         \* what stands for no copy

VARIABLES
  server,        \* version of the state behind each URL
  copy,          \* the version that is kept, or a blank
  least          \* what may still be kept: this version or a later one

vars == <<server, copy, least>>

Init ==
  /\ server = [u \in Urls |-> 0]
  /\ copy \in [Urls -> Blanks]
  /\ least = [u \in Urls |-> 0]

Change(u) ==
  /\ server' = [server EXCEPT ![u] = @ + 1]
  /\ UNCHANGED <<copy, least>>

\* A state the server has had meanwhile, and from now on nothing older.
Take(u) ==
  /\ \E v \in least[u] .. server[u] :
       copy' = [copy EXCEPT ![u] = v] /\ least' = [least EXCEPT ![u] = v]
  /\ UNCHANGED server

Lose(S) ==
  /\ \E blank \in Blanks : copy' = [u \in Urls |-> IF u \in S THEN blank ELSE copy[u]]
  /\ UNCHANGED <<server, least>>

\* A mutation of this tab: only what the server says afterwards counts.
Discard(S) ==
  /\ least' = [u \in Urls |-> IF u \in S THEN server[u] ELSE least[u]]
  /\ \E blank \in Blanks : copy' = [u \in Urls |-> IF u \in S THEN blank ELSE copy[u]]
  /\ UNCHANGED server

Next ==
  \/ \E u \in Urls : Change(u) \/ Take(u)
  \/ \E S \in SUBSET Urls : Lose(S) \/ Discard(S)

Spec == Init /\ [][Next]_vars
=============================================================================
