------------------------------- MODULE Outbox -------------------------------
(***************************************************************************)
(* The PostgreSQL transactional outbox (app/adapters/postgres/             *)
(* outbox-repository.ts) and the drain runs that work it (app/application/ *)
(* outbox-drain.ts).  Each repository call is one database transaction and *)
(* one action here; a run can be killed between any two of them, and a run *)
(* that outlives its lease goes on as a zombie.  A run works the rows only *)
(* with a dispatcher for every event type; those the repository starts     *)
(* have none (production-runtime/src/run-outbox-drain.ts).                 *)
(*                                                                         *)
(* Time is abstract: a pending row waits for its available_at and a        *)
(* processing row for its lease_expires_at, and TimerElapses lets that     *)
(* moment pass in any order, which admits every real clock.                *)
(***************************************************************************)
EXTENDS Naturals

CONSTANTS
  Events,       \* rows of outbox_events, by event_key
  Workers,      \* executions of the drain job
  Composed,     \* those composed with a dispatcher for every event type
  MaxAttempts,  \* OUTBOX_DRAIN_DEFAULTS.maxAttempts
  MaxBatches,   \* OUTBOX_DRAIN_DEFAULTS.maxBatches (batchSize is 1)
  NoClaim       \* a worker that holds no claimed event

ASSUME MaxAttemptsAssumption == MaxAttempts \in Nat \ {0}
ASSUME MaxBatchesAssumption  == MaxBatches \in Nat \ {0}
ASSUME ComposedAssumption    == Composed \subseteq Workers

VARIABLES
  row,          \* the outbox_events table
  deadLetters,  \* activity_events rows 'Outbox event dead-lettered', by event
  pc,           \* where each worker is in drainOutbox
  held,         \* the ClaimedOutboxEvent a worker is working on
  budget,       \* batches left to the worker's run
  inflight,     \* events with a request travelling to the provider
  delivered     \* events whose effect the provider has applied, by event key

vars == <<row, deadLetters, pc, held, budget, inflight, delivered>>
database == <<row, deadLetters>>
provider == <<inflight, delivered>>

Statuses == {"absent", "pending", "processing", "completed", "dead"}
Timers   == {"none", "running", "elapsed"}
Rows     == [status : Statuses, timer : Timers, attempt : Nat, version : Nat]
Claims   == [event : Events, attempt : Nat, version : Nat]

\* The points of drainOutbox at which a worker holds a claimed event.
Busy == {"claimed", "dispatching", "dispatched", "failed", "rejected"}

ASSUME NoClaimAssumption == NoClaim \notin Claims

TypeOK ==
  /\ row \in [Events -> Rows]
  /\ deadLetters \subseteq Events
  /\ pc \in [Workers -> Busy \cup {"idle", "started", "claiming"}]
  /\ held \in [Workers -> Claims \cup {NoClaim}]
  /\ budget \in [Workers -> 0 .. MaxBatches]
  /\ inflight \subseteq Events
  /\ delivered \subseteq Events

Init ==
  /\ row = [e \in Events |->
              [status |-> "absent", timer |-> "none", attempt |-> 0, version |-> 1]]
  /\ deadLetters = {}
  /\ pc = [w \in Workers |-> "idle"]
  /\ held = [w \in Workers |-> NoClaim]
  /\ budget = [w \in Workers |-> 0]
  /\ inflight = {}
  /\ delivered = {}

-----------------------------------------------------------------------------
(* Rows *)

\* WHERE status = 'pending' AND available_at <= now()
Due(e) == row[e].status = "pending" /\ row[e].timer = "elapsed"

\* WHERE status = 'processing' AND lease_expires_at <= now()
Expired(e) == row[e].status = "processing" /\ row[e].timer = "elapsed"

\* Fault: the transition is fenced by the status alone.
FaultyFenced(w) == row[held[w].event].status = "processing"

\* WHERE id = $1 AND status = 'processing' AND version = $2
Fenced(w) ==
  /\ row[held[w].event].status = "processing"
  /\ row[held[w].event].version = held[w].version

\* Fault: off by one.
FaultyExhausted(e, limit) == row[e].attempt > limit

\* CASE WHEN attempt_count >= limit THEN 'dead' ELSE 'pending' END
Exhausted(e, limit) == row[e].attempt >= limit

\* Ends the processing of e: back to the queue, or dead with its activity in
\* the same transaction.  The activity's identifier is a function of the event,
\* so a second one violates its primary key and rolls the transaction back.
Release(e, limit) ==
  /\ Exhausted(e, limit) => e \notin deadLetters
  /\ row' = [row EXCEPT ![e].status  = IF Exhausted(e, limit) THEN "dead" ELSE "pending",
                        ![e].timer   = IF Exhausted(e, limit) THEN "none" ELSE "running",
                        ![e].version = @ + 1]
  /\ deadLetters' = IF Exhausted(e, limit) THEN deadLetters \cup {e} ELSE deadLetters

MarkCompleted(e) ==
  /\ row' = [row EXCEPT ![e].status = "completed", ![e].timer = "none", ![e].version = @ + 1]
  /\ UNCHANGED deadLetters

\* The worker's loop goes round, its run over its claim dropped.
Proceed(w, point) ==
  /\ pc' = [pc EXCEPT ![w] = point]
  /\ held' = [held EXCEPT ![w] = NoClaim]

-----------------------------------------------------------------------------
(* Actions *)

\* The transaction that creates a record inserts its event, available at once.
Enqueue(e) ==
  /\ row[e].status = "absent"
  /\ row' = [row EXCEPT ![e].status = "pending", ![e].timer = "elapsed"]
  /\ UNCHANGED <<deadLetters, pc, held, budget, provider>>

\* The job is executed by hand: nothing schedules it.
Launch(w) ==
  /\ pc[w] = "idle"
  /\ pc' = [pc EXCEPT ![w] = "started"]
  /\ UNCHANGED <<database, held, budget, provider>>

\* With an empty registry drainOutbox returns before it asks the database.
ReturnEmpty(w) ==
  /\ pc[w] = "started"
  /\ w \notin Composed
  /\ pc' = [pc EXCEPT ![w] = "idle"]
  /\ UNCHANGED <<database, held, budget, provider>>

\* With any other it begins by recovering at most one expired lease.
StartDrain(w) ==
  /\ pc[w] = "started"
  /\ w \in Composed
  /\ \/ \E e \in Events : Expired(e) /\ Release(e, MaxAttempts)
     \/ (\A e \in Events : ~Expired(e)) /\ UNCHANGED database
  /\ pc' = [pc EXCEPT ![w] = "claiming"]
  /\ budget' = [budget EXCEPT ![w] = MaxBatches]
  /\ UNCHANGED <<held, provider>>

BatchLeft(w) == budget[w] > 0

Claimed(r) == [status |-> "processing", timer |-> "running",
               attempt |-> r.attempt + 1, version |-> r.version + 1]

Claim(w, e) ==
  /\ pc[w] = "claiming"
  /\ BatchLeft(w)
  /\ Due(e)
  /\ row' = [row EXCEPT ![e] = Claimed(@)]
  /\ held' = [held EXCEPT ![w] = [event |-> e, attempt |-> Claimed(row[e]).attempt,
                                  version |-> Claimed(row[e]).version]]
  /\ pc' = [pc EXCEPT ![w] = "claimed"]
  /\ budget' = [budget EXCEPT ![w] = @ - 1]
  /\ UNCHANGED <<deadLetters, provider>>

\* Nothing left to claim, or every batch of the run used.
FinishDrain(w) ==
  /\ pc[w] = "claiming"
  /\ ~BatchLeft(w) \/ \A e \in Events : ~Due(e)
  /\ pc' = [pc EXCEPT ![w] = "idle"]
  /\ UNCHANGED <<database, held, budget, provider>>

Dispatch(w) ==
  /\ pc[w] = "claimed"
  /\ inflight' = inflight \cup {held[w].event}
  /\ pc' = [pc EXCEPT ![w] = "dispatching"]
  /\ UNCHANGED <<database, held, budget, delivered>>

\* The provider deduplicates on the event key, so applying twice changes
\* nothing; a request may arrive after the worker gave up on it.
ProviderApplies(e) ==
  /\ e \in inflight
  /\ inflight' = inflight \ {e}
  /\ delivered' = delivered \cup {e}
  /\ UNCHANGED <<database, pc, held, budget>>

\* Fault: the dispatch is not awaited.
FaultyDispatchSucceeds(w) ==
  /\ pc[w] = "dispatching"
  /\ pc' = [pc EXCEPT ![w] = "dispatched"]
  /\ UNCHANGED <<database, held, budget, provider>>

DispatchSucceeds(w) ==
  /\ pc[w] = "dispatching"
  /\ held[w].event \in delivered
  /\ pc' = [pc EXCEPT ![w] = "dispatched"]
  /\ UNCHANGED <<database, held, budget, provider>>

\* Whether or not the effect was applied: "failed" is retried, "rejected" is
\* the classification that is not retryable.
DispatchFails(w) ==
  /\ pc[w] = "dispatching"
  /\ \E failure \in {"failed", "rejected"} : pc' = [pc EXCEPT ![w] = failure]
  /\ UNCHANGED <<database, held, budget, provider>>

Complete(w) ==
  /\ pc[w] = "dispatched"
  /\ IF Fenced(w) THEN MarkCompleted(held[w].event) ELSE UNCHANGED database
  /\ Proceed(w, "claiming")
  /\ UNCHANGED <<budget, provider>>

\* complete() is inside the try: when it throws, whether its COMMIT took effect
\* or not, the event goes to the failure path under the same version.
CompleteThrows(w) ==
  /\ pc[w] = "dispatched"
  /\ \/ Fenced(w) /\ MarkCompleted(held[w].event)
     \/ UNCHANGED database
  /\ pc' = [pc EXCEPT ![w] = "failed"]
  /\ UNCHANGED <<held, budget, provider>>

\* A failure that is not retryable is limited to the attempts already made.
AttemptLimit(w) == IF pc[w] = "rejected" THEN held[w].attempt ELSE MaxAttempts

RetryOrDeadLetter(w) ==
  /\ pc[w] \in {"failed", "rejected"}
  /\ IF Fenced(w) THEN Release(held[w].event, AttemptLimit(w)) ELSE UNCHANGED database
  /\ Proceed(w, "claiming")
  /\ UNCHANGED <<budget, provider>>

\* The job is killed, times out, or a repository call throws out of drainOutbox
\* (before its COMMIT, or after it, which is that action and then this one).
Crash(w) ==
  /\ pc[w] # "idle"
  /\ Proceed(w, "idle")
  /\ UNCHANGED <<database, budget, provider>>

TimerElapses(e) ==
  /\ row[e].timer = "running"
  /\ row' = [row EXCEPT ![e].timer = "elapsed"]
  /\ UNCHANGED <<deadLetters, pc, held, budget, provider>>

EndDispatch(w) == DispatchSucceeds(w) \/ DispatchFails(w)
EndAttempt(w) == Complete(w) \/ CompleteThrows(w) \/ RetryOrDeadLetter(w)

Next ==
  \/ \E e \in Events : Enqueue(e) \/ ProviderApplies(e) \/ TimerElapses(e)
  \/ \E w \in Workers : \/ Launch(w) \/ ReturnEmpty(w) \/ StartDrain(w)
                        \/ FinishDrain(w) \/ Crash(w)
                        \/ Dispatch(w) \/ EndDispatch(w) \/ EndAttempt(w)
                        \/ \E e \in Events : Claim(w, e)

Spec == Init /\ [][Next]_vars

-----------------------------------------------------------------------------
(* Properties *)

\* No event is queued again after its last allowed attempt, and none is ever
\* attempted more often than maxAttempts, however its attempts ended: a failed
\* dispatch, a lost lease or a crash.
AttemptsBounded ==
  \A e \in Events :
    /\ row[e].status \in {"absent", "pending"} => row[e].attempt < MaxAttempts
    /\ row[e].attempt <= MaxAttempts

\* An event is dead exactly when its dead-letter activity exists, whether a
\* worker or the lease recovery of another run killed it.
DeadLetterEvidence == deadLetters = {e \in Events : row[e].status = "dead"}

\* While its lease runs, only the worker that made the current attempt can take
\* a row out of processing: a zombie of an earlier attempt never does.
LeaseStep ==
  \A e \in Events :
    row[e].status = "processing" /\ row[e].timer = "running" /\ row'[e].status # "processing"
    => \E w \in Workers : /\ pc[w] \in Busy
                          /\ pc'[w] # pc[w]
                          /\ held[w].event = e
                          /\ held[w].attempt = row[e].attempt

LiveLeaseEndedByItsClaimant == [][LeaseStep]_vars

\* The promise kept: the abstract delivery specification.
PhaseOf(status) ==
  CASE status = "absent" -> "none"
    [] status \in {"pending", "processing"} -> "owed"
    [] OTHER -> status

Phase == [e \in Events |-> PhaseOf(row[e].status)]

Promise == INSTANCE Delivery WITH phase <- Phase, letters <- deadLetters

\* Every step of the outbox is a step of Delivery: an event is completed only
\* after its effect was applied, settled once, and never revived.
ImplementsDelivery == Promise!Spec

-----------------------------------------------------------------------------
(* The inductive invariant behind the proofs. *)

\* The version counts the claims and the releases of the row, so a version
\* identifies one attempt of one event.
VersionCountsTransitions ==
  \A e \in Events :
    row[e].version = IF row[e].status = "processing"
                     THEN 2 * row[e].attempt ELSE 2 * row[e].attempt + 1

\* A worker's claim names a past or the current attempt of an accepted event.
ClaimsAreAttempts ==
  \A w \in Workers : pc[w] \in Busy =>
    /\ held[w] \in Claims
    /\ held[w].version = 2 * held[w].attempt
    /\ held[w].attempt \in 1 .. row[held[w].event].attempt
    /\ row[held[w].event].status # "absent"

\* No two workers hold the same attempt of the same event.
AttemptsAreExclusive ==
  \A v, w \in Workers :
    /\ v # w
    /\ pc[v] \in Busy
    /\ pc[w] \in Busy
    /\ held[v].event = held[w].event
    => held[v].attempt # held[w].attempt

EffectsAreAccepted ==
  /\ \A e \in inflight \cup delivered : row[e].status # "absent"
  /\ \A w \in Workers : pc[w] = "dispatched" => held[w].event \in delivered

Inv ==
  /\ TypeOK
  /\ AttemptsBounded
  /\ DeadLetterEvidence
  /\ VersionCountsTransitions
  /\ ClaimsAreAttempts
  /\ AttemptsAreExclusive
  /\ EffectsAreAccepted
=============================================================================
