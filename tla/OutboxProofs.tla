---------------------------- MODULE OutboxProofs ----------------------------
(***************************************************************************)
(* Proofs about Outbox for any number of events, workers, attempts and     *)
(* batches: the inductive invariant Inv, the lease property that follows   *)
(* from it, and the refinement of Delivery.                                *)
(***************************************************************************)
EXTENDS Outbox, TLAPS

USE MaxAttemptsAssumption, MaxBatchesAssumption, NoClaimAssumption

LEMMA TypeInit == Init => TypeOK
  BY DEF Init, TypeOK, Rows, Statuses, Timers

LEMMA ReleaseType ==
  ASSUME TypeOK, NEW e \in Events, NEW limit \in Nat, Release(e, limit)
  PROVE  row' \in [Events -> Rows] /\ deadLetters' \subseteq Events
  BY DEF TypeOK, Release, Exhausted, Rows, Statuses, Timers

LEMMA MarkCompletedType ==
  ASSUME TypeOK, NEW e \in Events, MarkCompleted(e)
  PROVE  row' \in [Events -> Rows] /\ deadLetters' \subseteq Events
  BY DEF TypeOK, MarkCompleted, Rows, Statuses, Timers

\* A busy worker's claim is a record naming a real event.
LEMMA BusyHoldsClaim ==
  ASSUME Inv, NEW w \in Workers, pc[w] \in Busy
  PROVE  /\ held[w] \in Claims
         /\ held[w].event \in Events
         /\ held[w].attempt \in Nat
         /\ held[w].version \in Nat
  BY DEF Inv, ClaimsAreAttempts, Claims

\* Every action keeps the variables in their types.
LEMMA TypeNext == Inv /\ [Next]_vars => TypeOK'
  <1> SUFFICES ASSUME Inv, [Next]_vars PROVE TypeOK'
    OBVIOUS
  <1> TypeOK
    BY DEF Inv
  <1>1. ASSUME NEW e \in Events, Enqueue(e) PROVE TypeOK'
    BY <1>1 DEF Enqueue, TypeOK, Rows, Statuses, Timers, provider
  <1>2. ASSUME NEW e \in Events, ProviderApplies(e) PROVE TypeOK'
    BY <1>2 DEF ProviderApplies, TypeOK, database
  <1>3. ASSUME NEW e \in Events, TimerElapses(e) PROVE TypeOK'
    BY <1>3 DEF TimerElapses, TypeOK, Rows, Timers, provider
  <1>4. ASSUME NEW w \in Workers, StartDrain(w) PROVE TypeOK'
    <2>1. row' \in [Events -> Rows] /\ deadLetters' \subseteq Events
      BY <1>4, ReleaseType DEF StartDrain, database, TypeOK
    <2>2. QED
      BY <1>4, <2>1 DEF StartDrain, TypeOK, provider
  <1>5. ASSUME NEW w \in Workers, Launch(w) \/ ReturnEmpty(w) \/ FinishDrain(w) PROVE TypeOK'
    BY <1>5 DEF Launch, ReturnEmpty, FinishDrain, TypeOK, database, provider
  <1>6. ASSUME NEW w \in Workers, Crash(w) PROVE TypeOK'
    BY <1>6 DEF Crash, Proceed, TypeOK, database, provider
  <1>7. ASSUME NEW w \in Workers, Dispatch(w) PROVE TypeOK'
    BY <1>7, BusyHoldsClaim DEF Dispatch, TypeOK, database, Busy
  <1>8. ASSUME NEW w \in Workers, EndDispatch(w) PROVE TypeOK'
    BY <1>8 DEF EndDispatch, DispatchSucceeds, DispatchFails, TypeOK, database, provider, Busy
  <1>9. ASSUME NEW w \in Workers, EndAttempt(w) PROVE TypeOK'
    <2> pc[w] \in Busy
      BY <1>9 DEF EndAttempt, Complete, CompleteThrows, RetryOrDeadLetter, Busy
    <2> held[w].event \in Events /\ held[w].attempt \in Nat
      BY BusyHoldsClaim
    <2>1. CASE Complete(w)
      <3>1. row' \in [Events -> Rows] /\ deadLetters' \subseteq Events
        BY <2>1, MarkCompletedType DEF Complete, database, TypeOK
      <3>2. QED
        BY <2>1, <3>1 DEF Complete, Proceed, TypeOK, provider
    <2>2. CASE CompleteThrows(w)
      <3>1. row' \in [Events -> Rows] /\ deadLetters' \subseteq Events
        BY <2>2, MarkCompletedType DEF CompleteThrows, database, TypeOK
      <3>2. QED
        BY <2>2, <3>1 DEF CompleteThrows, TypeOK, provider, Busy
    <2>3. CASE RetryOrDeadLetter(w)
      <3>1. AttemptLimit(w) \in Nat
        BY DEF AttemptLimit
      <3>2. row' \in [Events -> Rows] /\ deadLetters' \subseteq Events
        BY <2>3, <3>1, ReleaseType DEF RetryOrDeadLetter, database, TypeOK
      <3>3. QED
        BY <2>3, <3>2 DEF RetryOrDeadLetter, Proceed, TypeOK, provider
    <2>4. QED
      BY <1>9, <2>1, <2>2, <2>3 DEF EndAttempt
  <1>10. ASSUME NEW w \in Workers, NEW e \in Events, Claim(w, e) PROVE TypeOK'
    <2>1. row[e] \in Rows /\ budget[w] \in Nat
      BY DEF TypeOK
    <2>2. row' \in [Events -> Rows]
      BY <1>10, <2>1 DEF Claim, Claimed, TypeOK, Rows, Statuses, Timers
    <2>3. held' \in [Workers -> Claims \cup {NoClaim}]
      BY <1>10, <2>1 DEF Claim, Claimed, TypeOK, Rows, Claims
    <2>4. QED
      BY <1>10, <2>2, <2>3 DEF Claim, BatchLeft, TypeOK, provider, Busy
  <1>11. CASE UNCHANGED vars
    BY <1>11 DEF vars, TypeOK
  <1>12. QED
    BY <1>1, <1>2, <1>3, <1>4, <1>5, <1>6, <1>7, <1>8, <1>9, <1>10, <1>11 DEF Next

-----------------------------------------------------------------------------
\* No attempt counter moves and no accepted event is lost.
RowsKept ==
  \A x \in Events : /\ row'[x].attempt = row[x].attempt
                    /\ row[x].status # "absent" => row'[x].status # "absent"

\* No worker gains a claim, and none learns that its dispatch succeeded.
ClaimsKept ==
  \A x \in Workers : pc'[x] \in Busy => pc[x] \in Busy /\ held'[x] = held[x]
NoneDispatched ==
  \A x \in Workers : pc'[x] = "dispatched" => pc[x] = "dispatched" /\ held'[x] = held[x]

(* The steps of a row.  Whatever the action, a row only queues, is claimed, *)
(* is released, completes, or lets its timer elapse.                        *)

\* What Release and MarkCompleted do to the table, with all types resolved.
LEMMA ReleaseSteps ==
  ASSUME Inv, NEW e \in Events, NEW limit \in Nat, Release(e, limit),
         row[e].status = "processing", limit <= MaxAttempts
  PROVE  /\ AttemptsBounded'
         /\ DeadLetterEvidence'
         /\ VersionCountsTransitions'
         /\ RowsKept
  <1> USE DEF Release, Exhausted, Inv, TypeOK, Rows
  <1>1. AttemptsBounded'
    BY DEF AttemptsBounded
  <1>2. DeadLetterEvidence'
    BY DEF DeadLetterEvidence
  <1>3. VersionCountsTransitions'
    BY DEF VersionCountsTransitions
  <1>4. RowsKept
    BY DEF RowsKept
  <1>5. QED
    BY <1>1, <1>2, <1>3, <1>4

LEMMA MarkCompletedSteps ==
  ASSUME Inv, NEW e \in Events, MarkCompleted(e), row[e].status = "processing"
  PROVE  /\ AttemptsBounded'
         /\ DeadLetterEvidence'
         /\ VersionCountsTransitions'
         /\ RowsKept
  <1> USE DEF MarkCompleted, Inv, TypeOK, Rows
  <1>1. AttemptsBounded'
    BY DEF AttemptsBounded
  <1>2. DeadLetterEvidence'
    BY DEF DeadLetterEvidence
  <1>3. VersionCountsTransitions'
    BY DEF VersionCountsTransitions
  <1>4. RowsKept
    BY DEF RowsKept
  <1>5. QED
    BY <1>1, <1>2, <1>3, <1>4

\* A step that claims nothing and lets no claim appear keeps the claims
\* consistent as long as no attempt counter and no accepted row is lost.
LEMMA ClaimsSurvive ==
  ASSUME Inv, TypeOK', RowsKept, ClaimsKept
  PROVE  ClaimsAreAttempts' /\ AttemptsAreExclusive'
  <1>1. ClaimsAreAttempts'
    BY BusyHoldsClaim DEF ClaimsAreAttempts, Inv, RowsKept, ClaimsKept
  <1>2. AttemptsAreExclusive'
    BY DEF AttemptsAreExclusive, Inv, ClaimsKept
  <1>3. QED
    BY <1>1, <1>2

LEMMA EffectsSurvive ==
  ASSUME Inv, TypeOK', RowsKept, NoneDispatched,
         inflight' \subseteq inflight, delivered' = delivered
  PROVE  EffectsAreAccepted'
  BY DEF EffectsAreAccepted, Inv, TypeOK, RowsKept, NoneDispatched

\* The invariant is kept by every step, one named case per action.
LEMMA InvNext == Inv /\ [Next]_vars => Inv'
  <1> SUFFICES ASSUME Inv, [Next]_vars PROVE Inv'
    OBVIOUS
  <1> TypeOK'
    BY TypeNext
  <1> TypeOK /\ AttemptsBounded /\ DeadLetterEvidence /\ VersionCountsTransitions
      /\ ClaimsAreAttempts /\ AttemptsAreExclusive /\ EffectsAreAccepted
    BY DEF Inv
  <1>1. ASSUME NEW e \in Events, Enqueue(e) PROVE Inv'
    <2> USE <1>1 DEF Enqueue, provider, TypeOK, Rows
    <2>1. AttemptsBounded' /\ VersionCountsTransitions' /\ DeadLetterEvidence'
      BY DEF AttemptsBounded, VersionCountsTransitions, DeadLetterEvidence, Inv
    <2>2. ClaimsAreAttempts' /\ AttemptsAreExclusive'
      BY ClaimsSurvive DEF RowsKept, ClaimsKept
    <2>3. EffectsAreAccepted'
      BY EffectsSurvive DEF RowsKept, NoneDispatched
    <2>4. QED
      BY <2>1, <2>2, <2>3 DEF Inv
  <1>2. ASSUME NEW e \in Events, ProviderApplies(e) PROVE Inv'
    <2> USE <1>2 DEF ProviderApplies, database
    <2>1. AttemptsBounded' /\ VersionCountsTransitions' /\ DeadLetterEvidence'
      BY DEF AttemptsBounded, VersionCountsTransitions, DeadLetterEvidence
    <2>2. ClaimsAreAttempts' /\ AttemptsAreExclusive'
      BY ClaimsSurvive DEF RowsKept, ClaimsKept
    <2>3. EffectsAreAccepted'
      BY DEF EffectsAreAccepted
    <2>4. QED
      BY <2>1, <2>2, <2>3 DEF Inv
  <1>3. ASSUME NEW e \in Events, TimerElapses(e) PROVE Inv'
    <2> USE <1>3 DEF TimerElapses, provider, TypeOK, Rows
    <2>1. AttemptsBounded' /\ VersionCountsTransitions' /\ DeadLetterEvidence'
      BY DEF AttemptsBounded, VersionCountsTransitions, DeadLetterEvidence
    <2>2. ClaimsAreAttempts' /\ AttemptsAreExclusive'
      BY ClaimsSurvive DEF RowsKept, ClaimsKept
    <2>3. EffectsAreAccepted'
      BY EffectsSurvive DEF RowsKept, NoneDispatched
    <2>4. QED
      BY <2>1, <2>2, <2>3 DEF Inv
  <1>4. ASSUME NEW w \in Workers, StartDrain(w) PROVE Inv'
    <2> USE DEF StartDrain, provider
    <2>0. ClaimsKept /\ NoneDispatched /\ UNCHANGED <<inflight, delivered>>
      BY <1>4 DEF ClaimsKept, NoneDispatched, TypeOK, Busy
    <2>1. /\ AttemptsBounded' /\ VersionCountsTransitions' /\ DeadLetterEvidence'
          /\ RowsKept
      <3>1. CASE \E e \in Events : Expired(e) /\ Release(e, MaxAttempts)
        BY <3>1, ReleaseSteps DEF Expired
      <3>2. CASE UNCHANGED database
        BY <3>2 DEF RowsKept, database, AttemptsBounded, VersionCountsTransitions, DeadLetterEvidence
      <3>3. QED
        BY <1>4, <3>1, <3>2
    <2>2. ClaimsAreAttempts' /\ AttemptsAreExclusive'
      BY <2>1, <2>0, ClaimsSurvive
    <2>3. EffectsAreAccepted'
      BY <2>1, <2>0, EffectsSurvive
    <2>4. QED
      BY <2>1, <2>2, <2>3 DEF Inv
  <1>5. ASSUME NEW w \in Workers, Launch(w) \/ ReturnEmpty(w) \/ FinishDrain(w) \/ Crash(w)
        PROVE  Inv'
    <2> USE DEF Launch, ReturnEmpty, FinishDrain, Crash, Proceed, database, provider
    <2>1. AttemptsBounded' /\ VersionCountsTransitions' /\ DeadLetterEvidence'
      BY <1>5 DEF AttemptsBounded, VersionCountsTransitions, DeadLetterEvidence
    <2>2. ClaimsAreAttempts' /\ AttemptsAreExclusive'
      BY <1>5, ClaimsSurvive DEF RowsKept, ClaimsKept, TypeOK, Busy
    <2>3. EffectsAreAccepted'
      BY <1>5, EffectsSurvive DEF RowsKept, NoneDispatched, TypeOK, Busy
    <2>4. QED
      BY <2>1, <2>2, <2>3 DEF Inv
  <1>6. ASSUME NEW w \in Workers, Dispatch(w) \/ EndDispatch(w) PROVE Inv'
    <2> USE DEF Dispatch, EndDispatch, DispatchSucceeds, DispatchFails, database, provider
    <2> pc[w] \in Busy
      BY <1>6 DEF Busy
    <2>1. AttemptsBounded' /\ VersionCountsTransitions' /\ DeadLetterEvidence'
      BY <1>6 DEF AttemptsBounded, VersionCountsTransitions, DeadLetterEvidence
    <2>2. ClaimsAreAttempts' /\ AttemptsAreExclusive'
      BY <1>6, ClaimsSurvive DEF RowsKept, ClaimsKept, TypeOK, Busy
    <2>3. EffectsAreAccepted'
      BY <1>6 DEF EffectsAreAccepted, ClaimsAreAttempts, TypeOK, Busy
    <2>4. QED
      BY <2>1, <2>2, <2>3 DEF Inv
  <1>7. ASSUME NEW w \in Workers, EndAttempt(w) PROVE Inv'
    <2> USE DEF Proceed, provider
    <2> pc[w] \in Busy
      BY <1>7 DEF EndAttempt, Complete, CompleteThrows, RetryOrDeadLetter, Busy
    <2> held[w].event \in Events /\ held[w].attempt \in Nat /\ held[w].attempt >= 1
        /\ held[w].attempt <= MaxAttempts
      BY BusyHoldsClaim DEF ClaimsAreAttempts, AttemptsBounded, TypeOK, Rows
    <2>1. /\ AttemptsBounded' /\ VersionCountsTransitions' /\ DeadLetterEvidence'
          /\ RowsKept
      <3>1. CASE UNCHANGED database
        BY <3>1 DEF RowsKept, database, AttemptsBounded, VersionCountsTransitions, DeadLetterEvidence
      <3>2. CASE Fenced(w) /\ MarkCompleted(held[w].event)
        BY <3>2, MarkCompletedSteps DEF Fenced
      <3>3. CASE Fenced(w) /\ Release(held[w].event, AttemptLimit(w))
        BY <3>3, ReleaseSteps DEF Fenced, AttemptLimit
      <3>4. QED
        BY <1>7, <3>1, <3>2, <3>3 DEF EndAttempt, Complete, CompleteThrows, RetryOrDeadLetter
    <2>2. ClaimsKept /\ NoneDispatched /\ UNCHANGED <<inflight, delivered>>
      BY <1>7 DEF EndAttempt, Complete, CompleteThrows, RetryOrDeadLetter,
                    ClaimsKept, NoneDispatched, TypeOK, Busy
    <2>3. ClaimsAreAttempts' /\ AttemptsAreExclusive'
      BY <2>1, <2>2, ClaimsSurvive
    <2>4. EffectsAreAccepted'
      BY <2>1, <2>2, EffectsSurvive
    <2>5. QED
      BY <2>1, <2>3, <2>4 DEF Inv
  <1>8. ASSUME NEW w \in Workers, NEW e \in Events, Claim(w, e) PROVE Inv'
    <2> USE DEF Claim, Claimed, Due, provider
    <2> row[e] \in Rows /\ row'[e].attempt = row[e].attempt + 1
        /\ row'[e].version = row[e].version + 1 /\ row'[e].status = "processing"
        /\ \A x \in Events : x # e => row'[x] = row[x]
      BY <1>8 DEF TypeOK, Rows
    <2>1. AttemptsBounded'
      BY <1>8 DEF AttemptsBounded, TypeOK, Rows
    <2>2. DeadLetterEvidence'
      BY <1>8 DEF DeadLetterEvidence, TypeOK
    <2>3. VersionCountsTransitions'
      BY <1>8 DEF VersionCountsTransitions, TypeOK, Rows
    <2>4. /\ held'[w] = [event |-> e, attempt |-> row[e].attempt + 1,
                         version |-> row[e].version + 1]
          /\ \A x \in Workers : x # w => held'[x] = held[x] /\ pc'[x] = pc[x]
          /\ pc'[w] = "claimed"
      BY <1>8 DEF TypeOK
    <2>5. ClaimsAreAttempts'
      <3> SUFFICES ASSUME NEW x \in Workers, pc'[x] \in Busy
                   PROVE  /\ held'[x] \in Claims
                          /\ held'[x].version = 2 * held'[x].attempt
                          /\ held'[x].attempt \in 1 .. row'[held'[x].event].attempt
                          /\ row'[held'[x].event].status # "absent"
        BY DEF ClaimsAreAttempts
      <3>1. CASE x = w
        BY <1>8, <2>4, <3>1 DEF Claims, Rows, VersionCountsTransitions
      <3>2. CASE x # w
        <4> held[x] \in Claims /\ held[x].version = 2 * held[x].attempt
            /\ held[x].attempt \in 1 .. row[held[x].event].attempt
            /\ row[held[x].event].status # "absent"
          BY <2>4, <3>2 DEF ClaimsAreAttempts
        <4> QED
          BY <2>4, <3>2 DEF Claims, TypeOK, Rows
      <3>3. QED
        BY <3>1, <3>2
    <2>6. AttemptsAreExclusive'
      <3>1. \A x \in Workers : pc[x] \in Busy /\ held[x].event = e => held[x].attempt <= row[e].attempt
        BY BusyHoldsClaim DEF ClaimsAreAttempts, TypeOK, Rows
      <3>2. \A x \in Workers : x # w /\ pc'[x] \in Busy /\ held'[x].event = e
                              => held'[x].attempt <= row[e].attempt
        BY <2>4, <3>1
      <3>3. held'[w].event = e /\ held'[w].attempt = row[e].attempt + 1 /\ row[e].attempt \in Nat
        BY <2>4 DEF Rows
      <3>4. \A x \in Workers : x # w /\ pc'[x] \in Busy /\ held'[x].event = e
                              => held'[x].attempt # held'[w].attempt
        <4> SUFFICES ASSUME NEW x \in Workers, x # w, pc'[x] \in Busy, held'[x].event = e
                     PROVE  held'[x].attempt # held'[w].attempt
          OBVIOUS
        <4> held'[x].attempt \in Nat
          BY <2>5 DEF ClaimsAreAttempts, Claims
        <4> QED
          BY <3>2, <3>3
      <3>5. QED
        BY <2>4, <3>3, <3>4 DEF AttemptsAreExclusive
    <2>7. EffectsAreAccepted'
      <3>1. \A x \in Events : row[x].status # "absent" => row'[x].status # "absent"
        BY <1>8
      <3>2. QED
        BY <1>8, <2>4, <3>1 DEF EffectsAreAccepted, TypeOK
    <2>8. QED
      BY <2>1, <2>2, <2>3, <2>5, <2>6, <2>7 DEF Inv
  <1>9. CASE UNCHANGED vars
    BY <1>9 DEF vars, Inv, TypeOK, AttemptsBounded, DeadLetterEvidence,
                VersionCountsTransitions, ClaimsAreAttempts, AttemptsAreExclusive,
                EffectsAreAccepted
  <1>10. QED
    BY <1>1, <1>2, <1>3, <1>4, <1>5, <1>6, <1>7, <1>8, <1>9 DEF Next

LEMMA InvInit == Init => Inv
  BY TypeInit DEF Init, Inv, AttemptsBounded, DeadLetterEvidence, VersionCountsTransitions,
                  ClaimsAreAttempts, AttemptsAreExclusive, EffectsAreAccepted, Busy

-----------------------------------------------------------------------------
(* Theorems *)

\* Inv holds in every reachable state: types, the attempt bound, the dead-letter
\* evidence, and the meaning of versions and claims it rests on.
THEOREM Invariance == Spec => []Inv
  <1>1. QED
    BY InvInit, InvNext, PTL DEF Spec

\* The type invariant of the outbox and of its workers.
THEOREM TypeCorrect == Spec => []TypeOK
  <1>1. Inv => TypeOK
    BY DEF Inv
  <1>2. QED
    BY <1>1, Invariance, PTL

\* However attempts end, a row is never attempted more than maxAttempts times.
THEOREM AttemptsAreBounded == Spec => []AttemptsBounded
  <1>1. Inv => AttemptsBounded
    BY DEF Inv
  <1>2. QED
    BY <1>1, Invariance, PTL

\* A dead event and its dead-letter activity never exist one without the other.
THEOREM DeadLetterHasEvidence == Spec => []DeadLetterEvidence
  <1>1. Inv => DeadLetterEvidence
    BY DEF Inv
  <1>2. QED
    BY <1>1, Invariance, PTL

\* A worker that passes the version fence made the current attempt.
LEMMA FenceIdentifiesAttempt ==
  ASSUME Inv, NEW w \in Workers, pc[w] \in Busy, Fenced(w)
  PROVE  held[w].attempt = row[held[w].event].attempt
  <1>1. /\ held[w].event \in Events
        /\ held[w].attempt \in Nat
        /\ row[held[w].event].attempt \in Nat
    BY BusyHoldsClaim DEF Inv, TypeOK, Rows
  <1>2. held[w].version = 2 * held[w].attempt
    BY DEF Inv, ClaimsAreAttempts
  <1>3. row[held[w].event].version = 2 * row[held[w].event].attempt
    BY <1>1 DEF Fenced, Inv, VersionCountsTransitions
  <1>4. QED
    BY <1>1, <1>2, <1>3 DEF Fenced

\* While its lease runs, a row leaves processing only by the worker that made
\* its current attempt: no zombie, and no recovery, takes it away.
THEOREM LeaseProtectsAttempt == Spec => LiveLeaseEndedByItsClaimant
  <1>1. Inv /\ [Next]_vars => LeaseStep
    <2> SUFFICES ASSUME Inv, [Next]_vars, NEW e \in Events,
                        row[e].status = "processing", row[e].timer = "running",
                        row'[e].status # "processing"
                 PROVE  \E w \in Workers : /\ pc[w] \in Busy
                                           /\ pc'[w] # pc[w]
                                           /\ held[w].event = e
                                           /\ held[w].attempt = row[e].attempt
      BY DEF LeaseStep
    <2> row \in [Events -> Rows]
      BY DEF Inv, TypeOK
    <2>1. ASSUME NEW x \in Events, Enqueue(x) \/ ProviderApplies(x) \/ TimerElapses(x)
          PROVE  FALSE
      BY <2>1 DEF Enqueue, ProviderApplies, TimerElapses, database, Rows
    <2>2. ASSUME NEW w \in Workers, StartDrain(w) PROVE FALSE
      BY <2>2 DEF StartDrain, Expired, Release, database, Rows
    <2>3. ASSUME NEW w \in Workers,
                 \/ Launch(w) \/ ReturnEmpty(w) \/ FinishDrain(w) \/ Crash(w)
                 \/ Dispatch(w) \/ EndDispatch(w)
          PROVE  FALSE
      BY <2>3 DEF Launch, ReturnEmpty, FinishDrain, Crash, Dispatch, EndDispatch, DispatchSucceeds, DispatchFails,
                  database
    <2>4. ASSUME NEW w \in Workers, NEW x \in Events, Claim(w, x) PROVE FALSE
      BY <2>4 DEF Claim, Claimed, Due, Rows
    <2>5. ASSUME NEW w \in Workers, EndAttempt(w)
          PROVE  pc[w] \in Busy /\ pc'[w] # pc[w] /\ held[w].event = e
                 /\ held[w].attempt = row[e].attempt
      <3>1. pc[w] \in Busy
        BY <2>5 DEF EndAttempt, Complete, CompleteThrows, RetryOrDeadLetter, Busy
      <3>2. pc'[w] # pc[w]
        BY <2>5 DEF EndAttempt, Complete, CompleteThrows, RetryOrDeadLetter, Proceed, Inv, TypeOK
      <3>3. held[w].event = e /\ Fenced(w)
        BY <2>5, <3>1, BusyHoldsClaim
           DEF EndAttempt, Complete, CompleteThrows, RetryOrDeadLetter, database,
               MarkCompleted, Release
      <3>4. QED
        BY <3>1, <3>2, <3>3, FenceIdentifiesAttempt
    <2>6. CASE UNCHANGED vars
      BY <2>6 DEF vars
    <2>7. QED
      BY <2>1, <2>2, <2>3, <2>4, <2>5, <2>6 DEF Next
  <1>2. QED
    BY <1>1, Invariance, PTL DEF Spec, LiveLeaseEndedByItsClaimant

-----------------------------------------------------------------------------
(* Refinement *)

LEMMA RefinesInit == Init => Promise!Init
  BY DEF Init, Promise!Init, Phase, PhaseOf

\* Releasing a row either dead-letters its event or leaves it owed.
LEMMA ReleaseSettles ==
  ASSUME Inv, NEW e \in Events, NEW limit \in Nat, Release(e, limit),
         row[e].status = "processing", UNCHANGED delivered
  PROVE  Promise!DeadLetter(e) \/ UNCHANGED <<Phase, deadLetters>>
  <1> row \in [Events -> Rows]
    BY DEF Inv, TypeOK
  <1>1. CASE Exhausted(e, limit)
    BY <1>1 DEF Release, Rows, Phase, PhaseOf, Promise!DeadLetter
  <1>2. CASE ~Exhausted(e, limit)
    BY <1>2 DEF Release, Rows, Phase, PhaseOf
  <1>3. QED
    BY <1>1, <1>2

LEMMA CompletionSettles ==
  ASSUME Inv, NEW e \in delivered, MarkCompleted(e), row[e].status = "processing",
         UNCHANGED delivered
  PROVE  Promise!Complete(e)
  BY DEF MarkCompleted, Inv, TypeOK, Rows, Phase, PhaseOf, Promise!Complete

\* Every step of the outbox is a step of Delivery or leaves its state alone.
LEMMA RefinesNext == Inv /\ [Next]_vars => [Promise!Next]_(Promise!abstractVars)
  <1> SUFFICES ASSUME Inv, [Next]_vars
               PROVE  Promise!Next \/ UNCHANGED <<Phase, delivered, deadLetters>>
    BY DEF Promise!abstractVars
  <1> row \in [Events -> Rows] /\ delivered \subseteq Events
    BY DEF Inv, TypeOK
  <1> USE DEF Promise!Next
  <1>1. ASSUME NEW e \in Events, Enqueue(e) PROVE Promise!Accept(e)
    BY <1>1 DEF Enqueue, provider, Rows, Phase, PhaseOf, Promise!Accept
  <1>2. ASSUME NEW e \in Events, ProviderApplies(e) PROVE Promise!Apply(e)
    <2>1. row[e].status \in Statuses \ {"absent"}
      BY <1>2 DEF ProviderApplies, Inv, EffectsAreAccepted, Rows
    <2>2. Phase[e] # "none"
      BY <2>1 DEF Phase, PhaseOf, Statuses
    <2>3. QED
      BY <1>2, <2>2 DEF ProviderApplies, database, Phase, Promise!Apply
  <1>3. ASSUME NEW e \in Events, TimerElapses(e)
        PROVE  UNCHANGED <<Phase, delivered, deadLetters>>
    BY <1>3 DEF TimerElapses, provider, Rows, Phase
  <1>4. ASSUME NEW w \in Workers, StartDrain(w)
        PROVE  Promise!Next \/ UNCHANGED <<Phase, delivered, deadLetters>>
    BY <1>4, ReleaseSettles DEF StartDrain, Expired, database, provider, Phase
  <1>5. ASSUME NEW w \in Workers,
               \/ Launch(w) \/ ReturnEmpty(w) \/ FinishDrain(w) \/ Crash(w)
               \/ Dispatch(w) \/ EndDispatch(w)
        PROVE  UNCHANGED <<Phase, delivered, deadLetters>>
    BY <1>5 DEF Launch, ReturnEmpty, FinishDrain, Crash, Dispatch, EndDispatch, DispatchSucceeds, DispatchFails,
                database, provider, Phase
  <1>6. ASSUME NEW w \in Workers, NEW e \in Events, Claim(w, e)
        PROVE  UNCHANGED <<Phase, delivered, deadLetters>>
    BY <1>6 DEF Claim, Claimed, Due, provider, Rows, Phase, PhaseOf
  <1>7. ASSUME NEW w \in Workers, EndAttempt(w)
        PROVE  Promise!Next \/ UNCHANGED <<Phase, delivered, deadLetters>>
    <2> UNCHANGED delivered
      BY <1>7 DEF EndAttempt, Complete, CompleteThrows, RetryOrDeadLetter, provider
    <2> pc[w] \in Busy
      BY <1>7 DEF EndAttempt, Complete, CompleteThrows, RetryOrDeadLetter, Busy
    <2> held[w].event \in Events /\ AttemptLimit(w) \in Nat
      BY BusyHoldsClaim DEF AttemptLimit
    <2>1. CASE UNCHANGED database
      BY <2>1 DEF database, Phase
    <2>2. CASE pc[w] = "dispatched" /\ Fenced(w) /\ MarkCompleted(held[w].event)
      <3>1. held[w].event \in delivered
        BY <2>2 DEF Inv, EffectsAreAccepted
      <3>2. QED
        BY <2>2, <3>1, CompletionSettles DEF Fenced
    <2>3. CASE Fenced(w) /\ Release(held[w].event, AttemptLimit(w))
      BY <2>3, ReleaseSettles DEF Fenced
    <2>4. QED
      BY <1>7, <2>1, <2>2, <2>3 DEF EndAttempt, Complete, CompleteThrows, RetryOrDeadLetter
  <1>8. CASE UNCHANGED vars
    BY <1>8 DEF vars, Phase
  <1>9. QED
    BY <1>1, <1>2, <1>3, <1>4, <1>5, <1>6, <1>7, <1>8 DEF Next

\* The outbox implements the delivery promise: nothing is completed before its
\* effect was applied, settled twice, or revived, for any number of workers.
THEOREM OutboxImplementsDelivery == Spec => ImplementsDelivery
  <1>1. QED
    BY RefinesInit, RefinesNext, Invariance, PTL DEF Spec, ImplementsDelivery, Promise!Spec
=============================================================================
