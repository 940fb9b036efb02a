--------------------------- MODULE MailQueueProofs ---------------------------
(***************************************************************************)
(* Proofs about MailQueue for any messages, sweeps, attempts and label     *)
(* catalogs: the inductive invariant Inv, that a filed message leaves the  *)
(* review queue, that the provider is paid a bounded number of times, that *)
(* paid analyses are kept, and the refinement of Triage.                   *)
(***************************************************************************)
EXTENDS MailQueue, TLAPS

USE AttemptsAssumption, CatalogAssumption, NobodyAssumption

-----------------------------------------------------------------------------
(* The rows that are written *)

Errors == {Exempt, Retryable, OtherError}

LEMMA RowFacts ==
  /\ Absent \in Rows /\ WellFormed(Absent) /\ Absent.status = "absent"
  /\ Skipped \in Rows /\ WellFormed(Skipped) /\ Skipped.status \in Terminal
  /\ NoItem \in Items /\ NoItem.pc = "none" /\ NoItem.seen = Absent
  BY DEF Absent, Rows, WellFormed, Skipped, NoItem, Items, Terminal, Versions, Attempts

LEMMA AnalysisFacts ==
  ASSUME NEW v \in 1 .. MaxCatalog
  PROVE  /\ Analysis(v) \in Rows
         /\ WellFormed(Analysis(v))
         /\ Analysis(v).status = "needs-review"
         /\ Analysis(v).label = v
         /\ Analysis(v).attempts = 0
  <1>1. v \in Versions /\ 0 \in Attempts /\ 0 \in Versions
    BY DEF Versions, Attempts
  <1>2. Analysis(v) = [status |-> "needs-review", label |-> v, attempted |-> 0, attempts |-> 0,
                       error |-> "none"]
    BY DEF Analysis
  <1>3. QED
    BY <1>1, <1>2 DEF Rows, WellFormed, Terminal

LEMMA AttemptsFacts ==
  ASSUME NEW seen \in Rows, NEW v \in 1 .. MaxCatalog, NEW counts \in BOOLEAN
  PROVE  /\ CountedBefore(seen, v) \in Attempts
         /\ AttemptsAfter(seen, v, counts) \in Attempts \ {0}
         /\ AttemptsAfter(seen, v, counts) >= CountedBefore(seen, v)
         /\ counts => \/ AttemptsAfter(seen, v, counts) = CountedBefore(seen, v) + 1
                      \/ AttemptsAfter(seen, v, counts) = MaxAttempts
  <1>1. CountedBefore(seen, v) \in Attempts
    BY DEF CountedBefore, Rows, Attempts
  <1>2. QED
    BY <1>1 DEF AttemptsAfter, Attempts

LEMMA FailureFacts ==
  ASSUME NEW seen \in Rows, NEW v \in 1 .. MaxCatalog, NEW error \in Errors,
         NEW counts \in BOOLEAN
  PROVE  /\ Failure(seen, v, error, counts) \in Rows
         /\ WellFormed(Failure(seen, v, error, counts))
         /\ Failure(seen, v, error, counts).status =
              IF seen.status = "needs-review" THEN "needs-review" ELSE "failed"
         /\ Failure(seen, v, error, counts).attempted = v
         /\ Failure(seen, v, error, counts).error = error
         /\ Failure(seen, v, error, counts).attempts = AttemptsAfter(seen, v, counts)
  <1>1. AttemptsAfter(seen, v, counts) \in Attempts \ {0}
    BY AttemptsFacts
  <1>2. QED
    BY <1>1 DEF Failure, Rows, WellFormed, Versions, Attempts, Errors, Terminal,
                Exempt, Retryable, OtherError

-----------------------------------------------------------------------------
(* Types *)

LEMMA TypeInit == Init => TypeOK
  <1> SUFFICES ASSUME Init PROVE TypeOK
    OBVIOUS
  <1> USE DEF Init
  <1>1. rows \in [Messages -> Rows] /\ \A m \in Messages : WellFormed(rows[m])
    BY RowFacts
  <1>2. sweeps \in [Sweeps -> [pc : {"idle", "reconciling", "collecting", "working", "failing"},
                               catalog : 1 .. MaxCatalog, stopped : BOOLEAN,
                               arrivals : SUBSET Messages]]
    BY DEF NoSweep
  <1>3. work \in [Sweeps -> [Messages -> Items]]
    BY RowFacts
  <1>4. calls \in [Messages -> 0 .. MaxAttempts + 1]
    OBVIOUS
  <1>5. /\ catalog \in 1 .. MaxCatalog
        /\ lease \in Sweeps \cup {Nobody}
        /\ overlap \in BOOLEAN
    <2>1. catalog \in 1 .. MaxCatalog
      OBVIOUS
    <2>2. lease \in Sweeps \cup {Nobody}
      OBVIOUS
    <2>3. overlap \in BOOLEAN
      BY Zenon
    <2>4. QED
      BY <2>1, <2>2, <2>3
  <1>6. filed \in SUBSET Messages /\ lapsed \in SUBSET Messages /\ blind \in SUBSET Messages
    OBVIOUS
  <1>7. QED
    BY <1>1, <1>2, <1>3, <1>4, <1>5, <1>6 DEF TypeOK

\* The row a statement leaves behind is a row again.
LEMMA WriteTyped ==
  ASSUME TypeOK, NEW m \in Messages, NEW row \in Rows, WellFormed(row), Write(m, row)
  PROVE  /\ rows' \in [Messages -> Rows]
         /\ \A n \in Messages : WellFormed(rows'[n])
         /\ rows'[m] = row
         /\ \A n \in Messages \ {m} : rows'[n] = rows[n]
  BY DEF TypeOK, Write

LEMMA UpsertTyped ==
  ASSUME TypeOK, NEW m \in Messages, NEW row \in Rows, WellFormed(row)
  PROVE  /\ Upsert(rows[m], row) \in Rows
         /\ WellFormed(Upsert(rows[m], row))
         /\ InsertIfAbsent(rows[m], row) \in Rows
         /\ WellFormed(InsertIfAbsent(rows[m], row))
  BY DEF TypeOK, Upsert, InsertIfAbsent

LEMMA FinishTyped ==
  ASSUME TypeOK, NEW s \in Sweeps, NEW m \in Messages, Finish(s, m)
  PROVE  /\ work' \in [Sweeps -> [Messages -> Items]]
         /\ \A o \in Sweeps, n \in Messages : o # s \/ n # m => work'[o][n] = work[o][n]
         /\ work'[s][m] = NoItem
  <1>1. NoItem \in Items
    BY RowFacts
  <1>2. QED
    BY <1>1 DEF TypeOK, Finish

LEMMA ContinueTyped ==
  ASSUME TypeOK, NEW s \in Sweeps, NEW m \in Messages,
         NEW pc \in {"reading", "analysing", "saved", "broken"}, Continue(s, m, pc)
  PROVE  /\ work' \in [Sweeps -> [Messages -> Items]]
         /\ \A o \in Sweeps, n \in Messages : o # s \/ n # m => work'[o][n] = work[o][n]
         /\ work'[s][m].pc = pc
         /\ work'[s][m].seen = work[s][m].seen
  <1>0. work[s][m] \in Items
    BY DEF TypeOK
  <1>1. [work[s][m] EXCEPT !.pc = pc] \in Items
    BY <1>0 DEF Items
  <1>2. work' = [work EXCEPT ![s] = [work[s] EXCEPT ![m] = [work[s][m] EXCEPT !.pc = pc]]]
    BY DEF Continue
  <1>3. QED
    BY <1>1, <1>2 DEF TypeOK, Items

SweepRecords ==
  [pc : {"idle", "reconciling", "collecting", "working", "failing"},
   catalog : 1 .. MaxCatalog, stopped : BOOLEAN, arrivals : SUBSET Messages]

LEMMA SweepTyped ==
  ASSUME TypeOK, NEW s \in Sweeps
  PROVE  /\ sweeps \in [Sweeps -> SweepRecords]
         /\ sweeps[s] \in SweepRecords
         /\ sweeps[s].catalog \in 1 .. MaxCatalog
         /\ NoSweep \in SweepRecords
  BY DEF TypeOK, SweepRecords, NoSweep

\* Steps that write one row and leave the counters alone.
LEMMA SaveTyped ==
  ASSUME TypeOK, NEW m \in Messages, NEW row \in Rows, WellFormed(row), Write(m, row),
         work' \in [Sweeps -> [Messages -> Items]],
         UNCHANGED <<filed, catalog, sweeps, lease, calls, blind, overlap>>,
         lapsed' \in SUBSET Messages
  PROVE  TypeOK'
  BY WriteTyped DEF TypeOK

LEMMA SaveFailureTyped ==
  ASSUME TypeOK, NEW s \in Sweeps, NEW m \in Messages, NEW error \in Errors,
         NEW counts \in BOOLEAN, SaveFailure(s, m, error, counts)
  PROVE  TypeOK'
  <1>1. work[s][m].seen \in Rows
    BY DEF TypeOK, Items
  <1>2. sweeps[s].catalog \in 1 .. MaxCatalog
    BY SweepTyped
  <1>3. /\ Failure(work[s][m].seen, sweeps[s].catalog, error, counts) \in Rows
        /\ WellFormed(Failure(work[s][m].seen, sweeps[s].catalog, error, counts))
    BY <1>1, <1>2, FailureFacts
  <1>4. work' \in [Sweeps -> [Messages -> Items]]
    BY FinishTyped DEF SaveFailure
  <1>5. /\ Upsert(rows[m], Failure(work[s][m].seen, sweeps[s].catalog, error, counts)) \in Rows
        /\ WellFormed(Upsert(rows[m], Failure(work[s][m].seen, sweeps[s].catalog, error, counts)))
    BY <1>3, UpsertTyped
  <1>6. lapsed' \in SUBSET Messages
    BY DEF SaveFailure, history, TypeOK
  <1>7. QED
    BY <1>4, <1>5, <1>6, SaveTyped DEF SaveFailure, history

LEMMA SkipTyped ==
  ASSUME TypeOK, NEW s \in Sweeps, NEW m \in Messages, SkipFiled(s, m) \/ SkipNoise(s, m)
  PROVE  TypeOK'
  <1>1. Upsert(rows[m], Skipped) \in Rows /\ WellFormed(Upsert(rows[m], Skipped))
    BY RowFacts, UpsertTyped
  <1>2. work' \in [Sweeps -> [Messages -> Items]]
    BY FinishTyped DEF SkipFiled, SkipNoise
  <1>3. QED
    BY <1>1, <1>2, SaveTyped DEF SkipFiled, SkipNoise, history, TypeOK

LEMMA DiscoveryFailureTyped ==
  ASSUME TypeOK, NEW s \in Sweeps, NEW m \in Messages, SaveDiscoveryFailure(s, m)
  PROVE  TypeOK'
  <1> DEFINE row == Failure(Absent, sweeps[s].catalog, Retryable, TRUE)
  <1>1. row \in Rows /\ WellFormed(row)
    BY RowFacts, SweepTyped, FailureFacts DEF Errors
  <1>2. InsertIfAbsent(rows[m], row) \in Rows /\ WellFormed(InsertIfAbsent(rows[m], row))
    BY <1>1, UpsertTyped
  <1>3. work' \in [Sweeps -> [Messages -> Items]]
    BY FinishTyped DEF SaveDiscoveryFailure
  <1>4. QED
    BY <1>2, <1>3, SaveTyped DEF SaveDiscoveryFailure, history, TypeOK

LEMMA SaveAnalysisTyped ==
  ASSUME TypeOK, NEW s \in Sweeps, NEW m \in Messages, SaveAnalysis(s, m)
  PROVE  TypeOK'
  <1>1. /\ Analysis(sweeps[s].catalog) \in Rows
        /\ WellFormed(Analysis(sweeps[s].catalog))
    BY SweepTyped, AnalysisFacts
  <1>2. /\ Analysed(rows[m], work[s][m].seen, sweeps[s].catalog) \in Rows
        /\ WellFormed(Analysed(rows[m], work[s][m].seen, sweeps[s].catalog))
    BY <1>1, UpsertTyped DEF Analysed
  <1>3. work' \in [Sweeps -> [Messages -> Items]]
    BY ContinueTyped DEF SaveAnalysis
  <1>4. lapsed' \in SUBSET Messages
    BY DEF SaveAnalysis, TypeOK
  <1>5. QED
    BY <1>2, <1>3, <1>4, SaveTyped DEF SaveAnalysis

LEMMA RetireTyped ==
  ASSUME TypeOK, NEW s \in Sweeps, NEW m \in Messages, RetireFiled(s, m)
  PROVE  TypeOK'
  <1> DEFINE row == Failure(Absent, sweeps[s].catalog, OtherError, TRUE)
  <1>1. row \in Rows /\ WellFormed(row)
    BY RowFacts, SweepTyped, FailureFacts DEF Errors
  <1>2. /\ Upsert(rows[m], Skipped) \in Rows /\ WellFormed(Upsert(rows[m], Skipped))
        /\ Upsert(rows[m], row) \in Rows /\ WellFormed(Upsert(rows[m], row))
    BY <1>1, RowFacts, UpsertTyped
  <1>3. work' \in [Sweeps -> [Messages -> Items]]
    BY FinishTyped DEF RetireFiled
  <1>4. lapsed' \in SUBSET Messages
    BY DEF RetireFiled, TypeOK
  <1>5. CASE UNCHANGED rows
    BY <1>3, <1>4, <1>5 DEF RetireFiled, TypeOK
  <1>6. CASE Write(m, Upsert(rows[m], Skipped))
    BY <1>2, <1>3, <1>4, <1>6, SaveTyped DEF RetireFiled
  <1>7. CASE Write(m, Upsert(rows[m], row))
    BY <1>2, <1>3, <1>4, <1>7, SaveTyped DEF RetireFiled
  <1>8. QED
    BY <1>5, <1>6, <1>7 DEF RetireFiled

\* Worker steps that write no row.
LEMMA QuietTyped ==
  ASSUME TypeOK, NEW s \in Sweeps, NEW m \in Messages,
         PassFilter(s, m) \/ CallProvider(s, m) \/ Arrive(s, m) \/ Break(s, m) \/ FailSweep(s, m)
  PROVE  TypeOK'
  <1>1. work' \in [Sweeps -> [Messages -> Items]]
    BY FinishTyped, ContinueTyped DEF PassFilter, CallProvider, Arrive, Break, FailSweep
  <1>2. calls' \in [Messages -> 0 .. MaxAttempts + 1]
    BY DEF PassFilter, CallProvider, Arrive, Break, FailSweep, history, TypeOK
  <1>3. sweeps' \in [Sweeps -> SweepRecords]
    BY SweepTyped DEF PassFilter, CallProvider, Arrive, Break, FailSweep, SweepRecords
  <1>4. lapsed' \in SUBSET Messages
    BY DEF PassFilter, CallProvider, Arrive, Break, FailSweep, history, TypeOK
  <1>5. QED
    BY <1>1, <1>2, <1>3, <1>4 DEF PassFilter, CallProvider, Arrive, Break, FailSweep, history,
                                  TypeOK, SweepRecords

LEMMA WorkerTyped ==
  ASSUME TypeOK, NEW s \in Sweeps, NEW m \in Messages, Worker(s, m)
  PROVE  TypeOK'
  <1>1. CASE \E error \in Errors, counts \in BOOLEAN : SaveFailure(s, m, error, counts)
    BY <1>1, SaveFailureTyped
  <1>2. QED
    BY <1>1, SkipTyped, DiscoveryFailureTyped, SaveAnalysisTyped, RetireTyped, QuietTyped
    DEF Worker, SaveAborted, GmailReadFails, DailyLimitReached, AnalysisFails, LabelsRetired,
        SaveBroken, Errors

LEMMA CollectTyped ==
  ASSUME TypeOK, NEW s \in Sweeps, NEW m \in Messages, Collect(s, m)
  PROVE  TypeOK'
  <1>1. /\ [pc |-> "queued", seen |-> rows[m]] \in Items
        /\ [pc |-> "unread", seen |-> Absent] \in Items
    BY RowFacts DEF TypeOK, Items
  <1>2. work' \in [Sweeps -> [Messages -> Items]]
    <2>1. PICK item \in Items : work' = [work EXCEPT ![s][m] = item]
      BY <1>1 DEF Collect
    <2>2. QED
      BY <2>1 DEF TypeOK
  <1>3. blind' \in SUBSET Messages
    BY DEF Collect, TypeOK
  <1>4. QED
    BY <1>2, <1>3 DEF Collect, TypeOK

LEMMA AnnounceTyped ==
  ASSUME TypeOK, NEW s \in Sweeps, NEW m \in Messages, Announce(s, m)
  PROVE  TypeOK'
  <1>1. Upsert(rows[m], Skipped) \in Rows /\ WellFormed(Upsert(rows[m], Skipped))
    BY RowFacts, UpsertTyped
  <1>2. rows' \in [Messages -> Rows] /\ \A n \in Messages : WellFormed(rows'[n])
    BY <1>1, WriteTyped DEF Announce, TypeOK
  <1>3. sweeps' \in [Sweeps -> SweepRecords]
    BY SweepTyped DEF Announce, SweepRecords
  <1>4. QED
    BY <1>2, <1>3 DEF Announce, history, TypeOK, SweepRecords

LEMMA SweepStepTyped ==
  ASSUME TypeOK, NEW s \in Sweeps,
         Begin(s) \/ Reconcile(s) \/ StartWorkers(s) \/ Stop(s) \/ End(s) \/ Crash(s)
  PROVE  TypeOK'
  <1>1. CASE Begin(s)
    <2>1. sweeps' \in [Sweeps -> SweepRecords]
      <3>1. [NoSweep EXCEPT !.pc = "reconciling", !.catalog = catalog] \in SweepRecords
        BY DEF NoSweep, SweepRecords, TypeOK
      <3>2. QED
        BY <1>1, <3>1, SweepTyped DEF Begin
    <2>2. overlap' \in BOOLEAN
      BY <1>1 DEF Begin, TypeOK
    <2>3. QED
      BY <1>1, <2>1, <2>2 DEF Begin, TypeOK, SweepRecords
  <1>2. CASE Reconcile(s)
    <2>1. rows' \in [Messages -> Rows] /\ \A n \in Messages : WellFormed(rows'[n])
      BY <1>2, RowFacts DEF Reconcile, TypeOK
    <2>2. sweeps' \in [Sweeps -> SweepRecords]
      BY <1>2, SweepTyped DEF Reconcile, SweepRecords
    <2>3. QED
      BY <1>2, <2>1, <2>2 DEF Reconcile, history, TypeOK, SweepRecords
  <1>3. CASE StartWorkers(s) \/ Stop(s)
    <2>1. sweeps' \in [Sweeps -> SweepRecords]
      <3>1. /\ [sweeps[s] EXCEPT !.pc = "working"] \in SweepRecords
            /\ [sweeps[s] EXCEPT !.stopped = TRUE] \in SweepRecords
        BY SweepTyped DEF SweepRecords
      <3>2. QED
        BY <1>3, <3>1, SweepTyped DEF StartWorkers, Stop
    <2>2. QED
      BY <1>3, <2>1 DEF StartWorkers, Stop, history, TypeOK, SweepRecords
  <1>4. CASE End(s)
    <2>1. sweeps' \in [Sweeps -> SweepRecords]
      BY <1>4, SweepTyped DEF End, SweepRecords
    <2>2. QED
      BY <1>4, <2>1 DEF End, Released, history, TypeOK, SweepRecords
  <1>5. CASE Crash(s)
    <2>1. sweeps' \in [Sweeps -> SweepRecords]
      BY <1>5, SweepTyped DEF Crash
    <2>2. work' \in [Sweeps -> [Messages -> Items]]
      BY <1>5, RowFacts DEF Crash, TypeOK
    <2>3. lapsed' \in SUBSET Messages
      BY <1>5 DEF Crash, TypeOK
    <2>4. QED
      BY <1>5, <2>1, <2>2, <2>3 DEF Crash, TypeOK, SweepRecords
  <1>6. QED
    BY <1>1, <1>2, <1>3, <1>4, <1>5

DecidedRow(outcome) == [Absent EXCEPT !.status = outcome]

LEMMA DecidedFacts ==
  ASSUME NEW outcome \in {"accepted", "dismissed"}
  PROVE  /\ DecidedRow(outcome) \in Rows
         /\ WellFormed(DecidedRow(outcome))
         /\ DecidedRow(outcome).status = outcome
  BY DEF DecidedRow, Absent, Rows, WellFormed, Terminal, Versions, Attempts

LEMMA RetriedFacts ==
  ASSUME TypeOK, NEW m \in Messages, m \in Retried
  PROVE  /\ [rows[m] EXCEPT !.attempts = 1, !.attempted = 0] \in Rows
         /\ WellFormed([rows[m] EXCEPT !.attempts = 1, !.attempted = 0])
  <1>1. rows[m] \in Rows /\ WellFormed(rows[m]) /\ rows[m].status = "failed"
    BY DEF TypeOK, Retried, Exhausted
  <1>2. 1 \in Attempts /\ 0 \in Versions
    BY DEF Attempts, Versions
  <1>3. DEFINE new == [rows[m] EXCEPT !.attempts = 1, !.attempted = 0]
  <1>4. /\ new.status = "failed" /\ new.attempts = 1 /\ new.attempted = 0
        /\ new.error = rows[m].error /\ new.label = rows[m].label
    BY <1>1 DEF Rows
  <1>5. new \in Rows
    BY <1>1, <1>2 DEF Rows
  <1>6. rows[m].attempts > 0 /\ rows[m].error # "none"
    BY <1>1 DEF WellFormed, Rows, Attempts
  <1>7. QED
    BY <1>4, <1>5, <1>6 DEF WellFormed, Terminal

LEMMA PersonTyped == TypeOK /\ Person => TypeOK'
  <1> SUFFICES ASSUME TypeOK, Person PROVE TypeOK'
    OBVIOUS
  <1>1. ASSUME NEW m \in Messages, File(m) PROVE TypeOK'
    <2>1. rows' \in [Messages -> Rows] /\ \A n \in Messages : WellFormed(rows'[n])
      BY <1>1, DecidedFacts DEF File, TypeOK, DecidedRow
    <2>2. filed' \in SUBSET Messages
      BY <1>1 DEF File, TypeOK
    <2>3. QED
      BY <1>1, <2>1, <2>2 DEF File, history, TypeOK
  <1>2. ASSUME NEW m \in Messages, NEW outcome \in {"accepted", "dismissed"}, Decide(m, outcome)
        PROVE  TypeOK'
    <2>1. rows' \in [Messages -> Rows] /\ \A n \in Messages : WellFormed(rows'[n])
      BY <1>2, DecidedFacts, WriteTyped DEF Decide, DecidedRow
    <2>2. QED
      BY <1>2, <2>1 DEF Decide, history, TypeOK
  <1>3. CASE RetryFailed
    <2>1. rows' \in [Messages -> Rows] /\ \A n \in Messages : WellFormed(rows'[n])
      BY <1>3, RetriedFacts DEF RetryFailed, TypeOK
    <2>2. calls' \in [Messages -> 0 .. MaxAttempts + 1]
      <3>1. 0 \in 0 .. MaxAttempts + 1
        OBVIOUS
      <3>2. QED
        BY <1>3, <3>1 DEF RetryFailed, TypeOK
    <2>3. QED
      BY <1>3, <2>1, <2>2 DEF RetryFailed, TypeOK
  <1>4. CASE EditLabels
    BY <1>4 DEF EditLabels, TypeOK
  <1>5. QED
    BY <1>1, <1>2, <1>3, <1>4 DEF Person

LEMMA TypeStep == TypeOK /\ [Next]_vars => TypeOK'
  <1> SUFFICES ASSUME TypeOK, [Next]_vars PROVE TypeOK'
    OBVIOUS
  <1>1. CASE UNCHANGED vars
    BY <1>1 DEF vars, history, TypeOK
  <1>2. CASE LeaseRunsOut
    BY <1>2 DEF LeaseRunsOut, history, TypeOK
  <1>3. ASSUME NEW s \in Sweeps, Sweep(s) PROVE TypeOK'
    BY <1>3, WorkerTyped, CollectTyped, AnnounceTyped, SweepStepTyped DEF Sweep
  <1>4. QED
    BY <1>1, <1>2, <1>3, PersonTyped DEF Next

-----------------------------------------------------------------------------
(* A step of one worker *)

Same(o, n) == work'[o][n] = work[o][n]

\* What a step of sweep s on message m leaves alone.
Confined(s, m) ==
  /\ work[s][m].pc # "none"
  /\ filed' = filed /\ catalog' = catalog /\ overlap' = overlap /\ blind' = blind
  /\ lapsed \subseteq lapsed' /\ lapsed' \subseteq lapsed \cup {m}
  /\ \A n \in Messages \ {m} : rows'[n] = rows[n] /\ calls'[n] = calls[n]
  /\ \A o \in Sweeps, n \in Messages : o # s \/ n # m => Same(o, n)
  /\ \A o \in Sweeps : sweeps'[o].catalog = sweeps[o].catalog /\ (Alive(o)' => Alive(o))
  /\ rows[m].status # "absent" => rows'[m].status # "absent"
  /\ work'[s][m].seen \in {work[s][m].seen, Absent}

LEMMA ConfinedKeeps ==
  ASSUME Inv, NEW s \in Sweeps, NEW m \in Messages, Confined(s, m)
  PROVE  /\ Exclusive'
         /\ KnownRowStays(m)'
         /\ \A n \in Messages \ {m} : MessageInv(n)'
         /\ Tracked(m)' => Tracked(m) /\ \A o \in Sweeps : Alive(o) => o = s
  <1>1. Exclusive'
    BY DEF Inv, Exclusive, Confined
  <1>2. KnownRowStays(m)'
    BY DEF Inv, MessageInv, KnownRowStays, Confined, Same, Absent
  <1>3. ASSUME NEW n \in Messages \ {m} PROVE MessageInv(n)'
    <2>1. /\ rows'[n] = rows[n] /\ calls'[n] = calls[n]
          /\ \A o \in Sweeps : work'[o][n] = work[o][n]
          /\ n \in lapsed' <=> n \in lapsed
          /\ filed' = filed /\ catalog' = catalog
          /\ Tracked(n)' <=> Tracked(n)
          /\ \A o \in Sweeps : sweeps'[o].catalog = sweeps[o].catalog /\ (Alive(o)' => Alive(o))
      BY <1>3 DEF Confined, Same, Tracked
    <2>2. MessageInv(n)
      BY DEF Inv
    <2>3. KnownRowStays(n)' /\ FiledIsWatched(n)' /\ RowIsSeen(n)' /\ calls'[n] <= MaxAttempts
      BY <2>1, <2>2 DEF MessageInv, KnownRowStays, FiledIsWatched, Kept, RowIsSeen
    <2>4. CallsAreCharged(n)'
      BY <2>1, <2>2 DEF MessageInv, CallsAreCharged, Charged, CountedBefore, NeedsWork
    <2>5. QED
      BY <2>3, <2>4 DEF MessageInv
  <1>4. ASSUME Tracked(m)' PROVE Tracked(m) /\ \A o \in Sweeps : Alive(o) => o = s
    BY <1>4 DEF Tracked, Confined, Inv, Exclusive, Alive
  <1>5. QED
    BY <1>1, <1>2, <1>3, <1>4

\* What the attempts of a row must say once nobody works on it.
Settled(m) ==
  \/ rows[m].status # "absent" /\ ~ NeedsWork(rows[m], catalog)
  \/ Charged(m, rows[m], 1)

LEMMA Finishing ==
  ASSUME Inv, TypeOK', NEW s \in Sweeps, NEW m \in Messages, Confined(s, m),
         calls'[m] = calls[m],
         work'[s][m].pc \in {"none", "saved"},
         Tracked(m)' => Settled(m)',
         FiledIsWatched(m)'
  PROVE  Inv'
  <1>1. RowIsSeen(m)'
    <2> SUFFICES ASSUME NEW o \in Sweeps, Tracked(m)', work'[o][m].pc \in InHand
                 PROVE  FALSE
      BY DEF RowIsSeen
    <2>1. o # s /\ work[o][m].pc \in InHand
      BY DEF Confined, Same, InHand
    <2>2. Alive(o)
      BY <2>1 DEF Alive, InHand
    <2>3. QED
      BY <2>1, <2>2, ConfinedKeeps
  <1>2. CallsAreCharged(m)'
    <2> SUFFICES ASSUME Tracked(m)'
                 PROVE  /\ \A o \in Sweeps :
                             /\ Alive(o)' /\ sweeps'[o].catalog # catalog' => calls'[m] = 0
                             /\ work'[o][m].pc \notin InHand \cup {"unread"}
                        /\ Settled(m)'
      BY DEF CallsAreCharged, Settled, InHand
    <2>1. Tracked(m) /\ CallsAreCharged(m)
      BY ConfinedKeeps DEF Inv, MessageInv
    <2>2. ASSUME NEW o \in Sweeps, Alive(o)', sweeps'[o].catalog # catalog' PROVE calls'[m] = 0
      BY <2>1, <2>2 DEF Confined, CallsAreCharged
    <2>3. ASSUME NEW o \in Sweeps, work'[o][m].pc \in InHand \cup {"unread"} PROVE FALSE
      <3>1. o # s /\ work[o][m].pc \in InHand \cup {"unread"}
        BY <2>3 DEF Confined, Same, InHand
      <3>2. Alive(o)
        BY <3>1 DEF Alive, InHand
      <3>3. QED
        BY <3>1, <3>2, ConfinedKeeps
    <2>4. QED
      BY <2>2, <2>3
  <1>3. calls'[m] <= MaxAttempts
    BY DEF Inv, MessageInv
  <1>4. QED
    BY <1>1, <1>2, <1>3, ConfinedKeeps DEF Inv, MessageInv

\* A worker goes on with the message in hand.
LEMMA Continuing ==
  ASSUME Inv, TypeOK', NEW s \in Sweeps, NEW m \in Messages, Confined(s, m),
         work[s][m].pc \in InHand, work'[s][m].pc \in InHand,
         work'[s][m].seen = work[s][m].seen,
         rows'[m] = rows[m], lapsed' = lapsed,
         calls'[m] <= MaxAttempts,
         Tracked(m)' =>
           /\ sweeps[s].catalog # catalog => calls'[m] = 0
           /\ work'[s][m].pc \in {"queued", "reading"} => Charged(m, work[s][m].seen, 1)'
           /\ work'[s][m].pc \in {"analysing", "broken"} => Charged(m, work[s][m].seen, 0)'
  PROVE  Inv'
  <1>1. Tracked(m)' => Tracked(m) /\ \A o \in Sweeps : o # s => work'[o][m].pc = "none"
    <2>1. \A o \in Sweeps : o # s => (work'[o][m].pc = "none" \/ Alive(o))
      BY DEF Confined, Same, Alive
    <2>2. QED
      BY <2>1, ConfinedKeeps
  <1>2. RowIsSeen(m)'
    BY <1>1 DEF RowIsSeen, Inv, MessageInv, InHand
  <1>3. CallsAreCharged(m)'
    BY <1>1, ConfinedKeeps DEF CallsAreCharged, Confined, InHand
  <1>4. FiledIsWatched(m)'
    <2>1. \A o \in Sweeps : work[o][m].pc = "saved" => work'[o][m].pc = "saved"
      BY DEF Confined, Same, InHand
    <2>2. Kept(m)' => Kept(m)
      BY DEF Kept, Confined, Same
    <2>3. QED
      BY <2>1, <2>2 DEF FiledIsWatched, Inv, MessageInv, Confined
  <1>5. QED
    BY <1>2, <1>3, <1>4, ConfinedKeeps DEF Inv, MessageInv

LEMMA AliveShrinks ==
  ASSUME TypeOK, NEW s \in Sweeps, NEW m \in Messages, work[s][m].pc # "none",
         \A o \in Sweeps, n \in Messages : o # s \/ n # m => work'[o][n] = work[o][n],
         \A o \in Sweeps \ {s} : sweeps'[o] = sweeps[o]
  PROVE  \A o \in Sweeps : Alive(o)' => Alive(o)
  BY DEF Alive

\* Every step of a worker that saves one row, or none, is confined.
LEMMA SavingIsConfined ==
  ASSUME TypeOK, NEW s \in Sweeps, NEW m \in Messages, work[s][m].pc # "none",
         \/ rows' = rows
         \/ \E row \in Rows : Write(m, row) /\ row.status # "absent",
         \/ Finish(s, m)
         \/ \E pc \in {"reading", "analysing", "saved", "broken"} : Continue(s, m, pc),
         UNCHANGED <<filed, catalog, overlap, blind>>,
         \A n \in Messages \ {m} : calls'[n] = calls[n],
         lapsed' = lapsed \/ lapsed' = lapsed \cup {m},
         \A o \in Sweeps : sweeps'[o].catalog = sweeps[o].catalog,
         \A o \in Sweeps \ {s} : sweeps'[o] = sweeps[o]
  PROVE  Confined(s, m)
  <1>1. /\ \A o \in Sweeps, n \in Messages : o # s \/ n # m => work'[o][n] = work[o][n]
        /\ work'[s][m].seen \in {work[s][m].seen, Absent}
    BY FinishTyped, ContinueTyped, RowFacts
  <1>2. \A o \in Sweeps : Alive(o)' => Alive(o)
    BY <1>1, AliveShrinks
  <1>3. /\ \A n \in Messages \ {m} : rows'[n] = rows[n]
        /\ rows[m].status # "absent" => rows'[m].status # "absent"
    BY DEF Write, TypeOK
  <1>4. QED
    BY <1>1, <1>2, <1>3 DEF Confined, Same

LEMMA Present ==
  ASSUME TypeOK, NEW m \in Messages, NEW row \in Rows, row.status # "absent"
  PROVE  /\ Upsert(rows[m], row).status # "absent"
         /\ InsertIfAbsent(rows[m], row).status # "absent"
         /\ Upsert(rows[m], row) \in {rows[m], row}
         /\ InsertIfAbsent(rows[m], row) \in {rows[m], row}
         /\ rows[m].status \in Terminal => Upsert(rows[m], row) = rows[m]
         /\ rows[m].status \notin Terminal => Upsert(rows[m], row) = row
  BY DEF Upsert, InsertIfAbsent, Terminal, TypeOK

\* No worker saved the analysis of a message it still has to work on.
LEMMA StillSaved ==
  ASSUME Inv, NEW s \in Sweeps, NEW m \in Messages, Confined(s, m), work[s][m].pc # "saved",
         \E o \in Sweeps : work[o][m].pc = "saved"
  PROVE  \E o \in Sweeps : work'[o][m].pc = "saved"
  BY DEF Confined, Same

\* A worker ends its work on the message with a decided row.
LEMMA DecidedKeeps ==
  ASSUME Inv, TypeOK', NEW s \in Sweeps, NEW m \in Messages, Confined(s, m),
         calls'[m] = calls[m], work'[s][m].pc \in {"none", "saved"}, rows'[m].status \in Terminal
  PROVE  Inv'
  <1>1. FiledIsWatched(m)'
    BY DEF FiledIsWatched, Kept, Terminal
  <1>2. Settled(m)'
    BY DEF Settled, NeedsWork, Terminal
  <1>3. QED
    BY <1>1, <1>2, Finishing

LEMMA SaveFailureKeeps ==
  ASSUME Inv, TypeOK', NEW s \in Sweeps, NEW m \in Messages, NEW error \in Errors,
         NEW counts \in BOOLEAN, SaveFailure(s, m, error, counts),
         work[s][m].pc \in InHand \cup {"unread"},
         \/ counts /\ error # Exempt
         \/ work[s][m].pc \in {"queued", "unread", "reading"}
         \/ sweeps[s].catalog # catalog
  PROVE  Inv'
  <1> DEFINE seen == work[s][m].seen
             v    == sweeps[s].catalog
             row  == Failure(seen, v, error, counts)
  <1>1. /\ TypeOK /\ MessageInv(m)
        /\ seen \in Rows /\ rows[m] \in Rows
        /\ v \in 1 .. MaxCatalog /\ catalog \in 1 .. MaxCatalog
        /\ calls[m] \in 0 .. MaxAttempts + 1
    BY SweepTyped DEF Inv, TypeOK, Items
  <1>2. /\ row \in Rows
        /\ row.status = IF seen.status = "needs-review" THEN "needs-review" ELSE "failed"
        /\ row.attempted = v /\ row.error = error
        /\ row.attempts = AttemptsAfter(seen, v, counts)
    BY <1>1, FailureFacts
  <1>3. /\ rows'[m] \in {rows[m], row}
        /\ rows[m].status \in Terminal => rows'[m] = rows[m]
        /\ rows[m].status \notin Terminal => rows'[m] = row
        /\ Upsert(rows[m], row).status # "absent"
        /\ Upsert(rows[m], row) \in Rows
    BY <1>1, <1>2, Present DEF SaveFailure, Write, TypeOK
  <1>4. Confined(s, m) /\ work'[s][m] = NoItem /\ calls' = calls /\ catalog' = catalog
    <2>1. work[s][m].pc # "none"
      BY DEF InHand
    <2>2. Write(m, Upsert(rows[m], row)) /\ Finish(s, m)
      BY DEF SaveFailure
    <2>3. /\ UNCHANGED <<filed, catalog, overlap, blind>>
          /\ calls' = calls /\ lapsed' = lapsed /\ sweeps' = sweeps
      BY DEF SaveFailure, history
    <2>4. Confined(s, m)
      BY <1>1, <1>3, <2>1, <2>2, <2>3, SavingIsConfined
    <2>5. QED
      BY <1>1, <2>2, <2>3, <2>4, FinishTyped
  <1>5. CASE rows[m].status \in Terminal
    BY <1>3, <1>4, <1>5, DecidedKeeps, RowFacts
  <1>6. CASE rows[m].status \notin Terminal
    <2>1. rows'[m] = row
      BY <1>3, <1>6
    <2>2. FiledIsWatched(m)'
      <3> SUFFICES ASSUME m \in filed', Kept(m)'
                   PROVE  m \in lapsed' \/ \E o \in Sweeps : work'[o][m].pc = "saved"
        BY DEF FiledIsWatched
      <3>1. \E o \in Sweeps : work[o][m].seen.status = "needs-review"
        <4>1. CASE seen.status = "needs-review"
          BY <4>1
        <4>2. CASE seen.status # "needs-review"
          BY <1>2, <1>4, <2>1, <4>2, RowFacts DEF Kept, Confined, Same
        <4>3. QED
          BY <4>1, <4>2
      <3>2. rows[m].status # "absent"
        BY <1>1, <3>1 DEF MessageInv, KnownRowStays
      <3>3. Kept(m)
        BY <1>1, <1>6, <3>1, <3>2 DEF Kept, Rows
      <3>4. m \in lapsed \/ \E o \in Sweeps : work[o][m].pc = "saved"
        BY <1>1, <1>4, <3>3 DEF MessageInv, FiledIsWatched, Confined
      <3>5. QED
        BY <1>4, <3>4, StillSaved DEF Confined, InHand
    <2>3. ASSUME Tracked(m)' PROVE Settled(m)'
      <3>1. Tracked(m) /\ CallsAreCharged(m) /\ Alive(s)
        BY <1>1, <1>4, <2>3, ConfinedKeeps DEF MessageInv, Alive, Confined
      <3>2. /\ CountedBefore(seen, v) \in Attempts
            /\ row.attempts \in Attempts \ {0}
            /\ row.attempts >= CountedBefore(seen, v)
            /\ counts => row.attempts = CountedBefore(seen, v) + 1 \/ row.attempts = MaxAttempts
        BY <1>1, <1>2, AttemptsFacts
      <3>3. CASE v # catalog
        <4>1. calls'[m] = 0
          BY <1>4, <3>1, <3>3 DEF CallsAreCharged
        <4>2. CountedBefore(row, catalog) \in Nat
          BY <1>2, <3>2 DEF CountedBefore, Attempts
        <4>3. QED
          BY <1>4, <2>1, <4>1, <4>2 DEF Settled, Charged
      <3>4. CASE v = catalog
        <4>1. CountedBefore(row, catalog) = row.attempts
          BY <1>2, <3>4 DEF CountedBefore
        <4>2. CASE work[s][m].pc \in {"queued", "unread", "reading"}
          <5>1. Charged(m, seen, 1)
            BY <3>1, <4>2 DEF CallsAreCharged
          <5>2. QED
            BY <1>1, <1>4, <2>1, <3>2, <3>4, <4>1, <5>1 DEF Settled, Charged, Attempts
        <4>3. CASE work[s][m].pc \in {"analysing", "broken"} /\ counts /\ error # Exempt
          <5>1. Charged(m, seen, 0)
            BY <3>1, <4>3 DEF CallsAreCharged
          <5>2. CASE row.attempts = MaxAttempts
            <6>1. row.status # "absent" /\ ~ NeedsWork(row, catalog)
              <7>1. row.status # "absent"
                BY <1>2
              <7>2. row.error # Exempt /\ row.attempted = catalog
                BY <1>2, <3>4, <4>3 DEF Exempt
              <7>3. ~ (row.attempts < MaxAttempts)
                <8>1. ~ (MaxAttempts < MaxAttempts)
                  OBVIOUS
                <8>2. QED
                  BY ONLY <5>2, <8>1
              <7>4. QED
                BY <7>1, <7>2, <7>3 DEF NeedsWork
            <6>2. QED
              BY <1>4, <2>1, <6>1 DEF Settled
          <5>3. CASE row.attempts = CountedBefore(seen, v) + 1 /\ row.attempts # MaxAttempts
            BY <1>1, <1>4, <2>1, <3>2, <3>4, <4>1, <5>1, <5>3 DEF Settled, Charged, Attempts
          <5>4. QED
            BY <3>2, <4>3, <5>2, <5>3
        <4>4. QED
          BY <3>4, <4>2, <4>3 DEF InHand
      <3>5. QED
        BY <3>3, <3>4
    <2>4. QED
      BY <1>4, <2>2, <2>3, Finishing, RowFacts
  <1>7. QED
    BY <1>5, <1>6

\* Steps that only look at the message leave its row and the counters alone.
LEMMA SkipKeeps ==
  ASSUME Inv, TypeOK', NEW s \in Sweeps, NEW m \in Messages, SkipFiled(s, m) \/ SkipNoise(s, m)
  PROVE  Inv'
  <1>1. TypeOK /\ work[s][m].pc # "none" /\ Write(m, Upsert(rows[m], Skipped)) /\ Finish(s, m)
    BY DEF Inv, SkipFiled, SkipNoise, At
  <1>2. /\ UNCHANGED <<filed, catalog, overlap, blind>>
        /\ calls' = calls /\ lapsed' = lapsed /\ sweeps' = sweeps
    BY DEF SkipFiled, SkipNoise, history
  <1>3. Upsert(rows[m], Skipped) \in Rows /\ Upsert(rows[m], Skipped).status \in Terminal
    BY <1>1, RowFacts, UpsertTyped DEF Upsert
  <1>4. Confined(s, m)
    BY <1>1, <1>2, <1>3, SavingIsConfined DEF Terminal
  <1>5. rows'[m].status \in Terminal
    BY <1>1, <1>3 DEF Write, TypeOK
  <1>6. QED
    BY <1>1, <1>2, <1>4, <1>5, DecidedKeeps, FinishTyped, RowFacts

LEMMA DiscoveryFailureKeeps ==
  ASSUME Inv, TypeOK', NEW s \in Sweeps, NEW m \in Messages, SaveDiscoveryFailure(s, m)
  PROVE  Inv'
  <1> DEFINE row == Failure(Absent, sweeps[s].catalog, Retryable, TRUE)
  <1>1. /\ TypeOK /\ MessageInv(m) /\ work[s][m].pc = "unread" /\ m \notin filed
        /\ Write(m, InsertIfAbsent(rows[m], row)) /\ Finish(s, m)
        /\ UNCHANGED <<filed, catalog, overlap, blind>>
        /\ calls' = calls /\ lapsed' = lapsed /\ sweeps' = sweeps
    BY DEF Inv, SaveDiscoveryFailure, At, history
  <1>2. row \in Rows /\ row.status = "failed" /\ WellFormed(row)
    BY <1>1, RowFacts, SweepTyped, FailureFacts DEF Errors
  <1>3. /\ InsertIfAbsent(rows[m], row) \in Rows
        /\ InsertIfAbsent(rows[m], row).status # "absent"
    BY <1>1, <1>2, UpsertTyped, Present
  <1>4. Confined(s, m)
    BY <1>1, <1>3, SavingIsConfined
  <1>5. FiledIsWatched(m)'
    BY <1>1 DEF FiledIsWatched
  <1>6. ~ Tracked(m)
    BY <1>1 DEF MessageInv, CallsAreCharged
  <1>7. ~ Tracked(m)'
    BY <1>4, <1>6, ConfinedKeeps
  <1>8. QED
    BY <1>1, <1>4, <1>5, <1>7, Finishing, FinishTyped, RowFacts

LEMMA GoingOnKeeps ==
  ASSUME Inv, TypeOK', NEW s \in Sweeps, NEW m \in Messages,
         PassFilter(s, m) \/ CallProvider(s, m)
  PROVE  Inv'
  <1>1. /\ TypeOK /\ MessageInv(m) /\ sweeps' = sweeps /\ rows' = rows /\ lapsed' = lapsed
        /\ UNCHANGED <<filed, catalog, overlap, blind>>
        /\ calls[m] \in 0 .. MaxAttempts + 1 /\ calls \in [Messages -> 0 .. MaxAttempts + 1]
    BY DEF Inv, TypeOK, PassFilter, CallProvider, history
  <1>2. CASE PassFilter(s, m)
    <2>1. work[s][m].pc = "queued" /\ Continue(s, m, "reading") /\ calls' = calls
      BY <1>2 DEF PassFilter, At, history
    <2>2. /\ work'[s][m].pc = "reading" /\ work'[s][m].seen = work[s][m].seen
          /\ Confined(s, m)
      BY <1>1, <2>1, ContinueTyped, SavingIsConfined
    <2>3. ASSUME Tracked(m)'
          PROVE  /\ sweeps[s].catalog # catalog => calls'[m] = 0
                 /\ Charged(m, work[s][m].seen, 1)'
      <3>1. CallsAreCharged(m) /\ Tracked(m) /\ Alive(s)
        BY <1>1, <2>1, <2>2, <2>3, ConfinedKeeps DEF MessageInv, Alive
      <3>2. /\ sweeps[s].catalog # catalog => calls[m] = 0
            /\ Charged(m, work[s][m].seen, 1)
        BY <2>1, <3>1 DEF CallsAreCharged
      <3>3. QED
        BY <1>1, <2>1, <2>2, <3>2 DEF Charged, CountedBefore
    <2>4. QED
      BY <1>1, <2>1, <2>2, <2>3, Continuing DEF MessageInv, InHand
  <1>3. CASE CallProvider(s, m)
    <2>1. /\ work[s][m].pc = "reading" /\ Continue(s, m, "analysing")
          /\ calls' = [calls EXCEPT ![m] = IF Counted(s, m) /\ @ <= MaxAttempts THEN @ + 1 ELSE @]
      BY <1>3 DEF CallProvider, At
    <2>2. /\ \A n \in Messages \ {m} : calls'[n] = calls[n]
          /\ calls'[m] = IF Counted(s, m) /\ calls[m] <= MaxAttempts THEN calls[m] + 1 ELSE calls[m]
      BY <1>1, <2>1
    <2>3. /\ work'[s][m].pc = "analysing" /\ work'[s][m].seen = work[s][m].seen
          /\ Confined(s, m)
      BY <1>1, <2>1, <2>2, ContinueTyped, SavingIsConfined
    <2>4. ASSUME Tracked(m)
          PROVE  /\ sweeps[s].catalog # catalog => calls[m] = 0
                 /\ Charged(m, work[s][m].seen, 1)
      <3>1. CallsAreCharged(m) /\ Alive(s)
        BY <1>1, <2>1 DEF MessageInv, Alive
      <3>2. QED
        BY <2>1, <2>4, <3>1 DEF CallsAreCharged
    <2>5. calls'[m] <= MaxAttempts
      <3>1. CASE Counted(s, m)
        <4>1. calls[m] + 1 <= MaxAttempts
          BY <2>4, <3>1 DEF Counted, Charged
        <4>2. QED
          BY <1>1, <2>2, <4>1
      <3>2. CASE ~ Counted(s, m)
        BY <1>1, <2>2, <3>2 DEF MessageInv
      <3>3. QED
        BY <3>1, <3>2
    <2>6. ASSUME Tracked(m)'
          PROVE  /\ sweeps[s].catalog # catalog => calls'[m] = 0
                 /\ Charged(m, work[s][m].seen, 0)'
      <3>1. Tracked(m)
        BY <2>3, <2>6, ConfinedKeeps
      <3>2. CountedBefore(work[s][m].seen, catalog) \in Nat
        BY <1>1 DEF CountedBefore, TypeOK, Items, Rows, Attempts
      <3>3. (CountedBefore(work[s][m].seen, catalog))' = CountedBefore(work[s][m].seen, catalog)
        BY <1>1, <2>3 DEF CountedBefore
      <3>4. calls'[m] <= calls[m] + 1 /\ calls'[m] \in Nat
        BY <1>1, <2>2
      <3>5. calls[m] + 1 <= CountedBefore(work[s][m].seen, catalog) + 1 /\ calls[m] + 1 <= MaxAttempts
        BY <2>4, <3>1 DEF Charged
      <3>6. sweeps[s].catalog # catalog => calls'[m] = 0
        BY <2>2, <2>4, <3>1 DEF Counted
      <3>7. QED
        BY <1>1, <3>2, <3>3, <3>4, <3>5, <3>6 DEF Charged
    <2>7. QED
      BY <1>1, <2>1, <2>3, <2>5, <2>6, Continuing DEF InHand
  <1>4. QED
    BY <1>2, <1>3

\* The item breaks: from the unread ones there is nothing to account for.
LEMMA BreakKeeps ==
  ASSUME Inv, TypeOK', NEW s \in Sweeps, NEW m \in Messages, Break(s, m)
  PROVE  Inv'
  <1>1. /\ TypeOK /\ MessageInv(m) /\ sweeps' = sweeps /\ rows' = rows
        /\ lapsed' = lapsed /\ calls' = calls
        /\ UNCHANGED <<filed, catalog, overlap, blind>>
        /\ work[s][m].pc \in {"queued", "unread", "reading", "analysing"}
        /\ Continue(s, m, "broken")
        /\ calls[m] \in 0 .. MaxAttempts + 1
    BY DEF Inv, TypeOK, Break, At, history
  <1>2. /\ work'[s][m].pc = "broken" /\ work'[s][m].seen = work[s][m].seen
        /\ Confined(s, m)
    BY <1>1, ContinueTyped, SavingIsConfined
  <1>3. CASE work[s][m].pc = "unread"
    <2>1. ~ Tracked(m)
      BY <1>1, <1>3 DEF MessageInv, CallsAreCharged
    <2>2. ~ Tracked(m)'
      BY <1>2, <2>1, ConfinedKeeps
    <2>3. RowIsSeen(m)' /\ CallsAreCharged(m)'
      BY <2>2 DEF RowIsSeen, CallsAreCharged
    <2>4. FiledIsWatched(m)'
      <3>1. Kept(m)' => Kept(m)
        BY <1>1, <1>2 DEF Kept, Confined, Same
      <3>2. (\E o \in Sweeps : work[o][m].pc = "saved") => \E o \in Sweeps : work'[o][m].pc = "saved"
        BY <1>2, <1>3, StillSaved
      <3>3. QED
        BY <1>1, <3>1, <3>2 DEF FiledIsWatched, MessageInv
    <2>5. QED
      BY <1>1, <1>2, <2>3, <2>4, ConfinedKeeps DEF Inv, MessageInv
  <1>4. CASE work[s][m].pc # "unread"
    <2>1. ASSUME Tracked(m)'
          PROVE  /\ sweeps[s].catalog # catalog => calls'[m] = 0
                 /\ Charged(m, work[s][m].seen, 0)'
      <3>1. Tracked(m) /\ CallsAreCharged(m) /\ Alive(s)
        BY <1>1, <1>2, <2>1, ConfinedKeeps DEF MessageInv, Alive
      <3>2. sweeps[s].catalog # catalog => calls[m] = 0
        BY <3>1 DEF CallsAreCharged
      <3>3. Charged(m, work[s][m].seen, 1) \/ Charged(m, work[s][m].seen, 0)
        BY <1>1, <1>4, <3>1 DEF CallsAreCharged
      <3>4. CountedBefore(work[s][m].seen, catalog) \in Nat
        BY <1>1 DEF CountedBefore, TypeOK, Items, Rows, Attempts
      <3>5. Charged(m, work[s][m].seen, 0)
        BY <1>1, <3>3, <3>4 DEF Charged
      <3>6. QED
        BY <1>1, <1>2, <3>2, <3>5 DEF Charged, CountedBefore
    <2>2. QED
      BY <1>1, <1>2, <1>4, <2>1, Continuing DEF MessageInv, InHand
  <1>5. QED
    BY <1>3, <1>4

\* What saving an analysis makes of the row.
LEMMA AnalysedFacts ==
  ASSUME NEW old \in Rows, NEW seen \in Rows, NEW v \in 1 .. MaxCatalog
  PROVE  /\ Analysed(old, seen, v) \in {old, Analysis(v)}
         /\ Analysed(old, seen, v).status # "absent"
         /\ Analysed(old, seen, v) \in Rows
         /\ old.status \in {seen.status} => Analysed(old, seen, v) = Analysis(v) \/ old.status \in Terminal
  <1>1. Analysis(v) \in Rows /\ Analysis(v).status = "needs-review"
    BY AnalysisFacts
  <1>2. QED
    BY <1>1 DEF Analysed, InsertIfAbsent, Upsert, Terminal

LEMMA SaveAnalysisKeeps ==
  ASSUME Inv, TypeOK', NEW s \in Sweeps, NEW m \in Messages, SaveAnalysis(s, m)
  PROVE  Inv'
  <1> DEFINE seen == work[s][m].seen
             v    == sweeps[s].catalog
             new  == Analysed(rows[m], seen, v)
  <1>1. /\ TypeOK /\ MessageInv(m) /\ sweeps' = sweeps /\ calls' = calls
        /\ UNCHANGED <<filed, catalog, overlap, blind>>
        /\ work[s][m].pc = "analysing" /\ Write(m, new)
        /\ \/ Continue(s, m, "saved") /\ lapsed' = lapsed
           \/ Continue(s, m, "broken") /\ lapsed' = lapsed \cup {m}
        /\ seen \in Rows /\ rows[m] \in Rows /\ v \in 1 .. MaxCatalog
        /\ catalog \in 1 .. MaxCatalog /\ calls[m] \in 0 .. MaxAttempts + 1
    BY SweepTyped DEF Inv, TypeOK, SaveAnalysis, At, Items
  <1>2. /\ new \in {rows[m], Analysis(v)} /\ new.status # "absent" /\ new \in Rows
        /\ rows[m].status = seen.status => new = Analysis(v) \/ rows[m].status \in Terminal
    BY <1>1, AnalysedFacts
  <1>3. rows'[m] = new
    BY <1>1 DEF Write, TypeOK
  <1>4. Confined(s, m)
    BY <1>1, <1>2, SavingIsConfined
  <1>5. CASE Continue(s, m, "saved") /\ lapsed' = lapsed
    <2>1. work'[s][m].pc = "saved"
      BY <1>1, <1>5, ContinueTyped
    <2>2. FiledIsWatched(m)'
      BY <2>1 DEF FiledIsWatched
    <2>3. ASSUME Tracked(m)' PROVE Settled(m)'
      <3>1. Tracked(m) /\ CallsAreCharged(m) /\ RowIsSeen(m) /\ Alive(s)
        BY <1>1, <1>4, <2>3, ConfinedKeeps DEF MessageInv, Alive
      <3>2. rows[m].status \in Terminal \cup {seen.status}
        BY <1>1, <3>1 DEF RowIsSeen, InHand
      <3>3. CASE rows[m].status \in Terminal
        <4>1. new.status \in Terminal
          BY <1>1, <3>3 DEF Analysed, Upsert, InsertIfAbsent, Terminal
        <4>2. QED
          BY <1>3, <4>1 DEF Settled, NeedsWork, Terminal
      <3>4. CASE new = Analysis(v)
        <4>1. /\ new.status = "needs-review" /\ new.label = v /\ new.attempts = 0
          BY <1>1, <3>4, AnalysisFacts
        <4>2. CASE v = catalog
          <5>1. ~ NeedsWork(new, catalog)
            BY <4>1, <4>2 DEF NeedsWork
          <5>2. QED
            BY <1>1, <1>2, <1>3, <5>1 DEF Settled
        <4>3. CASE v # catalog
          <5>1. calls[m] = 0
            BY <3>1, <4>3 DEF CallsAreCharged
          <5>2. CountedBefore(new, catalog) = 0
            BY <4>1 DEF CountedBefore
          <5>3. QED
            BY <1>1, <1>3, <5>1, <5>2 DEF Settled, Charged
        <4>4. QED
          BY <4>2, <4>3
      <3>5. QED
        BY <1>2, <3>2, <3>3, <3>4
    <2>4. QED
      BY <1>1, <1>4, <2>1, <2>2, <2>3, Finishing
  <1>6. CASE Continue(s, m, "broken") /\ lapsed' = lapsed \cup {m}
    <2>1. ~ Tracked(m)' /\ FiledIsWatched(m)'
      BY <1>6 DEF Tracked, FiledIsWatched
    <2>2. RowIsSeen(m)' /\ CallsAreCharged(m)'
      BY <2>1 DEF RowIsSeen, CallsAreCharged
    <2>3. QED
      BY <1>1, <1>4, <2>1, <2>2, ConfinedKeeps DEF Inv, MessageInv
  <1>7. QED
    BY <1>1, <1>5, <1>6

\* The message is given up: its row is no longer accounted for.
LEMMA LapsingKeeps ==
  ASSUME Inv, TypeOK', NEW s \in Sweeps, NEW m \in Messages, Confined(s, m),
         calls'[m] = calls[m], m \in lapsed'
  PROVE  Inv'
  <1>1. ~ Tracked(m)' /\ FiledIsWatched(m)'
    BY DEF Tracked, FiledIsWatched
  <1>2. RowIsSeen(m)' /\ CallsAreCharged(m)'
    BY <1>1 DEF RowIsSeen, CallsAreCharged
  <1>3. QED
    BY <1>1, <1>2, ConfinedKeeps DEF Inv, MessageInv

LEMMA RetireKeeps ==
  ASSUME Inv, TypeOK', NEW s \in Sweeps, NEW m \in Messages, RetireFiled(s, m)
  PROVE  Inv'
  <1> DEFINE row == Failure(Absent, sweeps[s].catalog, OtherError, TRUE)
  <1>1. /\ TypeOK /\ sweeps' = sweeps /\ calls' = calls
        /\ UNCHANGED <<filed, catalog, overlap, blind>>
        /\ work[s][m].pc = "saved" /\ Finish(s, m)
    BY DEF Inv, RetireFiled, At
  <1>2. /\ Upsert(rows[m], Skipped) \in Rows /\ Upsert(rows[m], Skipped).status \in Terminal
    BY <1>1, RowFacts, UpsertTyped DEF Upsert
  <1>3. CASE Write(m, Upsert(rows[m], Skipped)) /\ lapsed' = lapsed
    <2>1. Confined(s, m)
      BY <1>1, <1>2, <1>3, SavingIsConfined DEF Terminal
    <2>2. rows'[m].status \in Terminal
      BY <1>1, <1>2, <1>3 DEF Write, TypeOK
    <2>3. QED
      BY <1>1, <2>1, <2>2, DecidedKeeps, FinishTyped, RowFacts
  <1>4. CASE /\ Write(m, Upsert(rows[m], row)) \/ UNCHANGED rows
             /\ lapsed' = lapsed \cup {m}
    <2>1. row \in Rows /\ row.status = "failed" /\ WellFormed(row)
      BY <1>1, RowFacts, SweepTyped, FailureFacts DEF Errors
    <2>2. Upsert(rows[m], row) \in Rows /\ Upsert(rows[m], row).status # "absent"
      BY <1>1, <2>1, UpsertTyped, Present
    <2>3. Confined(s, m)
      BY <1>1, <1>4, <2>2, SavingIsConfined
    <2>4. QED
      BY <1>1, <1>4, <2>3, LapsingKeeps
  <1>5. QED
    BY <1>3, <1>4 DEF RetireFiled

LEMMA ArriveKeeps ==
  ASSUME Inv, TypeOK', NEW s \in Sweeps, NEW m \in Messages, Arrive(s, m)
  PROVE  Inv'
  <1>1. /\ TypeOK /\ MessageInv(m) /\ calls' = calls /\ rows' = rows
        /\ UNCHANGED <<filed, catalog, overlap, blind>>
        /\ work[s][m].pc = "saved" /\ Finish(s, m)
        /\ \A o \in Sweeps : sweeps'[o].catalog = sweeps[o].catalog
        /\ \A o \in Sweeps \ {s} : sweeps'[o] = sweeps[o]
        /\ \/ m \notin filed /\ lapsed' = lapsed
           \/ lapsed' = lapsed \cup {m}
    BY DEF Inv, TypeOK, Arrive, At, Owed
  <1>2. Confined(s, m)
    BY <1>1, SavingIsConfined
  <1>3. CASE lapsed' = lapsed \cup {m}
    BY <1>1, <1>2, <1>3, LapsingKeeps
  <1>4. CASE m \notin filed /\ lapsed' = lapsed
    <2>1. FiledIsWatched(m)'
      BY <1>1, <1>4 DEF FiledIsWatched
    <2>2. ASSUME Tracked(m)' PROVE Settled(m)'
      <3>1. Tracked(m) /\ CallsAreCharged(m) /\ \A o \in Sweeps : Alive(o) => o = s
        BY <1>1, <1>2, <2>2, ConfinedKeeps DEF MessageInv
      <3>2. \A o \in Sweeps : work[o][m].pc \notin InHand
        BY <1>1, <3>1 DEF Alive, InHand
      <3>3. Settled(m)
        BY <3>1, <3>2 DEF CallsAreCharged, Settled
      <3>4. QED
        BY <1>1, <3>3 DEF Settled, Charged, NeedsWork, CountedBefore
    <2>3. QED
      BY <1>1, <1>2, <2>1, <2>2, Finishing, FinishTyped, RowFacts
  <1>5. QED
    BY <1>1, <1>3, <1>4

LEMMA FailSweepKeeps ==
  ASSUME Inv, TypeOK', NEW s \in Sweeps, NEW m \in Messages, FailSweep(s, m)
  PROVE  Inv'
  <1>1. /\ TypeOK /\ calls' = calls /\ rows' = rows
        /\ UNCHANGED <<filed, catalog, overlap, blind>>
        /\ work[s][m].pc # "none" /\ Finish(s, m)
        /\ \A o \in Sweeps : sweeps'[o].catalog = sweeps[o].catalog
        /\ \A o \in Sweeps \ {s} : sweeps'[o] = sweeps[o]
        /\ lapsed' = lapsed \cup {m}
    BY DEF Inv, TypeOK, FailSweep, At
  <1>2. Confined(s, m)
    BY <1>1, SavingIsConfined
  <1>3. QED
    BY <1>1, <1>2, LapsingKeeps

LEMMA WorkerKeeps ==
  ASSUME Inv, TypeOK', NEW s \in Sweeps, NEW m \in Messages, Worker(s, m)
  PROVE  Inv'
  <1>1. ASSUME NEW error \in Errors, NEW counts \in BOOLEAN, SaveFailure(s, m, error, counts),
               \/ SaveAborted(s, m) /\ ~ counts
               \/ GmailReadFails(s, m) \/ DailyLimitReached(s, m)
               \/ AnalysisFails(s, m) /\ counts /\ error # Exempt
               \/ LabelsRetired(s, m)
               \/ SaveBroken(s, m) /\ counts /\ error # Exempt
        PROVE  Inv'
    BY <1>1, SaveFailureKeeps DEF SaveAborted, GmailReadFails, DailyLimitReached, AnalysisFails,
                                  LabelsRetired, SaveBroken, At, InHand
  <1>2. QED
    BY <1>1, SkipKeeps, DiscoveryFailureKeeps, GoingOnKeeps, BreakKeeps, SaveAnalysisKeeps,
       RetireKeeps, ArriveKeeps, FailSweepKeeps
    DEF Worker, SaveAborted, GmailReadFails, DailyLimitReached, AnalysisFails, LabelsRetired,
        SaveBroken, Errors, Exempt, Retryable, OtherError

-----------------------------------------------------------------------------
(* The other steps *)

\* Nothing the invariant of message n speaks of has changed.
Untouched(n) ==
  /\ rows'[n] = rows[n] /\ calls'[n] = calls[n]
  /\ \A o \in Sweeps : work'[o][n] = work[o][n]

LEMMA UntouchedKeeps ==
  ASSUME Inv, NEW n \in Messages, Untouched(n), lapsed' = lapsed, blind' = blind,
         overlap => overlap', filed' = filed, catalog' = catalog,
         \A o \in Sweeps : ~ overlap' /\ Alive(o)' /\ sweeps'[o].catalog # catalog
                          => Alive(o) /\ sweeps[o].catalog # catalog
  PROVE  MessageInv(n)'
  <1>1. MessageInv(n) /\ (Tracked(n)' => Tracked(n))
    BY DEF Inv, Tracked, TypeOK
  <1>2. KnownRowStays(n)' /\ FiledIsWatched(n)' /\ RowIsSeen(n)' /\ calls'[n] <= MaxAttempts
    BY <1>1 DEF MessageInv, Untouched, KnownRowStays, FiledIsWatched, Kept, RowIsSeen
  <1>3. ASSUME Tracked(n)' PROVE CallsAreCharged(n)'
    <2>1. CallsAreCharged(n) /\ Tracked(n) /\ ~ overlap'
      BY <1>1, <1>3 DEF MessageInv, Tracked
    <2>2. QED
      BY <2>1 DEF CallsAreCharged, Untouched, Charged, CountedBefore, NeedsWork
  <1>4. QED
    BY <1>1, <1>2, <1>3 DEF MessageInv, CallsAreCharged

LEMMA BeginKeeps ==
  ASSUME Inv, TypeOK', NEW s \in Sweeps, Begin(s)
  PROVE  Inv'
  <1>1. /\ TypeOK /\ ~ Alive(s)
        /\ overlap' = (overlap \/ \E o \in Sweeps \ {s} : Alive(o))
        /\ UNCHANGED <<rows, filed, catalog, work, calls, lapsed, blind>>
        /\ \A o \in Sweeps \ {s} : sweeps'[o] = sweeps[o]
        /\ sweeps'[s].catalog = catalog
    BY DEF Inv, TypeOK, Begin, NoSweep
  <1>2. \A o \in Sweeps \ {s} : Alive(o)' <=> Alive(o)
    BY <1>1 DEF Alive
  <1>3. Exclusive'
    BY <1>1, <1>2 DEF Exclusive
  <1>4. \A n \in Messages : MessageInv(n)'
    BY <1>1, <1>2, UntouchedKeeps DEF Untouched
  <1>5. QED
    BY <1>3, <1>4 DEF Inv

\* Steps of a sweep that touch no message.
LEMMA SweepKeeps ==
  ASSUME Inv, TypeOK', NEW s \in Sweeps, StartWorkers(s) \/ Stop(s) \/ End(s)
  PROVE  Inv'
  <1>1. /\ TypeOK /\ UNCHANGED <<rows, filed, catalog, work, history>>
        /\ \A o \in Sweeps \ {s} : sweeps'[o] = sweeps[o]
    BY DEF Inv, TypeOK, StartWorkers, Stop, End
  <1>2. Alive(s)' => Alive(s) /\ sweeps'[s].catalog = sweeps[s].catalog
    <2>1. CASE StartWorkers(s) \/ Stop(s)
      BY <2>1, SweepTyped DEF StartWorkers, Stop, Alive, SweepRecords, Inv
    <2>2. CASE End(s)
      <3>1. CASE \A n \in Messages : work[s][n].pc = "none"
        <4>1. sweeps'[s] = NoSweep
          BY <1>1, <2>2, <3>1 DEF End, TypeOK
        <4>2. QED
          BY <1>1, <3>1, <4>1 DEF Alive, NoSweep
      <3>2. CASE ~ \A n \in Messages : work[s][n].pc = "none"
        BY <1>1, <2>2, <3>2, SweepTyped DEF End, Alive, SweepRecords
      <3>3. QED
        BY <3>1, <3>2
    <2>3. QED
      BY <2>1, <2>2
  <1>3. \A o \in Sweeps \ {s} : Alive(o)' <=> Alive(o)
    BY <1>1 DEF Alive
  <1>4. Exclusive'
    BY <1>1, <1>2, <1>3 DEF Inv, Exclusive, history
  <1>5. \A n \in Messages : MessageInv(n)'
    BY <1>1, <1>2, <1>3, UntouchedKeeps DEF Untouched, history
  <1>6. QED
    BY <1>4, <1>5 DEF Inv

\* Rows of a message that nobody changes but for the better: decided ones.
LEMMA DecidingKeeps ==
  ASSUME Inv, TypeOK', NEW n \in Messages, rows'[n].status \in Terminal,
         work' = work, calls'[n] = calls[n], catalog' = catalog, lapsed' = lapsed, blind' = blind,
         overlap' = overlap,
         \A o \in Sweeps : sweeps'[o].catalog = sweeps[o].catalog /\ (Alive(o)' => Alive(o))
  PROVE  MessageInv(n)'
  <1>1. MessageInv(n) /\ (Tracked(n)' <=> Tracked(n))
    BY DEF Inv, Tracked
  <1>2. KnownRowStays(n)' /\ FiledIsWatched(n)' /\ RowIsSeen(n)' /\ calls'[n] <= MaxAttempts
    BY <1>1 DEF MessageInv, KnownRowStays, FiledIsWatched, Kept, RowIsSeen, Terminal
  <1>3. ~ NeedsWork(rows'[n], catalog) /\ rows'[n].status # "absent"
    BY DEF NeedsWork, Terminal
  <1>4. CallsAreCharged(n)'
    <2> SUFFICES ASSUME Tracked(n)' PROVE CallsAreCharged(n)'
      BY DEF CallsAreCharged
    <2>1. CallsAreCharged(n) /\ Tracked(n)
      BY <1>1 DEF MessageInv
    <2>2. QED
      BY <1>3, <2>1 DEF CallsAreCharged, Charged, CountedBefore
  <1>5. QED
    BY <1>2, <1>4 DEF MessageInv

LEMMA ReconcileKeeps ==
  ASSUME Inv, TypeOK', NEW s \in Sweeps, Reconcile(s) \/ \E m \in Messages : Announce(s, m)
  PROVE  Inv'
  <1>1. /\ TypeOK /\ UNCHANGED <<filed, catalog, work, history>>
        /\ \A o \in Sweeps : sweeps'[o].catalog = sweeps[o].catalog /\ (Alive(o)' => Alive(o))
        /\ \A n \in Messages : rows'[n] = rows[n] \/ rows'[n].status \in Terminal
    <2>1. TypeOK
      BY DEF Inv
    <2>2. CASE Reconcile(s)
      BY <2>1, <2>2, RowFacts, SweepTyped DEF Reconcile, TypeOK, Alive, SweepRecords
    <2>3. ASSUME NEW m \in Messages, Announce(s, m)
          PROVE  /\ \A o \in Sweeps : sweeps'[o].catalog = sweeps[o].catalog /\ (Alive(o)' => Alive(o))
                 /\ \A n \in Messages : rows'[n] = rows[n] \/ rows'[n].status \in Terminal
      <3>1. Upsert(rows[m], Skipped).status \in Terminal
        BY RowFacts DEF Upsert
      <3>2. \A n \in Messages : rows'[n] = rows[n] \/ rows'[n].status \in Terminal
        BY <2>1, <2>3, <3>1 DEF Announce, Write, TypeOK
      <3>3. QED
        BY <2>1, <2>3, <3>2, SweepTyped DEF Announce, Alive, SweepRecords
    <2>4. UNCHANGED <<filed, catalog, work, history>>
      BY DEF Reconcile, Announce
    <2>5. QED
      BY <2>1, <2>2, <2>3, <2>4
  <1>2. Exclusive'
    BY <1>1 DEF Inv, Exclusive, history
  <1>3. ASSUME NEW n \in Messages PROVE MessageInv(n)'
    <2>1. CASE rows'[n] = rows[n]
      BY <1>1, <2>1, UntouchedKeeps DEF Untouched, history
    <2>2. CASE rows'[n].status \in Terminal
      BY <1>1, <2>2, DecidingKeeps DEF history
    <2>3. QED
      BY <1>1, <2>1, <2>2
  <1>4. QED
    BY <1>2, <1>3 DEF Inv

\* A message is taken up by a sweep: its row is the one just read, or unknown.
LEMMA CollectKeeps ==
  ASSUME Inv, TypeOK', NEW s \in Sweeps, NEW m \in Messages, Collect(s, m)
  PROVE  Inv'
  <1>1. /\ TypeOK /\ MessageInv(m) /\ Alive(s) /\ work[s][m].pc = "none"
        /\ UNCHANGED <<rows, filed, catalog, sweeps, calls, lapsed, overlap>>
        /\ \A o \in Sweeps, n \in Messages : o # s \/ n # m => work'[o][n] = work[o][n]
        /\ blind \subseteq blind' /\ blind' \subseteq blind \cup {m}
        /\ calls[m] \in 0 .. MaxAttempts + 1 /\ rows[m] \in Rows
    BY DEF Inv, TypeOK, Collect, Alive
  <1>2. \A o \in Sweeps : Alive(o)' => Alive(o)
    BY <1>1 DEF Alive
  <1>3. Exclusive'
    BY <1>1, <1>2 DEF Inv, Exclusive
  <1>4. ASSUME NEW n \in Messages \ {m} PROVE MessageInv(n)'
    <2>1. MessageInv(n) /\ (Tracked(n)' <=> Tracked(n)) /\ \A o \in Sweeps : work'[o][n] = work[o][n]
      BY <1>1, <1>4 DEF Inv, Tracked
    <2>2. KnownRowStays(n)' /\ FiledIsWatched(n)' /\ RowIsSeen(n)' /\ calls'[n] <= MaxAttempts
      BY <1>1, <2>1 DEF MessageInv, KnownRowStays, FiledIsWatched, Kept, RowIsSeen
    <2>3. CallsAreCharged(n)'
      BY <1>1, <1>2, <2>1 DEF MessageInv, CallsAreCharged, Charged, CountedBefore, NeedsWork
    <2>4. QED
      BY <2>2, <2>3 DEF MessageInv
  <1>5. CASE /\ rows[m].status = "absent" \/ NeedsWork(rows[m], sweeps[s].catalog)
             /\ work' = [work EXCEPT ![s][m] = [pc |-> "queued", seen |-> rows[m]]]
             /\ blind' = blind
    <2>1. work'[s][m].pc = "queued" /\ work'[s][m].seen = rows[m]
      BY <1>1, <1>5 DEF TypeOK
    <2>2. KnownRowStays(m)'
      BY <1>1, <2>1 DEF MessageInv, KnownRowStays
    <2>3. FiledIsWatched(m)'
      <3>1. Kept(m)' => Kept(m)
        BY <1>1, <2>1 DEF Kept
      <3>2. \A o \in Sweeps : work[o][m].pc = "saved" => work'[o][m].pc = "saved"
        BY <1>1
      <3>3. QED
        BY <1>1, <3>1, <3>2 DEF MessageInv, FiledIsWatched
    <2>4. RowIsSeen(m)'
      BY <1>1, <1>5, <2>1 DEF MessageInv, RowIsSeen, Tracked
    <2>5. ASSUME Tracked(m)' PROVE CallsAreCharged(m)'
      <3>1. /\ Tracked(m) /\ CallsAreCharged(m) /\ \A o \in Sweeps : Alive(o) => o = s
        BY <1>1, <1>5, <2>5 DEF MessageInv, Tracked, Inv, Exclusive
      <3>2. \A o \in Sweeps : work[o][m].pc = "none"
        BY <1>1, <3>1 DEF Alive
      <3>3. CountedBefore(rows[m], catalog) \in Nat
        BY <1>1 DEF CountedBefore, Rows, Attempts
      <3>4. Charged(m, rows[m], 1)
        <4>1. CASE sweeps[s].catalog # catalog
          <5>1. calls[m] = 0
            BY <1>1, <3>1, <4>1 DEF CallsAreCharged
          <5>2. QED
            BY <3>3, <5>1 DEF Charged
        <4>2. CASE sweeps[s].catalog = catalog
          BY <1>5, <3>1, <3>2, <4>2 DEF CallsAreCharged, InHand
        <4>3. QED
          BY <4>1, <4>2
      <3>5. Charged(m, rows[m], 1)'
        BY <1>1, <3>4 DEF Charged, CountedBefore
      <3>6. \A o \in Sweeps : Alive(o)' /\ sweeps'[o].catalog # catalog' => calls'[m] = 0
        BY <1>1, <1>2, <3>1 DEF CallsAreCharged
      <3>7. \A o \in Sweeps \ {s} : work'[o][m].pc = "none"
        BY <1>1, <3>2
      <3>8. QED
        BY <1>1, <2>1, <3>5, <3>6, <3>7 DEF CallsAreCharged, InHand
    <2>6. QED
      BY <1>1, <1>3, <1>4, <2>2, <2>3, <2>4, <2>5 DEF Inv, MessageInv, CallsAreCharged
  <1>6. CASE /\ work' = [work EXCEPT ![s][m] = [pc |-> "unread", seen |-> Absent]]
             /\ blind' = blind \cup {m}
    <2>1. work'[s][m].pc = "unread" /\ work'[s][m].seen = Absent
      BY <1>1, <1>6 DEF TypeOK
    <2>2. KnownRowStays(m)'
      BY <1>1, <2>1, RowFacts DEF MessageInv, KnownRowStays
    <2>3. FiledIsWatched(m)'
      <3>1. Kept(m)' => Kept(m)
        BY <1>1, <2>1, RowFacts DEF Kept
      <3>2. \A o \in Sweeps : work[o][m].pc = "saved" => work'[o][m].pc = "saved"
        BY <1>1
      <3>3. QED
        BY <1>1, <3>1, <3>2 DEF MessageInv, FiledIsWatched
    <2>4. ~ Tracked(m)'
      BY <1>6 DEF Tracked
    <2>5. RowIsSeen(m)' /\ CallsAreCharged(m)'
      BY <2>4 DEF RowIsSeen, CallsAreCharged
    <2>6. QED
      BY <1>1, <1>3, <1>4, <2>2, <2>3, <2>5 DEF Inv, MessageInv
  <1>7. QED
    BY <1>5, <1>6 DEF Collect

LEMMA CrashKeeps ==
  ASSUME Inv, TypeOK', NEW s \in Sweeps, Crash(s)
  PROVE  Inv'
  <1>1. /\ TypeOK /\ UNCHANGED <<rows, filed, catalog, calls, blind, overlap>>
        /\ \A n \in Messages : work'[s][n] = NoItem
        /\ \A o \in Sweeps \ {s} : sweeps'[o] = sweeps[o] /\ work'[o] = work[o]
        /\ sweeps'[s] = NoSweep
        /\ lapsed' = lapsed \cup {n \in Messages : work[s][n].pc # "none"}
    BY DEF Inv, TypeOK, Crash
  <1>2. /\ ~ Alive(s)'
        /\ \A o \in Sweeps \ {s} : Alive(o)' <=> Alive(o)
    BY <1>1, RowFacts DEF Alive, NoSweep
  <1>3. Exclusive'
    BY <1>1, <1>2 DEF Inv, Exclusive
  <1>4. ASSUME NEW n \in Messages PROVE MessageInv(n)'
    <2>1. MessageInv(n)
      BY DEF Inv
    <2>2. KnownRowStays(n)' /\ calls'[n] <= MaxAttempts
      BY <1>1, <2>1, RowFacts DEF MessageInv, KnownRowStays
    <2>3. FiledIsWatched(n)'
      <3>1. Kept(n)' => Kept(n)
        BY <1>1, RowFacts DEF Kept
      <3>2. ASSUME NEW o \in Sweeps, work[o][n].pc = "saved"
            PROVE  n \in lapsed' \/ work'[o][n].pc = "saved"
        BY <1>1, <3>2
      <3>3. QED
        BY <1>1, <2>1, <3>1, <3>2 DEF MessageInv, FiledIsWatched
    <2>4. ASSUME Tracked(n)' PROVE RowIsSeen(n)' /\ CallsAreCharged(n)'
      <3>1. Tracked(n) /\ work[s][n].pc = "none"
        BY <1>1, <2>4 DEF Tracked
      <3>2. \A o \in Sweeps : work'[o][n].pc \in InHand \cup {"unread"} => o # s /\ work'[o][n] = work[o][n]
        BY <1>1, RowFacts DEF InHand
      <3>3. RowIsSeen(n)'
        BY <1>1, <2>1, <3>1, <3>2 DEF MessageInv, RowIsSeen
      <3>4. \A o \in Sweeps : Alive(o)' /\ sweeps'[o].catalog # catalog' => calls'[n] = 0
        BY <1>1, <1>2, <2>1, <3>1 DEF MessageInv, CallsAreCharged
      <3>5. \A o \in Sweeps : work[o][n].pc \in InHand => work'[o][n].pc \in InHand
        BY <1>1, <3>1 DEF InHand
      <3>6. CallsAreCharged(n)'
        BY <1>1, <2>1, <3>1, <3>2, <3>4, <3>5
        DEF MessageInv, CallsAreCharged, InHand, Charged, CountedBefore, NeedsWork
      <3>7. QED
        BY <3>3, <3>6
    <2>5. QED
      BY <2>2, <2>3, <2>4 DEF MessageInv, RowIsSeen, CallsAreCharged
  <1>5. QED
    BY <1>3, <1>4 DEF Inv

LEMMA LeaseKeeps == Inv /\ TypeOK' /\ LeaseRunsOut => Inv'
  <1> SUFFICES ASSUME Inv, TypeOK', LeaseRunsOut PROVE Inv'
    OBVIOUS
  <1>1. UNCHANGED <<rows, filed, catalog, sweeps, work, history>>
    BY DEF LeaseRunsOut
  <1>2. \A o \in Sweeps : Alive(o)' <=> Alive(o)
    BY <1>1 DEF Alive
  <1>3. Exclusive'
    BY <1>1, <1>2 DEF Inv, Exclusive, history
  <1>4. \A n \in Messages : MessageInv(n)'
    BY <1>1, <1>2, UntouchedKeeps DEF Untouched, history
  <1>5. QED
    BY <1>3, <1>4 DEF Inv

\* Filing a message decides its row, if it has one.
LEMMA FileKeeps ==
  ASSUME Inv, TypeOK', NEW m \in Messages, File(m)
  PROVE  Inv'
  <1>1. /\ TypeOK /\ UNCHANGED <<catalog, sweeps, work, history>> /\ filed' = filed \cup {m}
        /\ \A n \in Messages \ {m} : rows'[n] = rows[n]
        /\ rows'[m] = IF rows[m].status \in {"needs-review", "failed"}
                      THEN DecidedRow("accepted") ELSE rows[m]
    BY DEF Inv, TypeOK, File, DecidedRow
  <1>2. \A o \in Sweeps : Alive(o)' <=> Alive(o)
    BY <1>1 DEF Alive
  <1>3. Exclusive'
    BY <1>1, <1>2 DEF Inv, Exclusive, history
  <1>4. ASSUME NEW n \in Messages, rows'[n] = rows[n], n \in filed' => n \in filed \/ ~ Kept(n)
        PROVE  MessageInv(n)'
    <2>1. MessageInv(n) /\ (Tracked(n)' <=> Tracked(n)) /\ (Kept(n)' <=> Kept(n))
      BY <1>1, <1>4 DEF Inv, Tracked, Kept, history
    <2>2. KnownRowStays(n)' /\ FiledIsWatched(n)' /\ RowIsSeen(n)' /\ calls'[n] <= MaxAttempts
      BY <1>1, <1>4, <2>1 DEF MessageInv, KnownRowStays, FiledIsWatched, RowIsSeen, history
    <2>3. CallsAreCharged(n)'
      BY <1>1, <1>2, <1>4, <2>1
      DEF MessageInv, CallsAreCharged, Charged, CountedBefore, NeedsWork, history
    <2>4. QED
      BY <2>2, <2>3 DEF MessageInv
  <1>5. \A n \in Messages \ {m} : MessageInv(n)'
    BY <1>1, <1>4
  <1>6. MessageInv(m)'
    <2>1. CASE rows[m].status \in {"needs-review", "failed"}
      <3>1. rows'[m].status \in Terminal
        BY <1>1, <2>1, DecidedFacts DEF Terminal
      <3>2. QED
        BY <1>1, <1>2, <3>1, DecidingKeeps DEF history
    <2>2. CASE rows[m].status \notin {"needs-review", "failed"}
      BY <1>1, <1>4, <2>2 DEF Kept
    <2>3. QED
      BY <2>1, <2>2
  <1>7. QED
    BY <1>3, <1>5, <1>6 DEF Inv

LEMMA DecideKeeps ==
  ASSUME Inv, TypeOK', NEW m \in Messages, NEW outcome \in {"accepted", "dismissed"},
         Decide(m, outcome)
  PROVE  Inv'
  <1>1. /\ TypeOK /\ UNCHANGED <<filed, catalog, sweeps, work, history>>
        /\ \A n \in Messages \ {m} : rows'[n] = rows[n]
        /\ rows'[m].status \in Terminal
    BY DecidedFacts DEF Inv, TypeOK, Decide, Write, DecidedRow, Terminal
  <1>2. \A o \in Sweeps : Alive(o)' <=> Alive(o)
    BY <1>1 DEF Alive
  <1>3. Exclusive'
    BY <1>1, <1>2 DEF Inv, Exclusive, history
  <1>4. \A n \in Messages \ {m} : MessageInv(n)'
    BY <1>1, <1>2, UntouchedKeeps DEF Untouched, history
  <1>5. MessageInv(m)'
    BY <1>1, <1>2, DecidingKeeps DEF history
  <1>6. QED
    BY <1>3, <1>4, <1>5 DEF Inv

\* The calls of the message start again from nothing.
LEMMA ForgivenKeeps ==
  ASSUME Inv, TypeOK', NEW n \in Messages, calls'[n] = 0, rows'[n].status = rows[n].status,
         UNCHANGED <<filed, work, lapsed, blind, overlap>>
  PROVE  MessageInv(n)'
  <1>1. MessageInv(n) /\ (Tracked(n)' <=> Tracked(n)) /\ (Kept(n)' <=> Kept(n)) /\ TypeOK
    BY DEF Inv, Tracked, Kept
  <1>2. KnownRowStays(n)' /\ FiledIsWatched(n)' /\ RowIsSeen(n)' /\ calls'[n] <= MaxAttempts
    BY <1>1 DEF MessageInv, KnownRowStays, FiledIsWatched, RowIsSeen
  <1>3. \A row \in Rows : CountedBefore(row, catalog') \in Nat
    BY DEF CountedBefore, Rows, Attempts
  <1>4. /\ \A o \in Sweeps : work'[o][n].seen \in Rows
        /\ rows'[n] \in Rows
    BY DEF TypeOK, Items
  <1>5. /\ \A o \in Sweeps : Charged(n, work[o][n].seen, 0)' /\ Charged(n, work[o][n].seen, 1)'
        /\ Charged(n, rows[n], 1)'
    BY <1>3, <1>4 DEF Charged, CountedBefore
  <1>6. \A o \in Sweeps : Tracked(n) => work'[o][n].pc # "unread"
    BY <1>1 DEF MessageInv, CallsAreCharged
  <1>7. CallsAreCharged(n)'
    BY <1>1, <1>5, <1>6 DEF CallsAreCharged
  <1>8. QED
    BY <1>2, <1>7 DEF MessageInv

LEMMA RetryKeeps == Inv /\ TypeOK' /\ (RetryFailed \/ EditLabels) => Inv'
  <1> SUFFICES ASSUME Inv, TypeOK', RetryFailed \/ EditLabels PROVE Inv'
    OBVIOUS
  <1>1. /\ TypeOK /\ UNCHANGED <<filed, sweeps, work, lapsed, blind, overlap>>
    BY DEF Inv, RetryFailed, EditLabels
  <1>2. \A o \in Sweeps : Alive(o)' <=> Alive(o)
    BY <1>1 DEF Alive
  <1>3. Exclusive'
    BY <1>1, <1>2 DEF Inv, Exclusive
  <1>4. ASSUME NEW n \in Messages PROVE MessageInv(n)'
    <2>1. CASE EditLabels
      BY <1>1, <2>1, ForgivenKeeps DEF EditLabels
    <2>2. CASE RetryFailed /\ n \in Retried
      <3>1. rows'[n] = [rows[n] EXCEPT !.attempts = 1, !.attempted = 0] /\ calls'[n] = 0
        BY <2>2 DEF RetryFailed
      <3>2. rows[n] \in Rows
        BY <1>1 DEF TypeOK
      <3>3. rows'[n].status = rows[n].status
        BY <3>1, <3>2 DEF Rows
      <3>4. QED
        BY <1>1, <3>1, <3>3, ForgivenKeeps
    <2>3. CASE RetryFailed /\ n \notin Retried
      <3>1. rows'[n] = rows[n] /\ calls'[n] = calls[n] /\ catalog' = catalog
        BY <2>3 DEF RetryFailed
      <3>2. QED
        BY <1>1, <1>2, <3>1, UntouchedKeeps DEF Untouched
    <2>4. QED
      BY <2>1, <2>2, <2>3
  <1>5. QED
    BY <1>3, <1>4 DEF Inv

-----------------------------------------------------------------------------
(* The theorems *)

LEMMA InvInit == Init => Inv
  <1> SUFFICES ASSUME Init PROVE Inv
    OBVIOUS
  <1>1. TypeOK
    BY TypeInit
  <1>2. /\ \A m \in Messages : rows[m] = Absent /\ calls[m] = 0
        /\ \A s \in Sweeps, m \in Messages : work[s][m] = NoItem
        /\ \A s \in Sweeps : ~ Alive(s)
        /\ catalog = 1 /\ filed = {}
    BY DEF Init, Alive, NoSweep, NoItem
  <1>3. Exclusive
    BY <1>2 DEF Exclusive
  <1>4. ASSUME NEW m \in Messages PROVE MessageInv(m)
    <2>1. \A s \in Sweeps : work[s][m].pc = "none" /\ work[s][m].seen = Absent
      BY <1>2, RowFacts
    <2>2. KnownRowStays(m) /\ FiledIsWatched(m) /\ RowIsSeen(m) /\ calls[m] <= MaxAttempts
      BY <1>2, <2>1, RowFacts DEF KnownRowStays, FiledIsWatched, RowIsSeen, InHand
    <2>3. CountedBefore(rows[m], catalog) = 0
      BY <1>2 DEF CountedBefore, Absent
    <2>4. Charged(m, rows[m], 1)
      BY <1>2, <2>3 DEF Charged
    <2>5. CallsAreCharged(m)
      BY <1>2, <2>1, <2>4 DEF CallsAreCharged
    <2>6. QED
      BY <2>2, <2>5 DEF MessageInv
  <1>5. QED
    BY <1>1, <1>3, <1>4 DEF Inv

LEMMA StutterKeeps == Inv /\ TypeOK' /\ UNCHANGED vars => Inv'
  <1> SUFFICES ASSUME Inv, TypeOK', UNCHANGED vars PROVE Inv'
    OBVIOUS
  <1>1. \A o \in Sweeps : Alive(o)' <=> Alive(o)
    BY DEF vars, Alive
  <1>2. Exclusive'
    BY <1>1 DEF Inv, Exclusive, vars, history
  <1>3. \A n \in Messages : MessageInv(n)'
    BY <1>1, UntouchedKeeps DEF Untouched, vars, history
  <1>4. QED
    BY <1>2, <1>3 DEF Inv

LEMMA InvStep == Inv /\ [Next]_vars => Inv'
  <1> SUFFICES ASSUME Inv, [Next]_vars PROVE Inv'
    OBVIOUS
  <1>1. TypeOK'
    BY TypeStep DEF Inv
  <1>2. CASE UNCHANGED vars
    BY <1>1, <1>2, StutterKeeps
  <1>3. CASE LeaseRunsOut
    BY <1>1, <1>3, LeaseKeeps
  <1>4. ASSUME NEW s \in Sweeps, Sweep(s) PROVE Inv'
    <2>1. CASE \E m \in Messages : Worker(s, m)
      BY <1>1, <2>1, WorkerKeeps
    <2>2. CASE \E m \in Messages : Collect(s, m)
      BY <1>1, <2>2, CollectKeeps
    <2>3. QED
      BY <1>1, <1>4, <2>1, <2>2, BeginKeeps, ReconcileKeeps, SweepKeeps, CrashKeeps DEF Sweep
  <1>5. CASE Person
    BY <1>1, <1>5, FileKeeps, DecideKeeps, RetryKeeps DEF Person
  <1>6. QED
    BY <1>2, <1>3, <1>4, <1>5 DEF Next

\* The inductive invariant of sweeps, filings and decisions, which includes the
\* types of all the variables, for any number of messages and sweeps.
THEOREM Invariance == Spec => []Inv
  BY InvInit, InvStep, PTL DEF Spec

\* A filed message is not left under review, unless a save or a process failed
\* on the way or its sweep is about to check (the comment at
\* app/api/v1/inbox-analysis/route.ts:984).
THEOREM FilingsLeaveTheQueue == Spec => []FiledLeavesTheQueue
  <1>1. Inv => FiledLeavesTheQueue
    BY DEF Inv, MessageInv, FiledIsWatched, Kept, FiledLeavesTheQueue, TypeOK
  <1>2. QED
    BY <1>1, Invariance, PTL

\* The provider is called at most MaxAttempts times for a message whose row was
\* read and whose saves went through, under one catalog and one press of Retry.
THEOREM CallsAreBounded == Spec => []SpendingIsBounded
  <1>1. Inv => SpendingIsBounded
    BY DEF Inv, MessageInv, SpendingIsBounded
  <1>2. QED
    BY <1>1, Invariance, PTL

-----------------------------------------------------------------------------
(* The refinement of Triage *)

\* What machines may do to a row: nothing, or rewrite an open one.
Machined(old, new) ==
  \/ new = old
  \/ /\ old.status \in {"absent", "needs-review", "failed"}
     /\ new.status \in {"needs-review", "failed", "skipped-noise"}

\* What a worker writes: the row of its message, by a guarded statement.
LEMMA WorkerWrites ==
  ASSUME TypeOK, NEW s \in Sweeps, NEW m \in Messages, Worker(s, m)
  PROVE  /\ \A n \in Messages : n # m => rows'[n] = rows[n]
         /\ Machined(rows[m], rows'[m])
         /\ filed' = filed
  <1> DEFINE Machine == {"needs-review", "failed", "skipped-noise"}
  <1>1. \A seen, v, error, counts : Failure(seen, v, error, counts).status \in Machine
    BY DEF Failure
  <1>2. Skipped.status \in Machine /\ \A v : Analysis(v).status \in Machine
    BY DEF Skipped, Absent, Analysis
  <1>3. ASSUME NEW error, NEW counts, SaveFailure(s, m, error, counts)
        PROVE  \E row : row.status \in Machine /\ Write(m, Upsert(rows[m], row))
    BY <1>1, <1>3 DEF SaveFailure
  <1>4. \/ UNCHANGED rows
        \/ \E row : row.status \in Machine /\ Write(m, Upsert(rows[m], row))
        \/ \E row : row.status \in Machine /\ Write(m, InsertIfAbsent(rows[m], row))
    <2>1. CASE \/ PassFilter(s, m) \/ CallProvider(s, m) \/ Arrive(s, m) \/ Break(s, m)
               \/ FailSweep(s, m)
      BY <2>1 DEF PassFilter, CallProvider, Arrive, Break, FailSweep
    <2>2. CASE SkipFiled(s, m) \/ SkipNoise(s, m) \/ RetireFiled(s, m)
      <3> DEFINE failure == Failure(Absent, sweeps[s].catalog, OtherError, TRUE)
      <3>1. failure.status \in Machine
        BY DEF Failure
      <3>2. \/ UNCHANGED rows
            \/ Write(m, Upsert(rows[m], Skipped)) \/ Write(m, Upsert(rows[m], failure))
        BY <2>2 DEF SkipFiled, SkipNoise, RetireFiled
      <3> HIDE DEF failure
      <3>3. PICK row : row = failure
        OBVIOUS
      <3>4. QED
        BY <1>2, <3>1, <3>2, <3>3
    <2>3. CASE SaveDiscoveryFailure(s, m)
      <3> DEFINE failure == Failure(Absent, sweeps[s].catalog, Retryable, TRUE)
      <3>1. failure.status \in Machine
        BY DEF Failure
      <3>2. Write(m, InsertIfAbsent(rows[m], failure))
        BY <2>3 DEF SaveDiscoveryFailure
      <3> HIDE DEF failure
      <3>3. PICK row : row = failure
        OBVIOUS
      <3>4. QED
        BY <3>1, <3>2, <3>3
    <2>4. CASE \E error, counts : SaveFailure(s, m, error, counts)
      BY <1>3, <2>4
    <2>5. CASE SaveAnalysis(s, m)
      <3> DEFINE row == Analysis(sweeps[s].catalog)
      <3>1. row.status \in Machine
        BY <1>2
      <3>2. Write(m, Analysed(rows[m], work[s][m].seen, sweeps[s].catalog))
        BY <2>5 DEF SaveAnalysis
      <3>3. rows' \in {[rows EXCEPT ![m] = Upsert(rows[m], row)],
                      [rows EXCEPT ![m] = InsertIfAbsent(rows[m], row)]}
        BY <3>2 DEF Analysed, Write
      <3>4. QED
        BY <3>1, <3>3 DEF Write
    <2>6. QED
      BY <2>1, <2>2, <2>3, <2>4, <2>5
         DEF Worker, SaveAborted, GmailReadFails, DailyLimitReached, AnalysisFails, LabelsRetired,
             SaveBroken
  <1>5. rows[m].status \notin Terminal => rows[m].status \in {"absent", "needs-review", "failed"}
    BY DEF TypeOK, Rows
  <1>6. filed' = filed
    BY DEF Worker, SkipFiled, SaveDiscoveryFailure, PassFilter, SaveAborted, GmailReadFails,
           SkipNoise, DailyLimitReached, CallProvider, AnalysisFails, SaveAnalysis, LabelsRetired,
           RetireFiled, Arrive, Break, SaveBroken, FailSweep, SaveFailure
  <1>7. QED
    BY <1>4, <1>5, <1>6 DEF Write, Upsert, InsertIfAbsent, Machined, TypeOK

\* What the rest of a sweep writes: rows under review, of messages that are filed.
LEMMA SweepWrites ==
  ASSUME TypeOK, NEW s \in Sweeps, Sweep(s), NEW m \in Messages
  PROVE  Machined(rows[m], rows'[m]) /\ filed' = filed
  <1>1. ASSUME NEW n \in Messages, Worker(s, n) PROVE Machined(rows[m], rows'[m]) /\ filed' = filed
    BY <1>1, WorkerWrites DEF Machined
  <1>2. ASSUME NEW n \in Messages, Announce(s, n) PROVE Machined(rows[m], rows'[m]) /\ filed' = filed
    BY <1>2 DEF Announce, Write, Upsert, Terminal, Skipped, Absent, Machined, TypeOK
  <1>3. CASE Reconcile(s)
    BY <1>3 DEF Reconcile, Skipped, Absent, Machined, TypeOK
  <1>4. CASE UNCHANGED <<rows, filed>>
    BY <1>4 DEF Machined
  <1>5. QED
    BY <1>1, <1>2, <1>3, <1>4 DEF Sweep, Begin, StartWorkers, Stop, End, Crash, Collect

LEMMA MachinedMaps ==
  ASSUME NEW m \in Messages, Machined(rows[m], rows'[m]), filed' = filed
  PROVE  [Review(m)!Next]_(Review(m)!row)
BY DEF Machined, Review!Next, Review!Analyse, Review!row

\* People: a filing takes the row along, a decision needs it under review, and
\* Retry leaves its status.
LEMMA PersonMaps ==
  ASSUME TypeOK, Person, NEW m \in Messages
  PROVE  [Review(m)!Next]_(Review(m)!row)
  <1>1. ASSUME NEW n \in Messages, File(n) PROVE [Review(m)!Next]_(Review(m)!row)
    <2>1. CASE n = m
      <3>1. /\ m \notin filed /\ m \in filed'
            /\ rows'[m].status = IF rows[m].status \in {"needs-review", "failed"}
                                 THEN "accepted" ELSE rows[m].status
        BY <1>1, <2>1 DEF File, Absent, TypeOK
      <3>2. Review(m)!File
        BY <3>1 DEF Review!File
      <3>3. QED
        BY <3>2 DEF Review!Next
    <2>2. CASE n # m
      BY <1>1, <2>2 DEF File, TypeOK, Review!row
    <2>3. QED
      BY <2>1, <2>2
  <1>2. ASSUME NEW n \in Messages, NEW outcome \in {"accepted", "dismissed"}, Decide(n, outcome)
        PROVE  [Review(m)!Next]_(Review(m)!row)
    <2>1. CASE n = m
      <3>1. /\ rows[m].status = "needs-review" /\ rows'[m].status \in {"accepted", "dismissed"}
            /\ filed' = filed
        BY <1>2, <2>1 DEF Decide, Write, Absent, TypeOK
      <3>2. Review(m)!Decide
        BY <3>1 DEF Review!Decide
      <3>3. QED
        BY <3>2 DEF Review!Next
    <2>2. CASE n # m
      BY <1>2, <2>2 DEF Decide, Write, TypeOK, Review!row
    <2>3. QED
      BY <2>1, <2>2
  <1>3. CASE RetryFailed
    <2>1. rows[m] \in Rows
      BY DEF TypeOK
    <2>2. rows'[m].status = rows[m].status /\ filed' = filed
      BY <1>3, <2>1 DEF RetryFailed, Rows
    <2>3. QED
      BY <2>2 DEF Review!row
  <1>4. CASE EditLabels
    BY <1>4 DEF EditLabels, Review!row
  <1>5. QED
    BY <1>1, <1>2, <1>3, <1>4 DEF Person

\* Every behaviour of the sweeps, the people and the filings is, message by
\* message, a behaviour of Triage: no snapshot, however old, brings a decided
\* message back, and nothing but a filing or a person accepts one.
THEOREM QueueKeepsTriage == Spec => ImplementsTriage
  <1>1. ASSUME Init, NEW m \in Messages PROVE Review(m)!Init
    BY <1>1 DEF Init, Absent, Review!Init
  <1>2. ASSUME Inv, [Next]_vars, NEW m \in Messages PROVE [Review(m)!Next]_(Review(m)!row)
    <2>1. TypeOK
      BY <1>2 DEF Inv
    <2>2. ASSUME NEW s \in Sweeps, Sweep(s) PROVE [Review(m)!Next]_(Review(m)!row)
      BY <1>2, <2>1, <2>2, SweepWrites, MachinedMaps
    <2>3. CASE Person
      BY <1>2, <2>1, <2>3, PersonMaps
    <2>4. CASE LeaseRunsOut \/ UNCHANGED vars
      BY <2>4 DEF LeaseRunsOut, vars, Review!row
    <2>5. QED
      BY <1>2, <2>2, <2>3, <2>4 DEF Next
  <1>3. Init => \A m \in Messages : Review(m)!Init
    BY <1>1
  <1>4. Inv /\ [Next]_vars => [\A m \in Messages : [Review(m)!Next]_(Review(m)!row)]_vars
    BY <1>2
  <1>5. QED
    BY <1>3, <1>4, Invariance, PTL DEF Spec, ImplementsTriage

LEMMA SavedFailure ==
  ASSUME Inv, NEW s \in Sweeps, NEW m \in Messages, Tracked(m),
         work[s][m].pc \in InHand \cup {"unread"}, rows[m].status = "needs-review",
         NEW error, NEW counts, SaveFailure(s, m, error, counts)
  PROVE  rows'[m].status = "needs-review"
  <1>1. TypeOK /\ MessageInv(m)
    BY DEF Inv
  <1>2. work[s][m].seen.status = "needs-review"
    BY <1>1 DEF MessageInv, RowIsSeen, CallsAreCharged, InHand, Terminal
  <1>3. Failure(work[s][m].seen, sweeps[s].catalog, error, counts).status = "needs-review"
    BY <1>2 DEF Failure
  <1>4. rows' = [rows EXCEPT ![m] = Failure(work[s][m].seen, sweeps[s].catalog, error, counts)]
    BY DEF SaveFailure, Write, Upsert, Terminal
  <1>5. QED
    BY <1>1, <1>3, <1>4 DEF TypeOK

\* No sweep that has the mailbox to itself, reads the row and loses no save
\* replaces a paid analysis by a bare failure.
THEOREM AnalysesKept == Spec => AnalysesAreKept
  <1>1. ASSUME Inv, [Next]_vars, NEW m \in Messages, rows[m].status = "needs-review",
               rows'[m].status = "failed", ~ overlap, m \notin lapsed' \cup blind
        PROVE  FALSE
    <2>1. TypeOK
      BY <1>1 DEF Inv
    <2>2. CASE UNCHANGED vars \/ LeaseRunsOut
      BY <1>1, <2>2 DEF vars, LeaseRunsOut
    <2>3. ASSUME NEW s \in Sweeps, Worker(s, m)
          PROVE  FALSE
      <3>1. m \notin lapsed
        <4>1. lapsed \subseteq lapsed'
          BY <2>3 DEF Worker, SkipFiled, SaveDiscoveryFailure, PassFilter, SaveAborted, SaveFailure,
                  GmailReadFails, SkipNoise, DailyLimitReached, CallProvider, AnalysisFails,
                  SaveAnalysis, LabelsRetired, RetireFiled, Arrive, Break, SaveBroken, FailSweep,
                  history
        <4>2. QED
          BY <1>1, <4>1
      <3>2. Tracked(m)
        BY <1>1, <3>1 DEF Tracked
      <3>3. ~ \E error, counts : /\ SaveFailure(s, m, error, counts)
                                 /\ work[s][m].pc \in InHand \cup {"unread"}
        BY <1>1, <3>2, SavedFailure
      <3>4. ~ (\/ SaveAborted(s, m) \/ GmailReadFails(s, m) \/ DailyLimitReached(s, m)
               \/ AnalysisFails(s, m) \/ LabelsRetired(s, m) \/ SaveBroken(s, m))
        BY <3>3 DEF SaveAborted, GmailReadFails, DailyLimitReached, AnalysisFails, LabelsRetired,
                    SaveBroken, At, InHand
      <3>5. ~ (SkipFiled(s, m) \/ SkipNoise(s, m))
        BY <1>1, <2>1, RowFacts DEF SkipFiled, SkipNoise, Write, Upsert, Terminal, TypeOK
      <3>6. ~ SaveDiscoveryFailure(s, m)
        BY <1>1, <2>1 DEF SaveDiscoveryFailure, Write, InsertIfAbsent, TypeOK
      <3>7. ~ SaveAnalysis(s, m)
        BY <1>1, <2>1 DEF SaveAnalysis, Analysed, Analysis, Write, InsertIfAbsent, Upsert, TypeOK
      <3>8. ~ RetireFiled(s, m)
        BY <1>1, <2>1, RowFacts DEF RetireFiled, Write, Upsert, Terminal, TypeOK
      <3>9. QED
        BY <1>1, <2>3, <3>4, <3>5, <3>6, <3>7, <3>8
           DEF Worker, PassFilter, CallProvider, Arrive, Break, FailSweep
    <2>4. ASSUME NEW s \in Sweeps, NEW n \in Messages \ {m}, Worker(s, n)
          PROVE  FALSE
      BY <1>1, <2>1, <2>4, WorkerWrites
    <2>5. ASSUME NEW s \in Sweeps, NEW n \in Messages, Collect(s, n) \/ Announce(s, n)
          PROVE  FALSE
      BY <1>1, <2>1, <2>5, RowFacts DEF Collect, Announce, Write, Upsert, Terminal, TypeOK
    <2>6. ASSUME NEW s \in Sweeps,
                 Begin(s) \/ Reconcile(s) \/ StartWorkers(s) \/ Stop(s) \/ End(s) \/ Crash(s)
          PROVE  FALSE
      BY <1>1, <2>1, <2>6, RowFacts
         DEF Begin, Reconcile, StartWorkers, Stop, End, Crash, Terminal, TypeOK
    <2>7. CASE Person
      <3>1. \A n \in Messages, outcome \in {"accepted", "dismissed"} : ~ Decide(n, outcome)
        BY <1>1, <2>1 DEF Decide, Write, Absent, TypeOK
      <3>2. \A n \in Messages : ~ File(n)
        BY <1>1, <2>1 DEF File, Absent, TypeOK
      <3>3. ~ RetryFailed
        BY <1>1 DEF RetryFailed, Retried, Exhausted
      <3>4. QED
        BY <1>1, <2>7, <3>1, <3>2, <3>3 DEF Person, EditLabels
    <2>8. QED
      BY <1>1, <2>2, <2>3, <2>4, <2>5, <2>6, <2>7 DEF Next, Sweep
  <1>2. Inv /\ [Next]_vars => [DemotionStep]_vars
    BY <1>1 DEF DemotionStep
  <1>3. QED
    BY <1>2, Invariance, PTL DEF Spec, AnalysesAreKept
=============================================================================
