------------------------------ MODULE MailQueue ------------------------------
(***************************************************************************)
(* The mail review queue: analysis sweeps over mail_items                  *)
(* (app/api/v1/inbox-analysis/route.ts with adapters/d1/                   *)
(* mail-item-repository.ts) against the people who file, accept, dismiss   *)
(* and retry messages and edit the label catalog.                          *)
(*                                                                         *)
(* A sweep takes a lease, snapshots the rows it will work on, and carries  *)
(* each message through Gmail and the AI provider before it writes.  One   *)
(* action is one statement on mail_items together with the reads it        *)
(* follows without consequence.  Workers of a sweep that failed, and sweeps*)
(* that outlive their five-minute lease, go on beside the next sweep.      *)
(***************************************************************************)
EXTENDS Integers, FiniteSets

CONSTANTS
  Messages,
  Sweeps,        \* requests that run runInboxAnalysisSweep
  MaxAttempts,   \* MAX_MAIL_ITEM_FAILURE_ATTEMPTS
  MaxCatalog,    \* bound on the versions of the label catalog
  Nobody

ASSUME AttemptsAssumption == MaxAttempts \in Nat \ {0}
ASSUME CatalogAssumption == MaxCatalog \in Nat \ {0}
ASSUME NobodyAssumption == Nobody \notin Sweeps

VARIABLES
  rows,       \* mail_items
  filed,      \* messages whose gmail_file_archives row says filed
  catalog,    \* version of the label catalog; every edit makes a new one
  sweeps,     \* requests: progress, catalog read, arrivals to announce
  work,       \* what a sweep's workers do with each message, and its snapshot
  lease,      \* the inbox-analysis setup lease
  calls,      \* history: provider calls for the message under this catalog;
              \* bound: they are counted to MaxAttempts + 1
  lapsed,     \* history: messages whose retirement or last save did not happen
  blind,      \* history: messages a sweep has worked on without their row
  overlap     \* history: a sweep began while workers of another were alive

history == <<calls, lapsed, blind, overlap>>
vars == <<rows, filed, catalog, sweeps, work, lease, history>>

Versions == 0 .. MaxCatalog    \* 0: no version, or the manual retry marker
Attempts == 0 .. MaxAttempts

\* What the code tells apart in error_code: retried without limit; retried by
\* the button once exhausted; anything else.
Exempt == "exempt"
Retryable == "retryable"
OtherError == "other"

Terminal == {"accepted", "dismissed", "skipped-noise"}

Rows == [status : {"absent", "needs-review", "failed"} \cup Terminal, label : Versions,
         attempted : Versions, attempts : Attempts,
         error : {"none", Exempt, Retryable, OtherError}]

Absent == [status |-> "absent", label |-> 0, attempted |-> 0, attempts |-> 0, error |-> "none"]

Items == [pc : {"none", "queued", "unread", "reading", "analysing", "saved", "broken"},
          seen : Rows]
NoItem == [pc |-> "none", seen |-> Absent]

NoSweep == [pc |-> "idle", catalog |-> 1, stopped |-> FALSE, arrivals |-> {}]

\* normalizeStoredMailItem: what every read of a row insists on.
WellFormed(row) ==
  /\ row.status \in Terminal \cup {"absent"} => row.attempts = 0
  /\ row.status = "failed" => row.attempts >= 1
  /\ row.error # "none" <=> row.attempts > 0
  /\ row.attempts = 0 => row.attempted = 0

TypeOK ==
  /\ rows \in [Messages -> Rows]
  /\ \A m \in Messages : WellFormed(rows[m])
  /\ filed \in SUBSET Messages
  /\ catalog \in 1 .. MaxCatalog
  /\ sweeps \in [Sweeps -> [pc : {"idle", "reconciling", "collecting", "working", "failing"},
                            catalog : 1 .. MaxCatalog, stopped : BOOLEAN,
                            arrivals : SUBSET Messages]]
  /\ work \in [Sweeps -> [Messages -> Items]]
  /\ lease \in Sweeps \cup {Nobody}
  /\ calls \in [Messages -> 0 .. MaxAttempts + 1]
  /\ lapsed \in SUBSET Messages /\ blind \in SUBSET Messages
  /\ overlap \in BOOLEAN

Init ==
  /\ rows = [m \in Messages |-> Absent]
  /\ filed = {}
  /\ catalog = 1
  /\ sweeps = [s \in Sweeps |-> NoSweep]
  /\ work = [s \in Sweeps |-> [m \in Messages |-> NoItem]]
  /\ lease = Nobody
  /\ calls = [m \in Messages |-> 0]
  /\ lapsed = {} /\ blind = {}
  /\ overlap = FALSE

\* Sweeps have excluded each other, and none has lost a save of the message or
\* worked on it without its row.
Tracked(m) == ~ overlap /\ m \notin lapsed \cup blind

-----------------------------------------------------------------------------
(* Statements on mail_items *)

\* Fault: the statement writes over any row.
FaultyUpsert(old, new) == new

\* ON CONFLICT DO UPDATE ... WHERE status IN ('needs-review', 'failed')
Upsert(old, new) == IF old.status \in Terminal THEN old ELSE new

\* ON CONFLICT DO NOTHING
InsertIfAbsent(old, new) == IF old.status = "absent" THEN new ELSE old

Skipped == [Absent EXCEPT !.status = "skipped-noise"]

\* saveFailure: attempts are kept per catalog version; a row under review stays
\* there with its analysis.
CountedBefore(seen, v) == IF seen.attempted = v THEN seen.attempts ELSE 0

AttemptsAfter(seen, v, counts) ==
  IF ~counts THEN IF CountedBefore(seen, v) > 1 THEN CountedBefore(seen, v) ELSE 1
  ELSE IF CountedBefore(seen, v) < MaxAttempts THEN CountedBefore(seen, v) + 1
  ELSE MaxAttempts

\* Fault: preservesReview is dropped.
FaultyFailure(seen, v, error, counts) ==
  [status |-> "failed", label |-> 0, attempted |-> v,
   attempts |-> AttemptsAfter(seen, v, counts), error |-> error]

Failure(seen, v, error, counts) ==
  [status |-> IF seen.status = "needs-review" THEN "needs-review" ELSE "failed",
   label |-> IF seen.status = "needs-review" THEN seen.label ELSE 0,
   attempted |-> v, attempts |-> AttemptsAfter(seen, v, counts), error |-> error]

\* saveAnalysis
Analysis(v) ==
  [status |-> "needs-review", label |-> v, attempted |-> 0, attempts |-> 0, error |-> "none"]

\* Fault: one attempt too many.
FaultyNeedsWork(row, v) ==
  /\ row.error = Exempt \/ row.attempts <= MaxAttempts \/ row.attempted # v
  /\ row.status = "failed" \/ (row.status = "needs-review" /\ row.label # v)

\* listRetryableAnalysisRows, which needsRetry and needsReanalysis repeat for
\* the rows met on a page.
NeedsWork(row, v) ==
  /\ row.error = Exempt \/ row.attempts < MaxAttempts \/ row.attempted # v
  /\ row.status = "failed" \/ (row.status = "needs-review" /\ row.label # v)

-----------------------------------------------------------------------------
(* The sweep *)

Alive(s) == sweeps[s].pc # "idle" \/ \E m \in Messages : work[s][m].pc # "none"

\* acquireWorkspaceSetupLease, then the label catalog is read.
Begin(s) ==
  /\ ~ Alive(s)
  /\ lease = Nobody
  /\ lease' = s
  /\ sweeps' = [sweeps EXCEPT ![s] = [NoSweep EXCEPT !.pc = "reconciling",
                                                     !.catalog = catalog]]
  /\ overlap' = (overlap \/ \E o \in Sweeps \ {s} : Alive(o))
  /\ UNCHANGED <<rows, filed, catalog, work, calls, lapsed, blind>>

\* Rows under review of filed messages are retired; the statement may fail.
Reconcile(s) ==
  /\ sweeps[s].pc = "reconciling"
  /\ sweeps' = [sweeps EXCEPT ![s].pc = "collecting"]
  /\ \/ rows' = [m \in Messages |->
                   IF m \in filed /\ rows[m].status = "needs-review" THEN Skipped ELSE rows[m]]
     \/ UNCHANGED rows
  /\ UNCHANGED <<filed, catalog, work, lease, history>>

\* A row of the backlog, or a message met on a Gmail page, with its row as read
\* now; a row on a page that cannot be read is worked on without.
Collect(s, m) ==
  /\ sweeps[s].pc = "collecting"
  /\ work[s][m].pc = "none"
  /\ \/ /\ rows[m].status = "absent" \/ NeedsWork(rows[m], sweeps[s].catalog)
        /\ work' = [work EXCEPT ![s][m] = [pc |-> "queued", seen |-> rows[m]]]
        /\ blind' = blind
     \/ /\ work' = [work EXCEPT ![s][m] = [pc |-> "unread", seen |-> Absent]]
        /\ blind' = blind \cup {m}
  /\ UNCHANGED <<rows, filed, catalog, sweeps, lease, calls, lapsed, overlap>>

StartWorkers(s) ==
  /\ sweeps[s].pc = "collecting"
  /\ sweeps' = [sweeps EXCEPT ![s].pc = "working"]
  /\ UNCHANGED <<rows, filed, catalog, work, lease, history>>

\* The 55-second deadline, or the client hangs up.
Stop(s) ==
  /\ sweeps[s].pc = "working"
  /\ ~ sweeps[s].stopped
  /\ sweeps' = [sweeps EXCEPT ![s].stopped = TRUE]
  /\ UNCHANGED <<rows, filed, catalog, work, lease, history>>

At(s, m, pcs) == sweeps[s].pc \notin {"reconciling", "collecting"} /\ work[s][m].pc \in pcs

Write(m, row) == rows' = [rows EXCEPT ![m] = row]
Finish(s, m) == work' = [work EXCEPT ![s][m] = NoItem]
Continue(s, m, pc) == work' = [work EXCEPT ![s][m].pc = pc]

SaveFailure(s, m, error, counts) ==
  /\ Write(m, Upsert(rows[m], Failure(work[s][m].seen, sweeps[s].catalog, error, counts)))
  /\ Finish(s, m)
  /\ UNCHANGED <<filed, catalog, sweeps, lease, history>>

\* isAlreadyFiled before anything is spent on the message.
SkipFiled(s, m) ==
  /\ At(s, m, {"queued", "unread"})
  /\ m \in filed
  /\ Write(m, Upsert(rows[m], Skipped))
  /\ Finish(s, m)
  /\ UNCHANGED <<filed, catalog, sweeps, lease, history>>

SaveDiscoveryFailure(s, m) ==
  /\ At(s, m, {"unread"})
  /\ m \notin filed
  /\ Write(m, InsertIfAbsent(rows[m], Failure(Absent, sweeps[s].catalog, Retryable, TRUE)))
  /\ Finish(s, m)
  /\ UNCHANGED <<filed, catalog, sweeps, lease, history>>

PassFilter(s, m) ==
  /\ At(s, m, {"queued"})
  /\ m \notin filed
  /\ Continue(s, m, "reading")
  /\ UNCHANGED <<rows, filed, catalog, sweeps, lease, history>>

\* A worker reaches the message after the sweep was stopped.
SaveAborted(s, m) ==
  /\ At(s, m, {"queued", "unread"})
  /\ sweeps[s].stopped
  /\ \E error \in {Retryable, OtherError} : SaveFailure(s, m, error, FALSE)

\* Gmail does not hand out the message.
GmailReadFails(s, m) ==
  /\ At(s, m, {"reading"})
  /\ SaveFailure(s, m, OtherError, TRUE)

\* List-Unsubscribe
SkipNoise(s, m) ==
  /\ At(s, m, {"reading"})
  /\ Write(m, Upsert(rows[m], Skipped))
  /\ Finish(s, m)
  /\ UNCHANGED <<filed, catalog, sweeps, lease, history>>

\* reserveInboxAnalysisProviderCall finds the day's budget spent.
DailyLimitReached(s, m) ==
  /\ At(s, m, {"reading"})
  /\ SaveFailure(s, m, Exempt, FALSE)

\* The calls that can be held against the attempt budget.
Counted(s, m) == sweeps[s].catalog = catalog /\ Tracked(m)

\* The call is reserved and made.
CallProvider(s, m) ==
  /\ At(s, m, {"reading"})
  /\ Continue(s, m, "analysing")
  /\ calls' = [calls EXCEPT ![m] =
                 IF Counted(s, m) /\ @ <= MaxAttempts THEN @ + 1 ELSE @]
  /\ UNCHANGED <<rows, filed, catalog, sweeps, lease, lapsed, blind, overlap>>

AnalysisFails(s, m) ==
  /\ At(s, m, {"analysing"})
  /\ SaveFailure(s, m, Retryable, TRUE)

\* saveAnalysisIfLabelsActive in its two modes.
Analysed(old, seen, v) ==
  IF seen.status = "absent" THEN InsertIfAbsent(old, Analysis(v)) ELSE Upsert(old, Analysis(v))

\* The analysis is saved; its answer may be lost, which the worker takes for a
\* failure of the item.
SaveAnalysis(s, m) ==
  LET seen == work[s][m].seen
      new == Analysed(rows[m], seen, sweeps[s].catalog) IN
  /\ At(s, m, {"analysing"})
  /\ Write(m, new)
  /\ \/ /\ Continue(s, m, "saved")
        /\ lapsed' = lapsed
     \/ /\ Continue(s, m, "broken")
        /\ lapsed' = lapsed \cup {m}
  /\ UNCHANGED <<filed, catalog, sweeps, lease, calls, blind, overlap>>

\* One of the labels the analysis chose has been retired meanwhile.
LabelsRetired(s, m) ==
  /\ At(s, m, {"analysing"})
  /\ sweeps[s].catalog # catalog
  /\ Analysed(rows[m], work[s][m].seen, sweeps[s].catalog) # rows[m]
  /\ SaveFailure(s, m, Exempt, FALSE)

\* Fault: the archive is not asked again after the write.
FaultyOwed(m) == FALSE

\* The message was filed while its analysis was under way.
Owed(m) == m \in filed

\* The check after the write: the row is retired, or demoted to a retryable
\* failure when that cannot be saved, or neither can.
RetireFiled(s, m) ==
  /\ At(s, m, {"saved"})
  /\ Owed(m)
  /\ \/ /\ Write(m, Upsert(rows[m], Skipped))
        /\ lapsed' = lapsed
     \/ /\ \/ Write(m, Upsert(rows[m], Failure(Absent, sweeps[s].catalog, OtherError, TRUE)))
           \/ UNCHANGED rows
        /\ lapsed' = lapsed \cup {m}
  /\ Finish(s, m)
  /\ UNCHANGED <<filed, catalog, sweeps, lease, calls, blind, overlap>>

\* The message is not filed, or that cannot be read.
Arrive(s, m) ==
  /\ At(s, m, {"saved"})
  /\ \/ ~ Owed(m) /\ lapsed' = lapsed
     \/ Owed(m) /\ lapsed' = lapsed \cup {m}
  /\ Finish(s, m)
  /\ sweeps' = [sweeps EXCEPT ![s].arrivals = @ \cup {m}]
  /\ UNCHANGED <<rows, filed, catalog, lease, calls, blind, overlap>>

\* A read or a save of the item throws; its worker saves a failure instead.
Break(s, m) ==
  /\ At(s, m, {"queued", "unread", "reading", "analysing"})
  /\ Continue(s, m, "broken")
  /\ UNCHANGED <<rows, filed, catalog, sweeps, lease, history>>

SaveBroken(s, m) ==
  /\ At(s, m, {"broken"})
  /\ SaveFailure(s, m, Retryable, TRUE)

\* That save throws as well: Promise.all rejects, and the other workers go on.
FailSweep(s, m) ==
  /\ At(s, m, {"queued", "unread", "broken"})
  /\ Finish(s, m)
  /\ lapsed' = lapsed \cup {m}
  /\ sweeps' = [sweeps EXCEPT ![s].pc = IF @ = "working" THEN "failing" ELSE @]
  /\ UNCHANGED <<rows, filed, catalog, lease, calls, blind, overlap>>

Worker(s, m) ==
  \/ SkipFiled(s, m) \/ SaveDiscoveryFailure(s, m) \/ PassFilter(s, m) \/ SaveAborted(s, m)
  \/ GmailReadFails(s, m) \/ SkipNoise(s, m) \/ DailyLimitReached(s, m) \/ CallProvider(s, m)
  \/ AnalysisFails(s, m) \/ SaveAnalysis(s, m) \/ LabelsRetired(s, m)
  \/ RetireFiled(s, m) \/ Arrive(s, m) \/ Break(s, m) \/ SaveBroken(s, m) \/ FailSweep(s, m)

AllDone(s) == sweeps[s].pc = "working" /\ \A m \in Messages : work[s][m].pc = "none"

\* Before the card is sent each arrival is read again; a filed one is retired.
Announce(s, m) ==
  /\ AllDone(s)
  /\ m \in sweeps[s].arrivals
  /\ sweeps' = [sweeps EXCEPT ![s].arrivals = @ \ {m}]
  /\ \/ m \in filed /\ rows[m].status = "needs-review" /\ Write(m, Upsert(rows[m], Skipped))
     \/ UNCHANGED rows
  /\ UNCHANGED <<filed, catalog, work, lease, history>>

Released(s) == IF lease = s THEN Nobody ELSE lease

\* completeWorkspaceSetupLease or failWorkspaceSetupLease
End(s) ==
  /\ \/ AllDone(s) /\ sweeps[s].arrivals = {}
     \/ sweeps[s].pc = "failing"
     \/ sweeps[s].pc = "collecting" /\ \A m \in Messages : work[s][m].pc = "none"
  /\ sweeps' = [sweeps EXCEPT ![s] = IF \A m \in Messages : work[s][m].pc = "none"
                                     THEN NoSweep ELSE [@ EXCEPT !.pc = "idle"]]
  /\ lease' = Released(s)
  /\ UNCHANGED <<rows, filed, catalog, work, history>>

\* The isolate is killed.
Crash(s) ==
  /\ Alive(s)
  /\ sweeps' = [sweeps EXCEPT ![s] = NoSweep]
  /\ work' = [work EXCEPT ![s] = [m \in Messages |-> NoItem]]
  /\ lapsed' = lapsed \cup {m \in Messages : work[s][m].pc # "none"}
  /\ UNCHANGED <<rows, filed, catalog, lease, calls, blind, overlap>>

\* Five minutes have passed, whether or not its sweep is still alive.
LeaseRunsOut ==
  /\ lease # Nobody
  /\ lease' = Nobody
  /\ UNCHANGED <<rows, filed, catalog, sweeps, work, history>>

-----------------------------------------------------------------------------
(* People *)

\* The closing batch of a filing (GmailFiling): archive and review row together.
File(m) ==
  /\ m \notin filed
  /\ filed' = filed \cup {m}
  /\ rows' = [rows EXCEPT ![m] = IF @.status \in {"needs-review", "failed"}
                                 THEN [Absent EXCEPT !.status = "accepted"] ELSE @]
  /\ UNCHANGED <<catalog, sweeps, work, lease, history>>

\* PATCH: dismissNeedsReview
Decide(m, outcome) ==
  /\ rows[m].status = "needs-review"
  /\ Write(m, [Absent EXCEPT !.status = outcome])
  /\ UNCHANGED <<filed, catalog, sweeps, work, lease, history>>

Exhausted(row) ==
  /\ row.status = "failed"
  /\ row.attempts >= MaxAttempts
  /\ row.attempted = catalog

Retried == {m \in Messages : Exhausted(rows[m]) /\ rows[m].error = Retryable}

\* PATCH: resetExhaustedAnalysisFailures, which leaves a marker for a version.
RetryFailed ==
  /\ Retried # {}
  /\ rows' = [m \in Messages |->
                IF m \in Retried THEN [rows[m] EXCEPT !.attempts = 1, !.attempted = 0] ELSE rows[m]]
  /\ calls' = [m \in Messages |-> IF m \in Retried THEN 0 ELSE calls[m]]
  /\ UNCHANGED <<filed, catalog, sweeps, work, lease, lapsed, blind, overlap>>

\* An administrator edits or retires a label.
EditLabels ==
  /\ catalog < MaxCatalog
  /\ catalog' = catalog + 1
  /\ calls' = [m \in Messages |-> 0]
  /\ UNCHANGED <<rows, filed, sweeps, work, lease, lapsed, blind, overlap>>

Sweep(s) ==
  \/ Begin(s) \/ Reconcile(s) \/ StartWorkers(s) \/ Stop(s) \/ End(s) \/ Crash(s)
  \/ \E m \in Messages : Collect(s, m) \/ Worker(s, m) \/ Announce(s, m)

Person ==
  \/ \E m \in Messages :
       File(m) \/ \E outcome \in {"accepted", "dismissed"} : Decide(m, outcome)
  \/ RetryFailed \/ EditLabels

Next == (\E s \in Sweeps : Sweep(s)) \/ LeaseRunsOut \/ Person

Spec == Init /\ [][Next]_vars

-----------------------------------------------------------------------------
(* Properties *)

\* A filed message is not left in the review queue: whichever of the filing and
\* the analysis commits second retires the row, unless storage failed on the way
\* (the comment at app/api/v1/inbox-analysis/route.ts:984).
FiledLeavesTheQueue ==
  \A m \in filed :
    rows[m].status = "needs-review" =>
      m \in lapsed \/ \E s \in Sweeps : work[s][m].pc = "saved"

\* The provider is paid at most MaxAttempts times for a message under one label
\* catalog and one press of Retry, as long as sweeps exclude each other, read its
\* row and lose no save.
SpendingIsBounded == \A m \in Messages : calls[m] <= MaxAttempts

\* The inductive invariant, message by message.  A row a sweep has read is there
\* for good; a filed message under review, or about to be put back there by a
\* failure that keeps the review, is watched; a sweep that has the mailbox to
\* itself knows the state of the rows it works on, or they are decided; and every
\* paid call is in the attempts of the row that the sweep at work, or the next
\* one, goes by.
KnownRowStays(m) ==
  \A s \in Sweeps : work[s][m].seen.status # "absent" => rows[m].status # "absent"

Kept(m) ==
  \/ rows[m].status = "needs-review"
  \/ /\ rows[m].status = "failed"
     /\ \E s \in Sweeps : work[s][m].seen.status = "needs-review"

FiledIsWatched(m) ==
  m \in filed /\ Kept(m) => m \in lapsed \/ \E s \in Sweeps : work[s][m].pc = "saved"

InHand == {"queued", "reading", "analysing", "broken"}

RowIsSeen(m) ==
  \A s \in Sweeps :
    Tracked(m) /\ work[s][m].pc \in InHand =>
      rows[m].status \in Terminal \cup {work[s][m].seen.status}

\* The attempts of row allow for the calls made and so many more.
Charged(m, row, more) ==
  calls[m] + more <= CountedBefore(row, catalog) + 1 /\ calls[m] + more <= MaxAttempts

CallsAreCharged(m) ==
  Tracked(m) =>
    /\ \A s \in Sweeps :
         /\ work[s][m].pc # "unread"
         /\ Alive(s) /\ sweeps[s].catalog # catalog => calls[m] = 0
         /\ work[s][m].pc \in {"queued", "reading"} => Charged(m, work[s][m].seen, 1)
         /\ work[s][m].pc \in {"analysing", "broken"} => Charged(m, work[s][m].seen, 0)
    /\ \/ \E s \in Sweeps : work[s][m].pc \in InHand
       \/ rows[m].status # "absent" /\ ~ NeedsWork(rows[m], catalog)
       \/ Charged(m, rows[m], 1)

Exclusive == ~ overlap => \A s, o \in Sweeps : Alive(s) /\ Alive(o) => s = o

MessageInv(m) ==
  /\ KnownRowStays(m) /\ FiledIsWatched(m) /\ RowIsSeen(m) /\ CallsAreCharged(m)
  /\ calls[m] <= MaxAttempts

Inv == TypeOK /\ Exclusive /\ \A m \in Messages : MessageInv(m)

\* Sweeps that exclude each other and could read the row never replace a paid
\* analysis under review by a bare failure (app/api/v1/inbox-analysis/route.ts:990).
DemotionStep ==
  \A m \in Messages :
    rows[m].status = "needs-review" /\ rows'[m].status = "failed" =>
      overlap \/ m \in lapsed' \cup blind

AnalysesAreKept == [][DemotionStep]_vars

\* Whatever stale snapshots sweeps carry, of every message each statement is a step
\* of its review row: a machine writes only an open row, a filing accepts one in
\* the step that files, and a decided message is never brought back.
Review(m) == INSTANCE Triage WITH status <- rows[m].status, filed <- m \in filed

ImplementsTriage ==
  /\ \A m \in Messages : Review(m)!Init
  /\ [][\A m \in Messages : [Review(m)!Next]_(Review(m)!row)]_vars
=============================================================================
