------------------------------ MODULE FormLeads ------------------------------
(***************************************************************************)
(* The intake of Google Form responses as leads to review                  *)
(* (app/api/v1/integrations/google/forms/leads/route.ts,                   *)
(* adapters/d1/google-form-lead-intake-repository.ts,                      *)
(* domain/google-form-lead-intake.ts).                                     *)
(*                                                                         *)
(* A scan reads its cursor, takes the time, reads a window of the Sheet    *)
(* after the cursor and, if there is room, a second window from the top,   *)
(* compares them with the reviews, and saves everything in one batch under *)
(* a setup lease.  The Sheet is edited, the queue is decided and the       *)
(* tenant is reset in between.  Position 1 is row 2 of the Sheet.          *)
(***************************************************************************)
EXTENDS Integers, Sequences, FiniteSets

CONSTANTS
  Responses,     \* what people submit; equal content and timestamp are one
  Real,          \* the well-formed ones without the test marker, blocked until launch
  Scans,         \* POST requests
  Window,        \* GOOGLE_FORM_LEAD_MAX_ROWS
  MaxRows,       \* bound on the length of the Sheet
  MaxTime,       \* bound on the clock
  MaxTenant,     \* bound on the tenants of the connection
  MaxEdits,      \* bound on the edits of the first tenant's Sheet other than
                 \* submissions; the Sheet of each next tenant has one fewer
  Nobody

ASSUME WindowAssumption == Window \in Nat \ {0}
ASSUME RowsAssumption == MaxRows \in Nat
ASSUME TimeAssumption == MaxTime \in Nat
ASSUME TenantAssumption == MaxTenant \in Nat
ASSUME EditsAssumption == MaxEdits \in Nat
ASSUME RealAssumption == Real \subseteq Responses
ASSUME NobodyAssumption == Nobody \notin Scans

VARIABLES
  sheet,      \* the responses in the rows of the Sheet
  edits,      \* history: how often a row of it was deleted or inserted
  reviews,    \* google_form_lead_reviews of this Sheet
  cursor,     \* google_form_lead_intake_watermarks; position 0 when absent
  tenant,     \* which tenant and credential the connection is of
  lease,      \* the setup lease of the intake
  now,        \* the clock
  overrun,    \* history: a lease was taken over from a scan that goes on
  strays,     \* responses of a former tenant written after its reset
  pc,         \* where each scan is
  born,       \* the tenant whose configuration the scan read
  mark,       \* the cursor it read
  at,         \* its processedAt
  forward,    \* the rows it read after the cursor
  wrapped,    \* the rows it read from the top
  new,        \* responses it found unseen
  moved,      \* responses under review it found at another position
  length      \* history: the length of the Sheet when it read the forward window

shared == <<sheet, edits, reviews, cursor, tenant, lease, now, overrun, strays>>
window == <<forward, wrapped, length>>
scan == <<pc, born, mark, at, window, new, moved>>
vars == <<shared, scan>>

Times == 0 .. MaxTime
Tenants == 0 .. MaxTenant
Rows == {rows \in Seq(Responses) : Len(rows) <= MaxRows}

Reviews == [status : {"absent", "needs-review", "decided"},
            position : 0 .. MaxRows, updated : Times]
NoReview == [status |-> "absent", position |-> 0, updated |-> 0]

Cursors == [position : 0 .. MaxRows, updated : Times]
NoCursor == [position |-> 0, updated |-> 0]

Leases == [by : Scans \cup {Nobody}, expired : BOOLEAN]
NoLease == [by |-> Nobody, expired |-> FALSE]

Init ==
  /\ sheet = <<>> /\ edits = 0
  /\ reviews = [r \in Responses |-> NoReview] /\ cursor = NoCursor
  /\ tenant = 0 /\ lease = NoLease /\ now = 0
  /\ overrun = FALSE /\ strays = {}
  /\ pc = [s \in Scans |-> "idle"]
  /\ born = [s \in Scans |-> 0] /\ mark = [s \in Scans |-> 0] /\ at = [s \in Scans |-> 0]
  /\ forward = [s \in Scans |-> <<>>] /\ wrapped = [s \in Scans |-> <<>>]
  /\ length = [s \in Scans |-> 0]
  /\ new = [s \in Scans |-> {}] /\ moved = [s \in Scans |-> {}]

-----------------------------------------------------------------------------
(* What a scan makes of the rows it has read *)

Content(rows) == {rows[i] : i \in 1 .. Len(rows)}

\* gridValues: the rows from first on, at most limit of them.
Read(first, limit) ==
  SubSeq(sheet, first, IF first + limit - 1 < Len(sheet) THEN first + limit - 1 ELSE Len(sheet))

\* Fault: one row is left out.
FaultyFirst(s) == mark[s] + 2

First(s) == mark[s] + 1

IndexIn(rows, r) == CHOOSE i \in 1 .. Len(rows) : rows[i] = r

\* uniqueRows: of a response met twice the later reading counts.
Position(s, r) ==
  IF r \in Content(wrapped[s]) THEN IndexIn(wrapped[s], r)
  ELSE First(s) + IndexIn(forward[s], r) - 1

\* forwardRows.at(-1), rows after the cursor that the second reading met
\* included, or else the cursor itself.
Checkpoint(s) ==
  IF Len(wrapped[s]) >= First(s) THEN Len(wrapped[s])
  ELSE IF forward[s] # <<>> THEN First(s) + Len(forward[s]) - 1
  ELSE mark[s]

\* findProcessedSubmissions, by the Sheet of the scan's own tenant.
Status(s, r) == IF born[s] = tenant THEN reviews[r].status ELSE "absent"

Met(s) == Content(forward[s]) \cup Content(wrapped[s])
Unseen(s) == {r \in Met(s) : Status(s, r) = "absent"}
Elsewhere(s) ==
  {r \in Met(s) : Status(s, r) = "needs-review" /\ reviews[r].position # Position(s, r)}

\* What a scan has read and collected fits together.
Fits(s) ==
  /\ mark[s] + Len(forward[s]) <= MaxRows
  /\ new[s] \subseteq Met(s) /\ moved[s] \subseteq Met(s)
  /\ pc[s] \notin {"matched", "leased"} => new[s] = {} /\ moved[s] = {}
  /\ pc[s] \in {"idle", "begun", "stamped"} => forward[s] = <<>> /\ wrapped[s] = <<>>

TypeOK ==
  /\ sheet \in Rows /\ edits \in 0 .. MaxEdits
  /\ reviews \in [Responses -> Reviews] /\ cursor \in Cursors
  /\ tenant \in Tenants /\ lease \in Leases /\ now \in Times
  /\ overrun \in BOOLEAN /\ strays \subseteq Responses
  /\ pc \in [Scans -> {"idle", "begun", "stamped", "read", "loaded", "matched", "leased", "over"}]
  /\ born \in [Scans -> Tenants] /\ mark \in [Scans -> 0 .. MaxRows] /\ at \in [Scans -> Times]
  /\ forward \in [Scans -> Rows] /\ wrapped \in [Scans -> Rows]
  /\ length \in [Scans -> 0 .. MaxRows]
  /\ new \in [Scans -> SUBSET Responses] /\ moved \in [Scans -> SUBSET Responses]
  /\ \A s \in Scans : Fits(s)

-----------------------------------------------------------------------------
(* A scan *)

Enter(s, from, to) == pc[s] = from /\ pc' = [pc EXCEPT ![s] = to]

Begin(s) ==
  /\ Enter(s, "idle", "begun")
  /\ born' = [born EXCEPT ![s] = tenant]
  /\ mark' = [mark EXCEPT ![s] = cursor.position]
  /\ UNCHANGED <<shared, at, window, new, moved>>

\* Date.now(); the clock may have moved on.
Stamp(s) ==
  /\ Enter(s, "begun", "stamped")
  /\ now' \in {now, now + 1} /\ now' <= MaxTime
  /\ at' = [at EXCEPT ![s] = now']
  /\ UNCHANGED <<sheet, edits, reviews, cursor, tenant, lease, overrun, strays>>
  /\ UNCHANGED <<born, mark, window, new, moved>>

ReadForward(s) ==
  /\ born[s] = tenant
  /\ Enter(s, "stamped", "read")
  /\ forward' = [forward EXCEPT ![s] = Read(First(s), Window)]
  /\ length' = [length EXCEPT ![s] = Len(sheet)]
  /\ UNCHANGED <<shared, born, mark, at, wrapped, new, moved>>

Wrapped(s) == IF mark[s] > 0 THEN Read(1, Window - Len(forward[s])) ELSE <<>>

ReadWrapped(s) ==
  /\ born[s] = tenant
  /\ Enter(s, "read", "loaded")
  /\ wrapped' = [wrapped EXCEPT ![s] = Wrapped(s)]
  /\ UNCHANGED <<shared, born, mark, at, forward, length, new, moved>>

\* The request is answered; what it knew is gone.
Forget(s) ==
  /\ pc' = [pc EXCEPT ![s] = "over"]
  /\ born' = [born EXCEPT ![s] = 0] /\ mark' = [mark EXCEPT ![s] = 0]
  /\ at' = [at EXCEPT ![s] = 0]
  /\ forward' = [forward EXCEPT ![s] = <<>>] /\ wrapped' = [wrapped EXCEPT ![s] = <<>>]
  /\ length' = [length EXCEPT ![s] = 0]
  /\ new' = [new EXCEPT ![s] = {}] /\ moved' = [moved EXCEPT ![s] = {}]

\* The answer "No new form responses were found." without a save.
Quiet(s) == Unseen(s) = {} /\ Elsewhere(s) = {} /\ Checkpoint(s) = mark[s]

NoNews(s) ==
  /\ pc[s] = "loaded"
  /\ Quiet(s)
  /\ Forget(s)
  /\ UNCHANGED shared

\* Fault: real responses are left out of the batch instead of closing the gate.
FaultyDrafts(s) == Unseen(s) \ Real

\* mapGoogleFormLeadRows makes a draft of every unseen row.
Drafts(s) == Unseen(s)

\* A real response among the drafts closes the gate for the whole batch.
Blocked(s) == Drafts(s) \cap Real # {}

Refuse(s) ==
  /\ pc[s] = "loaded"
  /\ Blocked(s)
  /\ Forget(s)
  /\ UNCHANGED shared

Match(s) ==
  /\ ~ Quiet(s) /\ ~ Blocked(s)
  /\ Enter(s, "loaded", "matched")
  /\ new' = [new EXCEPT ![s] = Drafts(s)]
  /\ moved' = [moved EXCEPT ![s] = Elsewhere(s)]
  /\ length' = [length EXCEPT ![s] = 0]
  /\ UNCHANGED <<shared, born, mark, at, forward, wrapped>>

\* Fault: the lease does not ask for the credential the scan was configured with.
FaultyLeasable(s) == lease.by = Nobody \/ lease.expired

\* acquireWorkspaceSetupLease with the fence of the connection.
Leasable(s) ==
  /\ lease.by = Nobody \/ lease.expired
  /\ born[s] = tenant

Acquire(s) ==
  /\ Leasable(s)
  /\ Enter(s, "matched", "leased")
  /\ lease' = [by |-> s, expired |-> FALSE]
  /\ overrun' = (overrun \/ \E o \in Scans : pc[o] = "leased")
  /\ UNCHANGED <<sheet, edits, reviews, cursor, tenant, now, strays>>
  /\ UNCHANGED <<born, mark, at, window, new, moved>>

\* Fault: the insert writes over a review that is there.
FaultyInsertable(review) == review.status # "needs-review"

\* ON CONFLICT(connection_key, spreadsheet_id, submission_key) DO NOTHING
Insertable(review) == review.status = "absent"

\* One response in the batch of saveBatch: the insert, then the new position.
Saved(s, r) ==
  LET review == reviews[r] IN
  IF r \in new[s] /\ Insertable(review)
  THEN [status |-> "needs-review", position |-> Position(s, r), updated |-> at[s]]
  ELSE IF /\ r \in new[s] \cup moved[s]
          /\ review.status = "needs-review"
          /\ review.position # Position(s, r)
          /\ review.updated < at[s]
       THEN [status |-> "needs-review", position |-> Position(s, r), updated |-> at[s]]
       ELSE review

\* Fault: whoever saves last writes the cursor.
FaultySavedCursor(s) == [position |-> Checkpoint(s), updated |-> at[s]]

SavedCursor(s) ==
  IF cursor.position = 0 \/ at[s] > cursor.updated
  THEN [position |-> Checkpoint(s), updated |-> at[s]] ELSE cursor

Release(s) == lease' = IF lease.by = s THEN NoLease ELSE lease

\* The batch commits and the lease is given back, by completeWorkspaceSetupLease
\* or, when the answer was lost, by failWorkspaceSetupLease; an isolate that dies
\* leaves it.  Rows of another tenant's Sheet are kept apart by their key.
Save(s) ==
  /\ pc[s] = "leased"
  /\ IF born[s] = tenant
     THEN /\ reviews' = [r \in Responses |-> Saved(s, r)]
          /\ cursor' = SavedCursor(s)
          /\ strays' = strays
     ELSE strays' = strays \cup new[s] /\ UNCHANGED <<reviews, cursor>>
  /\ Release(s) \/ UNCHANGED lease
  /\ Forget(s)
  /\ UNCHANGED <<sheet, edits, tenant, now, overrun>>

\* The batch throws.
Fail(s) ==
  /\ pc[s] = "leased"
  /\ Release(s)
  /\ Forget(s)
  /\ UNCHANGED <<sheet, edits, reviews, cursor, tenant, now, overrun, strays>>

\* A provider or database error before the lease, a lease that is not granted,
\* or the death of the isolate at any point.
Stop(s) ==
  /\ pc[s] \notin {"idle", "over"}
  /\ Forget(s)
  /\ UNCHANGED shared

-----------------------------------------------------------------------------
(* The Sheet, the queue, the lease and the tenant *)

Submit(r) ==
  /\ r \notin Content(sheet)
  /\ Len(sheet) < MaxRows
  /\ sheet' = Append(sheet, r)
  /\ UNCHANGED <<edits, reviews, cursor, tenant, lease, now, overrun, strays, scan>>

Delete(p) ==
  /\ sheet' = SubSeq(sheet, 1, p - 1) \o SubSeq(sheet, p + 1, Len(sheet))
  /\ edits + tenant < MaxEdits /\ edits' = edits + 1
  /\ UNCHANGED <<reviews, cursor, tenant, lease, now, overrun, strays, scan>>

Insert(r, p) ==
  /\ r \notin Content(sheet)
  /\ Len(sheet) < MaxRows
  /\ sheet' = SubSeq(sheet, 1, p - 1) \o <<r>> \o SubSeq(sheet, p, Len(sheet))
  /\ edits + tenant < MaxEdits /\ edits' = edits + 1
  /\ UNCHANGED <<reviews, cursor, tenant, lease, now, overrun, strays, scan>>

\* dismissReview, or the batch that creates the lead (adapters/d1/lead-repository.ts);
\* where the response was seen matters only under review.
Decide(r) ==
  /\ reviews[r].status = "needs-review"
  /\ reviews' = [reviews EXCEPT ![r] = [NoReview EXCEPT !.status = "decided"]]
  /\ UNCHANGED <<sheet, edits, cursor, tenant, lease, now, overrun, strays, scan>>

LeaseRunsOut ==
  /\ lease.by # Nobody /\ ~ lease.expired
  /\ lease' = [by |-> lease.by, expired |-> TRUE]
  /\ UNCHANGED <<sheet, edits, reviews, cursor, tenant, now, overrun, strays, scan>>

\* The tenant reset waits for every operation in progress; the next tenant
\* brings a Sheet of its own.
ResetTenant ==
  /\ tenant < MaxTenant
  /\ lease.by = Nobody
  /\ tenant' = tenant + 1
  /\ sheet' = <<>> /\ edits' = 0
  /\ reviews' = [r \in Responses |-> NoReview] /\ cursor' = NoCursor
  /\ strays' = {}
  /\ UNCHANGED <<lease, now, overrun, scan>>

Scan(s) ==
  \/ Begin(s) \/ Stamp(s) \/ ReadForward(s) \/ ReadWrapped(s) \/ NoNews(s) \/ Refuse(s)
  \/ Match(s) \/ Acquire(s) \/ Save(s) \/ Fail(s) \/ Stop(s)

Edit ==
  \/ \E r \in Responses : Submit(r) \/ \E p \in 1 .. Len(sheet) : Insert(r, p)
  \/ \E p \in 1 .. Len(sheet) : Delete(p)

Next ==
  \/ \E s \in Scans : Scan(s)
  \/ Edit
  \/ \E r \in Responses : Decide(r)
  \/ LeaseRunsOut \/ ResetTenant

Spec == Init /\ [][Next]_vars

-----------------------------------------------------------------------------
(* Properties *)

Known(r) == reviews[r].status # "absent"

\* As long as the Sheet only grows, every response up to the cursor has been put
\* up for review: however scans overlap, whichever saves last, and although a
\* blocked response stops a batch.
NothingSkipped == edits = 0 => \A p \in 1 .. cursor.position : Known(sheet[p])

\* A scan that says there is nothing new has left nothing out: everything in the
\* Sheet when it began to read is in the queue or decided.
SilentStep ==
  \A s \in Scans :
    NoNews(s) /\ born[s] = tenant /\ edits = 0
      => \A p \in 1 .. length[s] : Known(sheet[p])

SilenceIsTrue == [][SilentStep]_vars

\* A save never moves the cursor back, neither when its scan started from the
\* cursor that is there (the comment at app/api/v1/integrations/google/forms/leads/
\* route.ts:275) nor when its observation is the older one and is saved last (the
\* comment at :226): the wrap, and the stale snapshot, do not win.
CursorStep ==
  \A s \in Scans :
    Save(s) /\ born[s] = tenant /\ (mark[s] = cursor.position \/ at[s] <= cursor.updated)
      => cursor'.position >= cursor.position

CursorAdvances == [][CursorStep]_vars

\* Overlapping scans come to the same as scans one at a time, each of which puts
\* up what nobody has seen, no real response among it, leaves nothing behind the
\* cursor, and leaves what was accepted or dismissed alone.
Intake ==
  INSTANCE Intake WITH intact <- edits = 0, mark <- cursor.position,
                       queue <- [r \in Responses |-> reviews[r].status]

ImplementsIntake == Intake!Spec

\* No response of a former tenant turns up after the reset, unless a scan went on
\* for five minutes under its lease and another took it over.
NoFormerTenant == strays # {} => overrun

\* The inductive invariant.  While the Sheet only grows, the cursor and every
\* cursor a scan goes by cover responses that are known; what a scan has read is
\* still there; what it will move the cursor over is known or in its batch; and
\* an undisputed lease is held by a scan of the present tenant.
Covered(n) == n <= Len(sheet) /\ \A p \in 1 .. n : Known(sheet[p])

Shown(rows, first) ==
  \A i \in 1 .. Len(rows) : first + i - 1 <= Len(sheet) /\ sheet[first + i - 1] = rows[i]

Sound(s) ==
  /\ pc[s] \notin {"idle", "over"} => Covered(mark[s])
  /\ pc[s] \in {"read", "loaded", "matched", "leased"} => Shown(forward[s], First(s))
  /\ pc[s] \in {"read", "loaded"} /\ forward[s] = <<>> => length[s] <= mark[s]
  /\ pc[s] \in {"loaded", "matched", "leased"} => Shown(wrapped[s], 1)
  /\ pc[s] \in {"matched", "leased"} =>
       \A r \in Met(s) : Known(r) \/ r \in new[s]

Held(s) == pc[s] = "leased" /\ ~ overrun => lease.by = s /\ born[s] = tenant

\* The launch gate lets no real response into a batch.
GateHolds == \A s \in Scans : new[s] \cap Real = {}

Inv ==
  /\ TypeOK
  /\ GateHolds
  /\ edits = 0 => Covered(cursor.position)
  /\ \A s \in Scans : edits = 0 /\ born[s] = tenant => Sound(s)
  /\ \A s \in Scans : Held(s) /\ born[s] <= tenant
  /\ NoFormerTenant

\* The test at tests/gi01-google-form-lead-intake.test.mjs:788 has it that
\* scanning does not skip a response after a deletion.  It does: rows between the
\* window at the top and the cursor are not read again.
EditedSilentStep ==
  \A s \in Scans :
    /\ NoNews(s) /\ born[s] = tenant
    /\ forward[s] = Read(First(s), Window) /\ wrapped[s] = Wrapped(s)
    => \A p \in 1 .. Len(sheet) : Known(sheet[p])

DeletionSkipsNothing == [][EditedSilentStep]_vars
=============================================================================
