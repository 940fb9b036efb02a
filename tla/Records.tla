------------------------------- MODULE Records -------------------------------
(***************************************************************************)
(* Business records on PostgreSQL: clients, projects, meetings and leads   *)
(* created under an idempotency key (app/adapters/postgres/                *)
(* creation-idempotency.ts and the four repositories that call it), and    *)
(* the versioned edits of them and of contacts (the same repositories      *)
(* under app/application/update-*.ts and record-project-operation.ts).     *)
(*                                                                         *)
(* A process is one HTTP request.  Its transaction is READ COMMITTED: what *)
(* it has written is in its own record until Commit, and others wait for   *)
(* it where PostgreSQL makes them wait: on the key it has inserted, on the *)
(* client name it takes or gives up, on the row or the review it has       *)
(* locked.  A request may end at any step without an answer.  Records are  *)
(* never deleted, so that the share lock on a parent, which only keeps it  *)
(* from being deleted, is left out.                                        *)
(***************************************************************************)
EXTENDS Integers, FiniteSets

CONSTANTS
  Procs,        \* requests; a record created by one carries its name
  Keys,         \* actor, operation and idempotency key
  Values,       \* of the columns; those of "name" are compared for clients
  Blank,
  Reviews,      \* Google Form submissions that wait for a decision
  Seeds,        \* records there are at the start
  SeedRows,
  Intents,      \* creations that are asked for
  Edits,        \* edits that are asked for
  Nothing

Cols == {"name", "details", "manager", "installation", "followUp"}
Kinds == {"client", "contact", "project", "meeting", "lead", "task"}
Operations == {"UpdateClient", "UpdateContact", "UpdateProject", "UpdateLead",
               "UpdateTask", "AssignManager", "RecordInstallationDates", "RecordFollowUpResult"}
RecordIds == Procs \cup Seeds

Rows == [kind : Kinds, version : Nat \ {0}, cols : [Cols -> Values]]

Patches == UNION {[S -> Values] : S \in SUBSET Cols}

ASSUME SeedsAssumption == Seeds \cap Procs = {} /\ SeedRows \in [Seeds -> Rows]

ASSUME SeedNamesAssumption ==
  \A s1, s2 \in Seeds : SeedRows[s1].kind = "client" /\ SeedRows[s2].kind = "client"
                        /\ SeedRows[s1].cols["name"] = SeedRows[s2].cols["name"] => s1 = s2

\* The key carries the operation, so that it is used for one kind of record.
ASSUME IntentsAssumption ==
  /\ Intents \subseteq [key : Keys, kind : {"client", "project", "meeting", "lead"}, name : Values,
                        target : RecordIds \cup Reviews \cup {Nothing}]
  /\ \A i, j \in Intents : i.key = j.key => i.kind = j.kind
  /\ Blank \in Values

\* The columns an operation's UPDATE assigns.
Columns(op) ==
  CASE op = "AssignManager" -> {"manager"}
    [] op = "RecordInstallationDates" -> {"installation"}
    [] op = "RecordFollowUpResult" -> {"followUp"}
    [] OTHER -> {"name", "details"}

ASSUME EditsAssumption ==
  /\ Edits \subseteq [op : Operations, target : RecordIds, patch : Patches, versioned : BOOLEAN]
  /\ \A e \in Edits : DOMAIN e.patch \subseteq Columns(e.op)

Verdicts == [status : {"completed", "failed"}, record : Procs \cup {Nothing}]

Answers == [status : {"completed", "failed", "idempotency-conflict", "review-not-found",
                      "unchanged", "updated", "conflict", "duplicate", "error"},
            record : RecordIds \cup {Nothing}]

ASSUME NothingAssumption ==
  /\ Nothing \notin Procs \cup Seeds \cup Intents \cup Edits \cup Rows \cup Answers
  /\ Nothing \notin [intent : Intents, verdict : Answers]

VARIABLES
  rows,         \* committed records
  idem,         \* committed idempotency_requests
  reviews,      \* google_form_lead_reviews: waiting, dismissed or their lead
  events,       \* outbox_events X.created
  evidence,     \* activity_events about each record: changes that were logged
  tx            \* requests: progress, snapshot, uncommitted write, answer

vars == <<rows, idem, reviews, events, evidence, tx>>

Verdict(status, record) == [status |-> status, record |-> record]

Idle == [pc |-> "idle", intent |-> Nothing, edit |-> Nothing, seen |-> Nothing,
         base |-> Nothing, next |-> Nothing, answer |-> Nothing]

Init ==
  /\ rows = [id \in RecordIds |-> IF id \in Seeds THEN SeedRows[id] ELSE Nothing]
  /\ idem = [k \in Keys |-> Nothing]
  /\ reviews = [r \in Reviews |-> Verdict("needs-review", Nothing)]
  /\ events = {}
  /\ evidence = [id \in RecordIds |-> IF id \in Seeds THEN SeedRows[id].version ELSE 0]
  /\ tx = [t \in Procs |-> Idle]

-----------------------------------------------------------------------------
(* What an open transaction keeps others from. *)

Creating(t) == tx[t].intent # Nothing /\ tx[t].pc \in {"claimed", "refusing", "written"}
Editing(t) == tx[t].edit # Nothing /\ tx[t].pc \in {"locked", "written"}
Deciding(t) == /\ tx[t].intent # Nothing /\ tx[t].pc = "written"
               /\ tx[t].intent.kind = "lead" /\ tx[t].intent.target \in Reviews

KeyHeld(k, t) == \E u \in Procs \ {t} : Creating(u) /\ tx[u].intent.key = k

RowLocked(id, t) == \E u \in Procs \ {t} : Editing(u) /\ tx[u].edit.target = id

ReviewLocked(r, t) == \E u \in Procs \ {t} : Deciding(u) /\ tx[u].intent.target = r

\* A client row in flight with this name, as it will be or as it was.
NameContested(n, t) ==
  \E u \in Procs \ {t} :
    \/ tx[u].pc = "written" /\ tx[u].next.kind = "client" /\ tx[u].next.cols["name"] = n
    \/ Editing(u) /\ tx[u].next.kind = "client" /\ rows[tx[u].edit.target].cols["name"] = n

NameTaken(n) ==
  \E id \in RecordIds : rows[id] # Nothing /\ rows[id].kind = "client" /\ rows[id].cols["name"] = n

Is(id, kind) == id \in RecordIds /\ rows[id] # Nothing /\ rows[id].kind = kind

Step(t, fields) == tx' = [tx EXCEPT ![t] = fields]

End(t, answer) == Step(t, [tx[t] EXCEPT !.pc = "done", !.next = Nothing, !.answer = answer])

Untouched == UNCHANGED <<rows, idem, reviews, events, evidence>>

-----------------------------------------------------------------------------
(* Creation. *)

\* bindPostgresCreationRequest: the fingerprint is the intent itself.
Ask(t, i) ==
  /\ tx[t].pc = "idle"
  /\ Step(t, [tx[t] EXCEPT !.pc = "begun", !.intent = i])
  /\ Untouched

\* Mutant: the key is looked up, not inserted, so that two may find it free.
FaultyClaim(t) ==
  /\ tx[t].pc = "begun"
  /\ idem[tx[t].intent.key] = Nothing
  /\ Step(t, [tx[t] EXCEPT !.pc = "claimed"])
  /\ Untouched

\* INSERT ... ON CONFLICT DO NOTHING: waits for another's uncommitted key.
Claim(t) ==
  /\ tx[t].pc = "begun"
  /\ ~KeyHeld(tx[t].intent.key, t)
  /\ idem[tx[t].intent.key] = Nothing
  /\ Step(t, [tx[t] EXCEPT !.pc = "claimed"])
  /\ Untouched

\* Mutant: the stored fingerprint is not compared.
FaultyReplay(t) ==
  /\ tx[t].pc = "begun"
  /\ idem[tx[t].intent.key] # Nothing
  /\ End(t, idem[tx[t].intent.key].verdict)
  /\ Untouched

Replay(t) ==
  /\ tx[t].pc = "begun"
  /\ idem[tx[t].intent.key] # Nothing
  /\ End(t, IF idem[tx[t].intent.key].intent = tx[t].intent
              THEN idem[tx[t].intent.key].verdict
              ELSE Verdict("idempotency-conflict", Nothing))
  /\ Untouched

NewRow(i) == [kind |-> i.kind, version |-> 1,
              cols |-> [c \in Cols |-> IF c = "name" THEN i.name ELSE Blank]]

Insert(t) == Step(t, [tx[t] EXCEPT !.pc = "written", !.next = NewRow(tx[t].intent)])

\* failPostgresCreation: the refusal is stored under the key.
Refuse(t) == Step(t, [tx[t] EXCEPT !.pc = "refusing"])

Claimed(t, kind) == tx[t].pc = "claimed" /\ tx[t].intent.kind = kind

CreateClient(t) ==
  /\ Claimed(t, "client")
  /\ ~NameContested(tx[t].intent.name, t)
  /\ IF NameTaken(tx[t].intent.name) THEN Refuse(t) ELSE Insert(t)
  /\ Untouched

CreateProject(t) ==
  /\ Claimed(t, "project")
  /\ IF Is(tx[t].intent.target, "client") THEN Insert(t) ELSE Refuse(t)
  /\ Untouched

CreateMeeting(t) ==
  /\ Claimed(t, "meeting")
  /\ IF Is(tx[t].intent.target, "project") THEN Insert(t) ELSE Refuse(t)
  /\ Untouched

\* A review that is no longer waiting rolls the claim back with the rest.
CreateLead(t) ==
  /\ Claimed(t, "lead")
  /\ LET r == tx[t].intent.target IN
       IF r \notin Reviews THEN Insert(t)
       ELSE IF reviews[r].status # "needs-review" THEN End(t, Verdict("review-not-found", Nothing))
       ELSE ~ReviewLocked(r, t) /\ Insert(t)
  /\ Untouched

DismissReview(r) ==
  /\ reviews[r].status = "needs-review"
  /\ \A t \in Procs : Deciding(t) => tx[t].intent.target # r
  /\ reviews' = [reviews EXCEPT ![r] = Verdict("dismissed", Nothing)]
  /\ UNCHANGED <<rows, idem, events, evidence, tx>>

\* COMMIT may succeed without the request hearing of it.
Heard(t, answer) == \E a \in {answer, Verdict("error", Nothing)} : End(t, a)

\* completePostgresCreation, with the record, its activity and its event.
CommitCreation(t) ==
  /\ tx[t].pc = "written" /\ tx[t].edit = Nothing
  /\ LET i == tx[t].intent IN
       /\ rows' = [rows EXCEPT ![t] = tx[t].next]
       /\ evidence' = [evidence EXCEPT ![t] = @ + 1]
       /\ events' = events \cup {t}
       /\ idem' = [idem EXCEPT ![i.key] = [intent |-> i, verdict |-> Verdict("completed", t)]]
       /\ reviews' = IF i.kind = "lead" /\ i.target \in Reviews
                       THEN [reviews EXCEPT ![i.target] = Verdict("accepted", t)]
                       ELSE reviews
       /\ Heard(t, Verdict("completed", t))

CommitRefusal(t) ==
  /\ tx[t].pc = "refusing"
  /\ idem' = [idem EXCEPT ![tx[t].intent.key] =
                [intent |-> tx[t].intent, verdict |-> Verdict("failed", Nothing)]]
  /\ Heard(t, Verdict("failed", Nothing))
  /\ UNCHANGED <<rows, reviews, events, evidence>>

-----------------------------------------------------------------------------
(* Edits. *)

KindOf(op) ==
  CASE op = "UpdateClient" -> "client"
    [] op = "UpdateContact" -> "contact"
    [] op = "UpdateLead" -> "lead"
    [] op = "UpdateTask" -> "task"
    [] OTHER -> "project"

\* A person opens the record's form.
Load(t, e) ==
  /\ tx[t].pc = "idle"
  /\ Is(e.target, KindOf(e.op))
  /\ Step(t, [tx[t] EXCEPT !.pc = "loaded", !.edit = e, !.seen = rows[e.target]])
  /\ Untouched

Merged(row, patch) == [c \in Cols |-> IF c \in DOMAIN patch THEN patch[c] ELSE row.cols[c]]

\* findById before the update, in a transaction of its own.
FindFor(t, op) ==
  /\ tx[t].pc = "loaded"
  /\ tx[t].edit.op = op
  /\ LET row == rows[tx[t].edit.target] IN
       IF tx[t].edit.versioned /\ row.version # tx[t].seen.version
         THEN End(t, Verdict("conflict", Nothing))
         ELSE IF Merged(row, tx[t].edit.patch) = row.cols
         THEN End(t, Verdict("unchanged", Nothing))
         ELSE Step(t, [tx[t] EXCEPT !.pc = "read", !.base = row])
  /\ Untouched

FindClient(t) == FindFor(t, "UpdateClient")
FindContact(t) == FindFor(t, "UpdateContact")
FindProject(t) == FindFor(t, "UpdateProject")
FindLead(t) == FindFor(t, "UpdateLead")
FindTask(t) == FindFor(t, "UpdateTask")

\* projectOperationExpectedVersion: the version supplied, or the current one.
ExpectedVersion(t) ==
  /\ tx[t].pc = "loaded"
  /\ tx[t].edit.op \in {"AssignManager", "RecordInstallationDates", "RecordFollowUpResult"}
  /\ Step(t, [tx[t] EXCEPT !.pc = "read",
                           !.base = IF tx[t].edit.versioned THEN tx[t].seen ELSE rows[tx[t].edit.target]])
  /\ Untouched

\* Mutant: WHERE id alone.
FaultyUpdate(t, op) ==
  /\ tx[t].pc = "read"
  /\ tx[t].edit.op = op
  /\ ~RowLocked(tx[t].edit.target, t)
  /\ LET row == rows[tx[t].edit.target]
         next == [kind |-> row.kind, version |-> row.version + 1,
                  cols |-> [c \in Cols |-> IF c \in Columns(op)
                                             THEN Merged(tx[t].base, tx[t].edit.patch)[c]
                                             ELSE row.cols[c]]]
     IN Step(t, [tx[t] EXCEPT !.pc = IF row.kind = "client" /\ next.cols["name"] # row.cols["name"]
                                       THEN "locked" ELSE "written",
                              !.next = next])
  /\ Untouched

\* UPDATE ... SET columns, version + 1 WHERE id AND version: the row lock is
\* taken first, the new name is looked up in the index after it.
Update(t, op) ==
  /\ tx[t].pc = "read"
  /\ tx[t].edit.op = op
  /\ LET row == rows[tx[t].edit.target]
         next == [kind |-> row.kind, version |-> row.version + 1,
                  cols |-> [c \in Cols |-> IF c \in Columns(op)
                                             THEN Merged(tx[t].base, tx[t].edit.patch)[c]
                                             ELSE row.cols[c]]]
     IN IF row.version # tx[t].base.version
          THEN End(t, Verdict("conflict", Nothing))
          ELSE /\ ~RowLocked(tx[t].edit.target, t)
               /\ Step(t, [tx[t] EXCEPT !.pc = IF row.kind = "client" /\ next.cols["name"] # row.cols["name"]
                                                 THEN "locked" ELSE "written",
                                        !.next = next])
  /\ Untouched

UpdateClient(t) == Update(t, "UpdateClient")
UpdateContact(t) == Update(t, "UpdateContact")
UpdateProject(t) == Update(t, "UpdateProject")
UpdateLead(t) == Update(t, "UpdateLead")
UpdateTask(t) == Update(t, "UpdateTask")
AssignManager(t) == Update(t, "AssignManager")
RecordInstallationDates(t) == Update(t, "RecordInstallationDates")
RecordFollowUpResult(t) == Update(t, "RecordFollowUpResult")

\* The unique index on normalized_name_key: waits for rows in flight, then
\* fails the statement and with it the transaction.
TakeName(t) ==
  /\ tx[t].pc = "locked"
  /\ ~NameContested(tx[t].next.cols["name"], t)
  /\ IF NameTaken(tx[t].next.cols["name"])
       THEN End(t, Verdict("duplicate", Nothing))
       ELSE Step(t, [tx[t] EXCEPT !.pc = "written"])
  /\ Untouched

\* The row and its evidence.
CommitEdit(t) ==
  /\ tx[t].pc = "written" /\ tx[t].edit # Nothing
  /\ rows' = [rows EXCEPT ![tx[t].edit.target] = tx[t].next]
  /\ evidence' = [evidence EXCEPT ![tx[t].edit.target] = @ + 1]
  /\ Heard(t, Verdict("updated", tx[t].edit.target))
  /\ UNCHANGED <<idem, reviews, events>>

-----------------------------------------------------------------------------
\* withPostgresTransaction gives up: a lock or statement timeout, a deadlock, an
\* identifier that is taken, a lost connection, the death of the process.
Abort(t) ==
  /\ tx[t].pc \notin {"idle", "done"}
  /\ End(t, Verdict("error", Nothing))
  /\ Untouched

Creation(t) ==
  \/ \E i \in Intents : Ask(t, i)
  \/ Claim(t)
  \/ Replay(t)
  \/ CreateClient(t)
  \/ CreateProject(t)
  \/ CreateMeeting(t)
  \/ CreateLead(t)
  \/ CommitCreation(t)
  \/ CommitRefusal(t)

Edit(t) ==
  \/ \E e \in Edits : Load(t, e)
  \/ FindClient(t)
  \/ FindContact(t)
  \/ FindProject(t)
  \/ FindLead(t)
  \/ FindTask(t)
  \/ ExpectedVersion(t)
  \/ UpdateClient(t)
  \/ UpdateContact(t)
  \/ UpdateProject(t)
  \/ UpdateLead(t)
  \/ UpdateTask(t)
  \/ AssignManager(t)
  \/ RecordInstallationDates(t)
  \/ RecordFollowUpResult(t)
  \/ TakeName(t)
  \/ CommitEdit(t)

Next ==
  \/ \E t \in Procs : Creation(t) \/ Edit(t) \/ Abort(t)
  \/ \E r \in Reviews : DismissReview(r)

Spec == Init /\ [][Next]_vars

-----------------------------------------------------------------------------
(* Properties. *)

Requests == [pc : {"idle", "begun", "claimed", "refusing", "loaded", "read", "locked", "written", "done"},
             intent : Intents \cup {Nothing}, edit : Edits \cup {Nothing},
             seen : Rows \cup {Nothing}, base : Rows \cup {Nothing}, next : Rows \cup {Nothing},
             answer : Answers \cup {Nothing}]

TypeOK ==
  /\ rows \in [RecordIds -> Rows \cup {Nothing}]
  /\ idem \in [Keys -> [intent : Intents, verdict : Verdicts] \cup {Nothing}]
  /\ reviews \in [Reviews -> [status : {"needs-review", "dismissed", "accepted"},
                              record : Procs \cup {Nothing}]]
  /\ events \subseteq Procs
  /\ evidence \in [RecordIds -> Nat]
  /\ tx \in [Procs -> Requests]

\* A record exists exactly when a key says it was created under it, for that
\* intent: two requests with one key never leave two records, and a key never
\* remembers a record that was rolled back.
OneRecordPerKey ==
  /\ \A t \in Procs : rows[t] # Nothing =>
       /\ tx[t].intent # Nothing
       /\ idem[tx[t].intent.key] = [intent |-> tx[t].intent, verdict |-> Verdict("completed", t)]
  /\ \A k \in Keys : idem[k] # Nothing =>
       /\ idem[k].intent.key = k
       /\ \/ idem[k].verdict = Verdict("failed", Nothing)
          \/ \E t \in Procs : /\ idem[k].verdict = Verdict("completed", t)
                              /\ rows[t] # Nothing
                              /\ rows[t].kind = idem[k].intent.kind
                              /\ tx[t].intent = idem[k].intent

\* Each created record owes exactly one event, and nothing else does; every
\* version of a record has left its line of evidence.
EvidenceIsComplete ==
  /\ events = {t \in Procs : rows[t] # Nothing}
  /\ \A id \in RecordIds : evidence[id] = IF rows[id] = Nothing THEN 0 ELSE rows[id].version

\* No two clients share a name, through creations and renames that cross.
NamesAreUnique ==
  \A c, d \in RecordIds :
    /\ rows[c] # Nothing /\ rows[c].kind = "client"
    /\ rows[d] # Nothing /\ rows[d].kind = "client"
    /\ rows[c].cols["name"] = rows[d].cols["name"]
    => c = d

\* A review is accepted by the one lead that was created for it, and a
\* dismissed one has none.
ReviewsDecidedOnce ==
  \A r \in Reviews, t \in Procs :
    rows[t] # Nothing /\ tx[t].intent.kind = "lead" /\ tx[t].intent.target = r
    <=> reviews[r] = Verdict("accepted", t)

\* What a request is told of its key is what the key says for good, whichever
\* attempt did the work.
AnswersAreTrue ==
  \A t \in Procs :
    tx[t].intent # Nothing /\ tx[t].answer # Nothing /\ tx[t].answer.status \in {"completed", "failed"}
    => idem[tx[t].intent.key] = [intent |-> tx[t].intent, verdict |-> tx[t].answer]

\* What a request carries at each step.
ProgressIsSound ==
  \A t \in Procs :
    /\ tx[t].pc = "idle" => tx[t] = Idle
    /\ tx[t].pc \in {"begun", "claimed", "refusing"} => tx[t].intent # Nothing
    /\ tx[t].pc \in {"loaded", "read", "locked"} => tx[t].edit # Nothing
    /\ tx[t].pc = "written" => tx[t].intent # Nothing \/ tx[t].edit # Nothing
    /\ tx[t].intent = Nothing \/ tx[t].edit = Nothing
    /\ tx[t].answer # Nothing <=> tx[t].pc = "done"

\* Open transactions keep out of each other's way.
LocksHold ==
  /\ \A t \in Procs :
       /\ Creating(t) => idem[tx[t].intent.key] = Nothing
       /\ Creating(t) /\ tx[t].pc = "written" => tx[t].next = NewRow(tx[t].intent)
       /\ Deciding(t) => reviews[tx[t].intent.target].status = "needs-review"
  /\ \A t, u \in Procs :
       /\ Creating(t) /\ Creating(u) /\ tx[t].intent.key = tx[u].intent.key => t = u
       /\ Editing(t) /\ Editing(u) /\ tx[t].edit.target = tx[u].edit.target => t = u
       /\ Deciding(t) /\ Deciding(u) /\ tx[t].intent.target = tx[u].intent.target => t = u

\* What an edit has read is what the record was at that version.
SnapshotsAreExact ==
  \A t \in Procs : tx[t].edit # Nothing =>
    LET row == rows[tx[t].edit.target] IN
      /\ row # Nothing /\ tx[t].seen # Nothing
      /\ row.version >= tx[t].seen.version
      /\ row.version = tx[t].seen.version => row = tx[t].seen
      /\ tx[t].pc \in {"read", "locked", "written"} =>
           /\ tx[t].base # Nothing
           /\ row.version >= tx[t].base.version
           /\ row.version = tx[t].base.version => row = tx[t].base
           /\ tx[t].edit.versioned => tx[t].base = tx[t].seen
      /\ Editing(t) =>
           /\ row = tx[t].base
           /\ tx[t].next = [kind |-> row.kind, version |-> row.version + 1,
                           cols |-> Merged(row, tx[t].edit.patch)]

\* A client name about to be committed is nobody else's.
NamesReserved ==
  \A t \in Procs : tx[t].pc = "written" /\ tx[t].next.kind = "client" =>
    /\ \A id \in RecordIds :
         rows[id] # Nothing /\ rows[id].kind = "client" /\ rows[id].cols["name"] = tx[t].next.cols["name"]
         => tx[t].edit # Nothing /\ tx[t].edit.target = id
    /\ \A u \in Procs \ {t} : tx[u].pc = "written" /\ tx[u].next.kind = "client"
                             => tx[u].next.cols["name"] # tx[t].next.cols["name"]

Inv ==
  /\ TypeOK
  /\ OneRecordPerKey
  /\ EvidenceIsComplete
  /\ NamesAreUnique
  /\ ReviewsDecidedOnce
  /\ AnswersAreTrue
  /\ ProgressIsSound
  /\ LocksHold
  /\ SnapshotsAreExact
  /\ NamesReserved

\* A record changes only by an edit of it that commits, to the next version,
\* in the columns the edit patches and no other, and, when the person's form
\* carried a version, from the very record the person was shown.
EditsKeepTheRest ==
  [][\A id \in RecordIds : rows[id] # Nothing /\ rows'[id] # rows[id] =>
       \E t \in Procs :
         /\ tx[t].pc = "written" /\ tx'[t].pc = "done"
         /\ tx[t].edit # Nothing /\ tx[t].edit.target = id
         /\ rows'[id].version = rows[id].version + 1
         /\ rows'[id].cols = Merged(rows[id], tx[t].edit.patch)
         /\ tx[t].edit.versioned => rows[id] = tx[t].seen]_vars

Keyed == INSTANCE OncePerKey WITH
  Attempts <- Procs,
  asked <- [t \in Procs |-> tx[t].intent],
  settled <- idem,
  made <- {t \in Procs : rows[t] # Nothing},
  owed <- events,
  told <- [t \in Procs |-> IF tx[t].intent = Nothing THEN Nothing ELSE tx[t].answer]

\* The transactions implement creation that decides each key once.
ImplementsOncePerKey == Keyed!Spec
=============================================================================
