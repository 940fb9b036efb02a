---------------------------- MODULE GmailFiling -----------------------------
(***************************************************************************)
(* Filing one Gmail message into a project (app/api/v1/integrations/google/*)
(* gmail/messages/[messageId]/file/route.ts): POST requests race for the   *)
(* operation lease of the message, record the approval, copy the message   *)
(* and its attachments to Drive, label it and close the archive.           *)
(*                                                                         *)
(* One action is one D1 statement or batch (a transaction) or one provider *)
(* call.  A request may be killed between any two of them, a D1 answer may *)
(* be lost after the batch committed, the five-minute lease may run out    *)
(* under a live request, and an upload may land after its caller gave up.  *)
(***************************************************************************)
EXTENDS Naturals

CONSTANTS
  Requests,    \* POST requests for this message
  Projects,    \* projects an administrator may choose
  FileCount,   \* the .eml (file 1) and the attachments
  NoRequest,   \* no archive identity, no lease holder
  NoProject    \* no project recorded

ASSUME FileCountAssumption == FileCount \in Nat \ {0}
ASSUME NoRequestAssumption == NoRequest \notin Requests
ASSUME NoProjectAssumption == NoProject \notin Projects

VARIABLES
  archive,     \* the gmail_file_archives row of the message
  artifacts,   \* files recorded in gmail_file_archive_artifacts
  operation,   \* the google_drive_operations row: the lease
  mail,        \* the mail_items row of the message
  journal,     \* integration and activity events, counted by kind
  drive,       \* Drive files by source identity: archive id and file
  uploads,     \* create requests travelling to Drive
  labelled,    \* the message carries the "filed" Gmail label
  req,         \* where each request is in POST, with its locals
  overrun      \* history: a lease or an upload outlived its caller's patience

database == <<archive, artifacts, operation, mail, journal>>
provider == <<drive, uploads, labelled>>
vars == <<archive, artifacts, operation, mail, journal, drive, uploads, labelled, req, overrun>>

Files == 1 .. FileCount
Ids   == Requests \cup {NoRequest}   \* an archive id names the request that drew it

Approved == {"filing", "drive-complete", "failed"}
Archives == [status : Approved \cup {"none", "filed"},
             project : Projects \cup {NoProject}, id : Ids]
Operations == [status : {"free", "in-progress", "completed", "failed"},
               holder : Ids, timer : {"none", "running", "elapsed"}]
Uploads == [by : Requests, archive : Ids, file : Files]

Working == {"begun", "leased", "confirming", "approving", "filing", "uploading",
            "copied", "labelled", "failing"}
Locals  == [pc : Working \cup {"idle", "done"}, project : Projects \cup {NoProject},
            archive : Ids, file : 1 .. FileCount + 1, approved : BOOLEAN]

TypeOK ==
  /\ archive \in Archives
  /\ artifacts \subseteq Files
  /\ operation \in Operations
  /\ mail \in [status : {"absent", "needs-review", "failed", "skipped-noise",
                        "accepted", "dismissed"},
               project : Projects \cup {NoProject}]
  /\ journal \in [{"approved", "filed", "failed"} -> Nat]
  /\ drive \in [Ids -> [Files -> Nat]]
  /\ uploads \subseteq Uploads
  /\ labelled \in BOOLEAN
  /\ req \in [Requests -> Locals]
  /\ overrun \in BOOLEAN

Init ==
  /\ archive = [status |-> "none", project |-> NoProject, id |-> NoRequest]
  /\ artifacts = {}
  /\ operation = [status |-> "free", holder |-> NoRequest, timer |-> "none"]
  /\ mail = [status |-> "absent", project |-> NoProject]
  /\ journal = [kind \in {"approved", "filed", "failed"} |-> 0]
  /\ drive = [i \in Ids |-> [f \in Files |-> 0]]
  /\ uploads = {}
  /\ labelled = FALSE
  /\ req = [r \in Requests |-> [pc |-> "idle", project |-> NoProject,
                                archive |-> NoRequest, file |-> 1, approved |-> FALSE]]
  /\ overrun = FALSE

-----------------------------------------------------------------------------
(* The lease *)

\* WHERE operation_key = ? AND status = 'in-progress' AND lease_expires_at = ?
\* The expiry instant is the lease's identity; whether it has passed is not asked.
Holds(r) == operation.status = "in-progress" /\ operation.holder = r

\* Fault: a held lease is taken over whether it has expired or not.
FaultyAvailable == TRUE

\* ON CONFLICT ... WHERE status != 'in-progress' OR lease_expires_at < now
Available == operation.status # "in-progress" \/ operation.timer = "elapsed"

EndLease(status) ==
  operation' = [operation EXCEPT !.status = status, !.timer = "none"]

-----------------------------------------------------------------------------
(* A request's own steps *)

At(r, point)   == req[r].pc = point
Go(r, point)   == req' = [req EXCEPT ![r].pc = point]
Count(kind)    == journal' = [journal EXCEPT ![kind] = @ + 1]

\* The upload request r is waiting for.
Upload(r) == [by |-> r, archive |-> req[r].archive, file |-> req[r].file]

\* Fault: any project may take over an archive that was never filed.
FaultyMisfiled(p) == archive.project \notin {NoProject, p} /\ archive.status = "filed"

\* assertArchiveProject: the message is archived for another project.
Misfiled(p) == archive.project \notin {NoProject, p}

\* The optimistic reads of POST; a refused or already filed message ends here.
Begin(r, p) ==
  /\ At(r, "idle")
  /\ req' = [req EXCEPT ![r].project = p,
                        ![r].pc = IF Misfiled(p) \/ archive.status = "filed"
                                  THEN "done" ELSE "begun"]
  /\ UNCHANGED <<database, provider, overrun>>

\* INSERT INTO google_drive_operations ... ON CONFLICT DO UPDATE
Acquire(r) ==
  /\ At(r, "begun")
  /\ IF Available
     THEN /\ operation' = [status |-> "in-progress", holder |-> r, timer |-> "running"]
          /\ Go(r, "leased")
     ELSE Go(r, "done") /\ UNCHANGED operation
  /\ UNCHANGED <<archive, artifacts, mail, journal, provider, overrun>>

\* Fault: the decision of the optimistic read is kept.
FaultyDecide(r) ==
  /\ At(r, "leased")
  /\ req' = [req EXCEPT ![r].pc = "approving",
                        ![r].archive = IF archive.status = "none" THEN r ELSE archive.id]
  /\ UNCHANGED <<database, provider, overrun>>

\* The archive is read again under the lease.
Decide(r) ==
  /\ At(r, "leased")
  /\ \/ /\ Misfiled(req[r].project)
        /\ Go(r, "failing")
     \/ /\ ~ Misfiled(req[r].project)
        /\ archive.status = "filed"
        /\ Go(r, "confirming")
     \/ /\ ~ Misfiled(req[r].project)
        /\ archive.status # "filed"
        /\ req' = [req EXCEPT ![r].pc = "approving",
                              ![r].archive = IF archive.status = "none" THEN r ELSE archive.id]
  /\ UNCHANGED <<database, provider, overrun>>

\* Already filed by a contender: only the operation is closed.
Confirm(r) ==
  /\ At(r, "confirming")
  /\ IF Holds(r)
     THEN EndLease("completed") /\ Go(r, "done")
     ELSE Go(r, "failing") /\ UNCHANGED operation
  /\ UNCHANGED <<archive, artifacts, mail, journal, provider, overrun>>

\* UPDATE gmail_file_archives SET status = ... WHERE id = archiveId
Mark(r, status) ==
  archive' = [archive EXCEPT !.status = IF archive.id = req[r].archive THEN status ELSE @]

\* After a batch: on to the next point, or to the catch block because the
\* lease guard failed or the answer was lost after the commit.
BatchEnds(r, point) ==
  \/ Go(r, IF Holds(r) THEN point ELSE "failing")
  \/ Go(r, "failing")

\* The approval batch.  A conflicting insert keeps the row's id.
Approve(r) ==
  /\ At(r, "approving")
  /\ IF Holds(r)
     THEN /\ archive' = [status  |-> "filing",
                         project |-> req[r].project,
                         id      |-> IF archive.status = "none" THEN req[r].archive
                                     ELSE archive.id]
          /\ Count("approved")
     ELSE UNCHANGED <<archive, journal>>
  /\ \/ /\ Holds(r)
        /\ req' = [req EXCEPT ![r].pc = "filing", ![r].approved = TRUE]
     \/ Go(r, "failing")
  /\ UNCHANGED <<artifacts, operation, mail, provider, overrun>>

-----------------------------------------------------------------------------
(* findOrUploadManagedFile, once per file *)

NextFile(r) == req' = [req EXCEPT ![r].pc = "filing", ![r].file = @ + 1]

\* findManagedFile: an existing file is reused, none starts an upload, several
\* are an error (duplicate_drive_file).
LookUp(r) ==
  /\ At(r, "filing")
  /\ req[r].file \in Files
  /\ LET found == drive[req[r].archive][req[r].file] IN
     \/ found = 0 /\ uploads' = uploads \cup {Upload(r)} /\ Go(r, "uploading")
     \/ found = 1 /\ NextFile(r) /\ UNCHANGED uploads
     \/ found > 1 /\ Go(r, "failing") /\ UNCHANGED uploads
  /\ UNCHANGED <<database, drive, labelled, overrun>>

\* Drive creates the file, whether or not anybody still waits for it.
UploadLands(u) ==
  /\ uploads' = uploads \ {u}
  /\ drive' = [drive EXCEPT ![u.archive][u.file] = @ + 1]
  /\ UNCHANGED <<database, labelled, req, overrun>>

\* Drive never sees, or refuses, the request.
UploadRejected(u) ==
  /\ uploads' = uploads \ {u}
  /\ IF At(u.by, "uploading") THEN Go(u.by, "failing") ELSE UNCHANGED req
  /\ UNCHANGED <<database, drive, labelled, overrun>>

UploadAnswered(r) ==
  /\ At(r, "uploading")
  /\ Upload(r) \notin uploads
  /\ NextFile(r)
  /\ UNCHANGED <<database, provider, overrun>>

\* The 20-second limit of the provider call: the answer, and perhaps the
\* upload itself, is still on its way.
UploadTimesOut(r) ==
  /\ At(r, "uploading")
  /\ overrun' = (overrun \/ Upload(r) \in uploads)
  /\ Go(r, "failing")
  /\ UNCHANGED <<database, provider>>

-----------------------------------------------------------------------------
(* Closing the archive *)

Copied(r) == At(r, "filing") /\ req[r].file > FileCount

\* The artifact rows and status 'drive-complete', in one guarded batch.
RecordCopies(r) ==
  /\ Copied(r)
  /\ IF Holds(r)
     THEN /\ artifacts' = Files
          /\ Mark(r, "drive-complete")
     ELSE UNCHANGED <<artifacts, archive>>
  /\ BatchEnds(r, "copied")
  /\ UNCHANGED <<operation, mail, journal, provider, overrun>>

\* applyFiledLabel, which may fail before or after Gmail applied it.
ApplyLabel(r) ==
  /\ At(r, "copied")
  /\ \/ labelled' = TRUE /\ Go(r, "labelled")
     \/ labelled' \in {labelled, TRUE} /\ Go(r, "failing")
  /\ UNCHANGED <<database, drive, uploads, overrun>>

\* UPDATE mail_items ... WHERE status IN ('needs-review', 'failed')
AcceptMail(p) ==
  mail' = IF mail.status \in {"needs-review", "failed"}
          THEN [status |-> "accepted", project |-> p] ELSE mail

\* Fault: the statement on mail_items forgets the lease.
FaultyFinish(r) ==
  /\ At(r, "labelled")
  /\ AcceptMail(req[r].project)
  /\ IF Holds(r)
     THEN /\ Mark(r, "filed")
          /\ Count("filed")
          /\ EndLease("completed")
     ELSE UNCHANGED <<archive, journal, operation>>
  /\ BatchEnds(r, "done")
  /\ UNCHANGED <<artifacts, provider, overrun>>

\* The final batch: archive, review row, journal and lease together.
Finish(r) ==
  /\ At(r, "labelled")
  /\ IF Holds(r)
     THEN /\ Mark(r, "filed")
          /\ AcceptMail(req[r].project)
          /\ Count("filed")
          /\ EndLease("completed")
     ELSE UNCHANGED <<archive, mail, journal, operation>>
  /\ BatchEnds(r, "done")
  /\ UNCHANGED <<artifacts, provider, overrun>>

\* Fault: the failure is recorded without the lease.
FaultyMayFail(r) == operation.status # "free"

\* Every statement of the failure batch names the request's own lease.
MayFail(r) == Holds(r)

\* The catch block; its own failure is swallowed.
Fail(r) ==
  /\ At(r, "failing")
  /\ Go(r, "done")
  /\ \/ /\ MayFail(r)
        /\ EndLease("failed")
        /\ IF req[r].approved
           THEN /\ Mark(r, "failed")
                /\ Count("failed")
           ELSE UNCHANGED <<archive, journal>>
     \/ UNCHANGED <<archive, operation, journal>>
  /\ UNCHANGED <<artifacts, mail, provider, overrun>>

-----------------------------------------------------------------------------
(* Around the requests *)

\* The isolate of a request is killed, or a provider call before the next
\* database step throws.
Crash(r) ==
  /\ req[r].pc \in Working
  /\ \E point \in {"failing", "done"} : Go(r, point)
  /\ overrun' = (overrun \/ (At(r, "uploading") /\ Upload(r) \in uploads))
  /\ UNCHANGED <<database, provider>>

LeaseElapses ==
  /\ operation.status = "in-progress"
  /\ operation.timer = "running"
  /\ operation' = [operation EXCEPT !.timer = "elapsed"]
  /\ overrun' = (overrun \/ \E r \in Requests : Holds(r) /\ req[r].pc \in Working)
  /\ UNCHANGED <<archive, artifacts, mail, journal, provider, req>>

\* The analysis sweep writes every row that is not settled, and a person decides
\* what is under review.
ReviewMail ==
  /\ \/ /\ mail.status \in {"absent", "needs-review", "failed"}
        /\ \E s \in {"needs-review", "failed", "skipped-noise"} :
             mail' = [mail EXCEPT !.status = s]
     \/ /\ mail.status = "needs-review"
        /\ \E s \in {"accepted", "dismissed"} : mail' = [mail EXCEPT !.status = s]
  /\ UNCHANGED <<archive, artifacts, operation, journal, provider, req, overrun>>

Step(r) ==
  \/ \E p \in Projects : Begin(r, p)
  \/ Acquire(r) \/ Decide(r) \/ Confirm(r) \/ Approve(r)
  \/ LookUp(r) \/ UploadAnswered(r) \/ UploadTimesOut(r)
  \/ RecordCopies(r) \/ ApplyLabel(r) \/ Finish(r) \/ Fail(r) \/ Crash(r)

Next ==
  \/ \E r \in Requests : Step(r)
  \/ \E u \in uploads : UploadLands(u) \/ UploadRejected(u)
  \/ LeaseElapses
  \/ ReviewMail

Spec == Init /\ [][Next]_vars

-----------------------------------------------------------------------------
(* Properties *)

\* A filed message has every file in Drive under the archive's own identity,
\* every artifact recorded and the label applied, whichever requests, zombies
\* and retries did the work.
FiledIsComplete ==
  archive.status = "filed" =>
    /\ \A f \in Files : drive[archive.id][f] > 0
    /\ artifacts = Files
    /\ labelled

\* The review row is accepted for a project only together with the archive,
\* and for the same project.
AcceptedWithArchive ==
  mail.project # NoProject => archive.status = "filed" /\ mail.project = archive.project

\* The journal tells the truth: one "filed" event exactly when the archive is
\* filed, and an approval before every outcome.
JournalMatches ==
  /\ journal["filed"] = (IF archive.status = "filed" THEN 1 ELSE 0)
  /\ journal["approved"] >= journal["filed"] + journal["failed"]
  /\ (journal["approved"] = 0) <=> (archive.status = "none")

\* The route's comment: "All Drive writes use stable source properties so
\* retries resume safely rather than creating duplicate files."
NoDuplicateFile == \A i \in Ids, f \in Files : drive[i][f] <= 1

\* The lease does serialize the uploads: two files with one source identity
\* need a lease, or an upload, that outlived its caller.
DuplicatesNeedOverrun == ~ overrun => NoDuplicateFile

\* Once approved the message keeps its project and its archive identity, and
\* once filed it stays filed: a late request of another project, a zombie or a
\* failure batch cannot take it back.
ArchiveStep ==
  archive.status # "none" =>
    /\ archive'.project = archive.project
    /\ archive'.id = archive.id
    /\ archive.status = "filed" => archive'.status = "filed"

ArchiveIsKept == [][ArchiveStep]_vars

Phase == IF archive.status = "none" THEN "unfiled"
         ELSE IF archive.status = "filed" THEN "filed" ELSE "approved"

InDrive == {f \in Files : drive[archive.id][f] > 0}

\* The abstract promises, met whatever requests and leases do: of the message, and
\* of its review row, which a filing settles in the very step that files.
Promise == INSTANCE Filing WITH phase <- Phase, project <- archive.project, copies <- InDrive

Review == INSTANCE Triage WITH status <- mail.status, filed <- archive.status = "filed"

ImplementsFiling == Promise!Spec /\ Review!Spec

-----------------------------------------------------------------------------
(* The inductive invariants of the proofs *)

\* Points of POST after the approval was recorded.
Copying == {"filing", "uploading", "copied", "labelled"}

ArchiveShape ==
  /\ (archive.status = "none") <=> (archive.id = NoRequest)
  /\ (archive.status = "none") <=> (archive.project = NoProject)

\* Up to the approval no file is counted; the project is chosen first.
Chosen(r) ==
  /\ req[r].pc \in {"idle", "begun", "leased", "confirming", "approving"} => req[r].file = 1
  /\ req[r].pc # "idle" => req[r].project \in Projects

\* An approved request works for the archive as it is.
ApprovedKnows(r) ==
  /\ req[r].pc \in Copying => req[r].approved
  /\ req[r].approved => /\ req[r].pc \in Copying \cup {"failing", "done"}
                        /\ archive.status # "none"
                        /\ req[r].archive = archive.id
                        /\ req[r].project = archive.project

\* What a request decided under the lease stays true while it holds it.
DecisionHolds(r) == Holds(r) =>
  /\ req[r].pc = "approving" \/ req[r].pc \in Copying \/ (req[r].pc = "failing" /\ req[r].approved)
       => archive.status # "filed"
  /\ req[r].pc = "approving" =>
       IF archive.status = "none" THEN req[r].archive = r
       ELSE req[r].archive = archive.id /\ req[r].project = archive.project

\* How far a request has come is how much Drive holds.
CopiedSoFar(r) == req[r].pc \in Copying =>
  /\ \A f \in Files : f < req[r].file => drive[req[r].archive][f] > 0
  /\ req[r].pc = "uploading" =>
       /\ req[r].file \in Files
       /\ Upload(r) \notin uploads => drive[req[r].archive][req[r].file] > 0
  /\ req[r].pc \in {"copied", "labelled"} => req[r].file > FileCount /\ artifacts = Files
  /\ req[r].pc = "labelled" => labelled

RequestInv(r) == Chosen(r) /\ ApprovedKnows(r) /\ DecisionHolds(r) /\ CopiedSoFar(r)

\* Every file and every upload carries the archive's identity.
SourceIdentity ==
  /\ \A i \in Ids, f \in Files : drive[i][f] > 0 => archive.status # "none" /\ i = archive.id
  /\ \A u \in uploads : archive.status # "none" /\ u.archive = archive.id

UploadOwners == \A u \in uploads :
  \/ At(u.by, "uploading") /\ u = Upload(u.by)
  \/ req[u.by].pc \in {"failing", "done"}

Inv ==
  /\ TypeOK
  /\ ArchiveShape
  /\ \A r \in Requests : RequestInv(r)
  /\ SourceIdentity
  /\ UploadOwners
  /\ FiledIsComplete
  /\ AcceptedWithArchive

\* A request that still has the outcome of its approval to record.
Owing(r) == Holds(r) /\ req[r].approved /\ req[r].pc \in Copying \cup {"failing"}

\* The journal has an approval to spare for it; there is one such request at most.
JournalInv ==
  /\ JournalMatches
  /\ \A r \in Requests : Owing(r) => journal["approved"] > journal["filed"] + journal["failed"]

\* Without an overrun only the holder of a running lease is between its
\* acquisition and its answer, and an upload in flight has not landed yet.
Serial == ~ overrun =>
  /\ \A r \in Requests : req[r].pc \in Working \ {"begun", "failing"} => Holds(r)
  /\ \A r \in Requests : operation.timer = "elapsed" /\ Holds(r) => req[r].pc \notin Working
  /\ \A u \in uploads : At(u.by, "uploading") /\ drive[u.archive][u.file] = 0
  /\ NoDuplicateFile

SerialInv ==
  /\ \A r \in Requests : req[r].pc \in {"idle", "begun"} => ~ Holds(r)
  /\ Serial
=============================================================================
