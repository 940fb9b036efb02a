-------------------------- MODULE GmailFilingProofs --------------------------
(***************************************************************************)
(* Proofs about GmailFiling for any requests, projects and number of files:*)
(* the inductive invariant Inv, that the archive is kept, and the          *)
(* refinements of Filing and Triage.                                       *)
(***************************************************************************)
EXTENDS GmailFiling, TLAPS

USE FileCountAssumption, NoRequestAssumption, NoProjectAssumption

-----------------------------------------------------------------------------
(* What a step leaves alone *)

Others(r) == \A x \in Requests : x # r => req'[x] = req[x]

LocalsKept(r) ==
  /\ req'[r].project = req[r].project
  /\ req'[r].archive = req[r].archive
  /\ req'[r].file = req[r].file

\* Nothing a request x relies on is taken away.
Undisturbed(x) ==
  /\ archive.status # "none" => archive'.status # "none" /\ archive'.id = archive.id
                                /\ archive'.project = archive.project
  /\ Holds(x)' => Holds(x) /\ archive' = archive
  /\ \A i \in Ids, f \in Files : drive[i][f] > 0 => drive'[i][f] > 0
  /\ \A u \in uploads : u.by = x => u \in uploads' \/ drive'[u.archive][u.file] > 0
  /\ artifacts = Files => artifacts' = Files
  /\ labelled => labelled'

LEMMA GoFacts ==
  ASSUME TypeOK, NEW r \in Requests, NEW point \in Working \cup {"idle", "done"}, Go(r, point)
  PROVE  /\ req' \in [Requests -> Locals]
         /\ Others(r)
         /\ LocalsKept(r)
         /\ req'[r].pc = point
         /\ req'[r].approved = req[r].approved
  BY DEF TypeOK, Go, Others, LocalsKept, Locals

LEMMA NextFileFacts ==
  ASSUME TypeOK, NEW r \in Requests, req[r].file \in Files, NextFile(r)
  PROVE  /\ req' \in [Requests -> Locals]
         /\ Others(r)
         /\ req'[r].pc = "filing"
         /\ req'[r].file = req[r].file + 1
         /\ req'[r].project = req[r].project
         /\ req'[r].archive = req[r].archive
         /\ req'[r].approved = req[r].approved
  <1>1. req[r].file + 1 \in 1 .. FileCount + 1
    BY DEF Files
  <1>2. QED
    BY <1>1 DEF TypeOK, NextFile, Others, Locals, Working

LEMMA MarkFacts ==
  ASSUME TypeOK, NEW r \in Requests, NEW status \in Approved \cup {"filed"}, Mark(r, status)
  PROVE  /\ archive' \in Archives
         /\ archive'.id = archive.id
         /\ archive'.project = archive.project
         /\ archive'.status = IF archive.id = req[r].archive THEN status ELSE archive.status
  BY DEF TypeOK, Mark, Archives

LEMMA EndLeaseFacts ==
  ASSUME TypeOK, NEW status \in {"completed", "failed"}, EndLease(status)
  PROVE  /\ operation' \in Operations
         /\ \A x \in Requests : ~ Holds(x)'
  BY DEF TypeOK, EndLease, Operations, Holds

\* A request that does not move keeps its part of the invariant.
LEMMA Frame ==
  ASSUME Inv, NEW x \in Requests, req'[x] = req[x], Undisturbed(x)
  PROVE  RequestInv(x)'
  <1> USE DEF Inv, RequestInv
  <1>0. req[x] \in Locals /\ RequestInv(x)
    BY DEF TypeOK
  <1>1. ApprovedKnows(x)'
    BY <1>0 DEF ApprovedKnows, Undisturbed
  <1>2. DecisionHolds(x)'
    BY <1>0 DEF DecisionHolds, Undisturbed
  <1>3. CopiedSoFar(x)'
    <2> SUFFICES ASSUME req[x].pc \in Copying PROVE CopiedSoFar(x)'
      BY DEF CopiedSoFar
    <2>1. req[x].archive \in Ids
      BY <1>0 DEF Locals
    <2>2. \A f \in Files : f < req'[x].file => drive'[req'[x].archive][f] > 0
      BY <1>0, <2>1 DEF CopiedSoFar, Undisturbed
    <2>3. Upload(x)' = Upload(x) /\ Upload(x).by = x
      BY DEF Upload
    <2>4. ASSUME req[x].pc = "uploading", Upload(x) \notin uploads'
          PROVE  drive'[req[x].archive][req[x].file] > 0
      BY <1>0, <2>1, <2>3, <2>4 DEF CopiedSoFar, Undisturbed, Upload
    <2>5. QED
      BY <1>0, <2>2, <2>3, <2>4 DEF CopiedSoFar, Undisturbed
  <1>4. Chosen(x)'
    BY <1>0 DEF Chosen
  <1>5. QED
    BY <1>1, <1>2, <1>3, <1>4

\* A request that gives up, or is answered, where it stands.
LEMMA Stopping ==
  ASSUME Inv, NEW r \in Requests, LocalsKept(r), req'[r].approved = req[r].approved,
         req[r].pc \in Working, req'[r].pc \in {"failing", "done"}, Undisturbed(r)
  PROVE  RequestInv(r)'
  <1>1. RequestInv(r)
    BY DEF Inv
  <1>2. ApprovedKnows(r)'
    BY <1>1 DEF RequestInv, ApprovedKnows, Undisturbed, LocalsKept, Copying
  <1>3. DecisionHolds(r)'
    BY <1>1 DEF RequestInv, ApprovedKnows, DecisionHolds, Undisturbed, LocalsKept, Copying, Working
  <1>4. CopiedSoFar(r)'
    BY DEF CopiedSoFar, Copying
  <1>5. Chosen(r)'
    BY <1>1 DEF RequestInv, Chosen, LocalsKept, Working
  <1>6. QED
    BY <1>2, <1>3, <1>4, <1>5 DEF RequestInv

\* A request on its way to the approval.
LEMMA Approaching ==
  ASSUME NEW r \in Requests, req'[r].approved = FALSE, req'[r].file = 1, req'[r].project \in Projects,
         req'[r].pc \in {"begun", "leased", "confirming", "done", "failing"}
  PROVE  RequestInv(r)'
  BY DEF RequestInv, Chosen, ApprovedKnows, DecisionHolds, CopiedSoFar, Copying

\* Before the approval a request is not marked approved.
LEMMA NotYetApproved ==
  ASSUME Inv, NEW r \in Requests, req[r].pc \in {"idle", "begun", "leased", "confirming", "approving"}
  PROVE  /\ req[r].approved = FALSE
         /\ req[r].file = 1
         /\ req[r].pc # "idle" => req[r].project \in Projects
  BY DEF Inv, TypeOK, Locals, RequestInv, Chosen, ApprovedKnows, Copying

-----------------------------------------------------------------------------
(* The steps of a request *)

\* For an action that changes neither the database nor Drive, only the mover's
\* own part is left to show.
LEMMA OnlyLocals ==
  ASSUME Inv, NEW r \in Requests, req' \in [Requests -> Locals], Others(r),
         RequestInv(r)', UNCHANGED <<database, drive, labelled>>, overrun' \in BOOLEAN,
         uploads' \subseteq uploads \cup {Upload(r)}, uploads' \subseteq Uploads,
         \A u \in uploads : u \in uploads',
         \A u \in uploads' : u.by = r =>
           (At(r, "uploading")' /\ u = Upload(r)') \/ req'[r].pc \in {"failing", "done"},
         Upload(r) \in uploads' => archive.status # "none" /\ Upload(r).archive = archive.id
  PROVE  Inv'
  <1> USE DEF Inv, database
  <1>1. TypeOK'
    BY DEF TypeOK
  <1>2. ASSUME NEW x \in Requests PROVE RequestInv(x)'
    <2>1. CASE x # r
      BY <2>1, Frame DEF Others, Undisturbed, Holds
    <2>2. QED
      BY <2>1
  <1>3. ArchiveShape' /\ FiledIsComplete' /\ AcceptedWithArchive'
    BY DEF ArchiveShape, FiledIsComplete, AcceptedWithArchive
  <1>4. SourceIdentity'
    BY DEF SourceIdentity
  <1>5. UploadOwners'
    <2> SUFFICES ASSUME NEW u \in uploads'
                 PROVE  (At(u.by, "uploading")' /\ u = Upload(u.by)') \/ req'[u.by].pc \in {"failing", "done"}
      BY DEF UploadOwners
    <2>1. CASE u.by = r
      BY <2>1
    <2>2. CASE u.by # r
      <3>1. u \in uploads /\ u.by \in Requests
        BY <2>2 DEF Upload, Uploads
      <3>2. req'[u.by] = req[u.by]
        BY <2>2, <3>1 DEF Others
      <3>3. QED
        BY <3>1, <3>2 DEF UploadOwners, At, Upload
    <2>3. QED
      BY <2>1, <2>2
  <1>6. QED
    BY <1>1, <1>2, <1>3, <1>4, <1>5

\* Moving on within POST without touching uploads.
LEMMA Moving ==
  ASSUME Inv, NEW r \in Requests, req' \in [Requests -> Locals], Others(r), RequestInv(r)',
         UNCHANGED <<database, provider>>, overrun' \in BOOLEAN,
         At(r, "uploading") => Upload(r) \notin uploads \/ req'[r].pc \in {"failing", "done"},
         req[r].pc \in {"failing", "done"} => req'[r].pc \in {"failing", "done"}
  PROVE  Inv'
  <1>1. uploads' = uploads /\ uploads \subseteq Uploads
    BY DEF Inv, TypeOK, provider
  <1>2. \A u \in uploads : u.by = r => req'[r].pc \in {"failing", "done"}
    BY DEF Inv, UploadOwners, At, Upload
  <1>3. Upload(r) \in uploads => archive.status # "none" /\ Upload(r).archive = archive.id
    BY DEF Inv, SourceIdentity
  <1>4. QED
    BY <1>1, <1>2, <1>3, OnlyLocals DEF provider

LEMMA BeginKeeps ==
  ASSUME Inv, NEW r \in Requests, NEW p \in Projects, Begin(r, p)
  PROVE  Inv'
  <1>1. /\ req' \in [Requests -> Locals]
        /\ Others(r)
        /\ req'[r].pc \in {"begun", "done"}
        /\ req'[r].approved = req[r].approved
        /\ req'[r].project = p
        /\ req'[r].file = req[r].file
    <2> DEFINE next == IF Misfiled(p) \/ archive.status = "filed" THEN "done" ELSE "begun"
    <2>1. next \in {"begun", "done"} /\ next \in Working \cup {"idle", "done"}
      BY DEF Working
    <2>2. req' = [req EXCEPT ![r].project = p, ![r].pc = next]
      BY DEF Begin
    <2> HIDE DEF next
    <2>3. QED
      BY <2>1, <2>2 DEF Inv, TypeOK, Others, Locals
  <1>2. RequestInv(r)'
    <2>1. req[r].approved = FALSE /\ req[r].file = 1
      BY NotYetApproved DEF Begin, At
    <2>2. QED
      BY <1>1, <2>1, Approaching
  <1>3. QED
    BY <1>1, <1>2, Moving DEF Begin, Inv, TypeOK, At

LEMMA DecideKeeps ==
  ASSUME Inv, NEW r \in Requests, Decide(r)
  PROVE  Inv'
  <1>1. /\ req' \in [Requests -> Locals]
        /\ Others(r)
        /\ req'[r].approved = FALSE
        /\ req'[r].file = 1
        /\ req'[r].project = req[r].project
        /\ req[r].project \in Projects
        /\ req'[r].pc \in {"failing", "confirming", "approving"}
    <2>1. r \in Ids /\ archive.id \in Ids
      BY DEF Inv, TypeOK, Archives, Ids
    <2>2. req[r] \in Locals /\ req[r].approved = FALSE /\ req[r].file = 1 /\ req[r].project \in Projects
      BY NotYetApproved DEF Inv, TypeOK, Decide, At
    <2>3. CASE \E point \in {"failing", "confirming"} : Go(r, point)
      BY <2>2, <2>3, GoFacts DEF Inv, Working, LocalsKept
    <2>4. CASE req' = [req EXCEPT ![r].pc = "approving",
                                  ![r].archive = IF archive.status = "none" THEN r ELSE archive.id]
      BY <2>1, <2>2, <2>4 DEF Inv, TypeOK, Others, Locals, Working
    <2>5. QED
      BY <2>3, <2>4 DEF Decide
  <1>2. CASE req'[r].pc = "approving"
    <2>1. /\ archive.status # "filed"
          /\ ~ Misfiled(req[r].project)
          /\ req'[r].archive = IF archive.status = "none" THEN r ELSE archive.id
      BY <1>2 DEF Decide, Go, Inv, TypeOK, Locals
    <2>2. archive.status # "none" => archive.project = req[r].project
      BY <2>1 DEF Misfiled, Inv, ArchiveShape
    <2>3. RequestInv(r)'
      BY <1>1, <1>2, <2>1, <2>2 DEF RequestInv, Chosen, ApprovedKnows, DecisionHolds, CopiedSoFar, Copying,
                                    Decide, database
    <2>4. QED
      BY <1>1, <1>2, <2>3, Moving DEF Decide, Inv, TypeOK, At
  <1>3. CASE req'[r].pc # "approving"
    <2>1. RequestInv(r)'
      BY <1>1, <1>3, Approaching
    <2>2. QED
      BY <1>1, <1>3, <2>1, Moving DEF Decide, Inv, TypeOK, At
  <1>4. QED
    BY <1>2, <1>3

LEMMA UploadAnsweredKeeps ==
  ASSUME Inv, NEW r \in Requests, UploadAnswered(r)
  PROVE  Inv'
  <1>1. RequestInv(r) /\ req[r].file \in Files
    BY DEF Inv, RequestInv, UploadAnswered, CopiedSoFar, Copying, At
  <1>2. /\ req' \in [Requests -> Locals]
        /\ Others(r)
        /\ req'[r].pc = "filing"
        /\ req'[r].file = req[r].file + 1
        /\ req'[r].project = req[r].project
        /\ req'[r].archive = req[r].archive
        /\ req'[r].approved = req[r].approved
    BY <1>1, NextFileFacts DEF Inv, UploadAnswered
  <1>3. RequestInv(r)'
    <2>1. Chosen(r)' /\ ApprovedKnows(r)' /\ DecisionHolds(r)'
      BY <1>1, <1>2 DEF RequestInv, Chosen, ApprovedKnows, DecisionHolds, Copying, UploadAnswered, At, database, Holds
    <2>2. \A f \in Files : f < req[r].file + 1 => drive[req[r].archive][f] > 0
      <3>1. \A f \in Files : f < req[r].file + 1 => f < req[r].file \/ f = req[r].file
        BY <1>1 DEF Files
      <3>2. QED
        BY <1>1, <3>1 DEF RequestInv, CopiedSoFar, Copying, UploadAnswered, At
    <2>3. CopiedSoFar(r)'
      BY <1>2, <2>2 DEF CopiedSoFar, UploadAnswered, provider
    <2>4. QED
      BY <2>1, <2>3 DEF RequestInv
  <1>4. QED
    BY <1>2, <1>3, Moving DEF UploadAnswered, Inv, TypeOK, At

LEMMA UploadTimesOutKeeps ==
  ASSUME Inv, NEW r \in Requests, UploadTimesOut(r)
  PROVE  Inv'
  <1>1. /\ req' \in [Requests -> Locals]
        /\ Others(r)
        /\ LocalsKept(r)
        /\ req'[r].pc = "failing"
        /\ req'[r].approved = req[r].approved
    BY GoFacts DEF Inv, UploadTimesOut, Working
  <1>2. RequestInv(r)'
    BY <1>1, Stopping DEF Undisturbed, UploadTimesOut, At, Working, database, provider, Holds
  <1>3. QED
    BY <1>1, <1>2, Moving DEF UploadTimesOut, Inv, TypeOK

LEMMA CrashKeeps ==
  ASSUME Inv, NEW r \in Requests, Crash(r)
  PROVE  Inv'
  <1>1. /\ req' \in [Requests -> Locals]
        /\ Others(r)
        /\ LocalsKept(r)
        /\ req'[r].pc \in {"failing", "done"}
        /\ req'[r].approved = req[r].approved
    BY GoFacts DEF Inv, Crash, Working
  <1>2. RequestInv(r)'
    BY <1>1, Stopping DEF Undisturbed, Crash, database, provider, Holds
  <1>3. QED
    BY <1>1, <1>2, Moving DEF Crash, Inv, TypeOK

LEMMA LookUpKeeps ==
  ASSUME Inv, NEW r \in Requests, LookUp(r)
  PROVE  Inv'
  <1> DEFINE found == drive[req[r].archive][req[r].file]
  <1>1. RequestInv(r) /\ req[r].approved /\ req[r] \in Locals
    BY DEF Inv, TypeOK, RequestInv, ApprovedKnows, Copying, LookUp, At
  <1>2. CASE found = 0 /\ uploads' = uploads \cup {Upload(r)} /\ Go(r, "uploading")
    <2>1. /\ req' \in [Requests -> Locals]
          /\ Others(r)
          /\ LocalsKept(r)
          /\ req'[r].pc = "uploading"
          /\ req'[r].approved = req[r].approved
      BY <1>2, GoFacts DEF Inv, Working
    <2>2. RequestInv(r)'
      <3>1. Chosen(r)' /\ ApprovedKnows(r)' /\ DecisionHolds(r)'
        BY <1>1, <2>1 DEF RequestInv, Chosen, ApprovedKnows, DecisionHolds, Copying, LookUp, At, database, Holds, LocalsKept
      <3>2. Upload(r)' \in uploads'
        BY <1>2, <2>1 DEF Upload, LocalsKept
      <3>3. CopiedSoFar(r)'
        BY <1>1, <2>1, <3>2 DEF RequestInv, CopiedSoFar, Copying, LookUp, At, LocalsKept
      <3>4. QED
        BY <3>1, <3>3 DEF RequestInv
    <2>3. Upload(r)' = Upload(r) /\ Upload(r) \in Uploads
      BY <1>1, <2>1 DEF Upload, Uploads, LocalsKept, Locals, LookUp
    <2>4. \A u \in uploads : u.by # r \/ req[r].pc \in {"failing", "done"}
      BY DEF Inv, UploadOwners, LookUp, At
    <2>5. archive.status # "none" /\ Upload(r).archive = archive.id
      BY <1>1 DEF RequestInv, ApprovedKnows, Upload
    <2>6. QED
      BY <1>2, <2>1, <2>2, <2>3, <2>4, <2>5, OnlyLocals DEF LookUp, Inv, TypeOK, At
  <1>3. CASE found = 1 /\ NextFile(r) /\ UNCHANGED uploads
    <2>1. /\ req' \in [Requests -> Locals]
          /\ Others(r)
          /\ req'[r].pc = "filing"
          /\ req'[r].file = req[r].file + 1
          /\ req'[r].project = req[r].project
          /\ req'[r].archive = req[r].archive
          /\ req'[r].approved = req[r].approved
      BY <1>3, NextFileFacts DEF Inv, LookUp
    <2>2. Chosen(r)' /\ ApprovedKnows(r)' /\ DecisionHolds(r)'
      BY <1>1, <2>1 DEF RequestInv, Chosen, ApprovedKnows, DecisionHolds, Copying, LookUp, At, database, Holds
    <2>3. \A f \in Files : f < req[r].file + 1 => drive[req[r].archive][f] > 0
      <3>1. \A f \in Files : f < req[r].file + 1 => f < req[r].file \/ f = req[r].file
        BY DEF Files, LookUp
      <3>2. QED
        BY <1>1, <1>3, <3>1 DEF RequestInv, CopiedSoFar, Copying, LookUp, At
    <2>4. RequestInv(r)'
      BY <2>1, <2>2, <2>3 DEF RequestInv, CopiedSoFar, LookUp
    <2>5. QED
      BY <1>3, <2>1, <2>4, Moving DEF LookUp, Inv, TypeOK, At, provider
  <1>4. CASE Go(r, "failing") /\ UNCHANGED uploads
    <2>1. /\ req' \in [Requests -> Locals]
          /\ Others(r)
          /\ LocalsKept(r)
          /\ req'[r].pc = "failing"
          /\ req'[r].approved = req[r].approved
      BY <1>4, GoFacts DEF Inv, Working
    <2>2. RequestInv(r)'
      BY <1>4, <2>1, Stopping DEF Undisturbed, LookUp, At, Working, database, Holds
    <2>3. QED
      BY <1>4, <2>1, <2>2, Moving DEF LookUp, Inv, TypeOK, provider
  <1>5. QED
    BY <1>2, <1>3, <1>4 DEF LookUp

\* For an action that writes the database under the lease.
LEMMA Recording ==
  ASSUME Inv, NEW r \in Requests, TypeOK', Others(r), RequestInv(r)',
         ArchiveStep, archive.status # "none" => archive'.status # "none",
         \A x \in Requests : x # r => (Holds(x)' => Holds(x) /\ archive' = archive),
         UNCHANGED <<drive, uploads>>, artifacts' \in {artifacts, Files}, labelled => labelled',
         archive' = archive \/ ArchiveShape',
         archive' = archive \/ archive'.status # "filed" \/ FiledIsComplete',
         mail' = mail \/ AcceptedWithArchive',
         req[r].pc \notin {"uploading", "failing", "done"} \/ req'[r].pc \in {"failing", "done"}
  PROVE  Inv'
  <1> USE DEF Inv
  <1>1. ASSUME NEW x \in Requests PROVE RequestInv(x)'
    <2>1. CASE x # r
      <3>1. Undisturbed(x)
        BY <2>1 DEF Undisturbed, ArchiveStep
      <3>2. QED
        BY <2>1, <3>1, Frame DEF Others
    <2>2. QED
      BY <2>1
  <1>2. ArchiveShape'
    BY DEF ArchiveShape
  <1>3. FiledIsComplete'
    BY DEF FiledIsComplete
  <1>4. AcceptedWithArchive'
    BY DEF AcceptedWithArchive, ArchiveStep, ArchiveShape
  <1>5. SourceIdentity'
    BY DEF SourceIdentity, ArchiveStep
  <1>6. UploadOwners'
    <2> SUFFICES ASSUME NEW u \in uploads
                 PROVE  (At(u.by, "uploading")' /\ u = Upload(u.by)') \/ req'[u.by].pc \in {"failing", "done"}
      BY DEF UploadOwners
    <2>1. u.by \in Requests
      BY DEF TypeOK, Uploads
    <2>2. QED
      BY <2>1 DEF UploadOwners, At, Upload, Others
  <1>7. QED
    BY <1>1, <1>2, <1>3, <1>4, <1>5, <1>6

LEMMA AcquireKeeps ==
  ASSUME Inv, NEW r \in Requests, Acquire(r)
  PROVE  Inv'
  <1>1. /\ req' \in [Requests -> Locals]
        /\ Others(r)
        /\ req'[r].pc \in {"leased", "done"}
        /\ LocalsKept(r)
        /\ req'[r].approved = req[r].approved
    BY GoFacts DEF Inv, Acquire, Working
  <1>2. RequestInv(r)'
    <2>1. req[r].approved = FALSE /\ req[r].file = 1 /\ req[r].project \in Projects
      BY NotYetApproved DEF Acquire, At
    <2>2. QED
      BY <1>1, <2>1, Approaching DEF LocalsKept
  <1>3. TypeOK'
    BY <1>1 DEF Inv, TypeOK, Acquire, Operations, Ids, provider
  <1>4. \A x \in Requests : x # r => (Holds(x)' => Holds(x))
    BY DEF Acquire, Holds
  <1>5. QED
    BY <1>1, <1>2, <1>3, <1>4, Recording DEF Acquire, ArchiveStep, provider, At

LEMMA ConfirmKeeps ==
  ASSUME Inv, NEW r \in Requests, Confirm(r)
  PROVE  Inv'
  <1>1. /\ req' \in [Requests -> Locals]
        /\ Others(r)
        /\ req'[r].pc \in {"failing", "done"}
        /\ LocalsKept(r)
        /\ req'[r].approved = req[r].approved
    BY GoFacts DEF Inv, Confirm, Working
  <1>2. RequestInv(r)'
    <2>1. req[r].approved = FALSE /\ req[r].file = 1 /\ req[r].project \in Projects
      BY NotYetApproved DEF Confirm, At
    <2>2. QED
      BY <1>1, <2>1, Approaching DEF LocalsKept
  <1>3. operation' \in Operations /\ \A x \in Requests : Holds(x)' => Holds(x)
    BY EndLeaseFacts DEF Inv, TypeOK, Confirm, Holds
  <1>4. TypeOK'
    BY <1>1, <1>3 DEF Inv, TypeOK, Confirm, provider
  <1>5. QED
    BY <1>1, <1>2, <1>3, <1>4, Recording DEF Confirm, ArchiveStep, provider

LEMMA ApproveKeeps ==
  ASSUME Inv, NEW r \in Requests, Approve(r)
  PROVE  Inv'
  <1> USE DEF Inv
  <1>1. /\ req[r] \in Locals
        /\ req[r].approved = FALSE
        /\ req[r].file = 1
        /\ req[r].project \in Projects
        /\ req[r].pc = "approving"
        /\ RequestInv(r)
    BY NotYetApproved DEF TypeOK, Approve, At
  <1>2. /\ req' \in [Requests -> Locals]
        /\ Others(r)
        /\ LocalsKept(r)
        /\ \/ Holds(r) /\ req'[r].pc = "filing" /\ req'[r].approved = TRUE
           \/ req'[r].pc = "failing" /\ req'[r].approved = FALSE
    <2>1. CASE Go(r, "failing")
      BY <1>1, <2>1, GoFacts DEF Working
    <2>2. CASE Holds(r) /\ req' = [req EXCEPT ![r].pc = "filing", ![r].approved = TRUE]
      BY <1>1, <2>2 DEF TypeOK, Locals, Working, Others, LocalsKept
    <2>3. QED
      BY <2>1, <2>2 DEF Approve
  <1>3. CASE ~ Holds(r)
    <2>1. UNCHANGED <<archive, journal>> /\ req'[r].pc = "failing" /\ req'[r].approved = FALSE
      BY <1>2, <1>3 DEF Approve
    <2>2. RequestInv(r)'
      BY <1>1, <1>2, <2>1, Approaching DEF LocalsKept
    <2>3. TypeOK'
      BY <1>2, <2>1 DEF TypeOK, Approve, provider
    <2>4. QED
      BY <1>2, <2>1, <2>2, <2>3, Recording DEF Approve, ArchiveStep, provider, Holds
  <1>4. CASE Holds(r)
    <2>1. /\ archive.status # "filed"
          /\ archive.status # "none" => req[r].archive = archive.id /\ req[r].project = archive.project
          /\ archive.status = "none" => req[r].archive = r
      BY <1>1, <1>4 DEF RequestInv, DecisionHolds
    <2>3. /\ archive' \in Archives
          /\ archive'.status = "filing"
          /\ archive'.project = req[r].project
          /\ archive'.id = req[r].archive
          /\ req[r].archive \in Requests
      BY <1>1, <1>4, <2>1 DEF Approve, Archives, Approved, Locals, Ids, TypeOK, ArchiveShape
    <2>4. TypeOK'
      BY <1>2, <1>4, <2>3 DEF TypeOK, Approve, provider, Count
    <2>5. RequestInv(r)'
      <3>1. CASE req'[r].pc = "filing" /\ req'[r].approved = TRUE
        BY <1>1, <1>2, <2>3, <3>1 DEF RequestInv, Chosen, ApprovedKnows, DecisionHolds, CopiedSoFar, Copying, Files, LocalsKept
      <3>2. CASE req'[r].pc = "failing" /\ req'[r].approved = FALSE
        BY <1>1, <1>2, <3>2, Approaching DEF LocalsKept
      <3>3. QED
        BY <1>2, <3>1, <3>2
    <2>6. ArchiveStep
      BY <2>1, <2>3 DEF ArchiveStep
    <2>7. ArchiveShape'
      BY <1>1, <2>3 DEF ArchiveShape
    <2>8. \A x \in Requests : x # r => ~ Holds(x)'
      BY <1>4 DEF Holds, Approve
    <2>9. QED
      BY <1>1, <1>2, <2>3, <2>4, <2>5, <2>6, <2>7, <2>8, Recording DEF Approve, provider
  <1>5. QED
    BY <1>3, <1>4

LEMMA RecordCopiesKeeps ==
  ASSUME Inv, NEW r \in Requests, RecordCopies(r)
  PROVE  Inv'
  <1>1. /\ RequestInv(r)
        /\ req[r].pc = "filing"
        /\ req[r].file > FileCount
        /\ req[r].approved
        /\ req[r].archive = archive.id
        /\ archive.status # "none"
    BY DEF Inv, RequestInv, ApprovedKnows, Copying, RecordCopies, Copied, At
  <1>2. /\ req' \in [Requests -> Locals]
        /\ Others(r)
        /\ LocalsKept(r)
        /\ req'[r].approved = req[r].approved
        /\ (req'[r].pc = "copied" /\ Holds(r)) \/ req'[r].pc = "failing"
    BY GoFacts DEF Inv, RecordCopies, BatchEnds, Working
  <1>3. /\ archive' \in Archives
        /\ archive'.id = archive.id
        /\ archive'.project = archive.project
        /\ archive'.status \in {archive.status, "drive-complete"}
        /\ Holds(r) => archive'.status = "drive-complete"
        /\ ~ Holds(r) => archive' = archive
    BY <1>1, MarkFacts DEF Inv, TypeOK, RecordCopies, Approved
  <1>4. TypeOK' /\ artifacts' \in {artifacts, Files} /\ (Holds(r) => artifacts' = Files)
    BY <1>2, <1>3 DEF Inv, TypeOK, RecordCopies, provider
  <1>5. RequestInv(r)'
    BY <1>1, <1>2, <1>3, <1>4 DEF RequestInv, Chosen, ApprovedKnows, DecisionHolds, CopiedSoFar,
                                  Copying, LocalsKept, RecordCopies, provider, Holds
  <1>6. ArchiveStep /\ (archive' = archive \/ ArchiveShape')
    BY <1>1, <1>3 DEF ArchiveStep, ArchiveShape, Inv, RequestInv, DecisionHolds, Copying
  <1>7. \A x \in Requests : x # r => (Holds(x)' => Holds(x) /\ archive' = archive)
    BY <1>3 DEF Holds, RecordCopies
  <1>8. QED
    BY <1>1, <1>2, <1>3, <1>4, <1>5, <1>6, <1>7, Recording DEF RecordCopies, provider

LEMMA ApplyLabelKeeps ==
  ASSUME Inv, NEW r \in Requests, ApplyLabel(r)
  PROVE  Inv'
  <1>1. RequestInv(r) /\ req[r].pc = "copied"
    BY DEF Inv, ApplyLabel, At
  <1>2. /\ req' \in [Requests -> Locals]
        /\ Others(r)
        /\ LocalsKept(r)
        /\ req'[r].approved = req[r].approved
        /\ (req'[r].pc = "labelled" /\ labelled' = TRUE) \/ req'[r].pc = "failing"
    BY GoFacts DEF Inv, ApplyLabel, Working
  <1>3. TypeOK' /\ (labelled => labelled')
    <2>1. labelled' = TRUE \/ labelled' = labelled
      BY DEF ApplyLabel
    <2>2. labelled' \in BOOLEAN /\ (labelled => labelled')
      <3>1. labelled \in BOOLEAN
        BY DEF Inv, TypeOK
      <3>2. CASE labelled' = labelled
        BY <3>1, <3>2
      <3>3. CASE labelled' = TRUE
        BY <3>3
      <3>4. QED
        BY <2>1, <3>2, <3>3
    <2>3. QED
      BY <1>2, <2>2 DEF Inv, TypeOK, ApplyLabel, database
  <1>4. RequestInv(r)'
    BY <1>1, <1>2 DEF RequestInv, Chosen, ApprovedKnows, DecisionHolds, CopiedSoFar,
                      Copying, LocalsKept, ApplyLabel, database, Holds
  <1>5. QED
    BY <1>1, <1>2, <1>3, <1>4, Recording DEF ApplyLabel, ArchiveStep, database, Holds

LEMMA FinishKeeps ==
  ASSUME Inv, NEW r \in Requests, Finish(r)
  PROVE  Inv'
  <1>1. /\ RequestInv(r)
        /\ req[r].pc = "labelled"
        /\ req[r].archive = archive.id
        /\ req[r].project = archive.project
        /\ archive.status # "none"
        /\ artifacts = Files
        /\ labelled
        /\ \A f \in Files : drive[archive.id][f] > 0
    <2>1. RequestInv(r) /\ req[r].pc = "labelled" /\ req[r].file \in Nat
      BY DEF Inv, Finish, At, TypeOK, Locals
    <2>2. /\ req[r].file > FileCount
          /\ \A f \in Files : f < req[r].file => drive[req[r].archive][f] > 0
      BY <2>1 DEF RequestInv, CopiedSoFar, Copying
    <2>3. \A f \in Files : f < req[r].file
      BY <2>1, <2>2 DEF Files
    <2>4. QED
      BY <2>1, <2>2, <2>3 DEF RequestInv, ApprovedKnows, CopiedSoFar, Copying
  <1>2. /\ req' \in [Requests -> Locals]
        /\ Others(r)
        /\ LocalsKept(r)
        /\ req'[r].approved = req[r].approved
        /\ req'[r].pc \in {"done", "failing"}
    BY GoFacts DEF Inv, Finish, BatchEnds, Working
  <1>3. CASE ~ Holds(r)
    <2>1. UNCHANGED <<database, provider>> /\ overrun' = overrun
      BY <1>3 DEF Finish, database
    <2>2. RequestInv(r)'
      BY <1>1, <1>2, <2>1, Stopping DEF Undisturbed, Working, database, provider, Holds
    <2>3. QED
      BY <1>1, <1>2, <2>1, <2>2, Moving DEF Inv, TypeOK, At
  <1>4. CASE Holds(r)
    <2>1. /\ archive' \in Archives
          /\ archive'.id = archive.id
          /\ archive'.project = archive.project
          /\ archive'.status = "filed"
      BY <1>1, <1>4, MarkFacts DEF Inv, Finish
    <2>2. operation' \in Operations /\ \A x \in Requests : ~ Holds(x)'
      BY <1>4, EndLeaseFacts DEF Inv, Finish
    <2>3. mail' = mail \/ mail' = [status |-> "accepted", project |-> archive.project]
      BY <1>1, <1>4 DEF Finish, AcceptMail
    <2>4. archive.project \in Projects
      BY <1>1 DEF RequestInv, Chosen
    <2>5. TypeOK'
      BY <1>2, <1>4, <2>1, <2>2, <2>3, <2>4 DEF Inv, TypeOK, Finish, Count, provider
    <2>6. RequestInv(r)'
      BY <1>1, <1>2, <2>1, <2>2 DEF RequestInv, Chosen, ApprovedKnows, DecisionHolds, CopiedSoFar,
                                    Copying, LocalsKept
    <2>7. ArchiveStep /\ ArchiveShape'
      BY <1>1, <2>1 DEF ArchiveStep, ArchiveShape, Inv
    <2>8. FiledIsComplete'
      BY <1>1, <2>1 DEF FiledIsComplete, Finish, provider
    <2>9. mail' = mail \/ AcceptedWithArchive'
      BY <2>1, <2>3 DEF AcceptedWithArchive
    <2>10. QED
      BY <1>1, <1>2, <2>1, <2>2, <2>5, <2>6, <2>7, <2>8, <2>9, Recording DEF Finish, provider
  <1>5. QED
    BY <1>3, <1>4

LEMMA FailKeeps ==
  ASSUME Inv, NEW r \in Requests, Fail(r)
  PROVE  Inv'
  <1>1. RequestInv(r) /\ req[r].pc = "failing" /\ req[r].approved \in BOOLEAN
    BY DEF Inv, Fail, At, TypeOK, Locals
  <1>2. /\ req' \in [Requests -> Locals]
        /\ Others(r)
        /\ LocalsKept(r)
        /\ req'[r].approved = req[r].approved
        /\ req'[r].pc = "done"
    BY GoFacts DEF Inv, Fail
  <1>3. CASE UNCHANGED <<archive, operation, journal>>
    <2>1. UNCHANGED <<database, provider>> /\ overrun' = overrun
      BY <1>3 DEF Fail, database
    <2>2. RequestInv(r)'
      BY <1>1, <1>2, <2>1, Stopping DEF Undisturbed, Working, database, provider, Holds
    <2>3. QED
      BY <1>1, <1>2, <2>1, <2>2, Moving DEF Inv, TypeOK, At
  <1>4. CASE Holds(r) /\ EndLease("failed") /\ req[r].approved /\ Mark(r, "failed") /\ Count("failed")
    <2>1. archive.id = req[r].archive /\ archive.status \notin {"none", "filed"}
      BY <1>1, <1>4 DEF RequestInv, ApprovedKnows, DecisionHolds
    <2>2. /\ archive' \in Archives
          /\ archive'.id = archive.id
          /\ archive'.project = archive.project
          /\ archive'.status = "failed"
      BY <1>4, <2>1, MarkFacts DEF Inv, Approved
    <2>3. operation' \in Operations /\ \A x \in Requests : ~ Holds(x)'
      BY <1>4, EndLeaseFacts DEF Inv
    <2>4. TypeOK'
      BY <1>2, <1>4, <2>2, <2>3 DEF Inv, TypeOK, Fail, Count, provider
    <2>5. RequestInv(r)'
      BY <1>1, <1>2, <2>1, <2>2, <2>3 DEF RequestInv, Chosen, ApprovedKnows, DecisionHolds, CopiedSoFar,
                                          Copying, LocalsKept
    <2>6. ArchiveStep /\ ArchiveShape'
      BY <2>1, <2>2 DEF ArchiveStep, ArchiveShape, Inv
    <2>7. QED
      BY <1>2, <2>1, <2>2, <2>3, <2>4, <2>5, <2>6, Recording DEF Fail, provider
  <1>5. CASE Holds(r) /\ EndLease("failed") /\ ~ req[r].approved /\ UNCHANGED <<archive, journal>>
    <2>1. operation' \in Operations /\ \A x \in Requests : ~ Holds(x)'
      BY <1>5, EndLeaseFacts DEF Inv
    <2>2. TypeOK'
      BY <1>2, <1>5, <2>1 DEF Inv, TypeOK, Fail, provider
    <2>3. RequestInv(r)'
      BY <1>1, <1>2, <1>5, <2>1 DEF RequestInv, Chosen, ApprovedKnows, DecisionHolds, CopiedSoFar,
                                    Copying, LocalsKept
    <2>4. QED
      BY <1>2, <1>5, <2>1, <2>2, <2>3, Recording DEF Fail, provider, ArchiveStep
  <1>6. QED
    BY <1>3, <1>4, <1>5 DEF Fail, MayFail

-----------------------------------------------------------------------------
(* The steps around the requests *)

\* Nobody moves and nothing is taken away: only the database part can change.
LEMMA Standing ==
  ASSUME Inv, TypeOK', UNCHANGED req, \A x \in Requests : Undisturbed(x),
         archive' = archive, SourceIdentity', uploads' \subseteq uploads,
         mail' = mail \/ AcceptedWithArchive'
  PROVE  Inv'
  <1> USE DEF Inv
  <1>1. \A x \in Requests : RequestInv(x)'
    BY Frame
  <1>2. ArchiveShape' /\ AcceptedWithArchive'
    BY DEF ArchiveShape, AcceptedWithArchive
  <1>3. UploadOwners'
    BY DEF UploadOwners, At, Upload
  <1>4. FiledIsComplete'
    <2> SUFFICES ASSUME archive.status = "filed"
                 PROVE  /\ \A f \in Files : drive'[archive.id][f] > 0
                        /\ artifacts' = Files
                        /\ labelled'
      BY DEF FiledIsComplete
    <2>1. archive.id \in Requests
      BY DEF ArchiveShape, TypeOK, Archives, Ids
    <2>2. Undisturbed(archive.id) /\ archive.id \in Ids
      BY <2>1 DEF Ids
    <2>3. QED
      BY <2>2 DEF Undisturbed, FiledIsComplete
  <1>5. QED
    BY <1>1, <1>2, <1>3, <1>4

LEMMA UploadLandsKeeps ==
  ASSUME Inv, NEW u \in uploads, UploadLands(u)
  PROVE  Inv'
  <1>1. u \in Uploads /\ u.archive \in Ids /\ u.file \in Files
    BY DEF Inv, TypeOK, Uploads
  <1>2. /\ drive' \in [Ids -> [Files -> Nat]]
        /\ drive'[u.archive][u.file] = drive[u.archive][u.file] + 1
        /\ \A i \in Ids, f \in Files : i # u.archive \/ f # u.file => drive'[i][f] = drive[i][f]
    BY <1>1 DEF Inv, TypeOK, UploadLands
  <1>3. /\ \A i \in Ids, f \in Files : drive[i][f] \in Nat /\ (drive[i][f] > 0 => drive'[i][f] > 0)
        /\ drive'[u.archive][u.file] > 0
    <2>1. \A i \in Ids, f \in Files : drive[i][f] \in Nat
      BY DEF Inv, TypeOK
    <2>2. drive'[u.archive][u.file] > 0
      BY <1>1, <1>2, <2>1
    <2>3. ASSUME NEW i \in Ids, NEW f \in Files, drive[i][f] > 0 PROVE drive'[i][f] > 0
      BY <1>2, <2>2, <2>3
    <2>4. QED
      BY <2>1, <2>2, <2>3
  <1>4. TypeOK'
    BY <1>2 DEF Inv, TypeOK, UploadLands, database
  <1>5. \A x \in Requests : Undisturbed(x)
    BY <1>3 DEF Undisturbed, UploadLands, database, Holds
  <1>6. SourceIdentity'
    <2>1. archive.status # "none" /\ u.archive = archive.id
      BY DEF Inv, SourceIdentity
    <2>2. QED
      BY <1>2, <2>1 DEF Inv, SourceIdentity, UploadLands, database
  <1>7. QED
    BY <1>4, <1>5, <1>6, Standing DEF UploadLands, database

LEMMA UploadRejectedKeeps ==
  ASSUME Inv, NEW u \in uploads, UploadRejected(u)
  PROVE  Inv'
  <1> USE DEF Inv
  <1>1. u \in Uploads /\ u.by \in Requests
    BY DEF TypeOK, Uploads
  <1>2. CASE At(u.by, "uploading")
    <2>1. /\ req' \in [Requests -> Locals]
          /\ Others(u.by)
          /\ LocalsKept(u.by)
          /\ req'[u.by].pc = "failing"
          /\ req'[u.by].approved = req[u.by].approved
      BY <1>1, <1>2, GoFacts DEF UploadRejected, Working
    <2>2. TypeOK'
      BY <2>1 DEF TypeOK, UploadRejected, database
    <2>3. ASSUME NEW x \in Requests PROVE RequestInv(x)'
      <3>1. CASE x = u.by
        <4>1. RequestInv(x)
          OBVIOUS
        <4>2. Chosen(x)' /\ ApprovedKnows(x)' /\ CopiedSoFar(x)'
          BY <2>1, <3>1, <4>1, <1>2 DEF RequestInv, Chosen, ApprovedKnows, CopiedSoFar, Copying, LocalsKept,
                                      UploadRejected, database, At
        <4>3. DecisionHolds(x)'
          BY <2>1, <3>1, <4>1, <1>2 DEF RequestInv, ApprovedKnows, DecisionHolds, Copying, LocalsKept,
                                      UploadRejected, database, At, Holds
        <4>4. QED
          BY <4>2, <4>3 DEF RequestInv
      <3>2. CASE x # u.by
        <4>1. Undisturbed(x)
          BY <3>2 DEF Undisturbed, UploadRejected, database, Holds
        <4>2. QED
          BY <2>1, <3>2, <4>1, Frame DEF Others
      <3>3. QED
        BY <3>1, <3>2
    <2>4. ArchiveShape' /\ FiledIsComplete' /\ AcceptedWithArchive' /\ SourceIdentity'
      BY DEF ArchiveShape, FiledIsComplete, AcceptedWithArchive, SourceIdentity, UploadRejected, database
    <2>5. UploadOwners'
      <3> SUFFICES ASSUME NEW v \in uploads, v \in uploads'
                   PROVE  (At(v.by, "uploading")' /\ v = Upload(v.by)') \/ req'[v.by].pc \in {"failing", "done"}
        BY DEF UploadOwners, UploadRejected
      <3>1. v.by \in Requests
        BY DEF TypeOK, Uploads
      <3>2. QED
        BY <2>1, <3>1 DEF UploadOwners, At, Upload, Others
    <2>6. QED
      BY <2>2, <2>3, <2>4, <2>5
  <1>3. CASE ~ At(u.by, "uploading")
    <2>1. TypeOK'
      BY <1>3 DEF TypeOK, UploadRejected, database
    <2>2. ASSUME NEW x \in Requests PROVE RequestInv(x)'
      <3>1. RequestInv(x)
        OBVIOUS
      <3>2. CopiedSoFar(x)'
        <4> SUFFICES ASSUME req[x].pc \in Copying PROVE CopiedSoFar(x)'
          BY <1>3 DEF CopiedSoFar, UploadRejected
        <4>1. req[x].pc = "uploading" => Upload(x) \notin uploads \/ Upload(x) \in uploads'
          BY <1>3 DEF UploadRejected, At, Upload
        <4>2. Upload(x)' = Upload(x)
          BY <1>3 DEF UploadRejected, Upload
        <4>3. QED
          BY <1>3, <3>1, <4>1, <4>2 DEF RequestInv, CopiedSoFar, UploadRejected, database
      <3>3. QED
        BY <1>3, <3>1, <3>2 DEF RequestInv, Chosen, ApprovedKnows, DecisionHolds, UploadRejected, database, Holds
    <2>3. ArchiveShape' /\ FiledIsComplete' /\ AcceptedWithArchive' /\ SourceIdentity'
      BY DEF ArchiveShape, FiledIsComplete, AcceptedWithArchive, SourceIdentity, UploadRejected, database
    <2>4. UploadOwners'
      BY <1>3 DEF UploadOwners, UploadRejected, At, Upload
    <2>5. QED
      BY <2>1, <2>2, <2>3, <2>4
  <1>4. QED
    BY <1>2, <1>3

LEMMA LeaseElapsesKeeps == Inv /\ LeaseElapses => Inv'
  <1> SUFFICES ASSUME Inv, LeaseElapses PROVE Inv'
    OBVIOUS
  <1>1. \A x \in Requests : Undisturbed(x)
    BY DEF Undisturbed, LeaseElapses, provider, Holds, Inv, TypeOK, Operations
  <1>2. TypeOK'
    BY DEF Inv, TypeOK, LeaseElapses, Operations, provider
  <1>3. SourceIdentity'
    BY DEF Inv, SourceIdentity, LeaseElapses, provider
  <1>4. QED
    BY <1>1, <1>2, <1>3, Standing DEF LeaseElapses, provider

LEMMA ReviewMailKeeps == Inv /\ ReviewMail => Inv'
  <1> SUFFICES ASSUME Inv, ReviewMail PROVE Inv'
    OBVIOUS
  <1>1. \A x \in Requests : Undisturbed(x)
    BY DEF Undisturbed, ReviewMail, provider, Holds
  <1>2. mail'.project = mail.project /\ mail'.status \in {"needs-review", "failed", "skipped-noise", "accepted", "dismissed"}
    BY DEF Inv, TypeOK, ReviewMail
  <1>3. TypeOK'
    BY <1>2 DEF Inv, TypeOK, ReviewMail, provider
  <1>4. SourceIdentity' /\ AcceptedWithArchive'
    BY <1>2 DEF Inv, SourceIdentity, AcceptedWithArchive, ReviewMail, provider
  <1>5. QED
    BY <1>1, <1>3, <1>4, Standing DEF ReviewMail, provider

-----------------------------------------------------------------------------
(* Theorems *)

LEMMA InitInv == Init => Inv
  <1> SUFFICES ASSUME Init PROVE Inv
    OBVIOUS
  <1> USE DEF Init
  <1>1. TypeOK
    <2>1. 1 \in 1 .. FileCount + 1
      OBVIOUS
    <2>2. req \in [Requests -> Locals]
      BY <2>1 DEF Locals, Ids
    <2>3. drive \in [Ids -> [Files -> Nat]] /\ journal \in [{"approved", "filed", "failed"} -> Nat]
      OBVIOUS
    <2>4. QED
      BY <2>2, <2>3 DEF TypeOK, Archives, Operations, Ids
  <1>2. \A r \in Requests : RequestInv(r)
    BY DEF RequestInv, Chosen, ApprovedKnows, DecisionHolds, CopiedSoFar, Copying
  <1>3. ArchiveShape /\ SourceIdentity /\ UploadOwners /\ FiledIsComplete /\ AcceptedWithArchive
    BY DEF ArchiveShape, SourceIdentity, UploadOwners, FiledIsComplete, AcceptedWithArchive
  <1>4. QED
    BY <1>1, <1>2, <1>3 DEF Inv

LEMMA NextInv == Inv /\ [Next]_vars => Inv'
  <1> SUFFICES ASSUME Inv, [Next]_vars PROVE Inv'
    OBVIOUS
  <1>1. ASSUME NEW r \in Requests, Step(r) PROVE Inv'
    BY <1>1, BeginKeeps, AcquireKeeps, DecideKeeps, ConfirmKeeps, ApproveKeeps, LookUpKeeps,
       UploadAnsweredKeeps, UploadTimesOutKeeps, RecordCopiesKeeps, ApplyLabelKeeps, FinishKeeps,
       FailKeeps, CrashKeeps DEF Step
  <1>2. ASSUME NEW u \in uploads, UploadLands(u) \/ UploadRejected(u) PROVE Inv'
    BY <1>2, UploadLandsKeeps, UploadRejectedKeeps
  <1>3. CASE UNCHANGED vars
    BY <1>3 DEF vars, Inv, TypeOK, ArchiveShape, RequestInv, Chosen, ApprovedKnows, DecisionHolds,
                CopiedSoFar, SourceIdentity, UploadOwners, FiledIsComplete, AcceptedWithArchive,
                Holds, At, Upload
  <1>4. QED
    BY <1>1, <1>2, <1>3, LeaseElapsesKeeps, ReviewMailKeeps DEF Next

\* In every reachable state the invariant holds: each request's decisions fit
\* the archive while it holds the lease, and Drive holds what it has counted.
THEOREM Invariance == Spec => []Inv
  BY InitInv, NextInv, PTL DEF Spec

\* The variables of the filing routes keep their types.
THEOREM TypeCorrect == Spec => []TypeOK
  <1>1. Inv => TypeOK
    BY DEF Inv
  <1>2. QED
    BY <1>1, Invariance, PTL

\* A filed message is complete in Drive, in the artifact table and in Gmail,
\* for any number of requests and files.
THEOREM FiledMessagesAreComplete == Spec => []FiledIsComplete
  <1>1. Inv => FiledIsComplete
    BY DEF Inv
  <1>2. QED
    BY <1>1, Invariance, PTL

\* A review row accepted for a project names the project of the filed archive.
THEOREM AcceptedOnlyWithArchive == Spec => []AcceptedWithArchive
  <1>1. Inv => AcceptedWithArchive
    BY DEF Inv
  <1>2. QED
    BY <1>1, Invariance, PTL

LEMMA StepKeepsArchive == Inv /\ [Next]_vars => ArchiveStep
  <1> SUFFICES ASSUME Inv, [Next]_vars PROVE ArchiveStep
    OBVIOUS
  <1>1. ASSUME NEW r \in Requests, Approve(r) PROVE ArchiveStep
    <2>1. CASE ~ Holds(r)
      BY <1>1, <2>1 DEF Approve, ArchiveStep
    <2>2. CASE Holds(r)
      <3>1. /\ archive.status # "filed"
            /\ archive.status # "none" => req[r].project = archive.project
        BY <1>1, <2>2 DEF Inv, RequestInv, DecisionHolds, Approve, At
      <3>2. QED
        BY <1>1, <2>2, <3>1 DEF Approve, ArchiveStep
    <2>3. QED
      BY <2>1, <2>2
  <1>2. ASSUME NEW r \in Requests, RecordCopies(r) PROVE ArchiveStep
    <2>1. Holds(r) => archive.status # "filed"
      BY <1>2 DEF Inv, RequestInv, DecisionHolds, RecordCopies, Copied, At, Copying
    <2>2. QED
      BY <1>2, <2>1, MarkFacts DEF Inv, Approved, RecordCopies, ArchiveStep
  <1>3. ASSUME NEW r \in Requests, Finish(r) PROVE ArchiveStep
    BY <1>3, MarkFacts DEF Inv, Finish, ArchiveStep
  <1>4. ASSUME NEW r \in Requests, Fail(r) PROVE ArchiveStep
    <2>1. Holds(r) /\ req[r].approved => archive.status # "filed"
      BY <1>4 DEF Inv, RequestInv, DecisionHolds, Fail, At
    <2>2. QED
      BY <1>4, <2>1, MarkFacts DEF Inv, Approved, Fail, MayFail, ArchiveStep
  <1>5. CASE archive' = archive
    BY <1>5 DEF ArchiveStep
  <1>6. QED
    BY <1>1, <1>2, <1>3, <1>4, <1>5 DEF Next, Step, Begin, Acquire, Decide, Confirm, LookUp, UploadAnswered,
       UploadTimesOut, ApplyLabel, Crash, UploadLands, UploadRejected, LeaseElapses, ReviewMail, vars, database

\* An approved message keeps its project and its identity, a filed one stays
\* filed, whatever the interleaving.
THEOREM ArchivesAreKept == Spec => ArchiveIsKept
  <1>1. Inv /\ [Next]_vars => [ArchiveStep]_vars
    BY StepKeepsArchive
  <1>2. QED
    BY <1>1, Invariance, PTL DEF Spec, ArchiveIsKept

-----------------------------------------------------------------------------
(* The lease serializes the uploads *)

\* For a step that leaves the lease and Drive alone.
LEMMA SerialMoving ==
  ASSUME Inv, SerialInv, NEW r \in Requests, Others(r),
         UNCHANGED <<operation, drive>>, ~ overrun' => ~ overrun,
         req'[r].pc \notin {"idle"}, req'[r].pc = "begun" => req[r].pc = "idle",
         req'[r].pc \in Working => req[r].pc \in Working \/ req'[r].pc = "begun",
         req'[r].pc \in Working \ {"begun", "failing"} => req[r].pc \in Working \ {"begun", "failing"},
         \A u \in uploads' : u \in uploads /\ (~ overrun' => u.by # r)
  PROVE  SerialInv'
  <1> USE DEF SerialInv
  <1>1. ASSUME NEW x \in Requests, req'[x].pc \in {"idle", "begun"} PROVE ~ Holds(x)'
    BY <1>1 DEF Others, Holds
  <1>2. Serial'
    <2> SUFFICES ASSUME ~ overrun', ~ overrun PROVE Serial'
      BY DEF Serial
    <2>1. ASSUME NEW x \in Requests, req'[x].pc \in Working \ {"begun", "failing"} PROVE Holds(x)'
      BY <2>1 DEF Others, Holds, Serial
    <2>2. ASSUME NEW x \in Requests, operation'.timer = "elapsed", Holds(x)' PROVE req'[x].pc \notin Working
      BY <2>2, <1>1 DEF Others, Holds, Serial
    <2>3. ASSUME NEW u \in uploads' PROVE At(u.by, "uploading")' /\ drive'[u.archive][u.file] = 0
      <3>1. u \in uploads /\ u.by # r /\ u.by \in Requests
        BY DEF Inv, TypeOK, Uploads
      <3>2. QED
        BY <3>1 DEF Serial, At, Others
    <2>4. NoDuplicateFile'
      BY DEF Serial, NoDuplicateFile
    <2>5. QED
      BY <2>1, <2>2, <2>3, <2>4 DEF Serial
  <1>3. QED
    BY <1>1, <1>2

\* No upload of a request that is not waiting for one is in flight, but of one
\* that has stopped.
LEMMA NotWaiting ==
  ASSUME Inv, NEW r \in Requests, req[r].pc \notin {"failing", "done"},
         ~ At(r, "uploading") \/ Upload(r) \notin uploads
  PROVE  \A u \in uploads : u.by # r
  BY DEF Inv, UploadOwners, At

\* For a step of r that ends its lease.
LEMMA SerialEnding ==
  ASSUME Inv, SerialInv, NEW r \in Requests, Others(r), Holds(r),
         req[r].pc \in Working, ~ At(r, "uploading"),
         \A x \in Requests : ~ Holds(x)', UNCHANGED <<drive, uploads, overrun>>,
         req'[r].pc \in {"failing", "done"}
  PROVE  SerialInv'
  <1> USE DEF SerialInv
  <1> SUFFICES ASSUME ~ overrun PROVE Serial'
    BY DEF Serial
  <1>1. ASSUME NEW x \in Requests PROVE req'[x].pc \notin Working \ {"begun", "failing"}
    <2>1. CASE x = r
      BY <2>1 DEF Working
    <2>2. CASE x # r
      BY <2>2 DEF Others, Holds, Serial
    <2>3. QED
      BY <2>1, <2>2
  <1>2. ASSUME NEW u \in uploads PROVE At(u.by, "uploading")' /\ drive'[u.archive][u.file] = 0
    <2>1. u.by \in Requests
      BY DEF Inv, TypeOK, Uploads
    <2>2. QED
      BY <2>1 DEF Serial, At, Others
  <1>3. NoDuplicateFile'
    BY DEF Serial, NoDuplicateFile
  <1>4. QED
    BY <1>1, <1>2, <1>3 DEF Serial

LEMMA SerialAcquire ==
  ASSUME Inv, SerialInv, NEW r \in Requests, Acquire(r)
  PROVE  SerialInv'
  <1> USE DEF SerialInv
  <1>1. Others(r) /\ req'[r].pc \in {"leased", "done"} /\ req[r].pc = "begun"
    BY GoFacts DEF Inv, Acquire, Working, At
  <1>2. CASE ~ Available
    <2>1. req'[r].pc = "done" /\ uploads' = uploads /\ UNCHANGED <<operation, drive, overrun>>
      BY <1>2, GoFacts DEF Acquire, Inv, provider
    <2>2. \A u \in uploads : u.by # r
      BY <1>1, NotWaiting DEF At
    <2>3. QED
      BY <1>1, <2>1, <2>2, SerialMoving DEF Working
  <1>3. CASE Available
    <2>1. /\ req'[r].pc = "leased"
          /\ Holds(r)'
          /\ operation'.timer = "running"
          /\ \A x \in Requests : x # r => ~ Holds(x)'
      BY <1>3, GoFacts DEF Acquire, Inv, Working, Holds
    <2>2. \A x \in Requests : x # r /\ req'[x].pc \in {"idle", "begun"} => ~ Holds(x)'
      BY <2>1
    <2>3. Serial'
      <3> SUFFICES ASSUME ~ overrun PROVE Serial'
        BY DEF Serial, Acquire
      <3>1. ASSUME NEW x \in Requests, x # r PROVE req'[x].pc \notin Working \ {"begun", "failing"}
        BY <1>1, <1>3, <3>1 DEF Others, Serial, Holds, Available
      <3>2. ASSUME NEW u \in uploads PROVE At(u.by, "uploading")' /\ drive'[u.archive][u.file] = 0
        <4>1. u.by \in Requests
          BY DEF Inv, TypeOK, Uploads
        <4>2. QED
          BY <1>1, <4>1 DEF Serial, At, Others, Acquire, provider
      <3>3. NoDuplicateFile'
        BY DEF Serial, NoDuplicateFile, Acquire, provider
      <3>4. QED
        BY <2>1, <3>1, <3>2, <3>3 DEF Serial, Acquire, provider
    <2>4. QED
      BY <2>1, <2>2, <2>3
  <1>4. QED
    BY <1>2, <1>3

LEMMA SerialLookUp ==
  ASSUME Inv, SerialInv, NEW r \in Requests, LookUp(r)
  PROVE  SerialInv'
  <1> USE DEF SerialInv
  <1>1. \A u \in uploads : u.by # r
    BY NotWaiting DEF LookUp, At
  <1>2. UNCHANGED <<operation, drive, overrun>> /\ req[r].pc = "filing" /\ req[r].file \in Files
    BY DEF LookUp, database, At
  <1>3. CASE Go(r, "uploading") /\ uploads' = uploads \cup {Upload(r)} /\ drive[req[r].archive][req[r].file] = 0
    <2>1. Others(r) /\ req'[r].pc = "uploading"
      BY <1>3, GoFacts DEF Inv, Working
    <2>2. \A x \in Requests : req'[x].pc \in {"idle", "begun"} => ~ Holds(x)'
      BY <1>2, <2>1 DEF Others, Holds
    <2>3. Serial'
      <3> SUFFICES ASSUME ~ overrun PROVE Serial'
        BY <1>2 DEF Serial
      <3>1. Holds(r)
        BY <1>2 DEF Serial, Working
      <3>2. ASSUME NEW u \in uploads PROVE FALSE
        <4>1. u.by \in Requests /\ u.by # r
          BY <1>1 DEF Inv, TypeOK, Uploads
        <4>2. QED
          BY <3>1, <4>1 DEF Serial, At, Working, Holds
      <3>3. \A u \in uploads' : u = Upload(r)
        BY <1>3, <3>2
      <3>4. QED
        BY <1>2, <1>3, <2>1, <3>1, <3>3 DEF Serial, At, Others, Upload, Holds, NoDuplicateFile, Working
    <2>4. QED
      BY <2>2, <2>3
  <1>4. CASE uploads' = uploads /\ (NextFile(r) \/ Go(r, "failing"))
    <2>1. Others(r) /\ req'[r].pc \in {"filing", "failing"}
      BY <1>2, <1>4, GoFacts, NextFileFacts DEF Inv, Working
    <2>2. QED
      BY <1>1, <1>2, <1>4, <2>1, SerialMoving DEF Working
  <1>5. QED
    BY <1>3, <1>4 DEF LookUp

LEMMA SerialUploadLands ==
  ASSUME Inv, SerialInv, NEW u \in uploads, UploadLands(u)
  PROVE  SerialInv'
  <1> USE DEF SerialInv
  <1>1. u \in Uploads /\ u.archive \in Ids /\ u.file \in Files /\ u.by \in Requests
    BY DEF Inv, TypeOK, Uploads
  <1>2. /\ drive'[u.archive][u.file] = drive[u.archive][u.file] + 1
        /\ \A i \in Ids, f \in Files : i # u.archive \/ f # u.file => drive'[i][f] = drive[i][f]
    BY <1>1 DEF Inv, TypeOK, UploadLands
  <1>3. UNCHANGED <<operation, overrun, req>> /\ uploads' = uploads \ {u}
    BY DEF UploadLands, database
  <1>4. Serial'
    <2> SUFFICES ASSUME ~ overrun PROVE Serial'
      BY <1>3 DEF Serial
    <2>1. drive[u.archive][u.file] = 0 /\ Holds(u.by) /\ u = Upload(u.by)
      BY <1>1 DEF Serial, At, Working, Inv, UploadOwners
    <2>2. ASSUME NEW v \in uploads' PROVE FALSE
      <3>1. v.by \in Requests /\ Holds(v.by) /\ v = Upload(v.by)
        BY <1>3, <2>2 DEF Inv, TypeOK, Uploads, UploadOwners, Serial, At, Working
      <3>2. v.by = u.by
        BY <2>1, <3>1 DEF Holds
      <3>3. QED
        BY <1>3, <2>1, <2>2, <3>1, <3>2
    <2>3. NoDuplicateFile'
      <3>1. drive'[u.archive][u.file] = 1
        BY <1>2, <2>1
      <3>2. ASSUME NEW i \in Ids, NEW f \in Files PROVE drive'[i][f] <= 1
        BY <1>2, <3>1 DEF Serial, NoDuplicateFile
      <3>3. QED
        BY <3>2 DEF NoDuplicateFile
    <2>4. QED
      BY <1>3, <2>2, <2>3 DEF Serial, Holds
  <1>5. QED
    BY <1>3, <1>4 DEF Holds

LEMMA SerialUploadRejected ==
  ASSUME Inv, SerialInv, NEW u \in uploads, UploadRejected(u)
  PROVE  SerialInv'
  <1>1. u.by \in Requests
    BY DEF Inv, TypeOK, Uploads
  <1>2. UNCHANGED <<operation, drive, overrun>> /\ uploads' = uploads \ {u}
    BY DEF UploadRejected, database
  <1>3. CASE At(u.by, "uploading")
    <2>1. Others(u.by) /\ req'[u.by].pc = "failing"
      BY <1>1, <1>3, GoFacts DEF Inv, UploadRejected, Working
    <2>2. \A v \in uploads' : v \in uploads /\ v.by # u.by
      BY <1>2, <1>3 DEF Inv, UploadOwners, At
    <2>3. QED
      BY <1>1, <1>2, <1>3, <2>1, <2>2, SerialMoving DEF At, Working
  <1>4. CASE ~ At(u.by, "uploading")
    <2>1. overrun
      BY <1>4 DEF SerialInv, Serial
    <2>2. QED
      BY <1>2, <1>4, <2>1 DEF SerialInv, Serial, UploadRejected, Holds
  <1>5. QED
    BY <1>3, <1>4

LEMMA SerialNext == Inv /\ SerialInv /\ [Next]_vars => SerialInv'
  <1> SUFFICES ASSUME Inv, SerialInv, [Next]_vars PROVE SerialInv'
    OBVIOUS
  <1>1. ASSUME NEW r \in Requests, NEW p \in Projects, Begin(r, p) PROVE SerialInv'
    <2>1. Others(r) /\ req[r].pc = "idle" /\ req'[r].pc \in {"begun", "done"}
      BY <1>1 DEF Inv, TypeOK, Locals, Begin, Others, At
    <2>2. \A u \in uploads : u.by # r
      BY <2>1, NotWaiting DEF At
    <2>3. QED
      BY <1>1, <2>1, <2>2, SerialMoving DEF Begin, database, provider, Working
  <1>2. ASSUME NEW r \in Requests, Decide(r) PROVE SerialInv'
    <2>1. Others(r) /\ req[r].pc = "leased" /\ req'[r].pc \in {"failing", "confirming", "approving"}
      BY <1>2 DEF Inv, TypeOK, Locals, Decide, Go, Others, At
    <2>2. \A u \in uploads : u.by # r
      BY <2>1, NotWaiting DEF At
    <2>3. QED
      BY <1>2, <2>1, <2>2, SerialMoving DEF Decide, database, provider, Working
  <1>3. ASSUME NEW r \in Requests, UploadAnswered(r) PROVE SerialInv'
    <2>1. Others(r) /\ req[r].pc = "uploading" /\ req'[r].pc = "filing"
      BY <1>3 DEF Inv, TypeOK, Locals, UploadAnswered, NextFile, Others, At
    <2>2. \A u \in uploads : u.by # r
      BY <1>3, <2>1, NotWaiting DEF At, UploadAnswered
    <2>3. QED
      BY <1>3, <2>1, <2>2, SerialMoving DEF UploadAnswered, database, provider, Working
  <1>4. ASSUME NEW r \in Requests, UploadTimesOut(r) \/ Crash(r) PROVE SerialInv'
    <2>1. Others(r) /\ req[r].pc \in Working /\ req'[r].pc \in {"failing", "done"}
      BY <1>4, GoFacts DEF Inv, UploadTimesOut, Crash, At, Working
    <2>2. /\ ~ overrun' => ~ overrun
          /\ ~ overrun' => ~ (At(r, "uploading") /\ Upload(r) \in uploads)
      BY <1>4 DEF UploadTimesOut, Crash
    <2>3. ~ overrun' => \A u \in uploads : u.by # r
      BY <2>2, NotWaiting DEF SerialInv, Serial, Inv, UploadOwners, At
    <2>4. UNCHANGED <<operation, drive, uploads>>
      BY <1>4 DEF UploadTimesOut, Crash, database, provider
    <2>5. QED
      BY <2>1, <2>2, <2>3, <2>4, SerialMoving DEF Working
  <1>5. ASSUME NEW r \in Requests, Approve(r) \/ RecordCopies(r) \/ ApplyLabel(r) PROVE SerialInv'
    <2>1. /\ Others(r)
          /\ req[r].pc \in {"approving", "filing", "copied"}
          /\ req'[r].pc \in {"filing", "copied", "labelled", "failing"}
      <3>1. CASE \E point \in {"copied", "labelled", "failing"} : Go(r, point)
        BY <1>5, <3>1, GoFacts DEF Inv, Working, Approve, RecordCopies, Copied, ApplyLabel, At
      <3>2. CASE Approve(r) /\ req' = [req EXCEPT ![r].pc = "filing", ![r].approved = TRUE]
        BY <3>2 DEF Inv, TypeOK, Locals, Others, Approve, At
      <3>3. QED
        BY <1>5, <3>1, <3>2 DEF Approve, RecordCopies, ApplyLabel, BatchEnds
    <2>2. \A u \in uploads : u.by # r
      BY <2>1, NotWaiting DEF At
    <2>3. UNCHANGED <<operation, drive, uploads, overrun>>
      BY <1>5 DEF Approve, RecordCopies, ApplyLabel, database, provider
    <2>4. QED
      BY <2>1, <2>2, <2>3, SerialMoving DEF Working
  <1>6. ASSUME NEW r \in Requests, Confirm(r) \/ Finish(r) \/ Fail(r) PROVE SerialInv'
    <2>1. /\ Others(r)
          /\ req[r].pc \in {"confirming", "labelled", "failing"}
          /\ req'[r].pc \in {"done", "failing"}
      BY <1>6, GoFacts DEF Inv, Confirm, Finish, Fail, BatchEnds, At, Working
    <2>2. UNCHANGED <<drive, uploads, overrun>>
      BY <1>6 DEF Confirm, Finish, Fail, provider
    <2>3. operation' = operation \/ (Holds(r) /\ \A x \in Requests : ~ Holds(x)')
      <3>1. CASE \E status \in {"completed", "failed"} : Holds(r) /\ EndLease(status)
        BY <3>1, EndLeaseFacts DEF Inv
      <3>2. operation' = operation \/ \E status \in {"completed", "failed"} : Holds(r) /\ EndLease(status)
        BY <1>6 DEF Confirm, Finish, Fail, MayFail
      <3>3. QED
        BY <3>1, <3>2
    <2>4. CASE operation' = operation
      <3>1. ~ overrun => \A u \in uploads : u.by # r
        BY <2>1 DEF SerialInv, Serial, At
      <3>2. QED
        BY <2>1, <2>2, <2>4, <3>1, SerialMoving DEF Working
    <2>5. CASE Holds(r) /\ \A x \in Requests : ~ Holds(x)'
      BY <2>1, <2>2, <2>5, SerialEnding DEF Working, At
    <2>6. QED
      BY <2>3, <2>4, <2>5
  <1>7. CASE LeaseElapses
    <2>1. \A x \in Requests : Holds(x)' <=> Holds(x)
      BY <1>7 DEF LeaseElapses, Holds, Inv, TypeOK, Operations
    <2>2. ~ overrun' => ~ overrun /\ \A x \in Requests : Holds(x) => req[x].pc \notin Working
      BY <1>7 DEF LeaseElapses
    <2>3. QED
      BY <1>7, <2>1, <2>2 DEF SerialInv, Serial, LeaseElapses, provider, At, NoDuplicateFile
  <1>8. CASE ReviewMail \/ UNCHANGED vars
    BY <1>8 DEF ReviewMail, vars, provider, SerialInv, Serial, Holds, At, NoDuplicateFile
  <1>9. QED
    BY <1>1, <1>2, <1>3, <1>4, <1>5, <1>6, <1>7, <1>8, SerialAcquire, SerialLookUp,
       SerialUploadLands, SerialUploadRejected DEF Next, Step

\* The operation lease does keep two requests from creating one source
\* identity twice, as long as no lease and no upload outlives its caller.
THEOREM LeaseSerializesUploads == Spec => []DuplicatesNeedOverrun
  <1>1. Init => SerialInv
    BY DEF Init, SerialInv, Serial, Holds, NoDuplicateFile, Working
  <1>2. SerialInv => DuplicatesNeedOverrun
    BY DEF SerialInv, Serial, DuplicatesNeedOverrun
  <1>3. QED
    BY <1>1, <1>2, SerialNext, Invariance, PTL DEF Spec

-----------------------------------------------------------------------------
(* The journal *)

\* Steps that record nothing and give nobody an outcome to record.
LEMMA JournalKept ==
  ASSUME JournalInv, UNCHANGED journal,
         (archive'.status = "none") <=> (archive.status = "none"),
         (archive'.status = "filed") <=> (archive.status = "filed"),
         \A x \in Requests : Owing(x)' => Owing(x)
  PROVE  JournalInv'
  BY DEF JournalInv, JournalMatches

\* A request that moves without being approved owes nothing new.
LEMMA OwingKept ==
  ASSUME Inv, NEW r \in Requests, Others(r), req'[r].approved = req[r].approved,
         req[r].pc # "done", \A x \in Requests : Holds(x)' => Holds(x)
  PROVE  \A x \in Requests : Owing(x)' => Owing(x)
  <1>1. req[r].approved => req[r].pc \in Copying \cup {"failing"}
    BY DEF Inv, RequestInv, ApprovedKnows
  <1>2. QED
    BY <1>1 DEF Owing, Others

\* The steps of a request that leave the journal and the archive alone.
LEMMA JournalMoving ==
  ASSUME Inv, JournalInv, NEW r \in Requests, Others(r), req'[r].approved = req[r].approved,
         req[r].pc # "done", UNCHANGED <<archive, operation, journal>>
  PROVE  JournalInv'
  <1>1. \A x \in Requests : Holds(x)' => Holds(x)
    BY DEF Holds
  <1>2. QED
    BY <1>1, OwingKept, JournalKept

\* A taken lease is in the hands of a request that has not been approved.
LEMMA JournalAcquire ==
  ASSUME Inv, JournalInv, NEW r \in Requests, Acquire(r)
  PROVE  JournalInv'
  <1>1. Others(r) /\ req'[r].approved = req[r].approved /\ req[r].pc = "begun"
    BY GoFacts DEF Inv, Working, Acquire, At
  <1>2. UNCHANGED <<archive, journal>>
    BY DEF Acquire
  <1>3. ~ req[r].approved
    BY <1>1 DEF Inv, RequestInv, ApprovedKnows, Copying
  <1>4. \A x \in Requests : x # r => (Holds(x)' => Holds(x))
    BY DEF Acquire, Holds
  <1>5. \A x \in Requests : Owing(x)' => Owing(x)
    BY <1>1, <1>3, <1>4 DEF Owing, Others
  <1>6. QED
    BY <1>2, <1>5, JournalKept

LEMMA JournalApprove ==
  ASSUME Inv, JournalInv, NEW r \in Requests, Approve(r)
  PROVE  JournalInv'
  <1>1. CASE ~ Holds(r)
    <2>1. Go(r, "failing") /\ UNCHANGED <<archive, operation, journal>> /\ req[r].pc = "approving"
      BY <1>1 DEF Approve, At
    <2>2. Others(r) /\ req'[r].approved = req[r].approved
      BY <2>1, GoFacts DEF Inv, Working
    <2>3. QED
      BY <2>1, <2>2, JournalMoving
  <1>2. CASE Holds(r)
    <2>1. archive.status # "filed" /\ archive'.status = "filing"
      BY <1>2 DEF Inv, RequestInv, DecisionHolds, Approve, At
    <2>2. /\ journal'["approved"] = journal["approved"] + 1
          /\ journal'["filed"] = journal["filed"] /\ journal'["failed"] = journal["failed"]
      BY <1>2 DEF Approve, Count, Inv, TypeOK
    <2>3. journal["approved"] \in Nat /\ journal["filed"] \in Nat /\ journal["failed"] \in Nat
      BY DEF Inv, TypeOK
    <2>4. journal["filed"] = 0 /\ journal["approved"] >= journal["filed"] + journal["failed"]
      BY <2>1 DEF JournalInv, JournalMatches
    <2>5. journal'["approved"] > journal'["filed"] + journal'["failed"]
      BY <2>2, <2>3, <2>4
    <2>6. journal'["approved"] >= journal'["filed"] + journal'["failed"] /\ journal'["approved"] # 0
      BY <2>2, <2>3, <2>4
    <2>7. QED
      BY <2>1, <2>2, <2>4, <2>5, <2>6 DEF JournalInv, JournalMatches
  <1>3. QED
    BY <1>1, <1>2

LEMMA JournalRecordCopies ==
  ASSUME Inv, JournalInv, NEW r \in Requests, RecordCopies(r)
  PROVE  JournalInv'
  <1>1. req[r].pc = "filing" /\ UNCHANGED <<operation, journal>>
    BY DEF RecordCopies, Copied, At
  <1>2. Others(r) /\ req'[r].approved = req[r].approved
    BY GoFacts DEF RecordCopies, BatchEnds, Inv, Working
  <1>3. /\ (archive'.status = "none") <=> (archive.status = "none")
        /\ (archive'.status = "filed") <=> (archive.status = "filed")
    <2>1. CASE Holds(r)
      <3>1. archive.status \notin {"none", "filed"}
        BY <1>1, <2>1 DEF Inv, RequestInv, DecisionHolds, ApprovedKnows, Copying
      <3>2. archive'.status \in {archive.status, "drive-complete"}
        BY <2>1, MarkFacts DEF Inv, Approved, RecordCopies
      <3>3. QED
        BY <3>1, <3>2
    <2>2. CASE ~ Holds(r)
      BY <2>2 DEF RecordCopies
    <2>3. QED
      BY <2>1, <2>2
  <1>4. \A x \in Requests : Holds(x)' => Holds(x)
    BY <1>1 DEF Holds
  <1>5. QED
    BY <1>1, <1>2, <1>3, <1>4, OwingKept, JournalKept

\* An outcome is recorded at the price of the approval kept for it.
LEMMA JournalFinish ==
  ASSUME Inv, JournalInv, NEW r \in Requests, Finish(r)
  PROVE  JournalInv'
  <1>0. req[r].pc = "labelled" /\ Others(r) /\ req'[r].approved = req[r].approved
    BY GoFacts DEF Finish, BatchEnds, At, Inv, Working
  <1>1. CASE ~ Holds(r)
    BY <1>0, <1>1, JournalMoving DEF Finish
  <1>2. CASE Holds(r)
    <2>1. Owing(r) /\ archive.status \notin {"none", "filed"} /\ archive.id = req[r].archive
      BY <1>0, <1>2 DEF Inv, RequestInv, DecisionHolds, ApprovedKnows, Copying, Owing
    <2>2. archive'.status = "filed" /\ \A x \in Requests : ~ Holds(x)'
      BY <1>2, <2>1, MarkFacts, EndLeaseFacts DEF Finish, Inv
    <2>3. /\ journal'["approved"] = journal["approved"] /\ journal'["failed"] = journal["failed"]
          /\ journal'["filed"] = journal["filed"] + 1
      BY <1>2 DEF Finish, Count, Inv, TypeOK
    <2>4. journal["approved"] \in Nat /\ journal["filed"] \in Nat /\ journal["failed"] \in Nat
      BY DEF Inv, TypeOK
    <2>5. journal["filed"] = 0 /\ journal["approved"] > journal["filed"] + journal["failed"]
      BY <2>1 DEF JournalInv, JournalMatches
    <2>6. /\ journal'["filed"] = 1 /\ journal'["approved"] # 0
          /\ journal'["approved"] >= journal'["filed"] + journal'["failed"]
      BY <2>3, <2>4, <2>5
    <2>7. QED
      BY <2>2, <2>6 DEF JournalInv, JournalMatches, Owing
  <1>3. QED
    BY <1>1, <1>2

LEMMA JournalFail ==
  ASSUME Inv, JournalInv, NEW r \in Requests, Fail(r)
  PROVE  JournalInv'
  <1>0. req[r].pc = "failing" /\ Others(r) /\ req'[r].approved = req[r].approved
    BY GoFacts DEF Fail, At, Inv, Working
  <1>1. CASE UNCHANGED <<archive, operation, journal>>
    BY <1>0, <1>1, JournalMoving
  <1>2. CASE Holds(r) /\ EndLease("failed") /\ ~ req[r].approved /\ UNCHANGED <<archive, journal>>
    <2>1. \A x \in Requests : ~ Holds(x)'
      BY <1>2, EndLeaseFacts DEF Inv
    <2>2. QED
      BY <1>2, <2>1, JournalKept DEF Owing
  <1>3. CASE Holds(r) /\ EndLease("failed") /\ req[r].approved /\ Mark(r, "failed") /\ Count("failed")
    <2>1. Owing(r) /\ archive.status \notin {"none", "filed"}
      BY <1>0, <1>3 DEF Inv, RequestInv, DecisionHolds, ApprovedKnows, Owing
    <2>2. archive'.status \notin {"none", "filed"} /\ \A x \in Requests : ~ Holds(x)'
      BY <1>3, <2>1, MarkFacts, EndLeaseFacts DEF Inv, Approved
    <2>3. /\ journal'["approved"] = journal["approved"] /\ journal'["filed"] = journal["filed"]
          /\ journal'["failed"] = journal["failed"] + 1
      BY <1>3 DEF Count, Inv, TypeOK
    <2>4. journal["approved"] \in Nat /\ journal["filed"] \in Nat /\ journal["failed"] \in Nat
      BY DEF Inv, TypeOK
    <2>5. journal["filed"] = 0 /\ journal["approved"] > journal["filed"] + journal["failed"]
      BY <2>1 DEF JournalInv, JournalMatches
    <2>6. /\ journal'["filed"] = 0 /\ journal'["approved"] # 0
          /\ journal'["approved"] >= journal'["filed"] + journal'["failed"]
      BY <2>3, <2>4, <2>5
    <2>7. QED
      BY <2>2, <2>6 DEF JournalInv, JournalMatches, Owing
  <1>4. QED
    BY <1>1, <1>2, <1>3 DEF Fail, MayFail

\* The end of an operation another request had finished.
LEMMA JournalConfirm ==
  ASSUME Inv, JournalInv, NEW r \in Requests, Confirm(r)
  PROVE  JournalInv'
  <1>1. Others(r) /\ req'[r].approved = req[r].approved /\ req[r].pc = "confirming"
    BY GoFacts DEF Confirm, At, Inv, Working
  <1>2. UNCHANGED <<archive, journal>>
    BY DEF Confirm
  <1>3. \A x \in Requests : Holds(x)' => Holds(x)
    BY EndLeaseFacts DEF Confirm, Inv, Holds
  <1>4. QED
    BY <1>1, <1>2, <1>3, OwingKept, JournalKept

LEMMA JournalNext == Inv /\ JournalInv /\ [Next]_vars => JournalInv'
  <1> SUFFICES ASSUME Inv, JournalInv, [Next]_vars PROVE JournalInv'
    OBVIOUS
  <1>1. ASSUME NEW r \in Requests,
               \/ \E p \in Projects : Begin(r, p)
               \/ Decide(r) \/ LookUp(r) \/ UploadAnswered(r) \/ UploadTimesOut(r)
               \/ ApplyLabel(r) \/ Crash(r)
        PROVE  JournalInv'
    <2>1. UNCHANGED <<archive, operation, journal>>
      BY <1>1 DEF Begin, Decide, LookUp, UploadAnswered, UploadTimesOut, ApplyLabel, Crash, database
    <2>2. req[r].pc # "done"
      BY <1>1 DEF Begin, Decide, LookUp, UploadAnswered, UploadTimesOut, ApplyLabel, Crash, At, Working
    <2>3. Others(r) /\ req'[r].approved = req[r].approved
      <3>1. \A point \in Working \cup {"idle", "done"} :
              Go(r, point) => Others(r) /\ req'[r].approved = req[r].approved
        BY GoFacts DEF Inv
      <3>2. NextFile(r) => Others(r) /\ req'[r].approved = req[r].approved
        BY DEF NextFile, Others, Inv, TypeOK, Locals
      <3>3. CASE \E p \in Projects : Begin(r, p)
        BY <3>3 DEF Begin, Others, Inv, TypeOK, Locals
      <3>4. CASE Decide(r)
        BY <3>1, <3>4 DEF Decide, Others, Inv, TypeOK, Locals, Working
      <3>5. CASE LookUp(r) \/ UploadAnswered(r)
        BY <3>1, <3>2, <3>5 DEF LookUp, UploadAnswered, Working
      <3>6. CASE UploadTimesOut(r) \/ ApplyLabel(r) \/ Crash(r)
        BY <3>1, <3>6 DEF UploadTimesOut, ApplyLabel, Crash, Working
      <3>7. QED
        BY <1>1, <3>3, <3>4, <3>5, <3>6
    <2>4. QED
      BY <2>1, <2>2, <2>3, JournalMoving
  <1>2. ASSUME NEW u \in uploads, UploadLands(u) \/ UploadRejected(u) PROVE JournalInv'
    <2>1. UNCHANGED <<archive, operation, journal>>
      BY <1>2 DEF UploadLands, UploadRejected, database
    <2>2. CASE UNCHANGED req
      BY <2>1, <2>2, JournalKept DEF Owing, Holds
    <2>3. CASE At(u.by, "uploading") /\ Go(u.by, "failing")
      <3>1. u.by \in Requests
        BY DEF Inv, TypeOK, Uploads
      <3>2. Others(u.by) /\ req'[u.by].approved = req[u.by].approved /\ req[u.by].pc # "done"
        BY <2>3, <3>1, GoFacts DEF Inv, Working, At
      <3>3. QED
        BY <2>1, <3>1, <3>2, JournalMoving
    <2>4. QED
      BY <1>2, <2>2, <2>3 DEF UploadLands, UploadRejected
  <1>3. CASE LeaseElapses
    <2>1. \A x \in Requests : Holds(x)' => Holds(x)
      BY <1>3 DEF LeaseElapses, Holds, Inv, TypeOK, Operations
    <2>2. UNCHANGED <<archive, journal, req>>
      BY <1>3 DEF LeaseElapses
    <2>3. QED
      BY <2>1, <2>2, JournalKept DEF Owing
  <1>4. CASE ReviewMail \/ UNCHANGED vars
    BY <1>4, JournalKept DEF ReviewMail, vars, Owing, Holds
  <1>5. QED
    BY <1>1, <1>2, <1>3, <1>4, JournalAcquire, JournalConfirm, JournalApprove, JournalRecordCopies,
       JournalFinish, JournalFail DEF Next, Step

\* The journal has one "filed" event exactly when the archive is filed, and as
\* many approvals as outcomes at least, for any number of requests and retries.
THEOREM JournalTellsTheTruth == Spec => []JournalMatches
  <1>1. Init => JournalInv
    BY DEF Init, JournalInv, JournalMatches, Owing
  <1>2. JournalInv => JournalMatches
    BY DEF JournalInv
  <1>3. QED
    BY <1>1, <1>2, JournalNext, Invariance, PTL DEF Spec

-----------------------------------------------------------------------------
(* The refinement of Filing *)

LEMMA PromiseInit == Init => Promise!Init
  BY DEF Init, Promise!Init, Phase, InDrive, Ids

\* The copies counted by the promise, when the archive keeps its identity.
LEMMA CopiesKept ==
  ASSUME drive' = drive, archive'.id = archive.id
  PROVE  InDrive' = InDrive
  BY DEF InDrive

\* What the two batches between approval and filing leave of the archive.
LEMMA RecordedOutcome ==
  ASSUME Inv, NEW r \in Requests, RecordCopies(r) \/ Fail(r)
  PROVE  /\ archive'.id = archive.id
         /\ archive'.project = archive.project
         /\ archive.status # "filed" \/ archive' = archive
         /\ archive.status # "none" \/ archive' = archive
         /\ archive' = archive \/ archive'.status \in {archive.status, "drive-complete", "failed"}
  <1>1. CASE archive' = archive
    BY <1>1
  <1>2. CASE Holds(r) /\ req[r].approved /\ \E status \in {"drive-complete", "failed"} : Mark(r, status)
    BY <1>2, MarkFacts DEF Inv, RequestInv, ApprovedKnows, DecisionHolds, Copying, Approved,
                           RecordCopies, Copied, Fail, At
  <1>3. CASE RecordCopies(r)
    <2>1. req[r].approved
      BY <1>3 DEF RecordCopies, Copied, At, Inv, RequestInv, ApprovedKnows, Copying
    <2>2. QED
      BY <1>1, <1>2, <1>3, <2>1 DEF RecordCopies
  <1>4. CASE Fail(r)
    BY <1>1, <1>2, <1>4 DEF Fail, MayFail
  <1>5. QED
    BY <1>3, <1>4

\* What the approval and the closing batch find: an archive that is not filed,
\* and for the second, one that its own request approved.
LEMMA NotFiledYet ==
  ASSUME Inv, NEW r \in Requests, Holds(r)
  PROVE  /\ Approve(r) => archive.status # "filed"
         /\ Finish(r) => /\ archive.status \notin {"none", "filed"}
                         /\ req[r].archive = archive.id /\ req[r].project = archive.project
BY DEF Inv, RequestInv, Chosen, ApprovedKnows, DecisionHolds, Copying, Approve, Finish, At

LEMMA StepIsPromised == Inv /\ [Next]_vars => [Promise!Next]_(Promise!promise)
  <1> SUFFICES ASSUME Inv, [Next]_vars PROVE [Promise!Next]_(Promise!promise)
    OBVIOUS
  <1> USE DEF Promise!promise
  <1>1. ASSUME NEW r \in Requests, Approve(r) PROVE [Promise!Next]_(Promise!promise)
    <2>1. CASE ~ Holds(r)
      BY <1>1, <2>1, CopiesKept DEF Approve, Phase, provider
    <2>2. CASE Holds(r)
      <3>1. /\ archive.status # "filed"
            /\ archive.status # "none" => req[r].archive = archive.id /\ req[r].project = archive.project
            /\ req[r].project \in Projects
        BY <1>1, <2>2 DEF Inv, RequestInv, Chosen, DecisionHolds, Approve, At
      <3>2. /\ archive'.status = "filing"
            /\ archive'.project = req[r].project
            /\ archive.status # "none" => archive'.id = archive.id
            /\ archive.status = "none" => archive'.id = req[r].archive
        BY <1>1, <2>2 DEF Approve
      <3>3. drive' = drive
        BY <1>1 DEF Approve, provider
      <3>4. CASE archive.status = "none"
        <4>1. \A i \in Ids, f \in Files : ~ (drive[i][f] > 0)
          BY <3>4 DEF Inv, SourceIdentity
        <4>2. req[r].archive \in Ids /\ archive.id \in Ids
          BY DEF Inv, TypeOK, Locals, Archives
        <4>3. InDrive = {} /\ InDrive' = {}
          BY <3>2, <3>3, <3>4, <4>1, <4>2 DEF InDrive
        <4>4. Promise!Approve(req[r].project)
          BY <3>2, <3>4, <4>3 DEF Promise!Approve, Phase
        <4>5. QED
          BY <3>1, <4>4 DEF Promise!Next
      <3>5. CASE archive.status # "none"
        BY <3>1, <3>2, <3>3, <3>5, CopiesKept DEF Phase
      <3>6. QED
        BY <3>4, <3>5
    <2>3. QED
      BY <2>1, <2>2
  <1>2. ASSUME NEW u \in uploads, UploadLands(u) PROVE [Promise!Next]_(Promise!promise)
    <2>1. /\ u.archive \in Ids /\ u.file \in Files
          /\ archive.status # "none" /\ u.archive = archive.id
      BY DEF Inv, TypeOK, Uploads, SourceIdentity
    <2>2. archive' = archive
      BY <1>2 DEF UploadLands, database
    <2>3. InDrive' = InDrive \cup {u.file}
      <3>1. drive'[archive.id][u.file] = drive[archive.id][u.file] + 1
        BY <1>2, <2>1 DEF UploadLands, Inv, TypeOK
      <3>2. drive'[archive.id][u.file] > 0
        <4>1. drive[archive.id][u.file] \in Nat
          BY <2>1 DEF Inv, TypeOK
        <4>2. QED
          BY <3>1, <4>1
      <3>3. ASSUME NEW f \in Files, f # u.file PROVE drive'[archive.id][f] = drive[archive.id][f]
        BY <1>2, <2>1, <3>3 DEF UploadLands, Inv, TypeOK
      <3>4. QED
        BY <2>1, <2>2, <3>2, <3>3 DEF InDrive
    <2>4. CASE archive.status = "filed"
      <3>1. u.file \in InDrive
        BY <2>1, <2>4 DEF InDrive, Inv, FiledIsComplete
      <3>2. QED
        BY <2>2, <2>3, <3>1 DEF Phase
    <2>5. CASE archive.status # "filed"
      <3>1. Promise!Copy(u.file)
        BY <2>1, <2>2, <2>3, <2>5 DEF Promise!Copy, Phase
      <3>2. u.file \in Promise!Files
        BY <2>1 DEF Promise!Files, Files
      <3>3. QED
        BY <3>1, <3>2 DEF Promise!Next
    <2>6. QED
      BY <2>4, <2>5
  <1>3. ASSUME NEW r \in Requests, Finish(r) PROVE [Promise!Next]_(Promise!promise)
    <2>1. CASE ~ Holds(r)
      BY <1>3, <2>1, CopiesKept DEF Finish, Phase, provider
    <2>2. CASE Holds(r)
      <3>1. /\ archive.status # "none"
            /\ archive.status # "filed"
            /\ req[r].archive = archive.id
        BY <1>3, <2>2 DEF Inv, RequestInv, ApprovedKnows, DecisionHolds, Copying, Finish, At
      <3>2. /\ archive'.status = "filed"
            /\ archive'.id = archive.id
            /\ archive'.project = archive.project
        BY <1>3, <2>2, <3>1, MarkFacts DEF Inv, Finish
      <3>3. drive' = drive
        BY <1>3 DEF Finish, provider
      <3>4. InDrive = Files
        <4>1. Inv'
          BY <1>3, FinishKeeps
        <4>2. \A f \in Files : drive[archive.id][f] > 0
          BY <3>2, <3>3, <4>1 DEF Inv, FiledIsComplete
        <4>3. QED
          BY <4>2 DEF InDrive
      <3>5. Promise!File
        BY <3>1, <3>2, <3>3, <3>4, CopiesKept DEF Promise!File, Promise!Files, Files, Phase
      <3>6. QED
        BY <3>5 DEF Promise!Next
    <2>3. QED
      BY <2>1, <2>2
  <1>4. ASSUME NEW r \in Requests, RecordCopies(r) \/ Fail(r) PROVE [Promise!Next]_(Promise!promise)
    <2>1. drive' = drive
      BY <1>4 DEF RecordCopies, Fail, provider
    <2>2. QED
      BY <1>4, <2>1, RecordedOutcome, CopiesKept DEF Phase
  <1>5. CASE archive' = archive /\ drive' = drive
    BY <1>5, CopiesKept DEF Phase
  <1>6. QED
    BY <1>1, <1>2, <1>3, <1>4, <1>5 DEF Next, Step, Begin, Acquire, Decide, Confirm, LookUp, UploadAnswered,
       UploadTimesOut, ApplyLabel, Crash, UploadRejected, LeaseElapses, ReviewMail, vars, database, provider

-----------------------------------------------------------------------------
(* The refinement of Triage *)

LEMMA ReviewInit == Init => Review!Init
  BY DEF Init, Review!Init

\* The closing batch files the message and settles its open row at once.
LEMMA FinishReviewed ==
  ASSUME Inv, NEW r \in Requests, Finish(r)
  PROVE  [Review!Next]_(Review!row)
  <1>1. CASE ~ Holds(r)
    BY <1>1 DEF Finish, Review!row
  <1>2. CASE Holds(r)
    <2>1. archive.status # "filed" /\ archive'.status = "filed"
      BY <1>2, NotFiledYet, MarkFacts DEF Inv, Finish
    <2>2. mail'.status = IF mail.status \in {"needs-review", "failed"} THEN "accepted" ELSE mail.status
      BY <1>2 DEF Finish, AcceptMail
    <2>3. Review!File
      BY <2>1, <2>2 DEF Review!File
    <2>4. QED
      BY <2>3 DEF Review!Next
  <1>3. QED
    BY <1>1, <1>2

LEMMA ReviewMailReviewed ==
  ASSUME Inv, ReviewMail
  PROVE  Review!Next
  <1>1. archive' = archive
    BY DEF ReviewMail
  <1>2. \/ /\ mail.status \in {"absent", "needs-review", "failed"}
           /\ mail'.status \in {"needs-review", "failed", "skipped-noise"}
        \/ mail.status = "needs-review" /\ mail'.status \in {"accepted", "dismissed"}
    BY DEF ReviewMail, Inv, TypeOK
  <1>3. QED
    BY <1>1, <1>2 DEF Review!Next, Review!Analyse, Review!Decide

LEMMA StepIsReviewed == Inv /\ [Next]_vars => [Review!Next]_(Review!row)
  <1> SUFFICES ASSUME Inv, [Next]_vars PROVE [Review!Next]_(Review!row)
    OBVIOUS
  <1>1. ASSUME NEW r \in Requests, Approve(r) PROVE UNCHANGED Review!row
    <2>1. mail' = mail /\ (~ Holds(r) => archive' = archive)
      BY <1>1 DEF Approve
    <2>2. Holds(r) => archive.status # "filed" /\ archive'.status # "filed"
      BY <1>1, NotFiledYet DEF Approve
    <2>3. QED
      BY <2>1, <2>2 DEF Review!row
  <1>2. ASSUME NEW r \in Requests, RecordCopies(r) \/ Fail(r) PROVE UNCHANGED Review!row
    <2>1. mail' = mail
      BY <1>2 DEF RecordCopies, Fail
    <2>2. QED
      BY <1>2, <2>1, RecordedOutcome DEF Review!row
  <1>3. CASE UNCHANGED <<archive, mail>>
    BY <1>3 DEF Review!row
  <1>4. QED
    BY <1>1, <1>2, <1>3, FinishReviewed, ReviewMailReviewed
       DEF Next, Step, Begin, Acquire, Decide, Confirm, LookUp, UploadAnswered, UploadTimesOut,
           ApplyLabel, Crash, UploadLands, UploadRejected, LeaseElapses, vars, database

\* Every behaviour of the filing routes is a behaviour of both promises: one
\* approval, one project, every file before the archive is closed; and the review
\* row is settled in the step that files, after which nothing touches it.
THEOREM FilingKeepsItsPromise == Spec => ImplementsFiling
  <1>1. Spec => Promise!Spec
    BY PromiseInit, StepIsPromised, Invariance, PTL DEF Spec, Promise!Spec
  <1>2. Spec => Review!Spec
    BY ReviewInit, StepIsReviewed, Invariance, PTL DEF Spec, Review!Spec
  <1>3. QED
    BY <1>1, <1>2 DEF ImplementsFiling
=============================================================================
