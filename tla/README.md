# A TLA+ verification of FCI-Brett

FCI-Brett is the operations application of a flooring contractor: clients, leads,
projects, meetings and tasks, an analysed mailbox, and the filing of mail and files
into Google Drive. Its domain code runs in two runtimes:

* the **development Sites runtime** (`worker/`, `app/api/v1`, `app/lib`,
  `app/adapters/d1`): route handlers on Cloudflare Workers over D1 (SQLite). A
  statement is atomic, a `database.batch` is one transaction, and a handler
  interleaves with every other handler at every `await`. The handlers call Google
  Workspace themselves, and an isolate may be killed between any two awaits;
* the **production runtime** (`production-runtime/`, `app/platform`,
  `app/adapters/postgres`): Cloud Run services and jobs over PostgreSQL. Every
  repository call is one `withPostgresTransaction`; when the answer of its COMMIT is
  lost the call throws although the transaction may have taken effect.

In the browser, mounted panels share a GET cache (`app/lib/client-get-cache.ts`) whose
behaviour depends on the order of event-loop tasks and network responses.

The code relies throughout on optimistic protocols: version columns, leases that expire,
guards repeated inside the committing statement, provider calls made idempotent by a key.
They are wrong or right in interleavings of three and more requests that the tests do not
write down. Those protocols are what is modelled here.

Contents: [inventory](#1-inventory), [interactions](#2-how-the-components-interact),
[modules](#3-modules-and-the-code-they-model), [runs](#4-runs),
[fairness](#5-fairness), [proofs](#6-proofs), [findings](#7-findings),
[not modelled](#8-what-is-not-modelled-and-why), [plan](#9-plan).

## 1. Inventory

Paths are relative to `src/app` unless they start elsewhere. `PROJECT.json` lists the
sources of each component and, under `hazards`, the lines where each can go wrong.

### Modelled

| component | state it keeps | operations | what is hard | what makes it correct |
|---|---|---|---|---|
| **Transactional outbox** (`adapters/postgres/outbox-repository.ts`, `application/outbox-drain.ts`) | `outbox_events` rows (status, attempt, version, lease), dead-letter activities | enqueue in the creating transaction; claim; complete; retry or dead-letter; recover an expired lease; the drain loop | runs that outlive their lease, crashes, COMMIT answers lost, effects that land after the caller gave up | attempts bounded, a dead event has evidence, a live lease is ended by its claimant only, completed only after delivery |
| **Gmail filing** (`api/v1/integrations/google/gmail/messages/[messageId]/file/route.ts`, parts of `lib/google-drive.ts`) | `gmail_file_archives`, its artifacts, the operation lease, `mail_items`, events; Drive files; the Gmail label | POST: optimistic reads, lease, re-read, approval, find-or-upload per file, label, closing batch, failure batch | two people file one message to two projects; a lease that runs out under a live request; uploads that land late | a filed message is complete and stays with its project; review row and journal agree; duplicates only after an overrun |
| **Identity and access** (`adapters/postgres/identity-persistence-repository.ts`, `admin-access-persistence-repository.ts`, `application/authorization-*.ts`) | users, roles, memberships, external identities, sessions, invitations | sign-in, redeem an invitation, logout, authorize, set access, disable, invalidate sessions, invite, revoke | commands authorized before and committed after their author lost access; stale reviews; old clock readings | sessions carry exactly their access; an administrator remains; no command outlives its author; no lost update |
| **Client GET cache** (`lib/client-get-cache.ts`, `lib/client-get-hooks.ts`) | cache entries, in-flight promises, mounted readers, the revalidation round and its flags | cached and forced gets, settlement, invalidation with and without notice, mount, unmount, retry, revalidation rounds | responses out of order across invalidations; triggers and mounts inside a round; deadlines | nothing older than the invalidation is kept; nobody waits in vain; every trigger is answered |
| **Google connection** (`lib/google-oauth.ts`, `adapters/d1/google-oauth-persistence.ts`, `google-tenant-reset.ts`, `workspace-setup-leases.ts`) | `google_connections`, `google_oauth_attempts`, `google_drive_operations` | consent attempt and callback, disconnect, setup lease, token refresh, tenant reset | a callback that saves after a disconnect or a reset; a provider call between two batches; refusals of old tokens recorded late | work and severance undisturbed; recorded outcomes true; one domain at a time; discarded tenants stay discarded |
| **Mail review queue** (`api/v1/inbox-analysis/route.ts`, `adapters/d1/mail-item-repository.ts`) | `mail_items`, the sweep's lease, the label catalog | the sweep: reconcile, collect, read, analyse, save, retire, announce; file, accept, dismiss, retry, edit labels | a minute passes between a worker's snapshot and its save; overlapping sweeps; failures counted on snapshots; failures after the commit | a filed message leaves the queue, the provider is paid a bounded number of times, a paid analysis is not replaced by a failure, decisions stand |
| **Google Form lead intake** (`api/v1/integrations/google/forms/leads/route.ts`, `adapters/d1/google-form-lead-intake-repository.ts`) | `google_form_lead_reviews`, the watermark, the intake lease; the Sheet | POST: read the cursor, take the time, read two windows, match, save; decisions; a tenant reset | overlapping scans under old times; a growing and edited Sheet; a response that blocks its batch | nothing up to the cursor is skipped, an answer of no news is true, the cursor moves forward, decisions stay |
| **Business records on PostgreSQL** (`adapters/postgres/creation-idempotency.ts`, the client, project, meeting, lead and task repositories, `application/update-*.ts`) | records with versions, `idempotency_requests`, `outbox_events`, `activity_events`, Form reviews | creation under a key, replay, refusal; versioned edits; project operations; dismissal | COMMIT answers lost, one key for two requests, names and reviews wanted by two, a read and a write in two transactions | one key, one record, one event, one answer; names unique; an edit changes what it patches of what was shown |
| **Drive folder names** (`api/v1/integrations/google/drive/folders/rename/route.ts`, `.../setup/blueprint/route.ts`, `adapters/d1/workspace-blueprints.ts`, `workspace-setup-leases.ts`) | Drive's name of each managed folder, the versioned blueprint, setup leases | rename in both, reconcile in Drive, adopt into the blueprint, generic save | two stores without a transaction; a rename that must be undone; lost answers of both; a lease that runs out | no drift without a cause, true answers, no save of a rename or adoption undoes another's |

### Not modelled

| component | state and operations | what is hard in it | status |
|---|---|---|---|
| **Records on D1** (`adapters/d1/*-repository.ts`) | the same records in the development runtime, with the version predicate in one batch and no keys | concurrent editors | the PostgreSQL side is in Records |
| **First-run import** (`application/first-run-import.ts`) | import rows and status; snapshot, preview, confirm | everything under one lease that can run out | planned: FirstRunImport |
| **Drive provisioning, roots, templates** | folder ids in rows and in Drive | find or create under a lease | planned: Provisioning |
| **Workspace resources, detection of drift** | resource rows; a comparison with Drive | identities of folders that moved | its outcome is the input of FolderRename |
| **Employee request rate limit** (`platform/google-cloud/request-rate-limit.ts`) | token bucket per employee, capped map | clock steps, eviction of the fullest bucket | planned: RateLimit |
| **Schema migrations** (`platform/postgres/production-schema-migrations.ts`) | history table, advisory lock | two runners, lost COMMIT answers | planned: Migrations |
| **Uploads and object storage** (`api/v1/uploads/route.ts`, `adapters/gcs`, `adapters/r2`) | metadata rows and objects | an object without a row, a row without an object | planned: Uploads |
| **Durable job and sync cursor contracts** (`adapters/memory`) | in-memory contract adapters | no caller in either runtime | planned as a refinement target |
| **Production OAuth** (`application/google-workspace-oauth.ts`) | the PostgreSQL port of the connection | not composed by any route | planned as a second implementation of Tenancy |
| **Process lifecycle, pool, readiness** (`platform/google-cloud/foundation-server.ts`) | draining flag, requests in flight, pool | shutdown against requests in flight, bounded close | planned: Shutdown |
| **Employee router and sign-in protocol** | none; cookies and token checks per request | parsing and cryptography; the state behind it is in AccessControl | not planned |
| **Development rate limit** | a fixed window per isolate | thirty sequential lines | beside RateLimit |
| **Sheets mirror** | rows of a spreadsheet, rewritten from the database | formatting; its lease is in GoogleConnection | not planned |
| **Calendar, Chat, Gmail helpers** | none | one provider call with bounded retries | not planned |
| **Settings, labels, filing rules, checklist** | single rows | the version check is that of Records | not planned |
| **Security audit and reader** | append-only rows | written inside AccessControl's transactions | not planned |
| **Assistant** | none | prompts and citation checks over read-only data | not planned |
| **Migration rehearsal** | a scratch database | one-shot and sequential | not planned |
| **User interface** | rendering | its data path is in ClientGetCache | not planned |

## 2. How the components interact

* A **record creation** inserts its `outbox_events` row in the same transaction; **drain
  runs** are separate jobs that only share that table. (Outbox: `Enqueue`; Records:
  `CommitCreation`, whose `events` are the events the outbox starts from.)
* A **filing** takes a lease in `google_drive_operations`, the table in which **setup
  leases** and **disconnects** register too, under different operation keys; it settles the
  `mail_items` row that the **sweep** and the review queue write. (GmailFiling: `ReviewMail`
  stands for the sweep and the people; MailQueue: `File` stands for the filing; both modules
  implement Triage, which says what each may rely on.)
* An **intake** scan puts responses up as reviews; a person accepts one by creating a lead
  from it or dismisses it. (FormLeads: `Decide`; Records: `CreateLead`, `DismissReview`.)
* A **consent callback**, a **disconnect** and a **tenant reset** each ask inside their
  committing batch whether any operation of the mailbox or the workspace is in progress; a
  **Workspace action** asks inside its lease statement whether the credential it read is
  still the connected one. The two guards together are the exclusion. (GoogleConnection:
  `Quiet`, `Fenced`.)
* Every **employee request** is authorized from its session first; an **administrator
  command** reads session, user and role again under an advisory lock, because another
  command may have committed in between. (AccessControl: `Authorize`, `Fence`.)
* A **mutation** in the browser discards cache entries and, by notice, makes mounted panels
  reload; **focus, visibility and navigation** start or join a revalidation round.
  (ClientGetCache: `InvalidateCachedGets`, `Trigger`.)
* A **folder rename** and an **adoption** of a Drive name write one versioned blueprint under
  different leases, and a person may edit either side directly. (FolderRename:
  `EditBlueprint`, `RenameInDrive`.)

## 3. Modules and the code they model

Each component has a detailed module translated from the code and an `MC…` module with
small instances for TLC. Eight also have an abstract specification of what they promise
(Delivery, Filing, Triage, Access, Replica, Tenancy, Intake, OncePerKey), which knows neither
requests in flight nor what they read before, and all have a `…Proofs` module:
GoogleConnection and FolderRename, which both work under setup leases, share
`WorkspaceProofs`; that is why FolderRename's `FoldersSpec`, `FoldersInv` and other general
names carry the module's subject. `PROJECT.json` maps every definition to its source lines. Definitions whose names
begin with `Faulty`, `Leaky` or `Loose` are not used by the specifications: each is a
plausible bug of the definition it precedes, and substituting it makes the property it is
paired with in `PROJECT.json` fail.

A handler is cut into actions at the points where others can come between: one D1 statement
or batch, one PostgreSQL transaction, one provider call, one event-loop task. A call whose
answer may be lost has a disjunct in which its effect happened and the caller sees an error.

### Outbox, Delivery

| model | code |
|---|---|
| `row[e]` | a row of `outbox_events`; `timer` is `available_at` or `lease_expires_at`, running or elapsed |
| `deadLetters` | the activity events written with the dead transition |
| `pc`, `held`, `budget` | a drain run: its place in `drainOutbox`, its claimed event, batches left |
| `inflight`, `delivered` | external: requests to the provider, effects applied (by event key) |
| `Enqueue` | the creating transaction's insert |
| `Launch`, `ReturnEmpty` | a run is executed by hand; with the empty registry that ships it returns at once (`Composed` are the runs with a dispatcher for every event type) |
| `StartDrain` | a composed run recovers at most one expired lease |
| `Claim`, `Complete`, `RetryOrDeadLetter` | `claimAvailable`, `complete`, `retryOrDeadLetter`, each fenced by status and version |
| `CompleteThrows` | `complete` inside the `try`: it throws with or without its commit |
| `Dispatch`, `DispatchSucceeds`, `DispatchFails`, `ProviderApplies` | the dispatch and the provider |
| `Crash`, `TimerElapses` | killed jobs; time |

Abstracted: retry delays and lease lengths (any moment is admitted), `batchSize` 1, `ORDER
BY` (any due event may be claimed), payloads. **Delivery** is the promise: an owed event is
completed only after its effect, or dead-lettered with evidence, once and for good.

### GmailFiling, Filing, Triage

| model | code |
|---|---|
| `archive`, `artifacts`, `operation`, `mail`, `journal` | the rows of one message in D1; `operation.holder` stands for the expiry instant by which a request recognises its own lease |
| `drive`, `uploads`, `labelled` | external: Drive files by source identity, creates on the way, the Gmail label |
| `req[r]` | the locals of a POST |
| `Begin` … `Finish`, `Fail` | the route in order: optimistic reads, lease, second read, approval batch, find-or-upload per file, artifact batch, label, closing batch, the catch block's batch |
| `UploadTimesOut`, `Crash`, `LeaseElapses`, `BatchEnds` | time limits, killed isolates, lost answers |
| `ReviewMail` | what the sweep and the review queue do to an unsettled row |
| `overrun` | history: whether a lease or an upload outlived its caller |

Abstracted: simulation mode; the credential fence of the lease (GoogleConnection models it);
two requests never draw the same millisecond for their leases; Drive's search sees a file
once it is created; the preview GET only reads. **Filing** is the promise: approved for one
project, copied, and filed for good only when all copies exist; **Triage**, shared with
MailQueue, is that of its review row.

### AccessControl, Access

| model | code |
|---|---|
| `users` | `users` with its role and active memberships; `validAfter` is `sessions_valid_after`, `authVersion` is `authorization_version` |
| `identity`, `sessions`, `invitations` | the tables of those names |
| `requests` | administrator requests: what their author reviewed, the session that let them in, the clock at authorization |
| `now`, `Readings`, `ChangeTimes` | one clock; a handler may carry a reading up to `Delay` old into its transaction |
| `SignIn`, `Redeem`, `RedeemLate`, `Logout` | `authenticateEmployeeSession` for known and unknown accounts, `logoutSession` |
| `Review`, `Authorize` | the overview an author decides on; `authorizeSession` |
| `SetUserAccess`, `DisableUser`, `InvalidateUserSessions`, `CreateInvitation`, `RefuseInvitation`, `RevokeInvitation` | the commands, each with the fence `activeAdministratorActor` repeats under the advisory lock |
| `granted` | history: the access a session was opened under |

Abstracted: field links and audit rows; the idle deadline is never moved by the code, so one
lifetime stands for both; the capability check is part of `Authorize`; row locks are not
modelled, a transaction takes effect at its commit and one that PostgreSQL aborts is
`GiveUp`; `registerExternalIdentity` and `createSession` have no caller. **Access** is the
promise: changing a person's access ends that person's sessions in the same instant, only a
live administrator's session does it, and an administrator always remains.

### ClientGetCache, Replica

| model | code |
|---|---|
| `cache[u]` | the `jsonGetCache` entry of a URL: value, freshness, terminal failure, promise in flight |
| `requests[u][s]` | the fetches open for a URL; a slot is the identity of the promise |
| `readers`, `notified` | mounted panels (`useClientLoadState`, the GET hook) and reloads queued as microtasks |
| `census`, `lifecycle` | `revalidateSubscribedCachedGets`: the round, its two flags, lifecycle subscribers |
| `Mount`, `Unmount`, `Retry`, `Reload` | the hooks |
| `ResponseArrives`, `RequestFails`, `BodyIsLost` | settlement in `startJsonGet` with the notices of the request and of the round |
| `Trigger`, `FinishRound` | focus, visibility, navigation; the end of `Promise.allSettled` |
| `InvalidateCachedGets`, `Expire` | mutations of this tab, the time to live |
| `server`, `ServerChanges`, `ServerAnswers` | external: state behind a URL, evaluated between request and response |

A task is one action; microtasks run before the next task (`StackEmpty`). Abstracted: one
URL per panel, the time to live is an `Expire` at any moment, a lifecycle subscriber's own
data. `floor` (the version at the server when a mutation last discarded the URL, or the one
kept since) and `answered` are history variables for the properties. **Replica** is the promise:
of each URL one copy of the server's state, which moves forward or is lost, and of which a
mutation leaves nothing. In it a kept answer becomes the least that may be kept from then on,
so that losing a copy to a failure or a denial never lets an older answer in.

### GoogleConnection, Tenancy

| model | code |
|---|---|
| `rows`, `attempts`, `operations` | `google_connections`, `google_oauth_attempts`, `google_drive_operations` |
| `grants` | external: refresh tokens at Google, named by the consent attempt that issued them |
| `callback`, `disconnect`, `action`, `refresh`, `reset` | requests in flight with their locals |
| `ConsumeOauthAttempt` … `SaveConnection` | the consent callback; `SaveConnection` is the batch with all its guards |
| `ReadCredential`, `RevokeConnection`, `RevokeAtGoogle`, `FinishRevocationOperation` | the disconnect: local severance, the provider call, the recorded outcome |
| `AcquireWorkspaceSetupLease`, `EndWorkspaceSetupLease` | the lease under which some twenty Workspace routes run; one action keyed by the workspace or the mailbox stands for all of them |
| `AskForAccessToken`, `GoogleAnswers`, `MarkConnectionRefreshFailed` | `getGoogleAccessToken` and the recording of a refusal |
| `ReadTenants`, `ResetTenant` | the tenant reset: what the person confirmed, then the batch |
| `…Fails`, `…Dies`, `LeaseRunsOut`, `AttemptExpires`, `GrantEnds` | failures, killed isolates, time, the owner of the mailbox |

Abstracted: an account is one subject, one address and one connection key, which makes
`hasTenantScopedData` unreachable in the callback; integration events; the two reads that
resolve a mailbox are one step; `now`, taken shortly before a batch, is the batch's time,
except in `FindConnection`, where the age of the attempt is read and carried; how an ended
setup lease ended, which nothing asks. Not modelled: simulation mode, the `committing` state
that a first-run import has within one batch, leases without a credential fence. **Tenancy**
is the promise: one domain at a time, no credential linked twice, and only a wholly
disconnected tenant is discarded.

### MailQueue, Triage

| model | code |
|---|---|
| `rows[m]` | a row of `mail_items`: status, the label version it was analysed under, and the attempts its `error_code` counts |
| `filed`, `catalog`, `lease` | the archive says filed; the label catalog's version; the sweep's setup lease |
| `sweeps[s]`, `work[s][m]` | a run of `runInboxAnalysisSweep`: its catalog and progress, and what its workers do with each message, with the snapshot they save from |
| `Begin`, `Reconcile`, `Collect`, `StartWorkers`, `Announce`, `End` | the sweep in order |
| `SkipFiled`, `PassFilter`, `GmailReadFails`, `SkipNoise`, `DailyLimitReached`, `CallProvider`, `AnalysisFails`, `SaveAnalysis`, `LabelsRetired`, `RetireFiled` | a worker's path through one message |
| `SaveFailure`, `SaveDiscoveryFailure`, `SaveAborted`, `Break`, `SaveBroken`, `FailSweep` | the failures that are saved, and those that are not |
| `File`, `Decide`, `RetryFailed`, `EditLabels` | people |
| `Crash`, `LeaseRunsOut` | killed isolates and time |
| `calls`, `lapsed`, `blind`, `overlap` | history: paid calls under the present catalog; saves that did not happen; rows that could not be read; two sweeps at once |

Abstracted: a row's content but for status, version, attempts and three classes of error;
which pages a sweep reads; the Chat card; the daily reservation, which appears as the
choice between `CallProvider` and `DailyLimitReached`. **Triage** is what this module and
GmailFiling promise together of a message's review row: machines rewrite it while it is open,
a person decides what is under review, a filing accepts an open row in the step that files the
message, and what is settled stays settled. Each module implements it with the other's part as
its environment (`ReviewMail` there, `File` here), so neither assumes of the other what the
other does not keep.

### FormLeads, Intake

| model | code |
|---|---|
| `sheet` | external: the responses in the Sheet's rows; `Submit`, `Delete`, `Insert` change it |
| `reviews`, `cursor`, `lease`, `tenant` | `google_form_lead_reviews`, the watermark, the lease, the connection |
| `pc`, `born`, `mark`, `at`, `forward`, `wrapped`, `new`, `moved` | the locals of a scan |
| `Begin`, `Stamp`, `ReadForward`, `ReadWrapped` | the cursor, `processedAt`, the window after it, the window from the top |
| `NoNews`, `Match`, `Refuse`, `Acquire`, `Save`, `Fail`, `Stop` | the comparison, the launch gate, the lease, the batch, the ways to end |
| `Decide`, `LeaseRunsOut`, `ResetTenant` | people, time, the tenant reset |
| `edits`, `overrun`, `strays`, `length` | history |

Abstracted: what a draft says of a response but whether it closes the launch gate (`Real`: a
well-formed response without the test marker; a malformed one closes nothing); equal content and
timestamp are one response, as the fingerprint has it; `Window` is the 25 rows of one scan.
**Intake** is the promise: scans that overlap come to the same as batches one at a time, each of
which puts up only responses nobody has seen, no real one before the launch, and leaves none
behind the cursor; decisions stand; and a reset begins from nothing.

### Records, OncePerKey

| model | code |
|---|---|
| `rows`, `idem`, `reviews`, `events`, `evidence` | committed records, `idempotency_requests`, Form reviews, `outbox_events`, `activity_events` |
| `tx[t]` | a request: what it asked, what it was shown and read, its uncommitted write, its answer |
| `Ask`, `Claim`, `Replay`, `Refuse` | `bindPostgresCreationRequest`, `claimPostgresCreation`, `failPostgresCreation` |
| `CreateClient`, `CreateProject`, `CreateMeeting`, `CreateLead` | `create` of the four repositories |
| `CommitCreation`, `CommitRefusal`, `CommitEdit`, `Abort` | `withPostgresTransaction`; `Heard` is the COMMIT whose answer may be lost |
| `Load`, `FindClient` … `FindTask`, `ExpectedVersion` | what the person was shown, what the handler reads again, the version the statement asks for |
| `UpdateClient` … `RecordFollowUpResult` | the eight versioned statements |
| `TakeName`, `DismissReview` | the unique name of a client; the dismissal of a review |

The transactions are READ COMMITTED, and the locks the code relies on are conditions on the
other open transactions (`KeyHeld`, `RowLocked`, `ReviewLocked`, `NameContested`): a request
that would wait is not enabled, and a deadlock PostgreSQL breaks is an `Abort`. Abstracted:
columns are five groups, values a small set; the fingerprint of a request is the request
itself. **OncePerKey** is the promise: the first request to settle a key decides it for
good, in one step with its record and the event that is owed, and everybody is told that.

### FolderRename

| model | code |
|---|---|
| `drive` | external: the names in Google Drive |
| `blueprint`, `lease` | the stored blueprint with its version; the leases per folder and the one of adoptions |
| `req[r]` | a request with its locals: the version and the names it read, the name it found in Drive |
| `Begin` with `Rename`, `Reconcile`, `Adopt` | the three kinds of request; a reconciliation carries the version and the Drive name that were reviewed |
| `Acquire`, `Verify`, `Look`, `Patch`, `Save`, `Confirm`, `Compensate` | the rename route: lease, the reviewed blueprint, `renameFolder`, the save, the second check, `compensateDriveName` |
| `Check`, `AcquireAdoption`, `SaveAdoption` | the PUT with a reconcile review |
| `Finish`, `FailToComplete`, `Die`, `FolderLeaseRunsOut` | the answer, a release that fails, killed isolates, time |
| `EditBlueprint`, `RenameInDrive` | a generic PUT, which saves a whole submitted blueprint with any number of new names; a person in Drive |
| `alone`, `disturbed` | history: requests nobody has crossed on their folder; folders whose two names something has set apart |

`Patch` and `Save` have a disjunct in which the effect took place and the route hears an
error: the route then takes the rename for not done, or undoes a rename that was saved.
These, a death between the stores and a lease that runs out set the two names apart, and so
may a reconciliation and an adoption of one folder, whose leases differ, and a compensation
that failed. `disturbed` records exactly these causes, and `alone` the requests that answer for
the two names all the same: `Lose` is a request that does not know what it left behind, `Admit`
the failed compensation, which knows and must say so. A request that enters a folder beside the
holder of its lease does not count as crossing it: that the lease lets nobody in beside its
holder is for the properties to find out. Abstracted: parents and contents of the blueprint; siblings, whose
names exclude each other; templates and spreadsheets, which are adopted alike; the simulated
provider.

## 4. Runs

`tlc -workers 2 -config X.cfg M` in this directory; every passing run ends within five
minutes and, together, the passing runs fire every action of every module.

| run | question | bounds |
|---|---|---|
| `outbox` | with crashes, zombies, lost COMMIT answers and late effects, are attempts bounded, is evidence kept, is a live lease ended by its claimant only, and do the rows implement Delivery? | 2 events, 2 composed runs at a time and one with the empty registry, 2 attempts, 2 batches; deadlock checked; 0.7 million states |
| `gmail_filing` | does a message stay with the project that got it, complete, with its review row and journal in agreement, do duplicates need an overrun, and do the requests implement Filing and Triage? | 3 requests, 2 projects, 2 files, symmetry |
| `access` | do administrators who change, disable and sign out each other leave one, are their commands fenced, is nothing lost, and does an invitation let in one person? | 3 people, 1 founder, 1 project, 2 sessions, 1 invitation, 2 requests, clock to 1, lives of 1, readings up to 1 old, 3 versions of a user |
| `cache_one_url` | is nothing kept that is older than an invalidation or an answer kept before, does the cache implement Replica, and does nobody wait on a request that is gone? | 1 URL, 2 panels, 2 open requests, 1 change of the server, symmetry; deadlock checked |
| `cache_rounds` | is every trigger answered by a round, and does every round end? | 1 URL, 2 panels, 1 lifecycle subscriber, 1 open request; deadlock checked |
| `cache_timeout` | does a deadline never poison a cached value, as a comment of `client-get-cache.ts` says? **Violated** | 1 URL, 2 panels, 1 open request, 1 change of the server |
| `google_connection` | are work and severance undisturbed, are the recorded outcomes true, and do the requests implement Tenancy? | 2 accounts of 2 domains, 2 attempts, 2 disconnects, 1 action, 1 refresh, any number of resets, symmetry; 1.4 million states |
| `mail_queue` | does a filed message leave the queue, is the provider paid a bounded number of times, are analyses kept, do sweeps and people implement Triage? | 1 message, 2 sweeps, 2 attempts, 2 label catalogs |
| `form_leads` | is nothing up to the cursor skipped, is an answer of no news true, does the cursor move forward, and do the scans implement Intake? | 3 responses, one of them real, 3 scans, windows of 1 row, a Sheet of 2, clock to 2, 1 reset, 1 edit before it; 1.2 million states |
| `form_leads_deletion` | does scanning skip nothing after a row is deleted, as a test says? **Violated** | 3 responses, 3 scans, windows of 1, a Sheet of 2, 1 edit |
| `records` | is each key decided once with its record and event, are names and reviews taken once, does an edit change only what it patches of what was shown, and do the requests implement OncePerKey? | 3 requests, 5 keys, 6 creations, 10 edits, 5 records to begin with, 1 review, symmetry; 0.5 million states |
| `folder_rename` | is every drift explained, does a request that nobody crossed tell the truth, does no save of a rename or adoption undo another's? | 2 requests, 2 folders, 2 names, 1 whole blueprint saved by hand, symmetry; 2.0 million states |

Most runs check `Inv` (`FoldersInv`), the inductive invariant of the module. Its named conjuncts are the
safety properties a reader looks for first (`AttemptsBounded`, `AdministratorRemains`,
`NamesAreUnique`, `NoFormerTenant`, …); section 6 lists the theorem of each.

**Why the bounds are enough.** Every protocol here excludes *pairs*: a claimant and the run
that takes over, a request and its zombie, two administrators, a callback and a disconnect.
Two actors of each kind reach every such pair, and the third request of `gmail_filing` is the
one that comes after a zombie and a takeover. In `form_leads` the third scan is the one whose
answer shows what the other two left; in `records` three requests are a first attempt, its
repetition and a rival. Messages of a queue do not touch each other (every statement of
`MailQueue` names one), so one message is enough. Two names of two folders are enough for a
stale blueprint to carry another's old name, and a `MaxSaves` of one is a conflict by another hand. Two attempts and two batches are the least with a
non-final and a final one; two files the least with a state between copies; two domains the
least for a wrong tenant; a clock of two ticks lets a session be opened before, at and after
an invalidation. `MaxVersion`, `MaxTime`, `Slots`, `MaxCatalog`, `MaxRows`, `MaxTenant`, `MaxEdits` and
`MaxSaves` are bounds of the models, not of the code; `MaxBatches`, `MaxAttempts` and `Window`
are its configuration. The safety results do not rest on them: section 6 proves them for
all values.

**Symmetry** is used only for safety and refinement properties, over sets whose members the
specification treats alike.

**Deadlock** is checked in the outbox and the cache, which always have a next step. The
requests, sweeps and scans of the others happen once each or within bounds, so those
instances come to rest and their configurations say `CHECK_DEADLOCK FALSE`.

## 5. Fairness

* **Client cache** (`FairSpec`): microtasks run (weak); the 20 s deadline of every fetch, and
  of a lifecycle subscriber's read, ends every request that stays open (strong, since other tasks may come
  in between). Nothing is assumed of the server.
* **Outbox**: none. The drain job is "Source-only and unscheduled"
  (`infrastructure/google-cloud/modules/foundation/deployment.tf:489`), its dispatcher registry
  is empty, and `drainOutbox` returns before it claims anything (`outbox-drain.ts:283`). That
  accepted events are eventually settled is therefore no property of this repository, and none
  is stated; the safety of composed runs is what the module is about.
* The other components are checked for safety only: their progress depends on a person who
  tries again, presses Scan or Retry, or opens the inbox, which no code promises.

## 6. Proofs

`tlapm XProofs.tla` checks, for arbitrary constants satisfying the named assumptions of each
module, every theorem below; no leaf is assumed.

| module | theorems |
|---|---|
| `OutboxProofs` | `TypeCorrect`, `Invariance`, `AttemptsAreBounded`, `DeadLetterHasEvidence`, `LeaseProtectsAttempt`, `OutboxImplementsDelivery` |
| `GmailFilingProofs` | `TypeCorrect`, `Invariance`, `FiledMessagesAreComplete`, `AcceptedOnlyWithArchive`, `ArchivesAreKept`, `LeaseSerializesUploads`, `JournalTellsTheTruth`, `FilingKeepsItsPromise` |
| `AccessControlProofs` | `TypeCorrect`, `Invariance`, `SomeoneAdministers`, `SessionsKeepTheirAccess`, `EntryByInvitation`, `OverviewNeverFails`, `NoCommandOutlivesItsAuthor`, `NoLostUpdate`, `SettledInvitationsStay`, `KeepsThePromise` |
| `ClientGetCacheProofs` | `TypeCorrect`, `NothingOlder`, `NoWaitIsInVain`, `CacheIsAReplica`, `EveryRoundAnswers` |
| `WorkspaceProofs` | of GoogleConnection: `TypeCorrect`, `Invariance`, `WorkIsUndisturbed`, `SeveranceIsUndisturbed`, `ReauthorizationIsAskedWhenDue`, `CompletionsAreTrue`, `DiscardedTenantsStayDiscarded`, `ConnectionKeepsItsPromise`; of FolderRename: `FoldersInvariance`, `FolderAnswersAreTrue`, `SavesKeepTheRest` |
| `MailQueueProofs` | `Invariance`, `FilingsLeaveTheQueue`, `CallsAreBounded`, `AnalysesKept`, `QueueKeepsTriage` |
| `FormLeadsProofs` | `Invariance`, `NothingIsSkipped`, `SilenceMeansNothingNew`, `CursorMovesForward`, `IntakeKeepsItsPromise`, `FormerTenantsStayAway` |
| `RecordsProofs` | `InvHolds`, `OneRecordPerKeyHolds`, `NamesAreUniqueHolds`, `ReviewsDecidedOnceHolds`, `AnswersAreTrueHolds`, `EditsKeepTheRestHolds`, `RecordsImplementOncePerKey` |

**Outbox.** That a version fences one attempt is not visible in any single transition.
`VersionCountsTransitions` says the version is twice the attempt count, plus one outside
processing; `ClaimsAreAttempts` says a worker's claim carries twice its attempt. A matching
version therefore *is* a matching attempt, and `AttemptsAreExclusive` gives the lease property
and the step that completes an event in Delivery; `EffectsAreAccepted` supplies that the effect had been applied.

**Filing.** The route's decision under the lease is stale as soon as it is made, unless the
lease is still held at the next batch. `DecisionHolds` states exactly that: what `Decide`
concluded is true while `Holds(r)`. `CopiedSoFar` turns the file counter into facts about
Drive, and `SourceIdentity` makes them facts about the archive's own identity even when a
zombie did the copying. `SerialInv` is the second invariant, relative to `Inv`: without an
overrun the requests between acquisition and answer are the lease holder alone. `JournalInv`
strengthens `JournalMatches`: a lease holder that approved and has not recorded its outcome
(`Owing`) finds an approval in the journal that no outcome has used yet; the lease makes it the
only such request, so its outcome cannot overdraw the journal. The two refinements share what the
batches do to the archive (`NotFiledYet`, `RecordedOutcome`).

**Access.** `SessionsFollowUsers` says that a session with the user's current authorization
version was granted the user's current access; every command advances the version, so no
change of access can leave one usable. `CommandsFollowUsers` says the same of a reviewed row
and its version, which makes `NoStaleWrite` a statement about all columns. `RowsAreSound`
carries the references between tables. `AdministratorRemains` needs the count inside the
transaction: the proof picks a second administrator from a cardinality above one
(`AnotherAdministrator`).

**Client cache.** Three invariants, each for one property. `Fresh`: what a URL's entry holds,
and the answer of the request in flight, lie between the last invalidation and the server's
present state, the answer not below the value. It carries the refinement too: an answer
that is kept is at least `floor`, which it raises, and every other step keeps, loses or discards
the copy. `Waiting`: whoever waits, waits on an open
request, and an unmounted panel waits for nothing. `Answering`: while a round runs, every
mounted URL is answered, awaited by the round, or owed by a queued one.

**Google connection.** `WorkKeepsItsCredential` and `SeveranceHolds` are inductive together
because every batch that touches a row asks `Quiet`, and every lease asks `Fenced`.
`ReauthorizationIsDue` and `CompletionIsTrue` need that a token in any local variable was
issued before (`TokensAreIssued`) and that a dead grant stays dead, so that an attempt's
identity is a token's identity. `DiscardedStaysDiscarded` rests on the guard `Authorized`,
asked again in the statement that saves: a reset leaves no account with a token and marks
every attempt, and a save by a marked attempt is refused. The refinement adds that a fresh
save spends its attempt and that a reset discards every known account, because the
identities it confirmed are those it finds (`ResetEmpties`).

**Folder names.** No store knows the other, so what a request knows of the two is only as good
as the leases and the version that kept others out. `SnapshotsAreExact` says that a request
whose version is the stored one holds the stored blueprint itself, so that the save of a rename
or an adoption changes one name and replaces the one it knew (`OneNameAtATime`; a generic PUT
saves whatever was submitted). `AloneMeansAlone` and `OrderIsKeptAlone` say that whoever is at
work on a folder that nothing has set apart is the only one. `Standing` then follows such a
request through both stores: up to the PATCH Drive has the name it had, from there to the save
it has the new name and the blueprint the old one, and at the answer both agree, or Drive is as
it was, or the request says that it could not undo its rename and Drive has one of the two names
it knew. The compensation, which writes the name it found without a look, is right for that
reason alone. That the folder's lease keeps others out is used in the step of `Acquire`.
`DriftIsExplained` follows: between the two writes is the only time a folder that nothing
disturbed has two names.

**Mail queue.** `CallsAreCharged` says that every paid call is in the attempts of the row the
present sweep, or the next one, goes by: in the snapshot while a message is in hand
(`RowIsSeen` makes snapshot and row agree on what is not decided), in the stored row
afterwards. `FiledIsWatched` says that a filed message under review has a worker that still
looks at the archive after its save. The bounds hold for a message as long as no save was lost
and no two sweeps overlapped; the history variables name these exceptions. The refinement of
Triage needs none of them: `WorkerWrites` says that whatever a worker saves, and from whatever
snapshot, is a machine's rewriting of an open row (`Machined`) or nothing.

**Form leads.** `Sound` follows a scan from the cursor it read to the batch it saves: what it
has read is still in the Sheet (which only grows while `edits = 0`), and what it will move the
cursor over is known or in its batch. Overlapping scans only add reviews, so that each may
save under an old time. `Held` is the lease, with `overrun` for the scan that outlives it, and
`GateHolds` keeps real responses out of every batch. The refinement maps the save of a scan of the
present tenant to `PutUp`: its batch is what the insert finds absent, and by `Sound` all of
it is in the Sheet and all the cursor passes is known. Whatever else a scan does is stuttering.

**Records.** `LocksHold` and `NamesReserved` speak of uncommitted writes: what open
transactions hold excludes each other, and a name about to be committed is nobody else's.
`SnapshotsAreExact` says that a record at the version an edit has read is the very record it
was shown; this makes the version predicate of the UPDATE a statement about all columns, and
with it `EditsKeepTheRest`. The refinement maps every commit of a creation to `Settle`, every
replay to `Recall`, and all that happens before to stuttering.

**Assumptions** are the named `ASSUME`s of the detailed modules: bounds are naturals (and
positive where the code's defaults are), composed runs are runs, marks such as `NoClaim`, `Nobody` and `None` are
not values, founders exist. No set of requests, people, events, URLs or accounts is assumed
finite: the administrators' count is only used through the cardinalities of the empty set and
of a singleton.

**Only model-checked.** `EveryTriggerLands`: liveness and `ENABLED` are out of the prover's reach. Every other property of a passing run is stated by a theorem.
The proofs of Records do not depend on the choice of intents and edits in `MCRecords`.
Induction over data and `RECURSIVE` operators are not needed so far: the modules declare none.

## 7. Findings

1. **A lost body replaces a cached value** (`cache_timeout`, bug): `response.json().catch(() => null)`
   also catches the deadline, and `null` is stored as a fresh value.
2. **A response is skipped after a deletion** (`form_leads_deletion`, test and code diverge): a
   scan reads the rows after its cursor and what is left of its 25 from the top. A response that
   moves to a row between these windows is never read. The test that says otherwise uses a Sheet
   that the window from the top covers.

`PROJECT.json` quotes the line each one contradicts. Section 8 lists behaviours met on the way
that the models contain and no run singles out.

## 8. What is not modelled, and why

Section 1 lists the components without a module, and those a later module is planned for.
Inside the modelled components the following is left out on purpose:

* **Row locks** (AccessControl): `revokeInvitation` and a redemption can wait for each other;
  PostgreSQL aborts one, which is `GiveUp` or a sign-in that does not happen. That one of them
  is aborted is the database's promise, not the code's.
* **Known behaviours that the models contain.** They are weaker than a first reading of the
  comments suggests, and the properties are stated so as to allow them: an upload whose caller
  gave up may land after the retry has looked, and duplicates a file (`DuplicatesNeedOverrun`
  says that nothing else can); a trigger that joins a round may be answered by a read the
  server evaluated before it; a denial that follows a quiet invalidation may reach no panel; a
  consent given before a disconnect and saved after it reconnects the mailbox; a folder rename
  whose blueprint save took effect without an answer is undone in Drive alone.
* **What a panel shows** (ClientGetCache): the latest *load* of a panel wins, not the latest
  state, so a panel can show the answer of a discarded request until the next trigger. The
  code promises no more, and no property is stated about it yet.
* **Lifecycle subscribers' data**: a subscriber never sets the flag of line 202, so a trigger
  that follows its answer is dropped in the way a joined trigger of a URL is.
* **An operation left in progress** by a killed action (GoogleConnection): only another
  acquisition of the same key takes it over, and an action keyed by one message may never run
  again. Nothing in the code makes it, so there is no liveness to state; the safety side is
  `WorkKeepsItsCredential`.
* **Sizes of answers**: limits on pages and lists (the overview refuses more than 100 users)
  are above what an instance holds.
* **Validation, parsing, encryption, cookies, token verification**: functions of one request.
* **Creation of tasks and of a first contact** (Records): inserts without a key.
* **Folders that are siblings** (FolderRename): their names exclude each other in the blueprint
  and not in Drive; validation refuses such a rename before it begins.
* **Delivery in production** (Outbox): nothing in this repository drains an event; the fairness
  that would settle one is not the code's (section 5).
* **What the intake's properties do not say** (FormLeads): `CursorAdvances` fences a save by the
  time its scan took. A scan delayed between reading the watermark (`route.ts:216-225`) and
  taking that time (228) can still take the cursor back over responses that are known; the
  comment "must never move BACKWARDS" is about the wrapped window. `SilenceIsTrue` is about the
  answer of a scan that found nothing; the same words after a save that inserted nothing
  (`route.ts:369`) are not covered.
* **The activity row of a meeting** (Records) belongs to its project
  (`project-meeting-repository.ts:370`); `evidence` counts it for the meeting.

Three listed hazards have no property: that an accepted event waits for a drain nobody starts,
for the reason above; that an upload which lands late duplicates a file, because the code allows
it; and the COMMIT of a migration whose answer is lost, because its module is only planned. The
rest of what is hard in components without a module is in the third column of section 1.

## 9. Plan

Done: the outbox, the filing, access, the client cache, the Google connection, the mail queue,
the form intake, the records and the folder names. Next, most important first:

1. **Composition of Records and Outbox**: the events a creation owes are those a drain delivers, in
   the way Triage joins GmailFiling and MailQueue.
2. **Provisioning** and **FirstRunImport**, under the leases of GoogleConnection.
3. **Migrations** (advisory lock, history prefix, lost COMMIT answers), **Uploads** (reserve, put if
   absent, finalize), **Shutdown**.
4. **RateLimit**: tokens plus grants never exceed capacity plus refill over the elapsed
   time, proved for every capacity and rate.
5. Second looks: the production OAuth port as a second implementation of Tenancy; row locks in
   access; what panels show; a durable-job contract above Outbox.
