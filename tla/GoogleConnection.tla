--------------------------- MODULE GoogleConnection ---------------------------
(***************************************************************************)
(* The company's Google connection on D1: the consent callback, the        *)
(* disconnect of a mailbox, the tenant reset, the setup leases under which *)
(* Workspace actions run, and the refresh of access tokens                 *)
(* (app/lib/google-oauth.ts, app/adapters/d1/google-oauth-persistence.ts,  *)
(* google-tenant-reset.ts, workspace-setup-leases.ts).                     *)
(*                                                                         *)
(* One action is one D1 statement or batch, or one provider call.  Every   *)
(* request may fail or be killed between two of them.  A credential is     *)
(* named by the consent attempt whose code exchange issued it.             *)
(***************************************************************************)
EXTENDS Naturals, FiniteSets

CONSTANTS
  Accounts, Domain,   \* Google accounts (one subject, one address), by domain
  Attempts,           \* consent attempts, each with its callback
  Disconnects,        \* disconnect requests
  Actions,            \* Workspace actions that run under a setup lease
  Refreshes,          \* reads of an access token
  Workspace,          \* the connection key of the workspace itself
  None

Keys == Accounts \cup {Workspace}
Work == {<<k, "setup">> : k \in Keys}
Severance == {<<a, "oauth:disconnect">> : a \in Accounts}
OperationKeys == Work \cup Severance
Holders == Disconnects \cup Actions

ASSUME KeysAssumption == Workspace \notin Accounts /\ None \notin Keys
ASSUME NoneAssumption == None \notin Attempts \cup Holders
ASSUME HoldersAssumption == Disconnects \cap Actions = {}

VARIABLES
  rows,        \* google_connections, one per account
  attempts,    \* google_oauth_attempts
  operations,  \* google_drive_operations, by operation key
  grants,      \* external: refresh tokens as Google knows them
  callback, disconnect, action, refresh, reset    \* requests, with their locals

requests == <<callback, disconnect, action, refresh, reset>>
vars == <<rows, attempts, operations, grants, requests>>

Rows == [status : {"absent", "connected", "reauthorization-required", "revoked"},
         id : Attempts \cup {None}, token : Attempts \cup {None},
         revokedBy : Disconnects \cup {None}]
AttemptRows == [consumed : BOOLEAN, expires : {"unused", "ahead", "past", "zero"}]
Operations == [status : {"none", "in-progress", "completed", "failed"},
               holder : Holders \cup {None}, expired : BOOLEAN]
Callbacks == [at : {"idle", "consumed", "exchanged", "resolved", "saving", "saved", "ended"},
              account : Accounts \cup {None}, fresh : BOOLEAN, inTime : BOOLEAN,
              id : Attempts \cup {None}, token : Attempts \cup {None}]
Steps == [at : {"idle", "read", "severed", "answered", "working", "asked", "refused", "ended"},
          account : Accounts \cup {None}, token : Attempts \cup {None}, plain : BOOLEAN]
Resets == [at : {"idle", "read"}, seen : SUBSET (Accounts \X Attempts)]

AbsentRow == [status |-> "absent", id |-> None, token |-> None, revokedBy |-> None]
NoOperation == [status |-> "none", holder |-> None, expired |-> FALSE]
Idle == [at |-> "idle", account |-> None, token |-> None, plain |-> FALSE]
Gone == [Idle EXCEPT !.at = "ended"]
NotCalled == [at |-> "idle", account |-> None, fresh |-> FALSE, inTime |-> FALSE,
              id |-> None, token |-> None]
Returned == [NotCalled EXCEPT !.at = "ended"]
Saved(fresh) == [NotCalled EXCEPT !.at = "saved", !.fresh = fresh]

\* A credential is kept exactly while the row is neither absent nor revoked.
RowsAreWhole ==
  \A a \in Accounts :
    /\ rows[a].token = None <=> rows[a].status \in {"absent", "revoked"}
    /\ rows[a].id = None <=> rows[a].status = "absent"
    /\ rows[a].revokedBy = None <=> rows[a].status # "revoked"

TypeOK ==
  /\ rows \in [Accounts -> Rows] /\ attempts \in [Attempts -> AttemptRows]
  /\ operations \in [OperationKeys -> Operations]
  /\ grants \in [Attempts -> {"none", "live", "dead"}]
  /\ callback \in [Attempts -> Callbacks] /\ disconnect \in [Disconnects -> Steps]
  /\ action \in [Actions -> Steps] /\ refresh \in [Refreshes -> Steps] /\ reset \in Resets
  /\ RowsAreWhole

Init ==
  /\ rows = [a \in Accounts |-> AbsentRow]
  /\ attempts = [t \in Attempts |-> [consumed |-> FALSE, expires |-> "unused"]]
  /\ operations = [k \in OperationKeys |-> NoOperation]
  /\ grants = [t \in Attempts |-> "none"]
  /\ callback = [t \in Attempts |-> NotCalled]
  /\ disconnect = [d \in Disconnects |-> Idle] /\ action = [w \in Actions |-> Idle]
  /\ refresh = [x \in Refreshes |-> Idle] /\ reset = [at |-> "idle", seen |-> {}]

Present(a) == rows[a].status # "absent"

-----------------------------------------------------------------------------
(* google_drive_operations *)

InProgress(op) == op.status = "in-progress"
Held(k, h) == InProgress(operations[k]) /\ operations[k].holder = h
Lease(h) == [status |-> "in-progress", holder |-> h, expired |-> FALSE]

\* A disconnect that Google confirmed is told from one that failed; of a setup
\* lease that is over, nothing asks how it ended.
Completed(d) == [status |-> "completed", holder |-> d, expired |-> FALSE]
Failed == [status |-> "failed", holder |-> None, expired |-> FALSE]

\* A disconnect that outlived its lease is taken for interrupted; a setup lease
\* that ran out is not touched.
Interrupted(keys) ==
  {k \in Severance : k[1] \in keys /\ InProgress(operations[k]) /\ operations[k].expired}
Recovered(keys) ==
  [k \in OperationKeys |-> IF k \in Interrupted(keys) THEN Failed ELSE operations[k]]

\* No operation of the workspace or the mailbox is in progress, once interrupted
\* disconnects are set aside.
Quiet(a) ==
  \A k \in OperationKeys : k[1] \in {Workspace, a} =>
    ~InProgress(operations[k]) \/ k \in Interrupted({a})

EndOperation(k, h, op) ==
  operations' = IF Held(k, h) THEN [operations EXCEPT ![k] = op] ELSE operations

\* Five minutes pass.
LeaseRunsOut(k) ==
  /\ InProgress(operations[k]) /\ ~operations[k].expired
  /\ operations' = [operations EXCEPT ![k].expired = TRUE]
  /\ UNCHANGED <<rows, attempts, grants, requests>>

-----------------------------------------------------------------------------
(* Consent *)

CreateOauthAttempt(t) ==
  /\ attempts[t].expires = "unused"
  /\ attempts' = [attempts EXCEPT ![t].expires = "ahead"]
  /\ UNCHANGED <<rows, operations, grants, requests>>

AttemptExpires(t) ==
  /\ attempts[t].expires = "ahead"
  /\ attempts' = [attempts EXCEPT ![t].expires = "past"]
  /\ UNCHANGED <<rows, operations, grants, requests>>

\* The callback of Google's consent page; a denied consent is consumed too.
ConsumeOauthAttempt(t) ==
  /\ callback[t].at = "idle"
  /\ attempts[t].expires = "ahead" /\ ~attempts[t].consumed
  /\ attempts' = [attempts EXCEPT ![t].consumed = TRUE]
  /\ \E c \in {[NotCalled EXCEPT !.at = "consumed"], Returned} :
       callback' = [callback EXCEPT ![t] = c]
  /\ UNCHANGED <<rows, operations, grants, disconnect, action, refresh, reset>>

\* Google answers the code with the account that consented and, unless it holds
\* that the app has one, a refresh token.
ExchangeAuthorizationCode(t) ==
  /\ callback[t].at = "consumed"
  /\ \E a \in Accounts, fresh \in BOOLEAN :
       /\ callback' = [callback EXCEPT ![t] =
                        [@ EXCEPT !.at = "exchanged", !.account = a, !.fresh = fresh]]
       /\ grants' = IF fresh THEN [grants EXCEPT ![t] = "live"] ELSE grants
  /\ UNCHANGED <<rows, attempts, operations, disconnect, action, refresh, reset>>

SameTenant(a) == \A b \in Accounts : Present(b) => Domain[b] = Domain[a]

\* The mailbox's key: that of its row, or a new one when no other tenant is saved.
ResolveMailbox(t) ==
  /\ callback[t].at = "exchanged"
  /\ Present(callback[t].account) \/ SameTenant(callback[t].account)
  /\ callback' = [callback EXCEPT ![t].at = "resolved"]
  /\ UNCHANGED <<rows, attempts, operations, grants, disconnect, action, refresh, reset>>

\* The row is read to keep its id and, failing a new token, to reuse its own.
FindConnection(t) ==
  LET row == rows[callback[t].account] IN
  /\ callback[t].at = "resolved"
  /\ callback[t].fresh \/ row.status \notin {"absent", "revoked"}
  /\ callback' = [callback EXCEPT ![t] =
       [@ EXCEPT !.at = "saving", !.inTime = attempts[t].expires = "ahead",
                 !.id = IF row.id = None THEN t ELSE row.id,
                 !.token = IF callback[t].fresh THEN t ELSE row.token]]
  /\ UNCHANGED <<rows, attempts, operations, grants, disconnect, action, refresh, reset>>

Authorized(t) == callback[t].inTime /\ attempts[t].consumed /\ attempts[t].expires # "zero"

Reusable(t) ==
  LET row == rows[callback[t].account] IN
  callback[t].fresh \/ (row.status \notin {"absent", "revoked"} /\ row.token = callback[t].token)

\* Mutant: the save does not ask for operations in progress.
FaultySavable(t) == Authorized(t) /\ Reusable(t) /\ SameTenant(callback[t].account)
Savable(t) ==
  /\ Authorized(t) /\ Reusable(t) /\ SameTenant(callback[t].account)
  /\ Quiet(callback[t].account)

SaveConnection(t) ==
  LET a == callback[t].account IN
  /\ callback[t].at = "saving"
  /\ operations' = Recovered({Workspace, a})
  /\ \/ /\ Savable(t)
        /\ rows' = [rows EXCEPT ![a] =
             [status |-> "connected", id |-> IF Present(a) THEN @.id ELSE callback[t].id,
              token |-> callback[t].token, revokedBy |-> None]]
        /\ callback' = [callback EXCEPT ![t] = Saved(@.fresh)]
     \/ /\ ~Savable(t)
        /\ callback' = [callback EXCEPT ![t] = Returned] /\ UNCHANGED rows
  /\ UNCHANGED <<attempts, grants, disconnect, action, refresh, reset>>

CallbackFails(t) ==
  /\ callback[t].at \in {"consumed", "exchanged", "resolved", "saving"}
  /\ callback' = [callback EXCEPT ![t] = Returned]
  /\ UNCHANGED <<rows, attempts, operations, grants, disconnect, action, refresh, reset>>

-----------------------------------------------------------------------------
(* Disconnect *)

\* The token may not decrypt; the local severance goes on without it.
ReadCredential(d, a) ==
  /\ disconnect[d].at = "idle" /\ Present(a)
  /\ \E plain \in {rows[a].token # None, FALSE} :
       disconnect' = [disconnect EXCEPT ![d] =
         [at |-> "read", account |-> a, token |-> rows[a].token, plain |-> plain]]
  /\ UNCHANGED <<rows, attempts, operations, grants, callback, action, refresh, reset>>

Tombstone(row, d) == [row EXCEPT !.status = "revoked", !.token = None, !.revokedBy = d]

Severable(d) ==
  LET a == disconnect[d].account IN
  /\ rows[a].status \notin {"absent", "revoked"} /\ rows[a].token = disconnect[d].token
  /\ Quiet(a)

RevokeConnection(d) ==
  LET a == disconnect[d].account
      own == <<a, "oauth:disconnect">> IN
  /\ disconnect[d].at = "read"
  /\ \/ /\ Severable(d)
        /\ operations' = [Recovered({Workspace, a}) EXCEPT ![own] = Lease(d)]
        /\ rows' = [rows EXCEPT ![a] = Tombstone(@, d)]
        /\ disconnect' = [disconnect EXCEPT ![d].at = "severed"]
     \/ /\ ~Severable(d)
        /\ operations' = Recovered({Workspace, a})
        /\ disconnect' = [disconnect EXCEPT ![d] = Gone]
        /\ UNCHANGED rows
  /\ UNCHANGED <<attempts, grants, callback, action, refresh, reset>>

\* Google revokes the token, or the call fails, perhaps after it was heard.
RevokeAtGoogle(d) ==
  /\ disconnect[d].at = "severed" /\ disconnect[d].plain
  /\ \/ /\ grants' = [grants EXCEPT ![disconnect[d].token] = "dead"]
        /\ \E heard \in BOOLEAN : disconnect' =
             [disconnect EXCEPT ![d] = [@ EXCEPT !.at = "answered", !.plain = heard]]
     \/ /\ disconnect' = [disconnect EXCEPT ![d] = [@ EXCEPT !.at = "answered", !.plain = FALSE]]
        /\ UNCHANGED grants
  /\ UNCHANGED <<rows, attempts, operations, callback, action, refresh, reset>>

\* Mutant: the outcome of the provider call is not looked at.
FaultyRevocationOutcome(d) == Completed(d)
RevocationOutcome(d) == IF disconnect[d].plain THEN Completed(d) ELSE Failed

FinishRevocationOperation(d) ==
  /\ \/ disconnect[d].at = "answered"
     \/ disconnect[d].at = "severed" /\ ~disconnect[d].plain
  /\ EndOperation(<<disconnect[d].account, "oauth:disconnect">>, d, RevocationOutcome(d))
  /\ disconnect' = [disconnect EXCEPT ![d] =
       IF RevocationOutcome(d) = Failed THEN Gone ELSE [@ EXCEPT !.at = "ended"]]
  /\ UNCHANGED <<rows, attempts, grants, callback, action, refresh, reset>>

DisconnectDies(d) ==
  /\ disconnect[d].at \notin {"idle", "ended"}
  /\ disconnect' = [disconnect EXCEPT ![d] = Gone]
  /\ UNCHANGED <<rows, attempts, operations, grants, callback, action, refresh, reset>>

-----------------------------------------------------------------------------
(* Workspace actions under a setup lease *)

ReadRuntimeConfig(w, a) ==
  /\ action[w].at = "idle" /\ rows[a].token # None
  /\ action' = [action EXCEPT ![w] =
       [at |-> "read", account |-> a, token |-> rows[a].token, plain |-> FALSE]]
  /\ UNCHANGED <<rows, attempts, operations, grants, callback, disconnect, refresh, reset>>

\* Mutant: the lease does not ask whether the credential is still the one read.
FaultyFenced(w) == TRUE
Fenced(w) ==
  LET row == rows[action[w].account] IN
  row.status = "connected" /\ row.token = action[w].token

\* The row of the action is keyed by the workspace or by the mailbox.
AcquireWorkspaceSetupLease(w, k) ==
  /\ action[w].at = "read" /\ k[1] \in {Workspace, action[w].account}
  /\ Fenced(w)
  /\ InProgress(operations[k]) => operations[k].expired
  /\ operations' = [operations EXCEPT ![k] = Lease(w)]
  /\ action' = [action EXCEPT ![w].at = "working"]
  /\ UNCHANGED <<rows, attempts, grants, callback, disconnect, refresh, reset>>

\* completeWorkspaceSetupLease and failWorkspaceSetupLease
EndWorkspaceSetupLease(w, k) ==
  /\ action[w].at = "working" /\ k[1] \in {Workspace, action[w].account}
  /\ Held(k, w) \/ \A l \in Work : ~Held(l, w)
  /\ EndOperation(k, w, NoOperation)
  /\ action' = [action EXCEPT ![w] = Gone]
  /\ UNCHANGED <<rows, attempts, grants, callback, disconnect, refresh, reset>>

ActionDies(w) ==
  /\ \/ action[w].at = "read" /\ action' = [action EXCEPT ![w] = Gone]
     \/ action[w].at = "working" /\ action' = [action EXCEPT ![w].at = "ended"]
  /\ UNCHANGED <<rows, attempts, operations, grants, callback, disconnect, refresh, reset>>

-----------------------------------------------------------------------------
(* getGoogleAccessToken *)

AskForAccessToken(x, a) ==
  /\ refresh[x].at = "idle" /\ rows[a].status = "connected"
  /\ refresh' = [refresh EXCEPT ![x] =
       [at |-> "asked", account |-> a, token |-> rows[a].token, plain |-> FALSE]]
  /\ UNCHANGED <<rows, attempts, operations, grants, callback, disconnect, action, reset>>

\* invalid_grant for a token that is dead; any other answer leaves the status.
GoogleAnswers(x) ==
  /\ refresh[x].at = "asked"
  /\ \/ /\ grants[refresh[x].token] = "dead"
        /\ refresh' = [refresh EXCEPT ![x].at = "refused"]
     \/ refresh' = [refresh EXCEPT ![x] = Gone]
  /\ UNCHANGED <<rows, attempts, operations, grants, callback, disconnect, action, reset>>

\* Mutant: whatever token the account has now is marked.
FaultyStillUsed(x) ==
  rows[refresh[x].account].status # "absent" /\ rows[refresh[x].account].revokedBy = None
StillUsed(x) ==
  LET row == rows[refresh[x].account] IN row.token = refresh[x].token /\ row.revokedBy = None

MarkConnectionRefreshFailed(x) ==
  /\ refresh[x].at = "refused"
  /\ rows' = IF StillUsed(x)
               THEN [rows EXCEPT ![refresh[x].account].status = "reauthorization-required"]
               ELSE rows
  /\ refresh' = [refresh EXCEPT ![x] = Gone]
  /\ UNCHANGED <<attempts, operations, grants, callback, disconnect, action, reset>>

\* The owner of the mailbox removes the app from the Google account.
GrantEnds(t) ==
  /\ grants[t] = "live" /\ grants' = [grants EXCEPT ![t] = "dead"]
  /\ UNCHANGED <<rows, attempts, operations, requests>>

-----------------------------------------------------------------------------
(* resetD1GoogleWorkspaceTenant *)

Identities == {<<a, rows[a].id>> : a \in {b \in Accounts : Present(b)}}
AllRevoked == \A a \in Accounts : Present(a) => rows[a].status = "revoked"

ReadTenants ==
  /\ reset.at = "idle" /\ Identities # {} /\ AllRevoked
  /\ reset' = [at |-> "read", seen |-> Identities]
  /\ UNCHANGED <<rows, attempts, operations, grants, callback, disconnect, action, refresh>>

SeenKeys == {Workspace} \cup {i[1] : i \in reset.seen}

\* Mutant: the rows are not asked again in the batch.
FaultySameTombstones == TRUE
SameTombstones == AllRevoked /\ Identities = reset.seen

\* The fence of every statement of the batch; interrupted disconnects of the
\* tenant are set aside by its first statement.
Discardable ==
  /\ SameTombstones
  /\ \A k \in OperationKeys : k[1] \in SeenKeys =>
       ~InProgress(operations[k]) \/ k \in Interrupted(SeenKeys)

ResetTenant ==
  /\ reset.at = "read"
  /\ \/ /\ Discardable
        /\ rows' = [a \in Accounts |-> IF a \in SeenKeys THEN AbsentRow ELSE rows[a]]
        /\ attempts' = [t \in Attempts |->
             IF attempts[t].expires = "unused" THEN attempts[t]
             ELSE [attempts[t] EXCEPT !.expires = "zero"]]
        /\ operations' = [k \in OperationKeys |->
             IF k[1] \in SeenKeys THEN NoOperation ELSE operations[k]]
     \/ /\ ~Discardable
        /\ operations' = IF SameTombstones THEN Recovered(SeenKeys) ELSE operations
        /\ UNCHANGED <<rows, attempts>>
  /\ reset' = [at |-> "idle", seen |-> {}]
  /\ UNCHANGED <<grants, callback, disconnect, action, refresh>>

-----------------------------------------------------------------------------
Next ==
  \/ \E t \in Attempts :
       \/ CreateOauthAttempt(t) \/ AttemptExpires(t) \/ ConsumeOauthAttempt(t)
       \/ ExchangeAuthorizationCode(t) \/ ResolveMailbox(t) \/ FindConnection(t)
       \/ SaveConnection(t) \/ CallbackFails(t) \/ GrantEnds(t)
  \/ \E d \in Disconnects :
       \/ \E a \in Accounts : ReadCredential(d, a)
       \/ RevokeConnection(d) \/ RevokeAtGoogle(d)
       \/ FinishRevocationOperation(d) \/ DisconnectDies(d)
  \/ \E w \in Actions :
       \/ \E a \in Accounts : ReadRuntimeConfig(w, a)
       \/ \E k \in Work : AcquireWorkspaceSetupLease(w, k) \/ EndWorkspaceSetupLease(w, k)
       \/ ActionDies(w)
  \/ \E x \in Refreshes :
       \/ \E a \in Accounts : AskForAccessToken(x, a)
       \/ GoogleAnswers(x) \/ MarkConnectionRefreshFailed(x)
  \/ \E k \in OperationKeys : LeaseRunsOut(k)
  \/ ReadTenants \/ ResetTenant

Spec == Init /\ [][Next]_vars

-----------------------------------------------------------------------------
(* Properties *)

\* While a Workspace action holds its lease, the account it works for keeps the
\* very credential the lease was granted for: neither a disconnect nor a
\* reconnect nor a reset comes between, even when the lease has run out unnoticed.
WorkKeepsItsCredential ==
  \A w \in Actions, k \in Work : Held(k, w) =>
    LET row == rows[action[w].account] IN
    row.token = action[w].token /\ row.status \notin {"absent", "revoked"}

\* Between severance and the end of the provider call, the row is this request's
\* tombstone: no reconnect or reset comes between, and no second disconnect
\* revokes the same credential.
SeveranceHolds ==
  \A d \in Disconnects, k \in Severance : Held(k, d) =>
    rows[k[1]].status = "revoked" /\ rows[k[1]].revokedBy = d

\* Reauthorization is asked for only when Google has refused the credential the
\* row holds now, however late the refusal of an older one is recorded.
ReauthorizationIsDue ==
  \A a \in Accounts : rows[a].status = "reauthorization-required" => grants[rows[a].token] = "dead"

\* A disconnect is recorded as completed only if Google revoked the credential.
CompletionIsTrue ==
  \A k \in Severance : operations[k].status = "completed" =>
    operations[k].holder \in Disconnects /\ grants[disconnect[operations[k].holder].token] = "dead"

\* No consent given to a discarded tenant links an account of the next one.
DiscardedStaysDiscarded ==
  \A a \in Accounts : rows[a].token # None => attempts[rows[a].token].expires # "zero"

\* The inductive invariant.
Issued(t) == callback[t].at \notin {"idle", "consumed"}

TokensAreIssued ==
  /\ \A t \in Attempts : grants[t] # "none" => Issued(t)
  /\ \A a \in Accounts : rows[a].token # None => Issued(rows[a].token)
  /\ \A t \in Attempts : callback[t].token # None => Issued(callback[t].token)
  /\ \A d \in Disconnects : disconnect[d].token # None => Issued(disconnect[d].token)
  /\ \A x \in Refreshes : refresh[x].token # None => Issued(refresh[x].token)

CallbackInv(t) ==
  /\ callback[t].at \in {"exchanged", "resolved", "saving"} => callback[t].account \in Accounts
  /\ callback[t].at = "saving" =>
       /\ callback[t].token # None /\ callback[t].id # None
       /\ callback[t].fresh => callback[t].token = t

DisconnectInv(d) ==
  /\ disconnect[d].at \in {"read", "severed", "answered"} => disconnect[d].account \in Accounts
  /\ disconnect[d].plain => disconnect[d].token # None
  /\ disconnect[d].at = "answered" /\ disconnect[d].plain => grants[disconnect[d].token] = "dead"

ActionInv(w) ==
  /\ action[w].at \in {"read", "working"} => action[w].account \in Accounts
  /\ \A k \in Work : Held(k, w) =>
       /\ action[w].at \in {"working", "ended"} /\ action[w].account \in Accounts
       /\ k[1] \in {Workspace, action[w].account}
       /\ \A l \in Work : Held(l, w) => l = k

RefreshInv(x) ==
  /\ refresh[x].at \in {"asked", "refused"} =>
       refresh[x].account \in Accounts /\ refresh[x].token # None
  /\ refresh[x].at = "refused" => grants[refresh[x].token] = "dead"

CompletedFor(d) ==
  /\ d \in Disconnects /\ disconnect[d].at = "ended" /\ disconnect[d].token # None
  /\ grants[disconnect[d].token] = "dead"
CompletionInv ==
  \A k \in Severance : operations[k].status = "completed" => CompletedFor(operations[k].holder)

Inv ==
  /\ TypeOK /\ TokensAreIssued /\ CompletionInv
  /\ \A t \in Attempts : CallbackInv(t)
  /\ \A d \in Disconnects : DisconnectInv(d)
  /\ \A w \in Actions : ActionInv(w)
  /\ \A x \in Refreshes : RefreshInv(x)
  /\ WorkKeepsItsCredential /\ SeveranceHolds /\ ReauthorizationIsDue /\ DiscardedStaysDiscarded

Link == [a \in Accounts |->
  IF rows[a].status = "absent" THEN None
  ELSE IF rows[a].status = "revoked" THEN Workspace ELSE rows[a].token]
Spent == {t \in Attempts : callback[t].at = "saved" /\ callback[t].fresh}

\* The refinement: callbacks, disconnects and resets change the links only as
\* Tenancy allows, in particular one domain at a time, no credential twice, and
\* discarding only what is wholly disconnected.
Promise == INSTANCE Tenancy WITH Credentials <- Attempts, Unlinked <- None,
                                 Severed <- Workspace, link <- Link, spent <- Spent
ImplementsTenancy == Promise!Spec
=============================================================================
