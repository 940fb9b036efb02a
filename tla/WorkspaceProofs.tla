--------------------------- MODULE WorkspaceProofs ---------------------------
(***************************************************************************)
(* Proofs about the two components that work under the setup leases of the *)
(* Workspace.                                                              *)
(*                                                                         *)
(* GoogleConnection, for any accounts, consents, disconnects, actions and  *)
(* refreshes: the inductive invariant Inv, the properties it contains, and *)
(* the refinement of Tenancy.                                              *)
(*                                                                         *)
(* FolderRename, for any folders, names, requests and edits: the inductive *)
(* invariant FoldersInv, the truth of answers, and saves of renames and    *)
(* adoptions that keep what others saved.                                  *)
(***************************************************************************)
EXTENDS GoogleConnection, FolderRename, TLAPS

(***************************************************************************)
(* The Google connection                                                   *)
(***************************************************************************)

USE KeysAssumption, NoneAssumption, HoldersAssumption

-----------------------------------------------------------------------------
(* What each part of the state is changed by *)

LEMMA RowsFrame ==
  ASSUME [Next]_vars
  PROVE  \/ \E t \in Attempts : SaveConnection(t)
         \/ \E d \in Disconnects : RevokeConnection(d)
         \/ \E x \in Refreshes : MarkConnectionRefreshFailed(x)
         \/ ResetTenant
         \/ rows' = rows
  BY DEF Next, vars, requests,
     CreateOauthAttempt, AttemptExpires, ConsumeOauthAttempt, ExchangeAuthorizationCode,
     ResolveMailbox, FindConnection, CallbackFails, GrantEnds, ReadCredential,
     RevokeAtGoogle, FinishRevocationOperation, DisconnectDies, ReadRuntimeConfig,
     AcquireWorkspaceSetupLease, EndWorkspaceSetupLease, ActionDies, AskForAccessToken,
     GoogleAnswers, LeaseRunsOut, ReadTenants

LEMMA AttemptsFrame ==
  ASSUME [Next]_vars
  PROVE  \/ \E t \in Attempts : CreateOauthAttempt(t)
         \/ \E t \in Attempts : AttemptExpires(t)
         \/ \E t \in Attempts : ConsumeOauthAttempt(t)
         \/ ResetTenant
         \/ attempts' = attempts
  BY DEF Next, vars, requests,
     ExchangeAuthorizationCode, ResolveMailbox, FindConnection, SaveConnection,
     CallbackFails, GrantEnds, ReadCredential, RevokeConnection, RevokeAtGoogle,
     FinishRevocationOperation, DisconnectDies, ReadRuntimeConfig,
     AcquireWorkspaceSetupLease, EndWorkspaceSetupLease, ActionDies, AskForAccessToken,
     GoogleAnswers, MarkConnectionRefreshFailed, LeaseRunsOut, ReadTenants

LEMMA OperationsFrame ==
  ASSUME [Next]_vars
  PROVE  \/ \E t \in Attempts : SaveConnection(t)
         \/ \E d \in Disconnects : RevokeConnection(d)
         \/ \E d \in Disconnects : FinishRevocationOperation(d)
         \/ \E w \in Actions, k \in Work : AcquireWorkspaceSetupLease(w, k)
         \/ \E w \in Actions, k \in Work : EndWorkspaceSetupLease(w, k)
         \/ \E k \in OperationKeys : LeaseRunsOut(k)
         \/ ResetTenant
         \/ operations' = operations
  BY DEF Next, vars, requests,
     CreateOauthAttempt, AttemptExpires, ConsumeOauthAttempt, ExchangeAuthorizationCode,
     ResolveMailbox, FindConnection, CallbackFails, GrantEnds, ReadCredential,
     RevokeAtGoogle, DisconnectDies, ReadRuntimeConfig, ActionDies, AskForAccessToken,
     GoogleAnswers, MarkConnectionRefreshFailed, ReadTenants

LEMMA GrantsFrame ==
  ASSUME [Next]_vars
  PROVE  \/ \E t \in Attempts : ExchangeAuthorizationCode(t)
         \/ \E t \in Attempts : GrantEnds(t)
         \/ \E d \in Disconnects : RevokeAtGoogle(d)
         \/ grants' = grants
  BY DEF Next, vars, requests,
     CreateOauthAttempt, AttemptExpires, ConsumeOauthAttempt, ResolveMailbox,
     FindConnection, SaveConnection, CallbackFails, ReadCredential, RevokeConnection,
     FinishRevocationOperation, DisconnectDies, ReadRuntimeConfig,
     AcquireWorkspaceSetupLease, EndWorkspaceSetupLease, ActionDies, AskForAccessToken,
     GoogleAnswers, MarkConnectionRefreshFailed, LeaseRunsOut, ReadTenants, ResetTenant

LEMMA CallbackFrame ==
  ASSUME [Next]_vars
  PROVE  \/ \E t \in Attempts : ConsumeOauthAttempt(t)
         \/ \E t \in Attempts : ExchangeAuthorizationCode(t)
         \/ \E t \in Attempts : ResolveMailbox(t)
         \/ \E t \in Attempts : FindConnection(t)
         \/ \E t \in Attempts : SaveConnection(t)
         \/ \E t \in Attempts : CallbackFails(t)
         \/ callback' = callback
  BY DEF Next, vars, requests,
     CreateOauthAttempt, AttemptExpires, GrantEnds, ReadCredential, RevokeConnection,
     RevokeAtGoogle, FinishRevocationOperation, DisconnectDies, ReadRuntimeConfig,
     AcquireWorkspaceSetupLease, EndWorkspaceSetupLease, ActionDies, AskForAccessToken,
     GoogleAnswers, MarkConnectionRefreshFailed, LeaseRunsOut, ReadTenants, ResetTenant

LEMMA DisconnectFrame ==
  ASSUME [Next]_vars
  PROVE  \/ \E d \in Disconnects, a \in Accounts : ReadCredential(d, a)
         \/ \E d \in Disconnects : RevokeConnection(d)
         \/ \E d \in Disconnects : RevokeAtGoogle(d)
         \/ \E d \in Disconnects : FinishRevocationOperation(d)
         \/ \E d \in Disconnects : DisconnectDies(d)
         \/ disconnect' = disconnect
  BY DEF Next, vars, requests,
     CreateOauthAttempt, AttemptExpires, ConsumeOauthAttempt, ExchangeAuthorizationCode,
     ResolveMailbox, FindConnection, SaveConnection, CallbackFails, GrantEnds,
     ReadRuntimeConfig, AcquireWorkspaceSetupLease, EndWorkspaceSetupLease, ActionDies,
     AskForAccessToken, GoogleAnswers, MarkConnectionRefreshFailed, LeaseRunsOut,
     ReadTenants, ResetTenant

LEMMA ActionFrame ==
  ASSUME [Next]_vars
  PROVE  \/ \E w \in Actions, a \in Accounts : ReadRuntimeConfig(w, a)
         \/ \E w \in Actions, k \in Work : AcquireWorkspaceSetupLease(w, k)
         \/ \E w \in Actions, k \in Work : EndWorkspaceSetupLease(w, k)
         \/ \E w \in Actions : ActionDies(w)
         \/ action' = action
  BY DEF Next, vars, requests,
     CreateOauthAttempt, AttemptExpires, ConsumeOauthAttempt, ExchangeAuthorizationCode,
     ResolveMailbox, FindConnection, SaveConnection, CallbackFails, GrantEnds,
     ReadCredential, RevokeConnection, RevokeAtGoogle, FinishRevocationOperation,
     DisconnectDies, AskForAccessToken, GoogleAnswers, MarkConnectionRefreshFailed,
     LeaseRunsOut, ReadTenants, ResetTenant

LEMMA RefreshFrame ==
  ASSUME [Next]_vars
  PROVE  \/ \E x \in Refreshes, a \in Accounts : AskForAccessToken(x, a)
         \/ \E x \in Refreshes : GoogleAnswers(x)
         \/ \E x \in Refreshes : MarkConnectionRefreshFailed(x)
         \/ refresh' = refresh
  BY DEF Next, vars, requests,
     CreateOauthAttempt, AttemptExpires, ConsumeOauthAttempt, ExchangeAuthorizationCode,
     ResolveMailbox, FindConnection, SaveConnection, CallbackFails, GrantEnds,
     ReadCredential, RevokeConnection, RevokeAtGoogle, FinishRevocationOperation,
     DisconnectDies, ReadRuntimeConfig, AcquireWorkspaceSetupLease, EndWorkspaceSetupLease,
     ActionDies, LeaseRunsOut, ReadTenants, ResetTenant

LEMMA ResetFrame ==
  ASSUME [Next]_vars
  PROVE  \/ ReadTenants
         \/ ResetTenant
         \/ reset' = reset
  BY DEF Next, vars, requests,
     CreateOauthAttempt, AttemptExpires, ConsumeOauthAttempt, ExchangeAuthorizationCode,
     ResolveMailbox, FindConnection, SaveConnection, CallbackFails, GrantEnds,
     ReadCredential, RevokeConnection, RevokeAtGoogle, FinishRevocationOperation,
     DisconnectDies, ReadRuntimeConfig, AcquireWorkspaceSetupLease, EndWorkspaceSetupLease,
     ActionDies, AskForAccessToken, GoogleAnswers, MarkConnectionRefreshFailed, LeaseRunsOut

-----------------------------------------------------------------------------
(* Types *)

LEMMA KeyFacts ==
  /\ Work \cup Severance = OperationKeys
  /\ \A k \in Severance : k[1] \in Accounts /\ k \notin Work /\ k = <<k[1], "oauth:disconnect">>
  /\ \A k \in Work : k \notin Severance
  /\ \A a \in Accounts : <<a, "oauth:disconnect">> \in Severance
  BY DEF OperationKeys, Work, Severance

LEMMA RowsTyped ==
  ASSUME Inv, [Next]_vars
  PROVE  rows' \in [Accounts -> Rows] /\ RowsAreWhole'
  <1> USE DEF Inv, TypeOK, Rows, RowsAreWhole
  <1>1. ASSUME NEW t \in Attempts, SaveConnection(t) PROVE rows' \in [Accounts -> Rows] /\ RowsAreWhole'
    <2> DEFINE a == callback[t].account
               row == [status |-> "connected", id |-> IF Present(a) THEN rows[a].id ELSE callback[t].id,
                       token |-> callback[t].token, revokedBy |-> None]
    <2>1. /\ a \in Accounts
          /\ callback[t].token \in Attempts /\ callback[t].id \in Attempts
      BY <1>1 DEF SaveConnection, CallbackInv, Callbacks
    <2>2. row \in Rows /\ row.token # None /\ row.id # None /\ row.revokedBy = None /\ row.status = "connected"
      BY <2>1 DEF Present
    <2>3. rows' = [rows EXCEPT ![a] = row] \/ rows' = rows
      BY <1>1, <2>1 DEF SaveConnection
    <2> HIDE DEF row, a
    <2>4. QED
      BY <2>1, <2>2, <2>3
  <1>2. ASSUME NEW d \in Disconnects, RevokeConnection(d)
        PROVE  rows' \in [Accounts -> Rows] /\ RowsAreWhole'
    <2> DEFINE a == disconnect[d].account
               row == Tombstone(rows[a], d)
    <2>1. a \in Accounts
      BY <1>2 DEF RevokeConnection, DisconnectInv
    <2>2. CASE rows' = rows
      BY <2>2
    <2>3. CASE Severable(d)
      <3>1. row \in Rows /\ row.token = None /\ row.id # None /\ row.revokedBy = d /\ row.status = "revoked"
        <4>1. rows[a] \in Rows /\ rows[a].status # "absent" /\ rows[a].id # None
          BY <2>1, <2>3 DEF Severable
        <4>2. QED
          BY <4>1 DEF Tombstone
      <3>2. rows' = [rows EXCEPT ![a] = row]
        BY <1>2, <2>1, <2>3 DEF RevokeConnection
      <3> HIDE DEF row, a
      <3>3. d # None
        BY DEF Holders
      <3>4. QED
        BY <2>1, <3>1, <3>2, <3>3
    <2>4. QED
      BY <1>2, <2>2, <2>3 DEF RevokeConnection
  <1>3. ASSUME NEW x \in Refreshes, MarkConnectionRefreshFailed(x)
        PROVE  rows' \in [Accounts -> Rows] /\ RowsAreWhole'
    <2> DEFINE a == refresh[x].account
               row == [rows[a] EXCEPT !.status = "reauthorization-required"]
    <2>1. a \in Accounts /\ refresh[x].token # None
      BY <1>3 DEF MarkConnectionRefreshFailed, RefreshInv
    <2>2. CASE rows' = rows
      BY <2>2
    <2>3. CASE StillUsed(x)
      <3>1. /\ row \in Rows /\ row.token # None /\ row.id # None /\ row.revokedBy = None
            /\ row.status = "reauthorization-required"
        BY <2>1, <2>3 DEF StillUsed
      <3>2. rows' = [rows EXCEPT ![a] = row]
        BY <1>3, <2>1, <2>3 DEF MarkConnectionRefreshFailed
      <3> HIDE DEF row, a
      <3>3. QED
        BY <2>1, <3>1, <3>2
    <2>4. QED
      BY <1>3, <2>2, <2>3 DEF MarkConnectionRefreshFailed
  <1>4. CASE ResetTenant
    BY <1>4 DEF ResetTenant, AbsentRow
  <1>5. CASE rows' = rows
    BY <1>5
  <1>6. QED
    BY <1>1, <1>2, <1>3, <1>4, <1>5, RowsFrame

LEMMA AttemptsTyped ==
  ASSUME Inv, [Next]_vars
  PROVE  attempts' \in [Attempts -> AttemptRows]
  <1> USE DEF Inv, TypeOK, AttemptRows
  <1>1. ASSUME NEW t \in Attempts,
               CreateOauthAttempt(t) \/ AttemptExpires(t) \/ ConsumeOauthAttempt(t)
        PROVE  attempts' \in [Attempts -> AttemptRows]
    <2>1. attempts[t] \in AttemptRows
      OBVIOUS
    <2>2. /\ [attempts[t] EXCEPT !.expires = "ahead"] \in AttemptRows
          /\ [attempts[t] EXCEPT !.expires = "past"] \in AttemptRows
          /\ [attempts[t] EXCEPT !.consumed = TRUE] \in AttemptRows
      BY <2>1
    <2>3. QED
      BY <1>1, <2>2 DEF CreateOauthAttempt, AttemptExpires, ConsumeOauthAttempt
  <1>2. ASSUME ResetTenant PROVE attempts' \in [Attempts -> AttemptRows]
    <2>1. \A t \in Attempts : [attempts[t] EXCEPT !.expires = "zero"] \in AttemptRows
      OBVIOUS
    <2>2. QED
      BY <1>2, <2>1 DEF ResetTenant
  <1>3. QED
    BY <1>1, <1>2, AttemptsFrame

LEMMA RecoveredFacts ==
  ASSUME TypeOK, NEW keys
  PROVE  /\ Recovered(keys) \in [OperationKeys -> Operations]
         /\ \A k \in OperationKeys :
              \/ Recovered(keys)[k] = operations[k]
              \/ k \in Interrupted(keys) /\ Recovered(keys)[k] = Failed
         /\ \A k \in Work : Recovered(keys)[k] = operations[k]
         /\ \A k \in OperationKeys : \A h : Recovered(keys)[k].status = "in-progress" /\ Recovered(keys)[k].holder = h
              => Held(k, h) /\ k \notin Interrupted(keys)
  <1>1. Failed \in Operations /\ Failed.status = "failed"
    BY DEF Failed, Operations
  <1>2. \A k \in OperationKeys : Recovered(keys)[k] = IF k \in Interrupted(keys) THEN Failed ELSE operations[k]
    BY DEF Recovered
  <1>3. \A k \in Work : k \in OperationKeys /\ k \notin Interrupted(keys)
    BY KeyFacts DEF Interrupted
  <1>4. Recovered(keys) \in [OperationKeys -> Operations]
    BY <1>1 DEF Recovered, TypeOK
  <1>5. QED
    BY <1>1, <1>2, <1>3, <1>4 DEF Held, InProgress

LEMMA OperationsTyped ==
  ASSUME Inv, [Next]_vars
  PROVE  operations' \in [OperationKeys -> Operations]
  <1> USE DEF Inv, TypeOK
  <1>1. /\ NoOperation \in Operations /\ Failed \in Operations
        /\ \A h \in Holders : Lease(h) \in Operations /\ Completed(h) \in Operations
    BY DEF NoOperation, Failed, Lease, Completed, Operations
  <1>2. ASSUME NEW t \in Attempts, SaveConnection(t) PROVE operations' \in [OperationKeys -> Operations]
    BY <1>2, RecoveredFacts DEF SaveConnection
  <1>3. ASSUME NEW d \in Disconnects, RevokeConnection(d) PROVE operations' \in [OperationKeys -> Operations]
    <2> DEFINE R == Recovered({Workspace, disconnect[d].account})
    <2>1. R \in [OperationKeys -> Operations] /\ d \in Holders
      BY RecoveredFacts DEF Holders
    <2>2. \/ operations' = R
          \/ operations' = [R EXCEPT ![<<disconnect[d].account, "oauth:disconnect">>] = Lease(d)]
      BY <1>3 DEF RevokeConnection
    <2> HIDE DEF R
    <2>3. QED
      BY <1>1, <2>1, <2>2
  <1>4. ASSUME NEW d \in Disconnects, FinishRevocationOperation(d)
        PROVE  operations' \in [OperationKeys -> Operations]
    BY <1>1, <1>4 DEF FinishRevocationOperation, EndOperation, RevocationOutcome, Holders
  <1>5. ASSUME NEW w \in Actions, NEW k \in Work, AcquireWorkspaceSetupLease(w, k)
        PROVE  operations' \in [OperationKeys -> Operations]
    BY <1>1, <1>5 DEF AcquireWorkspaceSetupLease, Holders
  <1>6. ASSUME NEW w \in Actions, NEW k \in Work, EndWorkspaceSetupLease(w, k)
        PROVE  operations' \in [OperationKeys -> Operations]
    BY <1>1, <1>6 DEF EndWorkspaceSetupLease, EndOperation
  <1>7. ASSUME NEW k \in OperationKeys, LeaseRunsOut(k) PROVE operations' \in [OperationKeys -> Operations]
    BY <1>7 DEF LeaseRunsOut, Operations
  <1>8. CASE ResetTenant
    BY <1>1, <1>8, RecoveredFacts DEF ResetTenant
  <1>9. QED
    BY <1>2, <1>3, <1>4, <1>5, <1>6, <1>7, <1>8, OperationsFrame

LEMMA GrantsTyped ==
  ASSUME Inv, [Next]_vars
  PROVE  grants' \in [Attempts -> {"none", "live", "dead"}]
  BY GrantsFrame DEF Inv, TypeOK, ExchangeAuthorizationCode, GrantEnds, RevokeAtGoogle

LEMMA CallbackTyped ==
  ASSUME Inv, [Next]_vars
  PROVE  callback' \in [Attempts -> Callbacks]
  <1> USE DEF Inv, TypeOK, Callbacks
  <1>1. Returned \in Callbacks /\ NotCalled \in Callbacks /\ [NotCalled EXCEPT !.at = "consumed"] \in Callbacks
    BY DEF Returned, NotCalled
  <1>2. ASSUME NEW t \in Attempts, FindConnection(t) PROVE callback' \in [Attempts -> Callbacks]
    <2> DEFINE row == rows[callback[t].account]
               c == [callback[t] EXCEPT !.at = "saving", !.inTime = attempts[t].expires = "ahead",
                                        !.id = IF row.id = None THEN t ELSE row.id,
                                        !.token = IF callback[t].fresh THEN t ELSE row.token]
    <2>1. callback[t].account \in Accounts /\ row \in Rows
      BY <1>2 DEF FindConnection, CallbackInv
    <2>2. c \in Callbacks
      <3>1. callback[t] \in Callbacks
        OBVIOUS
      <3>2. row.id \in Attempts \cup {None} /\ row.token \in Attempts \cup {None}
        BY <2>1 DEF Rows
      <3> HIDE DEF row
      <3>3. QED
        BY <3>1, <3>2
    <2>3. callback' = [callback EXCEPT ![t] = c]
      BY <1>2 DEF FindConnection
    <2> HIDE DEF c
    <2>4. QED
      BY <2>2, <2>3
  <1>3. ASSUME NEW t \in Attempts, ExchangeAuthorizationCode(t)
        PROVE  callback' \in [Attempts -> Callbacks]
    <2>1. PICK a \in Accounts, fresh \in BOOLEAN :
            callback' = [callback EXCEPT ![t] =
                          [@ EXCEPT !.at = "exchanged", !.account = a, !.fresh = fresh]]
      BY <1>3 DEF ExchangeAuthorizationCode
    <2>2. callback[t] \in Callbacks
      OBVIOUS
    <2>3. [callback[t] EXCEPT !.at = "exchanged", !.account = a, !.fresh = fresh] \in Callbacks
      BY <2>2
    <2>4. QED
      BY <2>1, <2>3
  <1>4. ASSUME NEW t \in Attempts, SaveConnection(t) PROVE callback' \in [Attempts -> Callbacks]
    <2>1. Saved(callback[t].fresh) \in Callbacks
      BY DEF Saved, NotCalled
    <2>2. QED
      BY <1>1, <1>4, <2>1 DEF SaveConnection
  <1>5. ASSUME NEW t \in Attempts, ConsumeOauthAttempt(t) \/ ResolveMailbox(t) \/ CallbackFails(t)
        PROVE  callback' \in [Attempts -> Callbacks]
    BY <1>1, <1>5 DEF ConsumeOauthAttempt, ResolveMailbox, CallbackFails
  <1>6. QED
    BY <1>2, <1>3, <1>4, <1>5, CallbackFrame

LEMMA GoneFacts ==
  /\ Gone \in Steps
  /\ Gone.at = "ended" /\ Gone.account = None /\ Gone.token = None /\ Gone.plain = FALSE
  BY DEF Gone, Idle, Steps

LEMMA DisconnectTyped ==
  ASSUME Inv, [Next]_vars
  PROVE  disconnect' \in [Disconnects -> Steps]
  <1> USE DEF Inv, TypeOK
  <1>1. ASSUME NEW d \in Disconnects, NEW a \in Accounts, ReadCredential(d, a)
        PROVE  disconnect' \in [Disconnects -> Steps]
    <2>1. rows[a].token \in Attempts \cup {None}
      BY DEF Rows
    <2>2. PICK plain \in {rows[a].token # None, FALSE} :
            disconnect' = [disconnect EXCEPT ![d] =
              [at |-> "read", account |-> a, token |-> rows[a].token, plain |-> plain]]
      BY <1>1 DEF ReadCredential
    <2>3. plain \in BOOLEAN
      BY <2>2
    <2>4. [at |-> "read", account |-> a, token |-> rows[a].token, plain |-> plain] \in Steps
      BY <2>1, <2>3 DEF Steps
    <2>5. QED
      BY <2>2, <2>4
  <1>2. ASSUME NEW d \in Disconnects, RevokeConnection(d) \/ DisconnectDies(d)
        PROVE  disconnect' \in [Disconnects -> Steps]
    <2> disconnect[d] \in Steps
      OBVIOUS
    <2>1. [disconnect[d] EXCEPT !.at = "severed"] \in Steps
      BY DEF Steps
    <2>2. QED
      BY <1>2, <2>1, GoneFacts DEF RevokeConnection, DisconnectDies
  <1>3. ASSUME NEW d \in Disconnects, RevokeAtGoogle(d) PROVE disconnect' \in [Disconnects -> Steps]
    <2>1. disconnect[d] \in Steps
      OBVIOUS
    <2>2. \A heard \in BOOLEAN : [disconnect[d] EXCEPT !.at = "answered", !.plain = heard] \in Steps
      BY <2>1 DEF Steps
    <2>3. PICK heard \in BOOLEAN :
            disconnect' = [disconnect EXCEPT ![d] = [@ EXCEPT !.at = "answered", !.plain = heard]]
      BY <1>3 DEF RevokeAtGoogle
    <2>4. QED
      BY <2>2, <2>3
  <1>4. ASSUME NEW d \in Disconnects, FinishRevocationOperation(d)
        PROVE  disconnect' \in [Disconnects -> Steps]
    <2> disconnect[d] \in Steps
      OBVIOUS
    <2>1. [disconnect[d] EXCEPT !.at = "ended"] \in Steps
      BY DEF Steps
    <2>2. QED
      BY <1>4, <2>1, GoneFacts DEF FinishRevocationOperation
  <1>5. QED
    BY <1>1, <1>2, <1>3, <1>4, DisconnectFrame

LEMMA ActionTyped ==
  ASSUME Inv, [Next]_vars
  PROVE  action' \in [Actions -> Steps]
  <1> USE DEF Inv, TypeOK
  <1>1. ASSUME NEW w \in Actions, NEW a \in Accounts, ReadRuntimeConfig(w, a)
        PROVE  action' \in [Actions -> Steps]
    BY <1>1 DEF ReadRuntimeConfig, Steps, Rows
  <1>2. \A w \in Actions : /\ [action[w] EXCEPT !.at = "working"] \in Steps
                            /\ [action[w] EXCEPT !.at = "ended"] \in Steps
    BY DEF Steps
  <1>3. ASSUME NEW w \in Actions, NEW k \in Work,
               AcquireWorkspaceSetupLease(w, k) \/ EndWorkspaceSetupLease(w, k)
        PROVE  action' \in [Actions -> Steps]
    BY <1>2, <1>3, GoneFacts DEF AcquireWorkspaceSetupLease, EndWorkspaceSetupLease
  <1>4. ASSUME NEW w \in Actions, ActionDies(w) PROVE action' \in [Actions -> Steps]
    BY <1>2, <1>4, GoneFacts DEF ActionDies
  <1>5. QED
    BY <1>1, <1>3, <1>4, ActionFrame

LEMMA RefreshTyped ==
  ASSUME Inv, [Next]_vars
  PROVE  refresh' \in [Refreshes -> Steps]
  <1> USE DEF Inv, TypeOK
  <1>1. ASSUME NEW x \in Refreshes, NEW a \in Accounts, AskForAccessToken(x, a)
        PROVE  refresh' \in [Refreshes -> Steps]
    BY <1>1 DEF AskForAccessToken, Steps, Rows
  <1>2. ASSUME NEW x \in Refreshes, GoogleAnswers(x) \/ MarkConnectionRefreshFailed(x)
        PROVE  refresh' \in [Refreshes -> Steps]
    <2>1. [refresh[x] EXCEPT !.at = "refused"] \in Steps
      BY DEF Steps
    <2>2. QED
      BY <1>2, <2>1, GoneFacts DEF GoogleAnswers, MarkConnectionRefreshFailed
  <1>3. QED
    BY <1>1, <1>2, RefreshFrame

LEMMA ResetTyped ==
  ASSUME Inv, [Next]_vars
  PROVE  reset' \in Resets
  <1>1. ASSUME ReadTenants PROVE reset' \in Resets
    <2>1. \A a \in Accounts : Present(a) => rows[a].id \in Attempts
      BY DEF Inv, TypeOK, RowsAreWhole, Rows, Present
    <2>2. Identities \in SUBSET (Accounts \X Attempts)
      BY <2>1 DEF Identities
    <2>3. QED
      BY <1>1, <2>2 DEF ReadTenants, Resets
  <1>2. QED
    BY <1>1, ResetFrame DEF Inv, TypeOK, ResetTenant, Resets

LEMMA TypesKept == Inv /\ [Next]_vars => TypeOK'
  BY RowsTyped, AttemptsTyped, OperationsTyped, GrantsTyped, CallbackTyped, DisconnectTyped,
     ActionTyped, RefreshTyped, ResetTyped DEF TypeOK

-----------------------------------------------------------------------------
(* What a step can do to one row, one operation, one token *)

LEMMA InterruptedFacts ==
  ASSUME NEW keys
  PROVE  \A k \in Interrupted(keys) : k \in Severance /\ k \notin Work /\ InProgress(operations[k])
  BY KeyFacts DEF Interrupted

\* Nothing is in progress for a quiet account, apart from interrupted disconnects.
LEMMA QuietFacts ==
  ASSUME NEW a \in Accounts, Quiet(a)
  PROVE  /\ \A k \in Work : k[1] \in {Workspace, a} => ~ InProgress(operations[k])
         /\ \A k \in Severance : k[1] = a /\ InProgress(operations[k]) => k \in Interrupted({Workspace, a})
  BY KeyFacts DEF Quiet, Interrupted

SavesRow(t, a) ==
  /\ SaveConnection(t) /\ Savable(t) /\ callback[t].account = a
  /\ callback[t].token \in Attempts /\ Issued(callback[t].token)
  /\ rows'[a].status = "connected" /\ rows'[a].token = callback[t].token /\ rows'[a].revokedBy = None
SeversRow(d, a) ==
  /\ RevokeConnection(d) /\ Severable(d) /\ disconnect[d].account = a
  /\ rows'[a].status = "revoked" /\ rows'[a].token = None /\ rows'[a].revokedBy = d
MarksRow(x, a) ==
  /\ MarkConnectionRefreshFailed(x) /\ StillUsed(x) /\ refresh[x].account = a
  /\ rows'[a].status = "reauthorization-required"
  /\ rows'[a].token = rows[a].token /\ rows'[a].revokedBy = rows[a].revokedBy
DiscardsRow(a) ==
  /\ ResetTenant /\ Discardable /\ a \in SeenKeys /\ Present(a)
  /\ rows[a].status = "revoked" /\ rows'[a] = AbsentRow

LEMMA RowSteps ==
  ASSUME Inv, [Next]_vars, NEW a \in Accounts
  PROVE  \/ rows'[a] = rows[a]
         \/ \E t \in Attempts : SavesRow(t, a)
         \/ \E d \in Disconnects : SeversRow(d, a)
         \/ \E x \in Refreshes : MarksRow(x, a)
         \/ DiscardsRow(a)
  <1> USE DEF Inv, TypeOK
  <1>1. ASSUME NEW t \in Attempts, SaveConnection(t) PROVE rows'[a] = rows[a] \/ SavesRow(t, a)
    <2>1. callback[t].account \in Accounts /\ callback[t].token \in Attempts
      BY <1>1 DEF SaveConnection, CallbackInv, Callbacks
    <2>2. Issued(callback[t].token)
      BY <2>1 DEF TokensAreIssued
    <2>3. QED
      BY <1>1, <2>1, <2>2 DEF SaveConnection, SavesRow
  <1>2. ASSUME NEW d \in Disconnects, RevokeConnection(d) PROVE rows'[a] = rows[a] \/ SeversRow(d, a)
    <2>1. disconnect[d].account \in Accounts
      BY <1>2 DEF RevokeConnection, DisconnectInv
    <2>2. rows[a] \in Rows
      OBVIOUS
    <2>3. /\ Tombstone(rows[a], d).status = "revoked"
          /\ Tombstone(rows[a], d).token = None
          /\ Tombstone(rows[a], d).revokedBy = d
      BY <2>2 DEF Rows, Tombstone
    <2>4. QED
      BY <1>2, <2>1, <2>3 DEF RevokeConnection, SeversRow
  <1>3. ASSUME NEW x \in Refreshes, MarkConnectionRefreshFailed(x) PROVE rows'[a] = rows[a] \/ MarksRow(x, a)
    <2>1. refresh[x].account \in Accounts
      BY <1>3 DEF MarkConnectionRefreshFailed, RefreshInv
    <2>2. rows[a] \in Rows
      OBVIOUS
    <2>3. QED
      BY <1>3, <2>1, <2>2 DEF MarkConnectionRefreshFailed, MarksRow, Rows
  <1>4. ASSUME ResetTenant PROVE rows'[a] = rows[a] \/ DiscardsRow(a)
    <2>1. ASSUME Discardable, a \in SeenKeys PROVE rows'[a] = rows[a] \/ DiscardsRow(a)
      <3>1. Present(a) => rows[a].status = "revoked"
        BY <2>1 DEF Discardable, SameTombstones, AllRevoked
      <3>2. Present(a) /\ rows' = [b \in Accounts |-> IF b \in SeenKeys THEN AbsentRow ELSE rows[b]]
        <4>1. a # Workspace
          OBVIOUS
        <4>2. PICK i \in Identities : a = i[1]
          BY <2>1, <4>1 DEF Discardable, SameTombstones, SeenKeys
        <4>3. Present(a)
          BY <4>2 DEF Identities
        <4>4. QED
          BY <1>4, <2>1, <4>3 DEF ResetTenant
      <3>3. QED
        BY <1>4, <2>1, <3>1, <3>2 DEF DiscardsRow
    <2>2. QED
      BY <1>4, <2>1 DEF ResetTenant
  <1>5. QED
    BY <1>1, <1>2, <1>3, <1>4, RowsFrame

\* When a tenant is discarded, no row is left.
LEMMA ResetEmpties ==
  ASSUME Inv, ResetTenant, Discardable
  PROVE  \A a \in Accounts : rows'[a] = AbsentRow /\ (Present(a) => a \in SeenKeys)
  <1>1. ASSUME NEW a \in Accounts PROVE rows'[a] = AbsentRow /\ (Present(a) => a \in SeenKeys)
    <2>1. ASSUME Present(a) PROVE a \in SeenKeys
      <3>1. <<a, rows[a].id>> \in reset.seen
        BY <2>1 DEF Discardable, SameTombstones, Identities
      <3>2. <<a, rows[a].id>>[1] = a
        OBVIOUS
      <3>3. QED
        BY <3>1, <3>2 DEF SeenKeys
    <2>2. ~ Present(a) => rows[a] = AbsentRow
      <3>1. rows[a] \in Rows
        BY DEF Inv, TypeOK
      <3>2. QED
        BY <3>1 DEF Inv, TypeOK, RowsAreWhole, Present, Rows, AbsentRow
    <2>3. QED
      BY <2>1, <2>2 DEF ResetTenant
  <1>2. QED
    BY <1>1

SetupBegins(w, k) == AcquireWorkspaceSetupLease(w, k) /\ k \in Work
SeveranceBegins(d, k) ==
  RevokeConnection(d) /\ Severable(d) /\ k = <<disconnect[d].account, "oauth:disconnect">>

LEMMA HeldAfterSave ==
  ASSUME Inv, NEW t \in Attempts, SaveConnection(t), NEW k \in OperationKeys, NEW h, Held(k, h)'
  PROVE  Held(k, h) /\ k \notin Interrupted({Workspace, callback[t].account})
  BY RecoveredFacts DEF Inv, SaveConnection, Held, InProgress

LEMMA HeldAfterRevoke ==
  ASSUME Inv, NEW d \in Disconnects, RevokeConnection(d), NEW k \in OperationKeys, NEW h, Held(k, h)'
  PROVE  \/ Held(k, h) /\ k \notin Interrupted({Workspace, disconnect[d].account})
         \/ h = d /\ SeveranceBegins(d, k)
  <1> DEFINE R == Recovered({Workspace, disconnect[d].account})
             own == <<disconnect[d].account, "oauth:disconnect">>
  <1>1. R \in [OperationKeys -> Operations]
    BY RecoveredFacts DEF Inv
  <1>2. R[k].status = "in-progress" /\ R[k].holder = h
        => Held(k, h) /\ k \notin Interrupted({Workspace, disconnect[d].account})
    BY RecoveredFacts DEF Inv
  <1>3. operations' = R \/ (Severable(d) /\ operations' = [R EXCEPT ![own] = Lease(d)])
    BY DEF RevokeConnection
  <1> HIDE DEF R
  <1>4. CASE operations'[k] = R[k]
    BY <1>2, <1>4 DEF Held, InProgress
  <1>5. CASE operations'[k] # R[k]
    <2>1. Severable(d) /\ k = own /\ operations'[k] = Lease(d)
      BY <1>1, <1>3, <1>5
    <2>2. QED
      BY <2>1 DEF SeveranceBegins, Held, Lease
  <1>6. QED
    BY <1>4, <1>5

LEMMA HeldAfterReset ==
  ASSUME Inv, ResetTenant, NEW k \in OperationKeys, NEW h, Held(k, h)'
  PROVE  Held(k, h) /\ (Discardable => k[1] \notin SeenKeys)
  <1>1. CASE Discardable
    BY <1>1 DEF ResetTenant, NoOperation, Held, InProgress
  <1>2. CASE ~ Discardable
    <2>1. operations' = operations \/ operations' = Recovered(SeenKeys)
      BY <1>2 DEF ResetTenant
    <2>2. QED
      BY <1>2, <2>1, RecoveredFacts DEF Inv, Held, InProgress
  <1>3. QED
    BY <1>1, <1>2

\* An operation that is held was held before or is begun by this step.
LEMMA HeldSteps ==
  ASSUME Inv, [Next]_vars, NEW k \in OperationKeys, NEW h, Held(k, h)'
  PROVE  \/ Held(k, h)
         \/ h \in Actions /\ SetupBegins(h, k)
         \/ h \in Disconnects /\ SeveranceBegins(h, k)
  <1> USE DEF Inv, TypeOK
  <1>1. ASSUME NEW d \in Disconnects, FinishRevocationOperation(d) PROVE Held(k, h)
    BY <1>1 DEF FinishRevocationOperation, EndOperation, RevocationOutcome, Completed, Failed, Held, InProgress
  <1>2. ASSUME NEW w \in Actions, NEW l \in Work, AcquireWorkspaceSetupLease(w, l)
        PROVE  Held(k, h) \/ (h = w /\ SetupBegins(w, k))
    BY <1>2 DEF AcquireWorkspaceSetupLease, SetupBegins, Held, InProgress, Lease
  <1>3. ASSUME NEW w \in Actions, NEW l \in Work, EndWorkspaceSetupLease(w, l) PROVE Held(k, h)
    BY <1>3 DEF EndWorkspaceSetupLease, EndOperation, NoOperation, Held, InProgress
  <1>4. ASSUME NEW l \in OperationKeys, LeaseRunsOut(l) PROVE Held(k, h)
    <2>1. operations[k] \in Operations
      OBVIOUS
    <2>2. QED
      BY <1>4, <2>1 DEF LeaseRunsOut, Held, InProgress, Operations
  <1>5. CASE operations' = operations
    BY <1>5 DEF Held, InProgress
  <1>6. ASSUME NEW t \in Attempts, SaveConnection(t) PROVE Held(k, h)
    BY <1>6, HeldAfterSave
  <1>7. ASSUME NEW d \in Disconnects, RevokeConnection(d) PROVE Held(k, h) \/ (h = d /\ SeveranceBegins(d, k))
    BY <1>7, HeldAfterRevoke
  <1>8. ASSUME ResetTenant PROVE Held(k, h)
    BY <1>8, HeldAfterReset
  <1>9. QED
    BY <1>1, <1>2, <1>3, <1>4, <1>5, <1>6, <1>7, <1>8, OperationsFrame

LEMMA CompletedSteps ==
  ASSUME Inv, [Next]_vars, NEW k \in OperationKeys, operations'[k].status = "completed"
  PROVE  \/ operations'[k] = operations[k]
         \/ \E d \in Disconnects :
              FinishRevocationOperation(d) /\ disconnect[d].plain /\ operations'[k] = Completed(d)
  <1> USE DEF Inv, TypeOK
  <1>1. \A keys : Recovered(keys)[k].status = "completed" => Recovered(keys)[k] = operations[k]
    BY RecoveredFacts DEF Failed
  <1>2. ASSUME NEW t \in Attempts, SaveConnection(t) PROVE operations'[k] = operations[k]
    BY <1>1, <1>2 DEF SaveConnection
  <1>3. ASSUME NEW d \in Disconnects, RevokeConnection(d) PROVE operations'[k] = operations[k]
    <2> DEFINE R == Recovered({Workspace, disconnect[d].account})
               own == <<disconnect[d].account, "oauth:disconnect">>
    <2>1. R \in [OperationKeys -> Operations] /\ (R[k].status = "completed" => R[k] = operations[k])
      BY <1>1, RecoveredFacts
    <2>2. operations' = R \/ operations' = [R EXCEPT ![own] = Lease(d)]
      BY <1>3 DEF RevokeConnection
    <2> HIDE DEF R
    <2>3. QED
      BY <2>1, <2>2 DEF Lease
  <1>4. ASSUME NEW d \in Disconnects, FinishRevocationOperation(d)
        PROVE  operations'[k] = operations[k] \/ (disconnect[d].plain /\ operations'[k] = Completed(d))
    BY <1>4 DEF FinishRevocationOperation, EndOperation, RevocationOutcome, Failed
  <1>5. ASSUME NEW w \in Actions, NEW l \in Work,
               AcquireWorkspaceSetupLease(w, l) \/ EndWorkspaceSetupLease(w, l)
        PROVE  operations'[k] = operations[k]
    BY <1>5 DEF AcquireWorkspaceSetupLease, EndWorkspaceSetupLease, EndOperation, Lease, NoOperation
  <1>6. ASSUME NEW l \in OperationKeys, LeaseRunsOut(l) PROVE operations'[k] = operations[k]
    <2>1. operations[k] \in Operations
      OBVIOUS
    <2>2. QED
      BY <1>6, <2>1 DEF LeaseRunsOut, InProgress, Operations
  <1>7. ASSUME ResetTenant PROVE operations'[k] = operations[k]
    BY <1>1, <1>7 DEF ResetTenant, NoOperation
  <1>8. QED
    BY <1>2, <1>3, <1>4, <1>5, <1>6, <1>7, OperationsFrame

LEMMA IssuedStays ==
  ASSUME Inv, [Next]_vars, NEW t \in Attempts, Issued(t)
  PROVE  Issued(t)'
  <1> USE DEF Inv, TypeOK, Issued
  <1>1. callback[t] \in Callbacks /\ Returned.at = "ended"
    BY DEF Returned, NotCalled
  <1>2. ASSUME NEW s \in Attempts, ConsumeOauthAttempt(s) PROVE Issued(t)'
    BY <1>1, <1>2 DEF ConsumeOauthAttempt
  <1>3. ASSUME NEW s \in Attempts, ExchangeAuthorizationCode(s) PROVE Issued(t)'
    BY <1>1, <1>3 DEF ExchangeAuthorizationCode
  <1>4. ASSUME NEW s \in Attempts, ResolveMailbox(s) PROVE Issued(t)'
    BY <1>1, <1>4 DEF ResolveMailbox, Callbacks
  <1>5. ASSUME NEW s \in Attempts, FindConnection(s) PROVE Issued(t)'
    BY <1>1, <1>5 DEF FindConnection, Callbacks
  <1>6. ASSUME NEW s \in Attempts, SaveConnection(s) PROVE Issued(t)'
    <2>1. \A fresh \in BOOLEAN : Saved(fresh).at = "saved"
      BY DEF Saved, NotCalled
    <2>2. callback[s].fresh \in BOOLEAN
      BY DEF Callbacks
    <2>3. QED
      BY <1>1, <1>6, <2>1, <2>2 DEF SaveConnection
  <1>7. ASSUME NEW s \in Attempts, CallbackFails(s) PROVE Issued(t)'
    BY <1>1, <1>7 DEF CallbackFails
  <1>8. QED
    BY <1>2, <1>3, <1>4, <1>5, <1>6, <1>7, CallbackFrame

\* A dead grant stays dead.
LEMMA DeadStays ==
  ASSUME Inv, [Next]_vars, NEW t \in Attempts, grants[t] = "dead"
  PROVE  grants'[t] = "dead"
  <1> USE DEF Inv, TypeOK
  <1>1. ASSUME NEW s \in Attempts, ExchangeAuthorizationCode(s) PROVE grants'[t] = "dead"
    BY <1>1 DEF ExchangeAuthorizationCode, TokensAreIssued, Issued
  <1>2. ASSUME NEW s \in Attempts, GrantEnds(s) PROVE grants'[t] = "dead"
    BY <1>2 DEF GrantEnds
  <1>3. ASSUME NEW d \in Disconnects, RevokeAtGoogle(d) PROVE grants'[t] = "dead"
    BY <1>3 DEF RevokeAtGoogle
  <1>4. QED
    BY <1>1, <1>2, <1>3, GrantsFrame

-----------------------------------------------------------------------------
(* Each part of the invariant is kept *)

LEMMA SeveranceKept == ASSUME Inv, [Next]_vars PROVE SeveranceHolds'
  <1> SUFFICES ASSUME NEW d \in Disconnects, NEW k \in Severance, Held(k, d)'
               PROVE  rows'[k[1]].status = "revoked" /\ rows'[k[1]].revokedBy = d
    BY DEF SeveranceHolds
  <1>1. k \in OperationKeys /\ k[1] \in Accounts /\ k \notin Work
    BY KeyFacts
  <1>2. CASE SeveranceBegins(d, k)
    <2>1. RevokeConnection(d) /\ Severable(d) /\ disconnect[d].account = k[1]
      BY <1>2 DEF SeveranceBegins
    <2>2. rows[k[1]] \in Rows /\ rows' = [rows EXCEPT ![k[1]] = Tombstone(@, d)]
      BY <1>1, <2>1 DEF RevokeConnection, Inv, TypeOK
    <2>3. rows'[k[1]] = Tombstone(rows[k[1]], d)
      BY <1>1, <2>2 DEF Inv, TypeOK
    <2>4. QED
      BY <2>2, <2>3 DEF Tombstone, Rows
  <1>3. CASE Held(k, d)
    <2>1. rows[k[1]].status = "revoked" /\ rows[k[1]].revokedBy = d /\ InProgress(operations[k])
      BY <1>3 DEF Inv, SeveranceHolds, Held
    <2>2. ASSUME NEW t \in Attempts, SavesRow(t, k[1]) PROVE FALSE
      <3>1. k \notin Interrupted({Workspace, k[1]})
        BY <1>1, <2>2, HeldAfterSave DEF SavesRow
      <3>2. k \in Interrupted({Workspace, k[1]})
        BY <1>1, <2>1, <2>2, QuietFacts DEF SavesRow, Savable
      <3>3. QED
        BY <3>1, <3>2
    <2>3. ASSUME NEW e \in Disconnects, SeversRow(e, k[1]) PROVE FALSE
      BY <2>1, <2>3 DEF SeversRow, Severable
    <2>4. ASSUME NEW x \in Refreshes, MarksRow(x, k[1]) PROVE FALSE
      BY <2>1, <2>4 DEF MarksRow, StillUsed, Holders
    <2>5. ASSUME DiscardsRow(k[1]) PROVE FALSE
      BY <1>1, <2>5, HeldAfterReset DEF DiscardsRow
    <2>6. QED
      BY <1>1, <2>1, <2>2, <2>3, <2>4, <2>5, RowSteps
  <1>4. d \notin Actions
    OBVIOUS
  <1>5. QED
    BY <1>1, <1>2, <1>3, <1>4, HeldSteps

\* An action that still holds its lease has not moved but to die.
LEMMA HolderStays ==
  ASSUME Inv, [Next]_vars, NEW w \in Actions, NEW k \in Work, Held(k, w), Held(k, w)'
  PROVE  /\ action'[w].account = action[w].account /\ action'[w].token = action[w].token
         /\ action'[w].at \in {"working", "ended"}
  <1> USE DEF Inv, TypeOK
  <1>1. action[w] \in Steps /\ action[w].at \in {"working", "ended"}
    BY DEF ActionInv
  <1>2. ASSUME NEW v \in Actions, NEW a \in Accounts, ReadRuntimeConfig(v, a) PROVE action'[w] = action[w]
    BY <1>1, <1>2 DEF ReadRuntimeConfig
  <1>3. ASSUME NEW v \in Actions, NEW l \in Work, AcquireWorkspaceSetupLease(v, l)
        PROVE  action'[w] = action[w]
    BY <1>1, <1>3 DEF AcquireWorkspaceSetupLease
  <1>4. ASSUME NEW v \in Actions, NEW l \in Work, EndWorkspaceSetupLease(v, l)
        PROVE  action'[w] = action[w]
    <2>1. CASE v = w
      <3>1. Held(l, w) /\ l = k
        BY <1>4, <2>1 DEF EndWorkspaceSetupLease, ActionInv
      <3>2. k \in OperationKeys
        BY KeyFacts
      <3>3. operations'[k] = NoOperation
        BY <1>4, <2>1, <3>1, <3>2 DEF EndWorkspaceSetupLease, EndOperation
      <3>4. QED
        BY <3>3 DEF Held, InProgress, NoOperation
    <2>2. CASE v # w
      BY <1>4, <2>2 DEF EndWorkspaceSetupLease
    <2>3. QED
      BY <2>1, <2>2
  <1>5. ASSUME NEW v \in Actions, ActionDies(v)
        PROVE  action'[w] = action[w] \/ action'[w] = [action[w] EXCEPT !.at = "ended"]
    BY <1>1, <1>5 DEF ActionDies
  <1>6. action'[w] = action[w] \/ action'[w] = [action[w] EXCEPT !.at = "ended"]
    BY <1>2, <1>3, <1>4, <1>5, ActionFrame
  <1>7. QED
    BY <1>1, <1>6 DEF Steps

LEMMA WorkKept == ASSUME Inv, [Next]_vars PROVE WorkKeepsItsCredential'
  <1> SUFFICES ASSUME NEW w \in Actions, NEW k \in Work, Held(k, w)'
               PROVE  LET row == rows'[action'[w].account] IN
                      row.token = action'[w].token /\ row.status \notin {"absent", "revoked"}
    BY DEF WorkKeepsItsCredential
  <1>1. k \in OperationKeys /\ k \notin Severance
    BY KeyFacts
  <1>2. CASE SetupBegins(w, k)
    <2>1. action[w] \in Steps /\ action' = [action EXCEPT ![w].at = "working"] /\ rows' = rows /\ Fenced(w)
      BY <1>2 DEF SetupBegins, AcquireWorkspaceSetupLease, Inv, TypeOK
    <2>2. action'[w].account = action[w].account /\ action'[w].token = action[w].token
      BY <2>1 DEF Inv, TypeOK, Steps
    <2>3. QED
      BY <2>1, <2>2 DEF Fenced
  <1>3. CASE Held(k, w)
    <2> DEFINE a == action[w].account
    <2>1. /\ a \in Accounts /\ k[1] \in {Workspace, a} /\ InProgress(operations[k])
          /\ rows[a].token = action[w].token /\ rows[a].status \notin {"absent", "revoked"}
      BY <1>3 DEF Inv, WorkKeepsItsCredential, ActionInv, Held
    <2>2. action'[w].account = a /\ action'[w].token = action[w].token
      BY <1>3, HolderStays
    <2> HIDE DEF a
    <2>3. ASSUME NEW t \in Attempts, SavesRow(t, a) PROVE FALSE
      BY <2>1, <2>3, QuietFacts DEF SavesRow, Savable
    <2>4. ASSUME NEW d \in Disconnects, SeversRow(d, a) PROVE FALSE
      BY <2>1, <2>4, QuietFacts DEF SeversRow, Severable
    <2>5. ASSUME NEW x \in Refreshes, MarksRow(x, a)
          PROVE  rows'[a].token = action[w].token /\ rows'[a].status \notin {"absent", "revoked"}
      BY <2>1, <2>5 DEF MarksRow
    <2>6. ASSUME DiscardsRow(a) PROVE FALSE
      BY <2>1, <2>6 DEF DiscardsRow
    <2>7. QED
      BY <2>1, <2>2, <2>3, <2>4, <2>5, <2>6, RowSteps
  <1>4. w \notin Disconnects
    OBVIOUS
  <1>5. QED
    BY <1>1, <1>2, <1>3, <1>4, HeldSteps

LEMMA ReauthorizationKept == ASSUME Inv, [Next]_vars PROVE ReauthorizationIsDue'
  <1> SUFFICES ASSUME NEW a \in Accounts, rows'[a].status = "reauthorization-required"
               PROVE  grants'[rows'[a].token] = "dead"
    BY DEF ReauthorizationIsDue
  <1>1. ASSUME rows'[a] = rows[a] PROVE grants'[rows'[a].token] = "dead"
    <2>1. rows[a].token \in Attempts /\ grants[rows[a].token] = "dead"
      BY <1>1 DEF Inv, TypeOK, RowsAreWhole, Rows, ReauthorizationIsDue
    <2>2. QED
      BY <1>1, <2>1, DeadStays
  <1>2. ASSUME NEW x \in Refreshes, MarksRow(x, a) PROVE grants'[rows'[a].token] = "dead"
    <2>1. refresh[x].token \in Attempts /\ grants[refresh[x].token] = "dead"
      BY <1>2 DEF MarksRow, MarkConnectionRefreshFailed, Inv, TypeOK, RefreshInv, Steps
    <2>2. rows'[a].token = refresh[x].token
      BY <1>2 DEF MarksRow, StillUsed
    <2>3. QED
      BY <2>1, <2>2, DeadStays
  <1>3. QED
    BY <1>1, <1>2, RowSteps DEF SavesRow, SeversRow, DiscardsRow, AbsentRow

LEMMA DiscardedKept == ASSUME Inv, [Next]_vars PROVE DiscardedStaysDiscarded'
  <1> USE DEF Inv, TypeOK
  <1> SUFFICES ASSUME NEW a \in Accounts, rows'[a].token # None
               PROVE  attempts'[rows'[a].token].expires # "zero"
    BY DEF DiscardedStaysDiscarded
  <1>1. ASSUME NEW c \in Attempts, attempts[c].expires # "zero", ~ (ResetTenant /\ Discardable)
        PROVE  attempts'[c].expires # "zero"
    <2>1. \A t \in Attempts : attempts[t] \in AttemptRows
      OBVIOUS
    <2>2. ASSUME NEW t \in Attempts, CreateOauthAttempt(t) PROVE attempts'[c].expires # "zero"
      BY <1>1, <2>1, <2>2 DEF CreateOauthAttempt, AttemptRows
    <2>3. ASSUME NEW t \in Attempts, AttemptExpires(t) PROVE attempts'[c].expires # "zero"
      BY <1>1, <2>1, <2>3 DEF AttemptExpires, AttemptRows
    <2>4. ASSUME NEW t \in Attempts, ConsumeOauthAttempt(t) PROVE attempts'[c].expires # "zero"
      BY <1>1, <2>1, <2>4 DEF ConsumeOauthAttempt, AttemptRows
    <2>5. ASSUME ResetTenant PROVE attempts' = attempts
      BY <1>1, <2>5 DEF ResetTenant
    <2>6. QED
      BY <1>1, <2>2, <2>3, <2>4, <2>5, AttemptsFrame
  <1>2. ~ (ResetTenant /\ Discardable)
    BY ResetEmpties DEF AbsentRow
  <1>3. rows[a].token # None => rows[a].token \in Attempts /\ attempts[rows[a].token].expires # "zero"
    BY DEF DiscardedStaysDiscarded, Rows
  <1>4. ASSUME NEW t \in Attempts, SavesRow(t, a) PROVE attempts'[rows'[a].token].expires # "zero"
    <2>1. rows'[a].token \in Attempts /\ callback[t].at = "saving"
      BY <1>4 DEF SavesRow, SaveConnection
    <2>2. CASE callback[t].fresh
      <3>1. rows'[a].token = t
        BY <1>4, <2>1, <2>2 DEF SavesRow, CallbackInv
      <3>2. QED
        BY <1>1, <1>2, <1>4, <3>1 DEF SavesRow, Savable, Authorized
    <2>3. CASE ~ callback[t].fresh
      <3>1. rows'[a].token = rows[a].token
        BY <1>4, <2>3 DEF SavesRow, Savable, Reusable
      <3>2. QED
        BY <1>1, <1>2, <1>3, <3>1
    <2>4. QED
      BY <2>2, <2>3
  <1>5. QED
    BY <1>1, <1>2, <1>3, <1>4, RowSteps DEF SeversRow, MarksRow, DiscardsRow, AbsentRow

LEMMA ActionsKept == ASSUME Inv, [Next]_vars, NEW w \in Actions PROVE ActionInv(w)'
  <1> USE DEF Inv, TypeOK
  <1>1. action[w] \in Steps /\ ActionInv(w)
    OBVIOUS
  <1>2. action'[w].at \in {"read", "working"} => action'[w].account \in Accounts
    <2>1. ASSUME NEW v \in Actions, NEW a \in Accounts, ReadRuntimeConfig(v, a)
          PROVE  action'[w].at \in {"read", "working"} => action'[w].account \in Accounts
      BY <1>1, <2>1 DEF ReadRuntimeConfig, ActionInv
    <2>2. ASSUME NEW v \in Actions, NEW k \in Work, AcquireWorkspaceSetupLease(v, k)
          PROVE  action'[w].at \in {"read", "working"} => action'[w].account \in Accounts
      BY <1>1, <2>2 DEF AcquireWorkspaceSetupLease, ActionInv, Steps
    <2>3. ASSUME NEW v \in Actions, NEW k \in Work, EndWorkspaceSetupLease(v, k)
          PROVE  action'[w].at \in {"read", "working"} => action'[w].account \in Accounts
      BY <1>1, <2>3, GoneFacts DEF EndWorkspaceSetupLease, ActionInv
    <2>4. ASSUME NEW v \in Actions, ActionDies(v)
          PROVE  action'[w].at \in {"read", "working"} => action'[w].account \in Accounts
      <3>1. [action[w] EXCEPT !.at = "ended"].at = "ended"
        BY <1>1 DEF Steps
      <3>2. \/ action'[w] = action[w]
            \/ action'[w] = Gone
            \/ action'[w] = [action[w] EXCEPT !.at = "ended"]
        BY <1>1, <2>4 DEF ActionDies
      <3>3. QED
        BY <1>1, <3>1, <3>2, GoneFacts DEF ActionInv
    <2>5. QED
      BY <1>1, <2>1, <2>2, <2>3, <2>4, ActionFrame DEF ActionInv
  <1>3. ASSUME NEW k \in Work, Held(k, w)'
        PROVE  /\ action'[w].at \in {"working", "ended"} /\ action'[w].account \in Accounts
               /\ k[1] \in {Workspace, action'[w].account}
               /\ \A l \in Work : Held(l, w)' => l = k
    <2>1. Work \subseteq OperationKeys /\ w \notin Disconnects
      BY KeyFacts
    <2>2. ASSUME NEW l \in Work, SetupBegins(w, l)
          PROVE  /\ action'[w].at = "working" /\ action'[w].account \in Accounts
                 /\ l[1] \in {Workspace, action'[w].account}
                 /\ \A m \in Work : Held(m, w)' => m = l
      <3>1. action[w].at = "read" /\ action[w].account \in Accounts
        BY <2>2 DEF SetupBegins, AcquireWorkspaceSetupLease, ActionInv
      <3>2. action' = [action EXCEPT ![w].at = "working"]
        BY <2>2 DEF SetupBegins, AcquireWorkspaceSetupLease
      <3>3. action'[w].at = "working" /\ action'[w].account = action[w].account
        BY <1>1, <3>2 DEF Steps
      <3>4. ASSUME NEW m \in Work, Held(m, w)', m # l PROVE FALSE
        <4>1. operations'[m] = operations[m]
          BY <2>1, <2>2, <3>4 DEF SetupBegins, AcquireWorkspaceSetupLease
        <4>2. Held(m, w)
          BY <3>4, <4>1 DEF Held, InProgress
        <4>3. QED
          BY <3>1, <4>2 DEF ActionInv
      <3>5. QED
        BY <2>2, <3>1, <3>3, <3>4 DEF SetupBegins, AcquireWorkspaceSetupLease
    <2>3. CASE \E l \in Work : SetupBegins(w, l)
      BY <1>3, <2>2, <2>3
    <2>4. CASE \A l \in Work : ~ SetupBegins(w, l)
      <3>1. \A l \in Work : Held(l, w)' => Held(l, w)
        BY <2>1, <2>4, HeldSteps
      <3>2. Held(k, w)
        BY <1>3, <3>1
      <3>3. action'[w].account = action[w].account /\ action'[w].at \in {"working", "ended"}
        BY <1>3, <3>2, HolderStays
      <3>4. QED
        BY <1>1, <3>1, <3>2, <3>3 DEF ActionInv
    <2>5. QED
      BY <2>3, <2>4
  <1>4. QED
    BY <1>2, <1>3 DEF ActionInv

LEMMA CallbacksKept == ASSUME Inv, [Next]_vars, NEW t \in Attempts PROVE CallbackInv(t)'
  <1> USE DEF Inv, TypeOK
  <1>1. callback[t] \in Callbacks /\ CallbackInv(t) /\ Returned.at = "ended"
    BY DEF Returned, NotCalled
  <1>2. CASE callback'[t] = callback[t]
    BY <1>1, <1>2 DEF CallbackInv
  <1>3. ASSUME callback'[t].at \notin {"exchanged", "resolved", "saving"} PROVE CallbackInv(t)'
    BY <1>3 DEF CallbackInv
  <1>4. ASSUME NEW s \in Attempts, ConsumeOauthAttempt(s) PROVE CallbackInv(t)'
    <2>1. [NotCalled EXCEPT !.at = "consumed"].at = "consumed"
      BY DEF NotCalled
    <2>2. QED
      BY <1>1, <1>2, <1>3, <1>4, <2>1 DEF ConsumeOauthAttempt
  <1>5. ASSUME NEW s \in Attempts, ExchangeAuthorizationCode(s) PROVE CallbackInv(t)'
    <2>1. PICK a \in Accounts, fresh \in BOOLEAN :
            callback' = [callback EXCEPT ![s] =
                          [@ EXCEPT !.at = "exchanged", !.account = a, !.fresh = fresh]]
      BY <1>5 DEF ExchangeAuthorizationCode
    <2>2. [callback[t] EXCEPT !.at = "exchanged", !.account = a, !.fresh = fresh].at = "exchanged"
          /\ [callback[t] EXCEPT !.at = "exchanged", !.account = a, !.fresh = fresh].account = a
      BY <1>1 DEF Callbacks
    <2>3. CASE s = t
      BY <2>1, <2>2, <2>3 DEF CallbackInv
    <2>4. CASE s # t
      BY <1>2, <2>1, <2>4
    <2>5. QED
      BY <2>3, <2>4
  <1>6. ASSUME NEW s \in Attempts, ResolveMailbox(s) PROVE CallbackInv(t)'
    <2>1. [callback[t] EXCEPT !.at = "resolved"].at = "resolved"
          /\ [callback[t] EXCEPT !.at = "resolved"].account = callback[t].account
      BY <1>1 DEF Callbacks
    <2>2. QED
      BY <1>1, <1>2, <1>6, <2>1 DEF ResolveMailbox, CallbackInv
  <1>7. ASSUME NEW s \in Attempts, FindConnection(s) PROVE CallbackInv(t)'
    <2>1. CASE s # t
      BY <1>2, <1>7, <2>1 DEF FindConnection
    <2>2. CASE s = t
      <3> DEFINE row == rows[callback[t].account]
                 c == [callback[t] EXCEPT !.at = "saving", !.inTime = attempts[t].expires = "ahead",
                                          !.id = IF row.id = None THEN t ELSE row.id,
                                          !.token = IF callback[t].fresh THEN t ELSE row.token]
      <3>1. callback[t].account \in Accounts /\ t # None
        BY <1>1, <1>7, <2>2 DEF FindConnection, CallbackInv
      <3>2. callback[t].fresh \/ row.token # None
        BY <1>7, <2>2, <3>1 DEF FindConnection, RowsAreWhole
      <3>3. callback'[t] = c
        BY <1>7, <2>2 DEF FindConnection
      <3>4. /\ c.at = "saving" /\ c.account = callback[t].account /\ c.fresh = callback[t].fresh
            /\ c.id = (IF row.id = None THEN t ELSE row.id)
            /\ c.token = (IF callback[t].fresh THEN t ELSE row.token)
        BY <1>1 DEF Callbacks
      <3> HIDE DEF c, row
      <3>5. QED
        BY <3>1, <3>2, <3>3, <3>4 DEF CallbackInv
    <2>3. QED
      BY <2>1, <2>2
  <1>8. ASSUME NEW s \in Attempts, SaveConnection(s) PROVE CallbackInv(t)'
    <2>1. callback'[t] = callback[t] \/ callback'[t] = Returned \/ callback'[t] = Saved(callback[t].fresh)
      BY <1>8 DEF SaveConnection
    <2>2. Saved(callback[t].fresh).at = "saved"
      BY DEF Saved, NotCalled
    <2>3. QED
      BY <1>1, <1>2, <1>3, <2>1, <2>2
  <1>9. ASSUME NEW s \in Attempts, CallbackFails(s) PROVE CallbackInv(t)'
    BY <1>1, <1>2, <1>3, <1>9 DEF CallbackFails
  <1>10. QED
    BY <1>2, <1>4, <1>5, <1>6, <1>7, <1>8, <1>9, CallbackFrame

\* What can become of a disconnect's locals.
LEMMA DisconnectSteps ==
  ASSUME Inv, [Next]_vars, NEW d \in Disconnects
  PROVE  \/ disconnect'[d] = disconnect[d]
         \/ disconnect'[d] = Gone
         \/ /\ disconnect[d].at = "idle" /\ disconnect'[d].at = "read"
            /\ \E a \in Accounts : disconnect'[d].account = a /\ disconnect'[d].token = rows[a].token
            /\ disconnect'[d].plain => disconnect'[d].token # None
         \/ /\ disconnect[d].at \in {"read", "severed", "answered"}
            /\ disconnect'[d].at \in {"severed", "answered", "ended"}
            /\ disconnect'[d].account = disconnect[d].account /\ disconnect'[d].token = disconnect[d].token
            /\ disconnect'[d].plain => disconnect[d].plain
            /\ disconnect'[d].at = "answered" /\ disconnect'[d].plain => grants'[disconnect[d].token] = "dead"
  <1> USE DEF Inv, TypeOK
  <1>1. disconnect[d] \in Steps
    OBVIOUS
  <1>2. ASSUME NEW e \in Disconnects, NEW a \in Accounts, ReadCredential(e, a), disconnect'[d] # disconnect[d]
        PROVE  /\ disconnect[d].at = "idle" /\ disconnect'[d].at = "read"
               /\ disconnect'[d].account = a /\ disconnect'[d].token = rows[a].token
               /\ disconnect'[d].plain => disconnect'[d].token # None
    <2>1. PICK plain \in {rows[a].token # None, FALSE} :
            disconnect' = [disconnect EXCEPT ![e] =
              [at |-> "read", account |-> a, token |-> rows[a].token, plain |-> plain]]
      BY <1>2 DEF ReadCredential
    <2>2. e = d /\ disconnect[d].at = "idle"
      BY <1>2, <2>1 DEF ReadCredential
    <2>3. disconnect'[d] = [at |-> "read", account |-> a, token |-> rows[a].token, plain |-> plain]
      BY <2>1, <2>2
    <2>4. plain => rows[a].token # None
      OBVIOUS
    <2>5. QED
      BY <2>2, <2>3, <2>4
  <1>3. ASSUME NEW e \in Disconnects, RevokeConnection(e), disconnect'[d] # disconnect[d]
        PROVE  disconnect[d].at = "read"
               /\ (disconnect'[d] = Gone \/ disconnect'[d] = [disconnect[d] EXCEPT !.at = "severed"])
    BY <1>3 DEF RevokeConnection
  <1>4. ASSUME NEW e \in Disconnects, RevokeAtGoogle(e), disconnect'[d] # disconnect[d]
        PROVE  /\ disconnect[d].at = "severed" /\ disconnect[d].plain
               /\ \E heard \in BOOLEAN :
                    /\ disconnect'[d] = [disconnect[d] EXCEPT !.at = "answered", !.plain = heard]
                    /\ heard => grants'[disconnect[d].token] = "dead"
    <2>1. e = d
      BY <1>4 DEF RevokeAtGoogle
    <2>2. disconnect[d].token \in Attempts
      BY <1>1, <1>4, <2>1 DEF RevokeAtGoogle, DisconnectInv, Steps
    <2>3. QED
      BY <1>4, <2>1, <2>2 DEF RevokeAtGoogle
  <1>5. ASSUME NEW e \in Disconnects, FinishRevocationOperation(e), disconnect'[d] # disconnect[d]
        PROVE  /\ disconnect[d].at \in {"severed", "answered"}
               /\ disconnect'[d] = Gone \/ disconnect'[d] = [disconnect[d] EXCEPT !.at = "ended"]
    BY <1>5 DEF FinishRevocationOperation
  <1>6. ASSUME NEW e \in Disconnects, DisconnectDies(e) PROVE disconnect'[d] = disconnect[d] \/ disconnect'[d] = Gone
    BY <1>6 DEF DisconnectDies
  <1>7. \A point \in {"severed", "answered", "ended"} :
          LET s == [disconnect[d] EXCEPT !.at = point] IN
          s.at = point /\ s.account = disconnect[d].account /\ s.token = disconnect[d].token
          /\ s.plain = disconnect[d].plain
    BY <1>1 DEF Steps
  <1>8. \A heard \in BOOLEAN :
          LET s == [disconnect[d] EXCEPT !.at = "answered", !.plain = heard] IN
          s.at = "answered" /\ s.account = disconnect[d].account /\ s.token = disconnect[d].token
          /\ s.plain = heard
    BY <1>1 DEF Steps
  <1> DEFINE Advanced ==
        /\ disconnect[d].at \in {"read", "severed", "answered"}
        /\ disconnect'[d].at \in {"severed", "answered", "ended"}
        /\ disconnect'[d].account = disconnect[d].account /\ disconnect'[d].token = disconnect[d].token
        /\ disconnect'[d].plain => disconnect[d].plain
        /\ disconnect'[d].at = "answered" /\ disconnect'[d].plain => grants'[disconnect[d].token] = "dead"
  <1>9. ASSUME NEW e \in Disconnects,
               RevokeConnection(e) \/ RevokeAtGoogle(e) \/ FinishRevocationOperation(e) \/ DisconnectDies(e)
        PROVE  disconnect'[d] = disconnect[d] \/ disconnect'[d] = Gone \/ Advanced
    <2>1. CASE RevokeConnection(e)
      BY <1>3, <1>7, <2>1
    <2>2. CASE RevokeAtGoogle(e)
      BY <1>4, <1>8, <2>2
    <2>3. CASE FinishRevocationOperation(e)
      BY <1>5, <1>7, <2>3
    <2>4. QED
      BY <1>6, <1>9, <2>1, <2>2, <2>3
  <1> HIDE DEF Advanced
  <1>10. CASE \E e \in Disconnects, a \in Accounts : ReadCredential(e, a)
    BY <1>2, <1>10
  <1>11. CASE \E e \in Disconnects :
           RevokeConnection(e) \/ RevokeAtGoogle(e) \/ FinishRevocationOperation(e) \/ DisconnectDies(e)
    BY <1>9, <1>11 DEF Advanced
  <1>12. QED
    BY <1>10, <1>11, DisconnectFrame

LEMMA DisconnectsKept == ASSUME Inv, [Next]_vars, NEW d \in Disconnects PROVE DisconnectInv(d)'
  <1> USE DEF Inv, TypeOK
  <1>1. disconnect[d] \in Steps /\ DisconnectInv(d)
    OBVIOUS
  <1>2. CASE disconnect'[d] = disconnect[d]
    <2>1. disconnect[d].plain => disconnect[d].token \in Attempts
      BY <1>1 DEF DisconnectInv, Steps
    <2>2. QED
      BY <1>1, <1>2, <2>1, DeadStays DEF DisconnectInv
  <1>3. CASE disconnect'[d] = Gone
    BY <1>3, GoneFacts DEF DisconnectInv
  <1>4. QED
    BY <1>1, <1>2, <1>3, DisconnectSteps DEF DisconnectInv

LEMMA RefreshesKept == ASSUME Inv, [Next]_vars, NEW x \in Refreshes PROVE RefreshInv(x)'
  <1> USE DEF Inv, TypeOK
  <1>1. refresh[x] \in Steps /\ RefreshInv(x)
    OBVIOUS
  <1>2. CASE refresh'[x] = refresh[x]
    <2>1. refresh[x].at = "refused" => refresh[x].token \in Attempts
      BY <1>1 DEF RefreshInv, Steps
    <2>2. QED
      BY <1>1, <1>2, <2>1, DeadStays DEF RefreshInv
  <1>3. CASE refresh'[x] = Gone
    BY <1>3, GoneFacts DEF RefreshInv
  <1>4. ASSUME NEW y \in Refreshes, NEW a \in Accounts, AskForAccessToken(y, a), refresh'[x] # refresh[x]
        PROVE  RefreshInv(x)'
    <2>1. refresh'[x] = [at |-> "asked", account |-> a, token |-> rows[a].token, plain |-> FALSE]
      BY <1>4 DEF AskForAccessToken
    <2>2. rows[a].token # None
      BY <1>4 DEF AskForAccessToken, RowsAreWhole
    <2>3. QED
      BY <2>1, <2>2 DEF RefreshInv
  <1>5. ASSUME NEW y \in Refreshes, GoogleAnswers(y), refresh'[x] # refresh[x], refresh'[x] # Gone
        PROVE  RefreshInv(x)'
    <2>1. /\ grants[refresh[x].token] = "dead" /\ refresh[x].at = "asked" /\ grants' = grants
          /\ refresh'[x] = [refresh[x] EXCEPT !.at = "refused"]
      BY <1>5 DEF GoogleAnswers
    <2>2. refresh'[x].at = "refused" /\ refresh'[x].account = refresh[x].account
          /\ refresh'[x].token = refresh[x].token
      BY <1>1, <2>1 DEF Steps
    <2>3. QED
      BY <1>1, <2>1, <2>2 DEF RefreshInv
  <1>6. ASSUME NEW y \in Refreshes, MarkConnectionRefreshFailed(y)
        PROVE  refresh'[x] = refresh[x] \/ refresh'[x] = Gone
    BY <1>6 DEF MarkConnectionRefreshFailed
  <1>7. QED
    BY <1>2, <1>3, <1>4, <1>5, <1>6, RefreshFrame

CompletedNext(d) ==
  /\ d \in Disconnects /\ disconnect'[d].at = "ended" /\ disconnect'[d].token # None
  /\ grants'[disconnect'[d].token] = "dead"

LEMMA CompletionKept == ASSUME Inv, [Next]_vars PROVE CompletionInv'
  <1> USE DEF Inv, TypeOK
  <1> SUFFICES ASSUME NEW k \in Severance, operations'[k].status = "completed"
               PROVE  CompletedNext(operations'[k].holder)
    BY DEF CompletionInv, CompletedFor, CompletedNext
  <1>1. k \in OperationKeys
    BY KeyFacts
  <1>2. CASE operations'[k] = operations[k]
    <2> DEFINE d == operations[k].holder
    <2>1. CompletedFor(d)
      BY <1>2 DEF CompletionInv
    <2> HIDE DEF d
    <2>2. d \in Disconnects /\ disconnect[d] \in Steps /\ disconnect[d].token \in Attempts
      BY <2>1 DEF CompletedFor, Steps
    <2>3. disconnect'[d] = disconnect[d]
      <3>1. disconnect[d].at = "ended"
        BY <2>1 DEF CompletedFor
      <3>2. ASSUME NEW e \in Disconnects, NEW a \in Accounts, ReadCredential(e, a)
            PROVE  disconnect'[d] = disconnect[d]
        BY <3>1, <3>2 DEF ReadCredential
      <3>3. ASSUME NEW e \in Disconnects, RevokeConnection(e) PROVE disconnect'[d] = disconnect[d]
        BY <2>2, <3>1, <3>3 DEF RevokeConnection
      <3>4. ASSUME NEW e \in Disconnects, RevokeAtGoogle(e) PROVE disconnect'[d] = disconnect[d]
        BY <2>2, <3>1, <3>4 DEF RevokeAtGoogle
      <3>5. ASSUME NEW e \in Disconnects, FinishRevocationOperation(e) PROVE disconnect'[d] = disconnect[d]
        BY <3>1, <3>5 DEF FinishRevocationOperation
      <3>6. ASSUME NEW e \in Disconnects, DisconnectDies(e) PROVE disconnect'[d] = disconnect[d]
        BY <3>1, <3>6 DEF DisconnectDies
      <3>7. QED
        BY <3>2, <3>3, <3>4, <3>5, <3>6, DisconnectFrame
    <2>4. grants'[disconnect[d].token] = "dead"
      BY <2>1, <2>2, DeadStays DEF CompletedFor
    <2>5. CompletedNext(d)
      BY <2>1, <2>2, <2>3, <2>4 DEF CompletedFor, CompletedNext
    <2>6. operations'[k].holder = d
      BY <1>2 DEF d
    <2>7. QED
      BY <2>5, <2>6
  <1>3. ASSUME NEW d \in Disconnects, FinishRevocationOperation(d), disconnect[d].plain,
               operations'[k] = Completed(d)
        PROVE  CompletedNext(operations'[k].holder)
    <2>1. disconnect[d] \in Steps /\ disconnect[d].token \in Attempts /\ disconnect[d].at = "answered"
      BY <1>3 DEF FinishRevocationOperation, DisconnectInv, Steps
    <2>2. grants[disconnect[d].token] = "dead" /\ grants' = grants
      BY <1>3, <2>1 DEF DisconnectInv, FinishRevocationOperation
    <2>3. disconnect'[d] = [disconnect[d] EXCEPT !.at = "ended"]
      BY <1>3 DEF FinishRevocationOperation, RevocationOutcome, Completed, Failed
    <2>4. operations'[k].holder = d
      BY <1>3 DEF Completed
    <2>5. disconnect'[d].at = "ended" /\ disconnect'[d].token = disconnect[d].token
      BY <2>1, <2>3 DEF Steps
    <2>6. QED
      BY <2>1, <2>2, <2>4, <2>5 DEF CompletedNext
  <1>4. QED
    BY <1>1, <1>2, <1>3, CompletedSteps

LEMMA TokensKept == ASSUME Inv, [Next]_vars PROVE TokensAreIssued'
  <1> USE DEF Inv, TypeOK
  <1> DEFINE Known(c) == c \in Attempts /\ Issued(c)
  <1>1. \A c \in Attempts : Issued(c) => Issued(c)'
    BY IssuedStays
  <1>2. \A a \in Accounts : rows[a].token # None => Known(rows[a].token)
    BY DEF TokensAreIssued, Rows
  <1>3. ASSUME NEW a \in Accounts, rows'[a].token # None PROVE Known(rows'[a].token)
    BY <1>2, <1>3, RowSteps DEF SavesRow, SeversRow, MarksRow, DiscardsRow, AbsentRow
  <1>4. ASSUME NEW d \in Disconnects, disconnect'[d].token # None PROVE Known(disconnect'[d].token)
    <2>1. disconnect[d].token # None => Known(disconnect[d].token)
      BY DEF TokensAreIssued, Steps
    <2>2. QED
      BY <1>2, <1>4, <2>1, DisconnectSteps, GoneFacts
  <1>5. ASSUME NEW x \in Refreshes, refresh'[x].token # None PROVE Known(refresh'[x].token)
    <2>1. refresh[x] \in Steps /\ (refresh[x].token # None => Known(refresh[x].token))
      BY DEF TokensAreIssued, Steps
    <2>2. ASSUME NEW y \in Refreshes, NEW a \in Accounts, AskForAccessToken(y, a)
          PROVE  refresh'[x] = refresh[x] \/ refresh'[x].token = rows[a].token
      BY <2>2 DEF AskForAccessToken
    <2>3. ASSUME NEW y \in Refreshes, GoogleAnswers(y) \/ MarkConnectionRefreshFailed(y)
          PROVE  \/ refresh'[x] = refresh[x]
                 \/ refresh'[x] = Gone
                 \/ refresh'[x] = [refresh[x] EXCEPT !.at = "refused"]
      BY <2>3 DEF GoogleAnswers, MarkConnectionRefreshFailed
    <2>4. [refresh[x] EXCEPT !.at = "refused"].token = refresh[x].token
      BY <2>1 DEF Steps
    <2>5. QED
      BY <1>2, <1>5, <2>1, <2>2, <2>3, <2>4, GoneFacts, RefreshFrame
  <1>6. ASSUME NEW t \in Attempts, callback'[t].token # None PROVE Known(callback'[t].token)
    <2>1. callback[t] \in Callbacks /\ (callback[t].token # None => Known(callback[t].token))
      BY DEF TokensAreIssued, Callbacks
    <2>2. Returned.token = None /\ [NotCalled EXCEPT !.at = "consumed"].token = None
      BY DEF Returned, NotCalled
    <2>3. ASSUME NEW s \in Attempts, ConsumeOauthAttempt(s) \/ CallbackFails(s)
          PROVE  callback'[t].token \in {None, callback[t].token}
      BY <2>2, <2>3 DEF ConsumeOauthAttempt, CallbackFails
    <2>4. ASSUME NEW s \in Attempts, ExchangeAuthorizationCode(s)
          PROVE  callback'[t].token = callback[t].token
      <3>1. \A a \in Accounts, fresh \in BOOLEAN :
              [callback[t] EXCEPT !.at = "exchanged", !.account = a, !.fresh = fresh].token = callback[t].token
        BY <2>1 DEF Callbacks
      <3>2. QED
        BY <2>4, <3>1 DEF ExchangeAuthorizationCode
    <2>5. ASSUME NEW s \in Attempts, ResolveMailbox(s) PROVE callback'[t].token = callback[t].token
      <3>1. [callback[t] EXCEPT !.at = "resolved"].token = callback[t].token
        BY <2>1 DEF Callbacks
      <3>2. QED
        BY <2>5, <3>1 DEF ResolveMailbox
    <2>6. ASSUME NEW s \in Attempts, FindConnection(s) PROVE Known(callback'[t].token)
      <3>1. CASE s # t
        BY <1>6, <2>1, <2>6, <3>1 DEF FindConnection
      <3>2. CASE s = t
        <4> DEFINE row == rows[callback[t].account]
                   c == [callback[t] EXCEPT !.at = "saving", !.inTime = attempts[t].expires = "ahead",
                                            !.id = IF row.id = None THEN t ELSE row.id,
                                            !.token = IF callback[t].fresh THEN t ELSE row.token]
        <4>1. callback[t].account \in Accounts /\ callback[t].at = "resolved"
          BY <2>6, <3>2 DEF FindConnection, CallbackInv
        <4>2. Known(t) /\ (row.token # None => Known(row.token))
          BY <1>2, <4>1 DEF Issued
        <4>3. callback'[t] = c
          BY <2>6, <3>2 DEF FindConnection
        <4>4. c.token = IF callback[t].fresh THEN t ELSE row.token
          BY <2>1 DEF Callbacks
        <4> HIDE DEF c, row, Known
        <4>5. QED
          BY <1>6, <4>2, <4>3, <4>4
      <3>3. QED
        BY <3>1, <3>2
    <2>7. ASSUME NEW s \in Attempts, SaveConnection(s)
          PROVE  callback'[t].token \in {None, callback[t].token}
      <3>1. Saved(callback[t].fresh).token = None
        BY DEF Saved, NotCalled
      <3>2. QED
        BY <2>2, <2>7, <3>1 DEF SaveConnection
    <2>8. QED
      BY <1>6, <2>1, <2>3, <2>4, <2>5, <2>6, <2>7, CallbackFrame
  <1>7. ASSUME NEW t \in Attempts, grants'[t] # "none" PROVE Issued(t)'
    <2>1. grants[t] # "none" => Issued(t)
      BY DEF TokensAreIssued
    <2>2. ASSUME NEW s \in Attempts, ExchangeAuthorizationCode(s), grants'[t] # grants[t] PROVE Issued(t)'
      <3>1. callback[t] \in Callbacks /\ s = t
        BY <2>2 DEF ExchangeAuthorizationCode
      <3>2. \A a \in Accounts, fresh \in BOOLEAN :
              [callback[t] EXCEPT !.at = "exchanged", !.account = a, !.fresh = fresh].at = "exchanged"
        BY <3>1 DEF Callbacks
      <3>3. callback'[t].at = "exchanged"
        BY <2>2, <3>1, <3>2 DEF ExchangeAuthorizationCode
      <3>4. QED
        BY <3>3 DEF Issued
    <2>3. ASSUME NEW s \in Attempts, GrantEnds(s), grants'[t] # grants[t] PROVE Issued(t)
      BY <2>1, <2>3 DEF GrantEnds
    <2>4. ASSUME NEW d \in Disconnects, RevokeAtGoogle(d), grants'[t] # grants[t] PROVE Issued(t)
      <3>1. t = disconnect[d].token
        BY <2>4 DEF RevokeAtGoogle
      <3>2. QED
        BY <3>1 DEF TokensAreIssued
    <2>5. QED
      BY <1>1, <1>7, <2>1, <2>2, <2>3, <2>4, GrantsFrame
  <1> HIDE DEF Known
  <1>8. \A c : Known(c) => Issued(c)'
    BY <1>1 DEF Known
  <1>9. QED
    BY <1>3, <1>4, <1>5, <1>6, <1>7, <1>8 DEF TokensAreIssued

-----------------------------------------------------------------------------
(* The invariant *)

LEMMA InvInit == Init => Inv
  <1> SUFFICES ASSUME Init PROVE Inv
    OBVIOUS
  <1> USE DEF Init
  <1>1. TypeOK
    <2>1. AbsentRow \in Rows /\ NoOperation \in Operations /\ NotCalled \in Callbacks /\ Idle \in Steps
      BY DEF AbsentRow, Rows, NoOperation, Operations, NotCalled, Callbacks, Idle, Steps
    <2>2. RowsAreWhole
      BY DEF RowsAreWhole, AbsentRow
    <2>3. QED
      BY <2>1, <2>2 DEF TypeOK, AttemptRows, Resets
  <1>2. TokensAreIssued
    BY DEF TokensAreIssued, AbsentRow, NotCalled, Idle
  <1>3. \A k \in OperationKeys : operations[k].status = "none"
    BY DEF NoOperation
  <1>4. \A k \in Severance \cup Work : \A h : ~ Held(k, h) /\ operations[k].status # "completed"
    BY <1>3, KeyFacts DEF Held, InProgress
  <1>5. CompletionInv /\ WorkKeepsItsCredential /\ SeveranceHolds
    BY <1>4 DEF CompletionInv, WorkKeepsItsCredential, SeveranceHolds
  <1>6. \A t \in Attempts : CallbackInv(t)
    BY DEF CallbackInv, NotCalled
  <1>7. \A d \in Disconnects : DisconnectInv(d)
    BY DEF DisconnectInv, Idle
  <1>8. \A w \in Actions : ActionInv(w)
    BY <1>4 DEF ActionInv, Idle
  <1>9. \A x \in Refreshes : RefreshInv(x)
    BY DEF RefreshInv, Idle
  <1>10. ReauthorizationIsDue /\ DiscardedStaysDiscarded
    BY DEF ReauthorizationIsDue, DiscardedStaysDiscarded, AbsentRow
  <1>11. QED
    BY <1>1, <1>2, <1>5, <1>6, <1>7, <1>8, <1>9, <1>10 DEF Inv

LEMMA InvNext == Inv /\ [Next]_vars => Inv'
  BY TypesKept, TokensKept, CompletionKept, CallbacksKept, DisconnectsKept, ActionsKept, RefreshesKept,
     WorkKept, SeveranceKept, ReauthorizationKept, DiscardedKept DEF Inv

\* The inductive invariant of the connection: tables, leases and the requests in
\* flight agree about which credential each of them works with.
THEOREM Invariance == Spec => []Inv
  BY InvInit, InvNext, PTL DEF Spec

\* The tables and the requests keep their types, and a row of google_connections
\* has a credential exactly while it is neither absent nor revoked.
THEOREM TypeCorrect == Spec => []TypeOK
  <1>1. Inv => TypeOK
    BY DEF Inv
  <1>2. QED
    BY <1>1, Invariance, PTL

\* No disconnect, reconnect or reset comes between a Workspace action that holds
\* its setup lease and the credential it was granted for (workspace-setup-leases.ts).
THEOREM WorkIsUndisturbed == Spec => []WorkKeepsItsCredential
  <1>1. Inv => WorkKeepsItsCredential
    BY DEF Inv
  <1>2. QED
    BY <1>1, Invariance, PTL

\* No reconnect, reset or second disconnect comes between the severance of a
\* mailbox and the end of its revocation at Google (disconnectGoogleConnection).
THEOREM SeveranceIsUndisturbed == Spec => []SeveranceHolds
  <1>1. Inv => SeveranceHolds
    BY DEF Inv
  <1>2. QED
    BY <1>1, Invariance, PTL

\* A late refusal of an older token never asks to authorize a live one again
\* (markConnectionRefreshFailed).
THEOREM ReauthorizationIsAskedWhenDue == Spec => []ReauthorizationIsDue
  <1>1. Inv => ReauthorizationIsDue
    BY DEF Inv
  <1>2. QED
    BY <1>1, Invariance, PTL

\* A disconnect recorded as completed has revoked its credential at Google
\* (finishRevocationOperation).
THEOREM CompletionsAreTrue == Spec => []CompletionIsTrue
  <1>1. Inv => CompletionIsTrue
    BY DEF Inv, CompletionInv, CompletedFor, CompletionIsTrue
  <1>2. QED
    BY <1>1, Invariance, PTL

\* No consent of a discarded tenant links an account (resetD1GoogleWorkspaceTenant).
THEOREM DiscardedTenantsStayDiscarded == Spec => []DiscardedStaysDiscarded
  <1>1. Inv => DiscardedStaysDiscarded
    BY DEF Inv
  <1>2. QED
    BY <1>1, Invariance, PTL

-----------------------------------------------------------------------------
(* The refinement of Tenancy *)

LEMMA PromiseInit == Init => Promise!Init
  BY DEF Init, Promise!Init, Link, Spent, AbsentRow, NotCalled

LEMMA LinkFacts ==
  ASSUME Inv
  PROVE  \A a \in Accounts :
           /\ Link[a] = IF rows[a].status = "absent" THEN None
                        ELSE IF rows[a].status = "revoked" THEN Workspace ELSE rows[a].token
           /\ rows[a].status \notin {"absent", "revoked"} => Link[a] \in Attempts
  BY DEF Inv, TypeOK, Rows, RowsAreWhole, Link

\* An action that does not save leaves what was spent.
LEMMA SpentKept ==
  ASSUME Inv, [Next]_vars, \A t \in Attempts : ~ SaveConnection(t)
  PROVE  Spent' = Spent
  <1> USE DEF Inv, TypeOK
  <1> SUFFICES ASSUME NEW s \in Attempts
               PROVE  (callback[s].at = "saved" /\ callback[s].fresh)
                      <=> (callback'[s].at = "saved" /\ callback'[s].fresh)
    BY DEF Spent
  <1>1. callback[s] \in Callbacks /\ Returned.at = "ended" /\ [NotCalled EXCEPT !.at = "consumed"].at = "consumed"
    BY DEF Returned, NotCalled
  <1>2. ASSUME callback'[s] # callback[s] PROVE callback[s].at # "saved" /\ callback'[s].at # "saved"
    <2>1. ASSUME NEW t \in Attempts, ConsumeOauthAttempt(t)
          PROVE  callback[s].at # "saved" /\ callback'[s].at # "saved"
      BY <1>1, <1>2, <2>1 DEF ConsumeOauthAttempt
    <2>2. ASSUME NEW t \in Attempts, ExchangeAuthorizationCode(t)
          PROVE  callback[s].at # "saved" /\ callback'[s].at # "saved"
      BY <1>1, <1>2, <2>2 DEF ExchangeAuthorizationCode, Callbacks
    <2>3. ASSUME NEW t \in Attempts, ResolveMailbox(t)
          PROVE  callback[s].at # "saved" /\ callback'[s].at # "saved"
      BY <1>1, <1>2, <2>3 DEF ResolveMailbox, Callbacks
    <2>4. ASSUME NEW t \in Attempts, FindConnection(t)
          PROVE  callback[s].at # "saved" /\ callback'[s].at # "saved"
      BY <1>1, <1>2, <2>4 DEF FindConnection, Callbacks
    <2>5. ASSUME NEW t \in Attempts, CallbackFails(t)
          PROVE  callback[s].at # "saved" /\ callback'[s].at # "saved"
      BY <1>1, <1>2, <2>5 DEF CallbackFails
    <2>6. QED
      BY <1>2, <2>1, <2>2, <2>3, <2>4, <2>5, CallbackFrame
  <1>3. QED
    BY <1>2

LEMMA SaveIsPromised ==
  ASSUME Inv, NEW t \in Attempts, SaveConnection(t)
  PROVE  [Promise!Next]_<<Link, Spent>>
  <1> USE DEF Inv, TypeOK
  <1> DEFINE a == callback[t].account
  <1>1. a \in Accounts /\ callback[t] \in Callbacks /\ callback[t].token \in Attempts
    BY DEF SaveConnection, CallbackInv, Callbacks
  <1>2. CASE ~ Savable(t)
    <2>1. rows' = rows /\ callback' = [callback EXCEPT ![t] = Returned] /\ callback[t].at = "saving"
      BY <1>2 DEF SaveConnection
    <2>2. Returned.at = "ended"
      BY DEF Returned, NotCalled
    <2>3. Spent' = Spent
      BY <2>1, <2>2 DEF Spent
    <2>4. Link' = Link
      BY <2>1 DEF Link
    <2>5. QED
      BY <2>3, <2>4
  <1>3. CASE Savable(t)
    <2> DEFINE row == [status |-> "connected", id |-> IF Present(a) THEN rows[a].id ELSE callback[t].id,
                       token |-> callback[t].token, revokedBy |-> None]
    <2>1. rows' = [rows EXCEPT ![a] = row] /\ callback' = [callback EXCEPT ![t] = Saved(callback[t].fresh)]
          /\ callback[t].at = "saving"
      BY <1>3 DEF SaveConnection
    <2>2. row.status = "connected" /\ row.token = callback[t].token
      OBVIOUS
    <2>3. Link' = [Link EXCEPT ![a] = callback[t].token]
      <3> HIDE DEF row, a
      <3>1. QED
        BY <1>1, <2>1, <2>2 DEF Link
    <2>4. Saved(callback[t].fresh).at = "saved" /\ Saved(callback[t].fresh).fresh = callback[t].fresh
      BY DEF Saved, NotCalled
    <2>5. CASE callback[t].fresh
      <3>1. callback[t].token = t /\ t \notin Spent
        BY <2>1, <2>5 DEF CallbackInv, Spent
      <3>2. Spent' = Spent \cup {t}
        BY <2>1, <2>4, <2>5 DEF Spent
      <3>3. \A b \in Accounts : Promise!Known(b) => Domain[b] = Domain[a]
        BY <1>3, LinkFacts DEF Savable, SameTenant, Present, Promise!Known
      <3>4. Promise!Connect(a, t)
        BY <2>3, <3>1, <3>2, <3>3 DEF Promise!Connect
      <3>5. QED
        BY <1>1, <3>4 DEF Promise!Next
    <2>6. CASE ~ callback[t].fresh
      <3>1. rows[a].token = callback[t].token /\ rows[a].status \notin {"absent", "revoked"}
        BY <1>3, <2>6 DEF Savable, Reusable
      <3>2. Link[a] = callback[t].token
        BY <1>1, <3>1, LinkFacts
      <3>3. Link' = Link
        BY <2>3, <3>2 DEF Link
      <3>4. Spent' = Spent
        BY <2>1, <2>4, <2>6 DEF Spent
      <3>5. QED
        BY <3>3, <3>4
    <2>7. QED
      BY <1>1, <2>5, <2>6 DEF Callbacks
  <1>4. QED
    BY <1>2, <1>3

LEMMA StepIsPromised == Inv /\ [Next]_vars => [Promise!Next]_<<Link, Spent>>
  <1> SUFFICES ASSUME Inv, [Next]_vars PROVE [Promise!Next]_<<Link, Spent>>
    OBVIOUS
  <1> USE DEF Inv, TypeOK
  <1>1. CASE \E t \in Attempts : SaveConnection(t)
    BY <1>1, SaveIsPromised
  <1>2. CASE \A t \in Attempts : ~ SaveConnection(t)
    <2>1. Spent' = Spent
      BY <1>2, SpentKept
    <2>2. ASSUME NEW d \in Disconnects, RevokeConnection(d), Severable(d)
          PROVE  Promise!Next
      <3> DEFINE a == disconnect[d].account
      <3>1. a \in Accounts /\ rows' = [rows EXCEPT ![a] = Tombstone(rows[a], d)]
            /\ rows[a].status \notin {"absent", "revoked"}
        BY <2>2 DEF RevokeConnection, Severable, DisconnectInv
      <3>2. Tombstone(rows[a], d).status = "revoked"
        BY <3>1 DEF Tombstone, Rows
      <3>3. Link' = [Link EXCEPT ![a] = Workspace]
        <4> HIDE DEF a
        <4>1. QED
          BY <3>1, <3>2 DEF Link
      <3>4. Link[a] \in Attempts
        BY <3>1, LinkFacts
      <3>5. Promise!Disconnect(a)
        BY <2>1, <3>3, <3>4 DEF Promise!Disconnect
      <3>6. QED
        BY <3>1, <3>5 DEF Promise!Next
    <2>3. ASSUME ResetTenant, Discardable PROVE Promise!Next
      <3>1. \A a \in Accounts : rows'[a].status = "absent"
        BY <2>3, ResetEmpties DEF AbsentRow
      <3>2. Link' = [a \in Accounts |-> None]
        BY <3>1 DEF Link
      <3>3. \A a \in Accounts : Promise!Known(a) => Link[a] = Workspace
        BY <2>3, LinkFacts DEF Discardable, SameTombstones, AllRevoked, Present, Promise!Known
      <3>4. Promise!Discard
        BY <2>1, <3>2, <3>3 DEF Promise!Discard
      <3>5. QED
        BY <3>4 DEF Promise!Next
    <2>4. ASSUME NEW x \in Refreshes, MarkConnectionRefreshFailed(x) PROVE Link' = Link
      <3> DEFINE a == refresh[x].account
      <3>1. a \in Accounts /\ refresh[x].token # None
        BY <2>4 DEF MarkConnectionRefreshFailed, RefreshInv
      <3>2. CASE StillUsed(x)
        <4>1. rows[a] \in Rows /\ rows[a].status \notin {"absent", "revoked"}
          BY <3>1, <3>2 DEF StillUsed, RowsAreWhole
        <4>2. rows' = [rows EXCEPT ![a] = [rows[a] EXCEPT !.status = "reauthorization-required"]]
          BY <2>4, <3>2 DEF MarkConnectionRefreshFailed
        <4>3. [rows[a] EXCEPT !.status = "reauthorization-required"].token = rows[a].token
              /\ [rows[a] EXCEPT !.status = "reauthorization-required"].status = "reauthorization-required"
          BY <4>1 DEF Rows
        <4> HIDE DEF a
        <4>4. QED
          BY <3>1, <4>1, <4>2, <4>3 DEF Link
      <3>3. QED
        BY <2>4, <3>2 DEF MarkConnectionRefreshFailed, Link
    <2>5. CASE rows' = rows
      BY <2>1, <2>5 DEF Link
    <2>6. rows' = rows \/ (ResetTenant /\ Discardable)
          \/ (\E d \in Disconnects : RevokeConnection(d) /\ Severable(d))
          \/ \E x \in Refreshes : MarkConnectionRefreshFailed(x)
      BY <1>2, RowsFrame DEF RevokeConnection, ResetTenant
    <2>7. QED
      BY <2>1, <2>2, <2>3, <2>4, <2>5, <2>6
  <1>3. QED
    BY <1>1, <1>2

\* Every behaviour of the connection routes is a behaviour of the promise: one
\* domain at a time, no credential twice, and discarding only what is severed.
THEOREM ConnectionKeepsItsPromise == Spec => ImplementsTenancy
  <1>1. Inv /\ [Next]_vars => [Promise!Next]_(Promise!tenancy)
    BY StepIsPromised DEF Promise!tenancy
  <1>2. QED
    BY <1>1, PromiseInit, Invariance, PTL DEF Spec, ImplementsTenancy, Promise!Spec

(***************************************************************************)
(* The names of the Drive folders                                          *)
(***************************************************************************)

USE NamesAssumption, AdoptionAssumption, MaxSavesAssumption, NothingAssumption

-----------------------------------------------------------------------------
(* How a request's record changes *)

Others(r) == \A x \in Requests \ {r} : req'[x] = req[x]

\* What a request is about does not change while it is served, nor what it has
\* read until it ends.
Kept(r) ==
  /\ req'[r].key = req[r].key /\ req'[r].name = req[r].name
  /\ req'[r].pc # "ending" =>
       /\ req'[r].mode = req[r].mode /\ req'[r].actual = req[r].actual
       /\ req'[r].version = req[r].version /\ req'[r].names = req[r].names

\* r is the only request that moves, to the stage p of its work.
Moves(r, p) ==
  /\ req' \in [Requests -> Orders] /\ Others(r) /\ Kept(r)
  /\ req'[r].pc = p

\* r is the only request that moves, to its end.
Leaves(r) ==
  /\ req' \in [Requests -> Orders] /\ Others(r)
  /\ req'[r].pc = "done"

LEMMA ToFacts ==
  ASSUME FoldersTypeOK, NEW r \in Requests, NEW x \in Orders, To(r, x)
  PROVE  req' \in [Requests -> Orders] /\ Others(r) /\ req'[r] = x
  BY DEF FoldersTypeOK, To, Others

LEMMA StageFacts ==
  ASSUME FoldersTypeOK, NEW r \in Requests, NEW p \in Stages, To(r, [req[r] EXCEPT !.pc = p])
  PROVE  /\ Moves(r, p)
         /\ req'[r].was = req[r].was /\ req'[r].found = req[r].found
         /\ req'[r].answer = req[r].answer
  <1> DEFINE x == req[r]
             y == [x EXCEPT !.pc = p]
  <1>1. x \in Orders
    BY DEF FoldersTypeOK
  <1>2. /\ y \in Orders /\ y.pc = p /\ y.mode = x.mode /\ y.key = x.key /\ y.name = x.name
        /\ y.actual = x.actual /\ y.version = x.version /\ y.names = x.names /\ y.was = x.was
        /\ y.found = x.found /\ y.answer = x.answer
    <2> HIDE DEF x
    <2> QED
      BY <1>1 DEF Orders
  <1> HIDE DEF y
  <1>3. req' \in [Requests -> Orders] /\ Others(r) /\ req'[r] = y
    BY <1>2, ToFacts DEF y
  <1>4. QED
    BY <1>2, <1>3 DEF Kept, Moves

LEMMA WasFacts ==
  ASSUME FoldersTypeOK, NEW r \in Requests, NEW p \in Stages, NEW n \in Names,
         To(r, [req[r] EXCEPT !.pc = p, !.was = n])
  PROVE  Moves(r, p) /\ req'[r].was = n
  <1> DEFINE x == req[r]
             y == [x EXCEPT !.pc = p, !.was = n]
  <1>1. x \in Orders
    BY DEF FoldersTypeOK
  <1>2. /\ y \in Orders /\ y.pc = p /\ y.mode = x.mode /\ y.key = x.key /\ y.name = x.name
        /\ y.actual = x.actual /\ y.version = x.version /\ y.names = x.names /\ y.was = n
    <2> HIDE DEF x
    <2> QED
      BY <1>1 DEF Orders, Maybe
  <1> HIDE DEF y
  <1>3. req' \in [Requests -> Orders] /\ Others(r) /\ req'[r] = y
    BY <1>2, ToFacts DEF y
  <1>4. QED
    BY <1>2, <1>3 DEF Kept, Moves

LEMMA FoundFacts ==
  ASSUME FoldersTypeOK, NEW r \in Requests, NEW n \in Names,
         To(r, [req[r] EXCEPT !.pc = "found", !.found = n])
  PROVE  Moves(r, "found") /\ req'[r].found = n /\ req'[r].was = req[r].was
  <1> DEFINE x == req[r]
             y == [x EXCEPT !.pc = "found", !.found = n]
  <1>1. x \in Orders
    BY DEF FoldersTypeOK
  <1>2. /\ y \in Orders /\ y.pc = "found" /\ y.mode = x.mode /\ y.key = x.key /\ y.name = x.name
        /\ y.actual = x.actual /\ y.version = x.version /\ y.names = x.names /\ y.found = n
        /\ y.was = x.was
    <2> HIDE DEF x
    <2> QED
      BY <1>1 DEF Orders, Stages, Maybe
  <1> HIDE DEF y
  <1>3. req' \in [Requests -> Orders] /\ Others(r) /\ req'[r] = y
    BY <1>2, ToFacts DEF y
  <1>4. QED
    BY <1>2, <1>3 DEF Kept, Moves

LEMMA UndoingFacts ==
  ASSUME FoldersTypeOK, NEW r \in Requests, NEW a \in Answers, Undoing(r, a)
  PROVE  /\ Moves(r, "compensating")
         /\ req'[r].was = req[r].was /\ req'[r].found = req[r].found /\ req'[r].answer = a
  <1> DEFINE x == req[r]
             y == [x EXCEPT !.pc = "compensating", !.answer = a]
  <1>1. x \in Orders
    BY DEF FoldersTypeOK
  <1>2. /\ y \in Orders /\ y.pc = "compensating" /\ y.mode = x.mode /\ y.key = x.key
        /\ y.name = x.name /\ y.actual = x.actual /\ y.version = x.version /\ y.names = x.names
        /\ y.found = x.found /\ y.was = x.was /\ y.answer = a
    <2> HIDE DEF x
    <2> QED
      BY <1>1 DEF Orders, Stages, Maybe
  <1>3. To(r, y)
    BY DEF Undoing
  <1> HIDE DEF y
  <1>4. req' \in [Requests -> Orders] /\ Others(r) /\ req'[r] = y
    BY <1>2, <1>3, ToFacts
  <1>5. QED
    BY <1>2, <1>4 DEF Kept, Moves

LEMMA EndingFacts ==
  ASSUME FoldersTypeOK, NEW r \in Requests, NEW a \in Answers, Ending(r, a)
  PROVE  Moves(r, "ending") /\ req'[r].was = req[r].was /\ req'[r].answer = a
  <1> DEFINE x == Fresh
             k == Key(r)
             n == req[r].name
             w == req[r].was
             y == [x EXCEPT !.pc = "ending", !.key = k, !.name = n, !.was = w, !.answer = a]
  <1>1. x \in Orders
    BY DEF Fresh, Orders, Stages, Maybe
  <1>2. k \in Maybe(Folders) /\ n \in Maybe(Names) /\ w \in Maybe(Names)
    BY DEF FoldersTypeOK, Orders, Key
  <1>3. /\ y \in Orders /\ y.pc = "ending" /\ y.key = k /\ y.name = n /\ y.was = w
        /\ y.answer = a
    <2> DEFINE z == [x EXCEPT !.pc = "ending", !.key = k]
    <2> HIDE DEF x, k, n, w
    <2>1. z \in Orders /\ z.pc = "ending" /\ z.key = k
      BY <1>1, <1>2 DEF Orders, Stages
    <2>2. y = [z EXCEPT !.name = n, !.was = w, !.answer = a]
      BY <1>1 DEF Orders
    <2> HIDE DEF y, z
    <2>3. QED
      BY <2>1, <2>2, <1>2 DEF Orders, Maybe
  <1>4. To(r, y)
    BY DEF Ending
  <1> HIDE DEF y
  <1>5. req' \in [Requests -> Orders] /\ Others(r) /\ req'[r] = y
    BY <1>3, <1>4, ToFacts
  <1>6. QED
    BY <1>3, <1>5 DEF Kept, Moves, Key

LEMMA LeaveFacts ==
  ASSUME FoldersTypeOK, NEW r \in Requests, Leave(r)
  PROVE  Leaves(r)
  <1> DEFINE y == [Fresh EXCEPT !.pc = "done"]
  <1>1. y \in Orders /\ y.pc = "done"
    BY DEF Fresh, Orders, Stages, Maybe
  <1>2. To(r, y)
    BY DEF Leave
  <1> HIDE DEF y
  <1>3. QED
    BY <1>1, <1>2, ToFacts DEF Leaves

LEMMA BeginFacts ==
  ASSUME FoldersTypeOK, NEW r \in Requests, NEW k \in Folders, NEW n \in Names,
         NEW m \in {"rename", "reconcile", "adopt"}, NEW a \in Maybe(Names),
         Begin(r, m, k, n, a)
  PROVE  /\ req' \in [Requests -> Orders] /\ Others(r)
         /\ req'[r].pc = "read" /\ req'[r].mode = m /\ req'[r].key = k /\ req'[r].name = n
         /\ req'[r].actual = a /\ req'[r].version = blueprint.version
         /\ req'[r].names = blueprint.names
  <1> DEFINE x == Fresh
             v == blueprint.version
             w == blueprint.names
             y == [x EXCEPT !.pc = "read", !.mode = m, !.key = k, !.name = n, !.actual = a,
                            !.version = v, !.names = w]
  <1>1. x \in Orders
    BY DEF Fresh, Orders, Stages, Maybe
  <1>2. v \in Nat /\ w \in [Folders -> Names]
    BY DEF FoldersTypeOK
  <1>3. /\ y \in Orders /\ y.pc = "read" /\ y.mode = m /\ y.key = k /\ y.name = n
        /\ y.actual = a /\ y.version = v /\ y.names = w
    <2> HIDE DEF x, v, w
    <2> QED
      BY <1>1, <1>2 DEF Orders, Stages, Maybe
  <1>4. To(r, y)
    BY DEF Begin
  <1> HIDE DEF y
  <1>5. req' \in [Requests -> Orders] /\ Others(r) /\ req'[r] = y
    BY <1>3, <1>4, ToFacts
  <1>6. QED
    BY <1>3, <1>5

-----------------------------------------------------------------------------
(* What a step leaves alone *)

\* The blueprint stands, or is written as a new version.
BlueprintAges ==
  \/ blueprint' = blueprint
  \/ /\ blueprint' \in [version : Nat, names : [Folders -> Names]]
     /\ blueprint'.version = blueprint.version + 1

BlueprintMoves(k) ==
  BlueprintAges /\ \A j \in Folders \ {k} : blueprint'.names[j] = blueprint.names[j]

DriveMoves(k) ==
  /\ drive' \in [Folders -> Names]
  /\ \A j \in Folders \ {k} : drive'[j] = drive[j]

LEMMA PutMoves ==
  ASSUME FoldersTypeOK, NEW r \in Requests, NEW n \in Names, Key(r) \in Folders, Put(r, n)
  PROVE  DriveMoves(Key(r)) /\ drive'[Key(r)] = n
  BY DEF FoldersTypeOK, Put, DriveMoves

\* A save that succeeds writes one name into the blueprint as it stands.
LEMMA StoredMoves ==
  ASSUME FoldersTypeOK, NEW r \in Requests, Snapshot(r), Stored(r)
  PROVE  /\ blueprint' \in [version : Nat, names : [Folders -> Names]]
         /\ blueprint'.version = blueprint.version + 1
         /\ blueprint'.names = [blueprint.names EXCEPT ![Key(r)] = req[r].name]
         /\ BlueprintMoves(Key(r))
         /\ blueprint'.names[Key(r)] = req[r].name
  BY DEF FoldersTypeOK, Snapshot, Stored, BlueprintMoves, BlueprintAges

LEMMA SnapshotFrame ==
  ASSUME FoldersTypeOK, NEW r \in Requests, Snapshot(r), req \in [Requests -> Orders],
         req' \in [Requests -> Orders], BlueprintAges, Kept(r), req'[r].pc # "ending",
         req'[r].pc \in {"found", "renamed", "compensating"} => req'[r].found \in Names,
         req'[r].pc = "compensating" => req'[r].answer \in {"conflict", "error"}
  PROVE  Snapshot(r)'
  BY DEF FoldersTypeOK, Snapshot, BlueprintAges, Kept, Key, Orders

LEMMA StandingFrame ==
  ASSUME NEW r \in Requests, Standing(r), req'[r] = req[r],
         drive'[Key(r)] = drive[Key(r)], blueprint'.names[Key(r)] = blueprint.names[Key(r)],
         Key(r) \notin disturbed' => Key(r) \notin disturbed
  PROVE  Standing(r)'
  BY DEF Standing, Truth, Together, AsItWas, Unrestored, Key

LEMMA InOrderFrame ==
  ASSUME NEW k \in Folders, InOrder(k), drive'[k] = drive[k],
         blueprint'.names[k] = blueprint.names[k],
         \A x \in Touching(k) : req'[x] = req[x]
  PROVE  InOrder(k)'
  BY DEF InOrder, Touching, Live, Key

-----------------------------------------------------------------------------
(* The four ways a step changes who is at work, each keeping the invariant *)

\* A request at work stays at work: it need only be right about its own folder.
LEMMA WorkKeeps ==
  ASSUME FoldersInv, NEW r \in Requests, Live(r), Live(r)', NEW p, Moves(r, p),
         req[r].pc = "ending" => p = "ending", UNCHANGED history \/ Lose(r) \/ Admit(r),
         DriveMoves(Key(r)), BlueprintMoves(Key(r)),
         lease' \in [Folders \cup {Adoption} -> Maybe(Requests)], edits' = edits,
         p \in {"found", "renamed", "compensating"} => req'[r].found \in Names,
         p = "compensating" => req'[r].answer \in {"conflict", "error"},
         r \in alone /\ ~ Lose(r) => Standing(r)',
         r \in alone /\ UNCHANGED history /\ Key(r) \notin disturbed => InOrder(Key(r))'
  PROVE  FoldersInv'
  <1> USE DEF FoldersInv
  <1>1. /\ Key(r) \in Folders /\ Key(r)' = Key(r)
        /\ p # "ending" => Snapshot(r)
    BY DEF SnapshotsAreExact, Snapshot, Live, Moves, Kept, Key
  <1>2. alone' \subseteq alone /\ disturbed \subseteq disturbed' /\ disturbed' \subseteq Folders
    BY <1>1 DEF history, Lose, Admit, FoldersTypeOK
  <1>3. FoldersTypeOK'
    BY <1>1, <1>2 DEF FoldersTypeOK, Moves, DriveMoves, BlueprintMoves, BlueprintAges
  <1>4. SnapshotsAreExact'
    <2> SUFFICES ASSUME NEW x \in Requests, (req[x].pc \notin {"idle", "done", "ending"})'
                 PROVE  Snapshot(x)'
      BY <1>1 DEF SnapshotsAreExact, Moves, Others, Key
    <2>1. CASE x = r
      BY <2>1, <1>1, SnapshotFrame DEF FoldersTypeOK, Moves, BlueprintMoves
    <2>2. CASE x # r
      <3>1. req'[x] = req[x] /\ Snapshot(x)
        BY <2>2 DEF Moves, Others, SnapshotsAreExact
      <3>2. QED
        BY <3>1, SnapshotFrame DEF FoldersTypeOK, Moves, Kept, Snapshot, BlueprintMoves
    <2>3. QED
      BY <2>1, <2>2
  <1>5. \A x \in Requests : Live(x)' = Live(x) /\ Key(x)' = Key(x)
    BY <1>1 DEF Moves, Others, Live, Key
  <1>6. \A k : Touching(k)' = Touching(k)
    BY <1>5 DEF Touching
  <1>7. AloneMeansAlone'
    BY <1>2, <1>5, <1>6 DEF AloneMeansAlone, FoldersTypeOK
  <1>8. OrderIsKeptAlone'
    <2> SUFFICES ASSUME NEW x \in Requests, Live(x)', Key(x)' \notin disturbed' PROVE x \in alone'
      BY DEF OrderIsKeptAlone
    <2>1. x \in alone
      BY <1>2, <1>5 DEF OrderIsKeptAlone
    <2>2. QED
      BY <2>1, <1>5 DEF history, Lose, Admit
  <1>9. ASSUME NEW x \in alone' PROVE Standing(x)'
    <2>1. x \in alone /\ x \in Requests
      BY <1>2 DEF FoldersTypeOK
    <2>2. CASE x = r
      BY <2>1, <2>2 DEF Lose
    <2>3. CASE x # r
      <3>1. Key(x) # Key(r) /\ req'[x] = req[x] /\ Key(x) \in Folders
        BY <2>1, <2>3 DEF AloneMeansAlone, Touching, Moves, Others, SnapshotsAreExact, Snapshot, Live
      <3>2. QED
        BY <3>1, <2>1, <1>2, StandingFrame DEF DriveMoves, BlueprintMoves
    <2>4. QED
      BY <2>2, <2>3
  <1>10. DriftIsExplained'
    <2> SUFFICES ASSUME NEW k \in Folders, k \notin disturbed' PROVE InOrder(k)'
      BY DEF DriftIsExplained
    <2>1. k \notin disturbed /\ InOrder(k)
      BY <1>2 DEF DriftIsExplained
    <2>2. CASE k = Key(r)
      <3>1. InOrder(Key(r))'
        BY <2>1, <2>2 DEF Lose, Admit, OrderIsKeptAlone
      <3>2. QED
        BY <3>1, <2>2, <1>1 DEF InOrder, Touching
    <2>3. CASE k # Key(r)
      <3>1. \A x \in Touching(k) : req'[x] = req[x]
        BY <2>3 DEF Touching, Moves, Others
      <3>2. QED
        BY <3>1, <2>1, <2>3, InOrderFrame DEF DriveMoves, BlueprintMoves
    <2>4. QED
      BY <2>2, <2>3
  <1>11. QED
    BY <1>3, <1>4, <1>7, <1>8, <1>9, <1>10

\* A request takes its folder in hand: alone, or crossing whoever is there.
LEMMA EnterKeeps ==
  ASSUME FoldersInv, NEW r \in Requests, req[r].pc = "read",
         NEW p \in {"leased", "checked"}, Moves(r, p), Enter(r, Touching(Key(r))),
         req'[r].was = drive[Key(r)], p = "checked" => drive[Key(r)] = req[r].name,
         lease' \in [Folders \cup {Adoption} -> Maybe(Requests)],
         UNCHANGED <<drive, blueprint, edits>>
  PROVE  FoldersInv'
  <1> USE DEF FoldersInv
  <1>1. Snapshot(r) /\ Key(r) \in Folders /\ Key(r)' = Key(r) /\ ~Live(r) /\ Live(r)'
    BY DEF SnapshotsAreExact, Snapshot, Live, Moves, Kept, Key
  <1>2. r \notin alone /\ disturbed \subseteq disturbed'
    BY <1>1 DEF AloneMeansAlone, Enter
  <1>3. FoldersTypeOK'
    BY <1>1 DEF FoldersTypeOK, Moves, Enter
  <1>4. SnapshotsAreExact'
    <2> SUFFICES ASSUME NEW x \in Requests, (req[x].pc \notin {"idle", "done", "ending"})'
                 PROVE  Snapshot(x)'
      BY DEF SnapshotsAreExact, Moves, Others, Key
    <2>1. CASE x = r
      BY <2>1, <1>1, SnapshotFrame DEF FoldersTypeOK, Moves, BlueprintAges
    <2>2. CASE x # r
      <3>1. req'[x] = req[x] /\ Snapshot(x)
        BY <2>2 DEF Moves, Others, SnapshotsAreExact
      <3>2. QED
        BY <3>1, SnapshotFrame DEF FoldersTypeOK, Moves, Kept, Snapshot, BlueprintAges
    <2>3. QED
      BY <2>1, <2>2
  <1>5. \A x \in Requests \ {r} : Live(x)' = Live(x) /\ Key(x)' = Key(x) /\ req'[x] = req[x]
    BY DEF Moves, Others, Live, Key
  <1>6. \A k : Touching(k)' = IF k = Key(r) THEN Touching(k) \cup {r} ELSE Touching(k)
    BY <1>1, <1>5 DEF Touching
  <1>7. \A x \in Requests : x \in alone' <=>
           \/ x \in alone /\ Key(x) # Key(r)
           \/ x = r /\ Touching(Key(r)) = {}
    <2>1. CASE Touching(Key(r)) = {}
      BY <2>1 DEF Enter, Touching, AloneMeansAlone
    <2>2. CASE Touching(Key(r)) # {}
      BY <2>2, <1>2 DEF Enter, Touching, AloneMeansAlone
    <2>3. QED
      BY <2>1, <2>2
  <1>8. AloneMeansAlone'
    <2> SUFFICES ASSUME NEW x \in alone' PROVE Live(x)' /\ Touching(Key(x))' = {x}
      BY DEF AloneMeansAlone
    <2>1. x \in Requests
      BY <1>3 DEF FoldersTypeOK
    <2>2. CASE x = r
      BY <2>2, <1>1, <1>2, <1>6, <1>7 DEF AloneMeansAlone
    <2>3. CASE x # r
      BY <2>1, <2>3, <1>5, <1>6, <1>7 DEF AloneMeansAlone
    <2>4. QED
      BY <2>2, <2>3
  <1>9. OrderIsKeptAlone'
    <2> SUFFICES ASSUME NEW x \in Requests, Live(x)', Key(x)' \notin disturbed' PROVE x \in alone'
      BY DEF OrderIsKeptAlone
    <2>1. CASE x = r
      BY <2>1, <1>1, <1>7 DEF Enter
    <2>2. CASE x # r
      <3>1. x \in alone
        BY <2>2, <1>2, <1>5 DEF OrderIsKeptAlone
      <3>2. Key(x) # Key(r)
        BY <2>2, <1>5 DEF Enter, Touching
      <3>3. QED
        BY <3>1, <3>2, <1>7
    <2>3. QED
      BY <2>1, <2>2
  <1>10. ASSUME NEW x \in alone' PROVE Standing(x)'
    <2>1. x \in Requests
      BY <1>3 DEF FoldersTypeOK
    <2>2. CASE x = r
      BY <2>2, <1>1 DEF Standing, AsItWas, Moves, Kept
    <2>3. CASE x # r
      <3>1. x \in alone /\ Standing(x) /\ req'[x] = req[x]
        BY <2>1, <2>3, <1>5, <1>7
      <3>2. QED
        BY <3>1, <2>1, <1>2, StandingFrame
    <2>4. QED
      BY <2>2, <2>3
  <1>11. DriftIsExplained'
    <2> SUFFICES ASSUME NEW k \in Folders, k \notin disturbed' PROVE InOrder(k)'
      BY DEF DriftIsExplained
    <2>1. InOrder(k)
      BY <1>2 DEF DriftIsExplained
    <2>2. \A x \in Touching(k) : req'[x] = req[x]
      BY <1>1, <1>5 DEF Touching
    <2>3. QED
      BY <2>1, <2>2, InOrderFrame
  <1>12. QED
    BY <1>3, <1>4, <1>8, <1>9, <1>10, <1>11

\* A request is done with its folder, or is gone.  What it leaves in order was so.
LEMMA LeaveKeeps ==
  ASSUME FoldersInv, NEW r \in Requests, Live(r), Leaves(r),
         alone' = alone \ {r},
         \/ disturbed' = disturbed \cup {Key(r)}
         \/ /\ disturbed' = disturbed
            /\ r \in alone /\ Key(r) \notin disturbed => drive[Key(r)] = blueprint.names[Key(r)]
         \/ /\ disturbed' = disturbed \ {Key(r)}
            /\ r \in alone /\ drive[Key(r)] = blueprint.names[Key(r)],
         lease' \in [Folders \cup {Adoption} -> Maybe(Requests)],
         UNCHANGED <<drive, blueprint, edits>>
  PROVE  FoldersInv'
  <1> USE DEF FoldersInv
  <1>1. Key(r) \in Folders /\ ~Live(r)'
    BY DEF SnapshotsAreExact, Snapshot, Live, Leaves
  <1>2. \A k \in Folders \ {Key(r)} : k \notin disturbed' => k \notin disturbed
    OBVIOUS
  <1>3. FoldersTypeOK'
    BY <1>1 DEF FoldersTypeOK, Leaves
  <1>4. \A x \in Requests \ {r} : Live(x)' = Live(x) /\ Key(x)' = Key(x) /\ req'[x] = req[x]
    BY DEF Leaves, Others, Live, Key
  <1>5. SnapshotsAreExact'
    <2> SUFFICES ASSUME NEW x \in Requests, (req[x].pc \notin {"idle", "done", "ending"})'
                 PROVE  Snapshot(x)'
      BY DEF SnapshotsAreExact, Leaves, Others, Key
    <2>1. x # r /\ req'[x] = req[x] /\ Snapshot(x)
      BY <1>4 DEF Leaves, SnapshotsAreExact
    <2>2. QED
      BY <2>1, SnapshotFrame DEF FoldersTypeOK, Leaves, Kept, Snapshot, BlueprintAges
  <1>6. \A k : Touching(k)' = Touching(k) \ {r}
    BY <1>1, <1>4 DEF Touching
  <1>7. AloneMeansAlone'
    BY <1>4, <1>6 DEF AloneMeansAlone, FoldersTypeOK
  <1>8. \A x \in Requests \ {r} : r \in alone /\ Live(x) => Key(x) # Key(r)
    BY DEF AloneMeansAlone, Touching
  <1>9. OrderIsKeptAlone'
    <2> SUFFICES ASSUME NEW x \in Requests, Live(x)', Key(x)' \notin disturbed' PROVE x \in alone'
      BY DEF OrderIsKeptAlone
    <2>1. x # r /\ Live(x) /\ Key(x) \in Folders /\ Key(x)' = Key(x)
      BY <1>1, <1>4 DEF SnapshotsAreExact, Snapshot, Live
    <2>2. Key(x) \notin disturbed
      BY <2>1, <1>2, <1>8
    <2>3. QED
      BY <2>1, <2>2 DEF OrderIsKeptAlone
  <1>10. ASSUME NEW x \in alone' PROVE Standing(x)'
    <2>1. x \in alone /\ x \in Requests /\ x # r /\ req'[x] = req[x] /\ Live(x) /\ Key(x) \in Folders
      BY <1>4 DEF FoldersTypeOK, AloneMeansAlone, SnapshotsAreExact, Snapshot, Live
    <2>2. Key(x) \notin disturbed' => Key(x) \notin disturbed
      BY <2>1, <1>2, <1>8
    <2>3. QED
      BY <2>1, <2>2, StandingFrame
  <1>11. DriftIsExplained'
    <2> SUFFICES ASSUME NEW k \in Folders, k \notin disturbed' PROVE InOrder(k)'
      BY DEF DriftIsExplained
    <2>1. CASE k = Key(r)
      BY <2>1 DEF InOrder, OrderIsKeptAlone
    <2>2. CASE k # Key(r)
      <3>1. InOrder(k)
        BY <2>2, <1>2 DEF DriftIsExplained
      <3>2. \A x \in Touching(k) : req'[x] = req[x]
        BY <2>2, <1>4 DEF Touching
      <3>3. QED
        BY <3>1, <3>2, InOrderFrame
    <2>3. QED
      BY <2>1, <2>2
  <1>12. QED
    BY <1>3, <1>5, <1>7, <1>9, <1>10, <1>11

\* Another hand writes names of some folders.
LEMMA MeddleKeeps ==
  ASSUME FoldersInv, NEW K, K \subseteq Folders, Meddle(K), req' = req, lease' = lease,
         edits' \in 0..MaxSaves, drive' \in [Folders -> Names], BlueprintAges,
         \A k \in Folders \ K : drive'[k] = drive[k] /\ blueprint'.names[k] = blueprint.names[k]
  PROVE  FoldersInv'
  <1> USE DEF FoldersInv
  <1>1. FoldersTypeOK'
    BY DEF FoldersTypeOK, Meddle, BlueprintAges
  <1>2. SnapshotsAreExact'
    BY SnapshotFrame DEF SnapshotsAreExact, Snapshot, Kept, Key, FoldersTypeOK
  <1>3. \A x \in Requests : x \in alone' <=> x \in alone /\ (Live(x) => Key(x) \notin K)
    BY DEF Meddle, Touching, AloneMeansAlone
  <1>4. alone' \subseteq alone /\ disturbed' = disturbed \cup K
    BY DEF Meddle
  <1>5. AloneMeansAlone'
    BY <1>4 DEF AloneMeansAlone, Touching, Live, Key
  <1>6. OrderIsKeptAlone'
    BY <1>3, <1>4 DEF OrderIsKeptAlone, Live, Key
  <1>7. ASSUME NEW x \in alone' PROVE Standing(x)'
    <2>1. x \in alone /\ x \in Requests /\ Live(x)
      BY <1>4 DEF FoldersTypeOK, AloneMeansAlone
    <2>2. Key(x) \in Folders \ K
      BY <2>1, <1>3 DEF SnapshotsAreExact, Snapshot, Live
    <2>3. QED
      BY <2>1, <2>2, <1>4, StandingFrame
  <1>8. DriftIsExplained'
    BY <1>4, InOrderFrame DEF DriftIsExplained
  <1>9. QED
    BY <1>1, <1>2, <1>5, <1>6, <1>7, <1>8

\* A request that has no folder in hand begins or is turned away.
LEMMA AsideKeeps ==
  ASSUME FoldersInv, NEW r \in Requests, ~Live(r), ~Live(r)',
         req' \in [Requests -> Orders], Others(r),
         req'[r].pc # "done" => Snapshot(r)',
         UNCHANGED <<drive, blueprint, lease, edits, history>>
  PROVE  FoldersInv'
  <1> USE DEF FoldersInv, history
  <1>1. FoldersTypeOK'
    BY DEF FoldersTypeOK
  <1>2. \A x \in Requests \ {r} : req'[x] = req[x]
    BY DEF Others
  <1>3. SnapshotsAreExact'
    BY <1>2 DEF SnapshotsAreExact, Snapshot, Key, Live
  <1>4. \A x \in Requests : Live(x)' = Live(x) /\ (Live(x) => req'[x] = req[x])
    BY <1>2 DEF Live
  <1>5. \A k : Touching(k)' = Touching(k)
    BY <1>4 DEF Touching, Key
  <1>6. AloneMeansAlone' /\ OrderIsKeptAlone'
    BY <1>4, <1>5 DEF AloneMeansAlone, OrderIsKeptAlone, Key, FoldersTypeOK
  <1>7. ASSUME NEW x \in alone' PROVE Standing(x)'
    BY <1>4, StandingFrame DEF AloneMeansAlone, FoldersTypeOK
  <1>8. DriftIsExplained'
    BY <1>4, InOrderFrame DEF DriftIsExplained, Touching
  <1>9. QED
    BY <1>1, <1>3, <1>6, <1>7, <1>8

-----------------------------------------------------------------------------
(* Every action keeps the invariant *)

LEMMA BeginKeeps ==
  ASSUME FoldersInv, NEW r \in Requests, NEW k \in Folders, NEW n \in Names,
         Rename(r, k, n) \/ Reconcile(r, k, n) \/ Adopt(r, k, n)
  PROVE  FoldersInv'
  <1> FoldersTypeOK
    BY DEF FoldersInv
  <1>1. PICK m \in {"rename", "reconcile", "adopt"}, name \in Names, a \in Maybe(Names) :
          /\ Begin(r, m, k, name, a)
          /\ m = "reconcile" => name = blueprint.names[k]
          /\ m = "adopt" => name = a
    <2>1. CASE Rename(r, k, n)
      BY <2>1 DEF Rename, Maybe
    <2>2. CASE Reconcile(r, k, n)
      BY <2>2 DEF Reconcile, Maybe, FoldersTypeOK
    <2>3. CASE Adopt(r, k, n)
      BY <2>3 DEF Adopt, Maybe
    <2>4. QED
      BY <2>1, <2>2, <2>3
  <1>2. /\ req' \in [Requests -> Orders] /\ Others(r)
        /\ req'[r].pc = "read" /\ req'[r].mode = m /\ req'[r].key = k /\ req'[r].name = name
        /\ req'[r].actual = a /\ req'[r].version = blueprint.version
        /\ req'[r].names = blueprint.names
    BY <1>1, BeginFacts
  <1>3. req[r].pc = "idle" /\ UNCHANGED <<drive, blueprint, lease, edits, history>>
    BY <1>1 DEF Begin
  <1>4. Snapshot(r)'
    BY <1>1, <1>2, <1>3 DEF Snapshot, Key, FoldersTypeOK
  <1>5. QED
    BY <1>2, <1>3, <1>4, AsideKeeps DEF Live

\* A folder is entered under the name Drive has at that moment.
LEMMA AcquireKeeps ==
  ASSUME FoldersInv, NEW r \in Requests, Acquire(r)
  PROVE  FoldersInv'
  <1> FoldersTypeOK /\ SnapshotsAreExact
    BY DEF FoldersInv
  <1>1. Key(r) \in Folders /\ req[r].pc = "read" /\ UNCHANGED <<drive, blueprint, edits>>
    BY DEF Acquire, SnapshotsAreExact, Snapshot
  <1>2. CASE /\ Free(Key(r))
             /\ lease' = [lease EXCEPT ![Key(r)] = r]
             /\ To(r, [req[r] EXCEPT !.pc = "leased", !.was = drive[Key(r)]])
             /\ Enter(r, {o \in Touching(Key(r)) : lease[Key(r)] # o})
    <2>1. Moves(r, "leased") /\ req'[r].was = drive[Key(r)]
      <3>1. drive[Key(r)] \in Names /\ "leased" \in Stages
        BY <1>1 DEF FoldersTypeOK, Stages
      <3>2. QED
        BY <3>1, <1>2, WasFacts
    <2>2. {o \in Touching(Key(r)) : lease[Key(r)] # o} = Touching(Key(r))
      BY <1>2 DEF Free, Touching
    <2>3. lease' \in [Folders \cup {Adoption} -> Maybe(Requests)]
      BY <1>2 DEF FoldersTypeOK, Maybe
    <2>4. Enter(r, Touching(Key(r)))
      BY <1>2, <2>2
    <2>5. QED
      BY <1>1, <2>1, <2>3, <2>4, EnterKeeps
  <1>3. CASE Leave(r) /\ UNCHANGED <<lease, history>>
    BY <1>1, <1>3, LeaveFacts, AsideKeeps DEF Live, Leaves
  <1>4. QED
    BY <1>2, <1>3 DEF Acquire

\* Of a folder in order the two names are one, but for its request's rename.
LEMMA AloneInOrder ==
  ASSUME FoldersInv, NEW r \in alone, Key(r) \notin disturbed,
         req[r].pc \notin {"renamed", "compensating"}
  PROVE  drive[Key(r)] = blueprint.names[Key(r)]
  BY DEF FoldersInv, FoldersTypeOK, AloneMeansAlone, DriftIsExplained, InOrder, SnapshotsAreExact,
         Snapshot, Live

LEMMA AtWork ==
  ASSUME FoldersInv, NEW r \in Requests, Live(r)
  PROVE  Key(r) \in Folders /\ (req[r].pc # "ending" => Snapshot(r))
  BY DEF FoldersInv, SnapshotsAreExact, Snapshot, Live

\* As WorkKeeps, for the steps that write to neither store.
LEMMA ReadingKeeps ==
  ASSUME FoldersInv, NEW r \in Requests, Live(r),
         NEW p \in {"leased", "verified", "found", "renamed", "compensating", "ending", "checked",
                    "holding"},
         Moves(r, p), req[r].pc = "ending" => p = "ending",
         UNCHANGED <<drive, blueprint, edits, history>>,
         lease' \in [Folders \cup {Adoption} -> Maybe(Requests)],
         p \in {"found", "renamed", "compensating"} => req'[r].found \in Names,
         p = "compensating" => req'[r].answer \in {"conflict", "error"},
         r \in alone => Standing(r)',
         req[r].pc \notin {"renamed", "compensating"} \/ p = "compensating"
           \/ (r \in alone /\ Key(r) \notin disturbed => drive[Key(r)] = blueprint.names[Key(r)])
  PROVE  FoldersInv'
  <1>1. Key(r) \in Folders /\ Key(r)' = Key(r) /\ Live(r)'
    BY AtWork DEF Moves, Kept, Key, Live
  <1>2. DriveMoves(Key(r)) /\ BlueprintMoves(Key(r))
    BY DEF FoldersInv, FoldersTypeOK, DriveMoves, BlueprintMoves, BlueprintAges
  <1>3. ASSUME r \in alone, Key(r) \notin disturbed
        PROVE  InOrder(Key(r))'
    <2>1. CASE p = "compensating"
      BY <2>1, <1>1 DEF InOrder, Touching, Moves
    <2>2. CASE p # "compensating"
      BY <2>2, <1>1, <1>3, AloneInOrder DEF InOrder
    <2>3. QED
      BY <2>1, <2>2
  <1>4. QED
    BY <1>1, <1>2, <1>3, WorkKeeps

LEMMA VerifyKeeps ==
  ASSUME FoldersInv, NEW r \in Requests, Verify(r)
  PROVE  FoldersInv'
  <1> FoldersTypeOK
    BY DEF FoldersInv
  <1>1. Live(r) /\ req[r].pc = "leased" /\ UNCHANGED <<drive, blueprint, lease, edits, history>>
    BY DEF Verify, Live
  <1>2. r \in alone => AsItWas(r)
    BY <1>1 DEF FoldersInv, Standing
  <1>3. CASE To(r, [req[r] EXCEPT !.pc = "verified"])
    <2>1. Moves(r, "verified") /\ req'[r].was = req[r].was
      BY <1>3, StageFacts DEF Stages
    <2>2. QED
      BY <2>1, <1>1, <1>2, ReadingKeeps DEF Moves, Kept, Key, FoldersTypeOK, Standing, Truth, AsItWas
  <1>4. CASE Ending(r, "conflict")
    <2>1. Moves(r, "ending") /\ req'[r].was = req[r].was /\ req'[r].answer = "conflict"
      BY <1>4, EndingFacts DEF Answers
    <2>2. QED
      BY <2>1, <1>1, <1>2, ReadingKeeps DEF Moves, Kept, Key, FoldersTypeOK, Standing, Truth, AsItWas
  <1>5. QED
    BY <1>3, <1>4 DEF Verify

LEMMA LookKeeps ==
  ASSUME FoldersInv, NEW r \in Requests, Look(r)
  PROVE  FoldersInv'
  <1> FoldersTypeOK
    BY DEF FoldersInv
  <1>1. /\ Live(r) /\ req[r].pc \in {"leased", "verified"}
        /\ UNCHANGED <<drive, blueprint, lease, edits, history>>
    BY DEF Look, Live
  <1>2. r \in alone => AsItWas(r)
    BY <1>1 DEF FoldersInv, Standing
  <1>3. drive[Key(r)] \in Names
    BY <1>1, AtWork DEF FoldersTypeOK
  <1>4. CASE To(r, [req[r] EXCEPT !.pc = "found", !.found = drive[Key(r)]])
    <2>1. Moves(r, "found") /\ req'[r].was = req[r].was /\ req'[r].found = drive[Key(r)]
      BY <1>3, <1>4, FoundFacts
    <2>2. QED
      BY <2>1, <1>1, <1>2, <1>3, ReadingKeeps DEF Moves, Kept, Key, FoldersTypeOK, Standing, Truth, AsItWas
  <1>5. CASE Ending(r, "stale")
    <2>1. Moves(r, "ending") /\ req'[r].was = req[r].was /\ req'[r].answer = "stale"
      BY <1>5, EndingFacts DEF Answers
    <2>2. QED
      BY <2>1, <1>1, <1>2, ReadingKeeps DEF Moves, Kept, Key, FoldersTypeOK, Standing, Truth, AsItWas
  <1>6. QED
    BY <1>4, <1>5 DEF Look

LEMMA PatchKeeps ==
  ASSUME FoldersInv, NEW r \in Requests, Patch(r)
  PROVE  FoldersInv'
  <1> FoldersTypeOK
    BY DEF FoldersInv
  <1>1. Live(r) /\ req[r].pc = "found" /\ UNCHANGED <<blueprint, lease, edits>>
    BY DEF Patch, Live
  <1>2. Snapshot(r) /\ Key(r) \in Folders /\ req[r].found \in Names /\ req[r].name \in Names
    BY <1>1, AtWork DEF Snapshot
  <1>3. r \in alone => AsItWas(r) /\ req[r].found = req[r].was
    BY <1>1 DEF FoldersInv, Standing
  <1>4. r \in alone /\ Key(r) \notin disturbed => blueprint.names[Key(r)] = req[r].found
    BY <1>1, <1>3, AloneInOrder DEF AsItWas
  <1>5. BlueprintMoves(Key(r)) /\ lease' \in [Folders \cup {Adoption} -> Maybe(Requests)]
    BY <1>1 DEF BlueprintMoves, BlueprintAges, FoldersTypeOK
  <1>6. CASE Put(r, req[r].name) /\ To(r, [req[r] EXCEPT !.pc = "renamed"]) /\ UNCHANGED history
    <2>1. /\ Moves(r, "renamed") /\ req'[r].was = req[r].was /\ req'[r].found = req[r].found
          /\ Key(r)' = Key(r) /\ Live(r)'
      BY <1>6, StageFacts DEF Stages, Moves, Kept, Key, Live
    <2>2. DriveMoves(Key(r)) /\ drive'[Key(r)] = req[r].name
      BY <1>2, <1>6, PutMoves
    <2>3. r \in alone => Standing(r)'
      BY <2>1, <2>2, <1>1, <1>3, <1>4, <1>6 DEF Standing, Moves, Kept, history
    <2>4. InOrder(Key(r))'
      BY <2>1 DEF InOrder, Touching, Moves
    <2>5. QED
      BY <2>1, <2>2, <2>3, <2>4, <1>1, <1>2, <1>5, <1>6, WorkKeeps
  <1>7. CASE Put(r, req[r].name) /\ Ending(r, "error") /\ Lose(r)
    <2>1. Moves(r, "ending") /\ Live(r)'
      BY <1>7, EndingFacts DEF Answers, Moves, Live
    <2>2. DriveMoves(Key(r))
      BY <1>2, <1>7, PutMoves
    <2>3. ~ UNCHANGED history \/ r \notin alone
      BY <1>7 DEF Lose, history
    <2>4. QED
      BY <2>1, <2>2, <2>3, <1>1, <1>2, <1>5, <1>7, WorkKeeps
  <1>8. CASE Ending(r, "error") /\ UNCHANGED <<drive, history>>
    <2>1. Moves(r, "ending") /\ req'[r].was = req[r].was /\ req'[r].answer = "error"
      BY <1>8, EndingFacts DEF Answers
    <2>2. QED
      BY <2>1, <1>1, <1>3, <1>5, <1>8, ReadingKeeps DEF Moves, Kept, Key, Standing, Truth, AsItWas
  <1>9. QED
    BY <1>6, <1>7, <1>8 DEF Patch

\* Before its save a request that nobody crossed has written Drive alone.
LEMMA Midway ==
  ASSUME FoldersInv, NEW r \in Requests, req[r].pc \in {"renamed", "compensating"}
  PROVE  /\ Live(r) /\ Snapshot(r) /\ Key(r) \in Folders
         /\ req[r].found \in Names /\ req[r].name \in Names
         /\ r \in alone =>
              /\ drive[Key(r)] = req[r].name
              /\ req[r].found = req[r].was
              /\ Key(r) \notin disturbed => blueprint.names[Key(r)] = req[r].found
  BY AtWork DEF FoldersInv, Standing, Snapshot, Live

\* Giving a rename up before its undoing.
LEMMA UndoingKeeps ==
  ASSUME FoldersInv, NEW r \in Requests, req[r].pc = "renamed",
         NEW a \in {"conflict", "error"}, Undoing(r, a),
         UNCHANGED <<drive, blueprint, lease, edits, history>>
  PROVE  FoldersInv'
  <1> FoldersTypeOK
    BY DEF FoldersInv
  <1>1. /\ Moves(r, "compensating") /\ req'[r].was = req[r].was
        /\ req'[r].found = req[r].found /\ req'[r].answer = a
    BY UndoingFacts DEF Answers
  <1>2. r \in alone => Standing(r)'
    BY <1>1, Midway DEF Moves, Kept, Key, Standing, history
  <1>3. QED
    BY <1>1, <1>2, Midway, ReadingKeeps DEF FoldersTypeOK

LEMMA SaveKeeps ==
  ASSUME FoldersInv, NEW r \in Requests, Save(r)
  PROVE  FoldersInv'
  <1> FoldersTypeOK
    BY DEF FoldersInv
  <1>1. req[r].pc = "renamed" /\ UNCHANGED <<drive, lease, edits>>
    BY DEF Save
  <1>2. DriveMoves(Key(r)) /\ lease' \in [Folders \cup {Adoption} -> Maybe(Requests)]
    BY <1>1 DEF DriveMoves, FoldersTypeOK
  <1>3. CASE Stored(r) /\ Ending(r, "renamed") /\ UNCHANGED history
    <2>1. /\ Moves(r, "ending") /\ req'[r].answer = "renamed" /\ Key(r)' = Key(r) /\ Live(r)'
          /\ req'[r].name = req[r].name
      BY <1>3, EndingFacts DEF Answers, Moves, Kept, Key, Live
    <2>2. BlueprintMoves(Key(r)) /\ blueprint'.names[Key(r)] = req[r].name
      BY <1>1, <1>3, Midway, StoredMoves
    <2>3. r \in alone => Together(r)'
      BY <2>1, <2>2, <1>1, Midway DEF Together
    <2>4. r \in alone => Standing(r)'
      BY <2>1, <2>3 DEF Standing, Truth, Moves
    <2>5. r \in alone => InOrder(Key(r))'
      BY <2>1, <2>3 DEF InOrder, Together
    <2>6. QED
      BY <2>1, <2>2, <2>4, <2>5, <1>1, <1>2, <1>3, Midway, WorkKeeps
  <1>4. CASE Stored(r) /\ Undoing(r, "error") /\ Lose(r)
    <2>1. /\ Moves(r, "compensating") /\ req'[r].answer = "error" /\ req'[r].found = req[r].found
          /\ Live(r)'
      BY <1>4, UndoingFacts DEF Answers, Moves, Live
    <2>2. BlueprintMoves(Key(r))
      BY <1>1, <1>4, Midway, StoredMoves
    <2>3. ~ UNCHANGED history \/ r \notin alone
      BY <1>4 DEF Lose, history
    <2>4. QED
      BY <2>1, <2>2, <2>3, <1>1, <1>2, <1>4, Midway, WorkKeeps
  <1>5. CASE Undoing(r, "conflict") /\ UNCHANGED <<blueprint, history>>
    BY <1>1, <1>5, UndoingKeeps
  <1>6. CASE Undoing(r, "error") /\ UNCHANGED <<blueprint, history>>
    BY <1>1, <1>6, UndoingKeeps
  <1>7. QED
    BY <1>3, <1>4, <1>5, <1>6 DEF Save, Refused

LEMMA ConfirmKeeps ==
  ASSUME FoldersInv, NEW r \in Requests, Confirm(r)
  PROVE  FoldersInv'
  <1> FoldersTypeOK
    BY DEF FoldersInv
  <1>1. /\ req[r].pc = "renamed" /\ req[r].mode = "reconcile"
        /\ UNCHANGED <<drive, blueprint, lease, edits, history>>
    BY DEF Confirm
  <1>2. CASE blueprint.version = req[r].version /\ Ending(r, "renamed")
    <2>1. Moves(r, "ending") /\ req'[r].answer = "renamed"
      BY <1>2, EndingFacts DEF Answers
    <2>2. blueprint.names[Key(r)] = req[r].name
      BY <1>1, <1>2, Midway DEF Snapshot
    <2>3. r \in alone => Together(r)'
      BY <2>1, <2>2, <1>1, Midway DEF Moves, Kept, Key, Together
    <2>4. r \in alone => Standing(r)' /\ drive[Key(r)] = blueprint.names[Key(r)]
      BY <2>1, <2>2, <2>3, <1>1, Midway DEF Standing, Truth, Moves
    <2>5. QED
      BY <2>1, <2>4, <1>1, Midway, ReadingKeeps DEF FoldersTypeOK
  <1>3. CASE Undoing(r, "conflict") \/ Undoing(r, "error")
    BY <1>1, <1>3, UndoingKeeps
  <1>4. QED
    BY <1>2, <1>3 DEF Confirm, Refused

LEMMA CompensateKeeps ==
  ASSUME FoldersInv, NEW r \in Requests, Compensate(r)
  PROVE  FoldersInv'
  <1> FoldersTypeOK
    BY DEF FoldersInv
  <1>1. req[r].pc = "compensating" /\ UNCHANGED <<blueprint, lease, edits>>
    BY DEF Compensate
  <1>2. req[r].answer \in {"conflict", "error"}
    BY <1>1, Midway DEF Snapshot
  <1>3. BlueprintMoves(Key(r)) /\ lease' \in [Folders \cup {Adoption} -> Maybe(Requests)]
    BY <1>1 DEF BlueprintMoves, BlueprintAges, FoldersTypeOK
  <1>4. CASE Restored(r) /\ Ending(r, req[r].answer) /\ UNCHANGED history
    <2>1. /\ Moves(r, "ending") /\ req'[r].was = req[r].was /\ req'[r].answer = req[r].answer
          /\ Key(r)' = Key(r) /\ Live(r)'
      BY <1>2, <1>4, EndingFacts DEF Answers, Moves, Kept, Key, Live
    <2>2. DriveMoves(Key(r)) /\ drive'[Key(r)] = req[r].found
      BY <1>1, <1>4, Midway, PutMoves DEF Restored
    <2>3. r \in alone => Standing(r)'
      BY <2>1, <2>2, <1>1, <1>2, Midway DEF Standing, Truth, AsItWas, Moves
    <2>4. r \in alone /\ Key(r) \notin disturbed => InOrder(Key(r))'
      BY <2>1, <2>2, <1>1, Midway DEF InOrder
    <2>5. QED
      BY <2>1, <2>2, <2>3, <2>4, <1>1, <1>3, <1>4, Midway, WorkKeeps
  <1>5. CASE Ending(r, "unrestored") /\ Admit(r) /\ (UNCHANGED drive \/ Restored(r))
    <2>1. /\ Moves(r, "ending") /\ req'[r].was = req[r].was /\ req'[r].answer = "unrestored"
          /\ Key(r)' = Key(r) /\ req'[r].name = req[r].name /\ Live(r)'
      BY <1>5, EndingFacts DEF Answers, Moves, Kept, Key, Live
    <2>2. DriveMoves(Key(r)) /\ (drive' = drive \/ drive'[Key(r)] = req[r].found)
      BY <1>1, <1>5, Midway, PutMoves DEF Restored, DriveMoves, FoldersTypeOK
    <2>3. r \in alone => Unrestored(r)'
      BY <2>1, <2>2, <1>1, Midway DEF Unrestored
    <2>4. r \in alone => Standing(r)'
      BY <2>1, <2>3 DEF Standing, Truth, Moves
    <2>5. ~ UNCHANGED history \/ Key(r) \in disturbed
      BY <1>5 DEF Admit, history
    <2>6. QED
      BY <2>1, <2>2, <2>4, <2>5, <1>1, <1>3, <1>5, Midway, WorkKeeps
  <1>6. QED
    BY <1>4, <1>5 DEF Compensate

LEMMA CheckKeeps ==
  ASSUME FoldersInv, NEW r \in Requests, Check(r)
  PROVE  FoldersInv'
  <1> FoldersTypeOK
    BY DEF FoldersInv
  <1>1. /\ Snapshot(r) /\ req[r].pc = "read" /\ req[r].mode = "adopt"
        /\ UNCHANGED <<drive, blueprint, lease, edits>>
    BY DEF Check, FoldersInv, SnapshotsAreExact
  <1>2. drive[Key(r)] \in Names
    BY <1>1 DEF Snapshot, FoldersTypeOK
  <1>3. CASE /\ drive[Key(r)] = req[r].actual
             /\ To(r, [req[r] EXCEPT !.pc = "checked", !.was = drive[Key(r)]])
             /\ Enter(r, Touching(Key(r)))
    <2>1. Moves(r, "checked") /\ req'[r].was = drive[Key(r)]
      BY <1>2, <1>3, WasFacts DEF Stages
    <2>2. QED
      BY <2>1, <1>1, <1>3, EnterKeeps DEF Snapshot, FoldersTypeOK
  <1>4. CASE Leave(r) /\ UNCHANGED history
    BY <1>1, <1>4, LeaveFacts, AsideKeeps DEF Live, Leaves
  <1>5. QED
    BY <1>3, <1>4 DEF Check

LEMMA AcquireAdoptionKeeps ==
  ASSUME FoldersInv, NEW r \in Requests, AcquireAdoption(r)
  PROVE  FoldersInv'
  <1> FoldersTypeOK
    BY DEF FoldersInv
  <1>1. Live(r) /\ req[r].pc = "checked" /\ UNCHANGED <<drive, blueprint, edits, history>>
    BY DEF AcquireAdoption, Live
  <1>2. r \in alone => AsItWas(r) /\ drive[Key(r)] = req[r].name
    BY <1>1 DEF FoldersInv, Standing
  <1>3. lease' \in [Folders \cup {Adoption} -> Maybe(Requests)]
    BY DEF AcquireAdoption, FoldersTypeOK, Maybe
  <1>4. CASE To(r, [req[r] EXCEPT !.pc = "holding"])
    <2>1. Moves(r, "holding") /\ req'[r].was = req[r].was
      BY <1>4, StageFacts DEF Stages
    <2>2. QED
      BY <2>1, <1>1, <1>2, <1>3, ReadingKeeps DEF Moves, Kept, Key, Standing, Truth, AsItWas
  <1>5. CASE Ending(r, "stale")
    <2>1. Moves(r, "ending") /\ req'[r].was = req[r].was /\ req'[r].answer = "stale"
      BY <1>5, EndingFacts DEF Answers
    <2>2. QED
      BY <2>1, <1>1, <1>2, <1>3, ReadingKeeps DEF Moves, Kept, Key, Standing, Truth, AsItWas
  <1>6. QED
    BY <1>4, <1>5 DEF AcquireAdoption

LEMMA SaveAdoptionKeeps ==
  ASSUME FoldersInv, NEW r \in Requests, SaveAdoption(r)
  PROVE  FoldersInv'
  <1> FoldersTypeOK
    BY DEF FoldersInv
  <1>1. Live(r) /\ req[r].pc = "holding" /\ UNCHANGED <<drive, lease, edits, history>>
    BY DEF SaveAdoption, Live
  <1>2. r \in alone => AsItWas(r) /\ drive[Key(r)] = req[r].name
    BY <1>1 DEF FoldersInv, Standing
  <1>3. DriveMoves(Key(r)) /\ lease' \in [Folders \cup {Adoption} -> Maybe(Requests)]
    BY <1>1 DEF DriveMoves, FoldersTypeOK
  <1>4. ASSUME NEW a \in {"adopted", "error"}, Stored(r), Ending(r, a)
        PROVE  FoldersInv'
    <2>1. /\ Moves(r, "ending") /\ req'[r].answer = a /\ Key(r)' = Key(r) /\ Live(r)'
          /\ req'[r].name = req[r].name
      BY <1>4, EndingFacts DEF Answers, Moves, Kept, Key, Live
    <2>2. BlueprintMoves(Key(r)) /\ blueprint'.names[Key(r)] = req[r].name
      BY <1>1, <1>4, AtWork, StoredMoves
    <2>3. r \in alone => Together(r)'
      BY <2>1, <2>2, <1>1, <1>2 DEF Together
    <2>4. r \in alone => Standing(r)'
      BY <2>1, <2>3 DEF Standing, Truth, Moves
    <2>5. r \in alone => InOrder(Key(r))'
      BY <2>1, <2>3 DEF InOrder, Together
    <2>6. QED
      BY <2>1, <2>2, <2>4, <2>5, <1>1, <1>3, WorkKeeps
  <1>5. ASSUME NEW a \in {"conflict", "error"}, Ending(r, a), UNCHANGED blueprint
        PROVE  FoldersInv'
    <2>1. Moves(r, "ending") /\ req'[r].was = req[r].was /\ req'[r].answer = a
      BY <1>5, EndingFacts DEF Answers
    <2>2. QED
      BY <2>1, <1>1, <1>2, <1>3, <1>5, ReadingKeeps DEF Moves, Kept, Key, Standing, Truth, AsItWas
  <1>6. QED
    BY <1>4, <1>5 DEF SaveAdoption

LEMMA FinishKeeps ==
  ASSUME FoldersInv, NEW r \in Requests, Finish(r)
  PROVE  FoldersInv'
  <1> FoldersTypeOK
    BY DEF FoldersInv
  <1>1. Live(r) /\ req[r].pc = "ending" /\ UNCHANGED <<drive, blueprint, edits>>
    BY DEF Finish, Live
  <1>2. Leaves(r)
    BY LeaveFacts DEF Finish
  <1>3. lease' \in [Folders \cup {Adoption} -> Maybe(Requests)]
    BY DEF Finish, Release, FoldersTypeOK, Maybe
  <1>4. r \in alone /\ Succeeded(r) => drive[Key(r)] = blueprint.names[Key(r)]
    BY <1>1 DEF FoldersInv, Standing, Truth, Together, Succeeded
  <1>5. r \in alone /\ Key(r) \notin disturbed => drive[Key(r)] = blueprint.names[Key(r)]
    BY <1>1, AloneInOrder
  <1>6. QED
    BY <1>1, <1>2, <1>3, <1>4, <1>5, LeaveKeeps DEF Finish

LEMMA FailToCompleteKeeps ==
  ASSUME FoldersInv, NEW r \in Requests, FailToComplete(r)
  PROVE  FoldersInv'
  <1> FoldersTypeOK
    BY DEF FoldersInv
  <1>1. /\ Live(r) /\ req[r].pc = "ending" /\ Succeeded(r)
        /\ UNCHANGED <<drive, blueprint, lease, edits, history>>
    BY DEF FailToComplete, Live
  <1>2. r \in alone => Together(r)
    BY <1>1 DEF FoldersInv, Standing, Truth, Succeeded
  <1>3. Moves(r, "ending") /\ req'[r].answer = "error"
    BY EndingFacts DEF FailToComplete, Answers
  <1>4. QED
    BY <1>1, <1>2, <1>3, ReadingKeeps DEF Moves, Kept, Key, Standing, Truth, Together, FoldersTypeOK

LEMMA DieKeeps ==
  ASSUME FoldersInv, NEW r \in Requests, Die(r)
  PROVE  FoldersInv'
  <1> FoldersTypeOK
    BY DEF FoldersInv
  <1>1. Live(r) /\ UNCHANGED <<drive, blueprint, lease, edits>>
    BY DEF Die
  <1>2. Leaves(r)
    BY LeaveFacts DEF Die
  <1>3. /\ alone' = alone \ {r}
        /\ IF req[r].pc \in {"renamed", "compensating"} THEN disturbed' = disturbed \cup {Key(r)}
           ELSE disturbed' = disturbed
    BY DEF Die, Lose
  <1>4. QED
    BY <1>1, <1>2, <1>3, AloneInOrder, LeaveKeeps DEF FoldersTypeOK

LEMMA LeaseKeeps ==
  ASSUME FoldersInv, NEW l \in Folders \cup {Adoption}, FolderLeaseRunsOut(l)
  PROVE  FoldersInv'
  BY DEF FolderLeaseRunsOut, FoldersInv, FoldersTypeOK, Maybe, history, DriftIsExplained, InOrder,
         SnapshotsAreExact, Snapshot, AloneMeansAlone, OrderIsKeptAlone, Standing, Truth, Together,
         AsItWas, Unrestored, Touching, Live, Key

LEMMA EditKeeps ==
  ASSUME FoldersInv, NEW names \in [Folders -> Names], EditBlueprint(names)
  PROVE  FoldersInv'
  <1> DEFINE K == {k \in Folders : names[k] # blueprint.names[k]}
  <1>1. K \subseteq Folders /\ Meddle(K)
    BY DEF EditBlueprint
  <1>2. /\ req' = req /\ lease' = lease /\ edits' \in 0..MaxSaves
        /\ drive' \in [Folders -> Names] /\ BlueprintAges
    BY DEF EditBlueprint, FoldersInv, FoldersTypeOK, BlueprintAges
  <1>3. \A k \in Folders \ K : drive'[k] = drive[k] /\ blueprint'.names[k] = blueprint.names[k]
    BY DEF EditBlueprint
  <1> HIDE DEF K
  <1>4. QED
    BY <1>1, <1>2, <1>3, MeddleKeeps

LEMMA RenameInDriveKeeps ==
  ASSUME FoldersInv, NEW k \in Folders, NEW n \in Names, RenameInDrive(k, n)
  PROVE  FoldersInv'
  BY MeddleKeeps DEF RenameInDrive, FoldersInv, FoldersTypeOK, BlueprintAges

LEMMA FoldersInvNext == FoldersInv /\ [FoldersNext]_folderVars => FoldersInv'
  <1> SUFFICES ASSUME FoldersInv, [FoldersNext]_folderVars PROVE FoldersInv'
    OBVIOUS
  <1>1. ASSUME NEW r \in Requests, Act(r) PROVE FoldersInv'
    BY <1>1, BeginKeeps, AcquireKeeps, VerifyKeeps, LookKeeps, PatchKeeps, SaveKeeps, ConfirmKeeps,
       CompensateKeeps, CheckKeeps, AcquireAdoptionKeeps, SaveAdoptionKeeps, FinishKeeps,
       FailToCompleteKeeps, DieKeeps DEF Act
  <1>2. CASE UNCHANGED folderVars
    BY <1>2 DEF folderVars, FoldersInv, FoldersTypeOK, DriftIsExplained, InOrder, SnapshotsAreExact,
       Snapshot, AloneMeansAlone, OrderIsKeptAlone, Standing, Truth, Together, AsItWas, Unrestored,
       Touching, Live, Key
  <1>3. QED
    BY <1>1, <1>2, LeaseKeeps, EditKeeps, RenameInDriveKeeps DEF FoldersNext

LEMMA FoldersInvInit == FoldersInit => FoldersInv
  BY DEF FoldersInit, Fresh, FoldersInv, FoldersTypeOK, Orders, Stages, Maybe, DriftIsExplained,
     InOrder, SnapshotsAreExact, AloneMeansAlone, OrderIsKeptAlone, Live

\* The inductive invariant of the folder names: while nothing has set them
\* apart Drive and the blueprint agree, except between the two writes of a
\* rename, for any folders, names, requests and edits.
THEOREM FoldersInvariance == FoldersSpec => []FoldersInv
  BY FoldersInvInit, FoldersInvNext, PTL DEF FoldersSpec

\* An answer nobody has interfered with says what became of both names.
THEOREM FolderAnswersAreTrue == FoldersSpec => AnswersAreTrue
  <1>1. FoldersInv /\ [FoldersNext]_folderVars =>
          \A r \in Requests : req[r].pc = "ending" /\ req'[r].pc = "done" /\ r \in alone
            => Truth(r, req[r].answer)
    BY DEF FoldersInv, Standing
  <1>2. QED
    BY <1>1, FoldersInvariance, PTL DEF FoldersSpec, AnswersAreTrue

\* Who writes the blueprint: a save over the version it has read, or a hand
\* that is at no request.
LEMMA BlueprintFrame ==
  ASSUME FoldersInv, [FoldersNext]_folderVars, blueprint' # blueprint
  PROVE  \/ \E r \in Requests : (Save(r) \/ SaveAdoption(r)) /\ Stored(r)
         \/ req' = req
  <1>1. ASSUME NEW r \in Requests, Act(r)
        PROVE  (Save(r) \/ SaveAdoption(r)) /\ Stored(r)
    <2>1. Save(r) \/ SaveAdoption(r)
      BY <1>1 DEF Act, Rename, Reconcile, Adopt, Begin, Acquire, Verify, Look, Patch, Confirm,
         Compensate, Check, AcquireAdoption, Finish, FailToComplete, Die
    <2>2. QED
      BY <2>1 DEF Save, SaveAdoption
  <1>2. CASE \E r \in Requests : Act(r)
    BY <1>1, <1>2
  <1>3. CASE \/ \E l \in Folders \cup {Adoption} : FolderLeaseRunsOut(l)
             \/ \E names \in [Folders -> Names] : EditBlueprint(names)
             \/ \E k \in Folders, n \in Names : RenameInDrive(k, n)
             \/ UNCHANGED folderVars
    BY <1>3 DEF EditBlueprint, FolderLeaseRunsOut, RenameInDrive, folderVars
  <1>4. QED
    BY <1>2, <1>3 DEF FoldersNext

\* The saves of renames and adoptions write back nothing that others have saved,
\* for any folders, names, requests and edits.
THEOREM SavesKeepTheRest == FoldersSpec => OneNameAtATime
  <1>1. ASSUME FoldersInv, [FoldersNext]_folderVars, blueprint' # blueprint, NEW r \in Requests,
               req[r].pc \in {"renamed", "holding"}, req'[r] # req[r]
        PROVE  /\ blueprint.names[Key(r)] = req[r].names[Key(r)]
               /\ \A k \in Folders \ {Key(r)} : blueprint'.names[k] = blueprint.names[k]
    <2> FoldersTypeOK
      BY <1>1 DEF FoldersInv
    <2>1. PICK x \in Requests : (Save(x) \/ SaveAdoption(x)) /\ Stored(x)
      BY <1>1, BlueprintFrame
    <2>2. Live(x) /\ Snapshot(x)
      BY <2>1, <1>1, AtWork DEF Save, SaveAdoption, Live
    <2>3. x = r
      BY <2>1, <1>1 DEF Save, SaveAdoption, Ending, Undoing, Refused, To, FoldersTypeOK
    <2>4. QED
      BY <2>1, <2>2, <2>3, StoredMoves DEF BlueprintMoves, Stored, Snapshot
  <1>2. FoldersInv /\ [FoldersNext]_folderVars =>
          (blueprint' # blueprint => \A r \in Requests :
             req[r].pc \in {"renamed", "holding"} /\ req'[r] # req[r] =>
               /\ blueprint.names[Key(r)] = req[r].names[Key(r)]
               /\ \A k \in Folders \ {Key(r)} : blueprint'.names[k] = blueprint.names[k])
    BY <1>1
  <1>3. QED
    BY <1>2, FoldersInvariance, PTL DEF FoldersSpec, OneNameAtATime
=============================================================================
