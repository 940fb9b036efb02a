---------------------------- MODULE AccessControl ----------------------------
(***************************************************************************)
(* Who may do what: employee sign-in with single-use invitations           *)
(* (app/adapters/postgres/identity-persistence-repository.ts) and the five *)
(* administrator commands (admin-access-persistence-repository.ts), behind *)
(* the authorization of each request (app/application/authorization-*.ts). *)
(*                                                                         *)
(* One action is one PostgreSQL transaction.  Commands hold one advisory   *)
(* lock, sign-ins lock the rows they read, so each takes effect at its     *)
(* commit.  What a handler knew before it, the authorization of its        *)
(* session, the version its administrator reviewed and the time it read    *)
(* off the clock, may be old by then.                                      *)
(***************************************************************************)
EXTENDS Integers, FiniteSets

CONSTANTS
  People,          \* Google accounts; each starts with the address of its name
  Founders,        \* administrators the database is seeded with
  Projects,
  Sessions, Invitations, Requests,   \* identifiers drawn by the handlers
  SessionLife, InvitationLife,       \* lifetimes of the access policy
  Delay,           \* bound: how long a handler may hold a time it has read
  MaxTime,         \* bound on the clock
  MaxVersion,      \* bound on the changes of one user
  Nobody

ASSUME FoundersAssumption == Founders # {} /\ Founders \subseteq People
ASSUME NobodyAssumption == Nobody \notin People \cup Sessions
ASSUME LivesAssumption == SessionLife \in Nat /\ InvitationLife \in Nat /\ Delay \in Nat
ASSUME BoundsAssumption == MaxTime \in Nat /\ MaxVersion \in Nat \ {0}

VARIABLES
  users,        \* users, user_roles and active project_memberships, by address
  identity,     \* external_identities: the user of each Google account
  sessions, invitations,
  requests,     \* administrator requests in flight
  now,          \* the clock
  granted       \* history: the access each session was opened under

database == <<users, identity, sessions, invitations, granted>>
vars == <<users, identity, sessions, invitations, requests, now, granted>>

Roles == {"administrator", "office_operations", "project_manager"}
Times == 0 .. MaxTime
Versions == 0 .. MaxVersion

Users == [status : {"none", "active", "disabled"}, role : Roles \cup {"none"},
          projects : SUBSET Projects, validAfter : Times,
          authVersion : Versions, version : Versions]

SessionRows == [user : People \cup {Nobody}, authVersion : Versions, issued : Times,
                revoked : BOOLEAN]

InvitationRows == [status : {"none", "pending", "accepted", "revoked", "expired"},
                   email : People \cup {Nobody}, role : Roles \cup {"none"},
                   projects : SUBSET Projects, created : Times,
                   acceptedBy : People \cup {Nobody}]

NoUser == [status |-> "none", role |-> "none", projects |-> {}, validAfter |-> 0,
           authVersion |-> 0, version |-> 0]

\* An administrator's request: the user row its author reviewed, then the
\* session and authorization version it was let in with.
Commands == [pc : {"idle", "reviewed", "authorized"}, target : People \cup {Nobody},
             seen : Users, session : Sessions \cup {Nobody}, authVersion : Versions,
             at : Times]

NoCommand == [pc |-> "idle", target |-> Nobody, seen |-> NoUser, session |-> Nobody,
              authVersion |-> 0, at |-> 0]

AccessOf(p) == [status |-> users[p].status, role |-> users[p].role,
                projects |-> users[p].projects]

\* Every user row carries exactly one role; no other row carries any.
TypeOK ==
  /\ users \in [People -> Users]
  /\ \A p \in People : users[p].status = "none" <=> users[p].role = "none"
  /\ identity \in [People -> People \cup {Nobody}]
  /\ sessions \in [Sessions -> SessionRows]
  /\ invitations \in [Invitations -> InvitationRows]
  /\ requests \in [Requests -> Commands]
  /\ now \in Times
  /\ granted \in [Sessions -> [status : {"none", "active", "disabled"},
                               role : Roles \cup {"none"}, projects : SUBSET Projects]]

Founder == [status |-> "active", role |-> "administrator", projects |-> {},
            validAfter |-> 0, authVersion |-> 1, version |-> 1]

Init ==
  /\ users = [p \in People |-> IF p \in Founders THEN Founder ELSE NoUser]
  /\ identity = [p \in People |-> IF p \in Founders THEN p ELSE Nobody]
  /\ sessions = [s \in Sessions |-> [user |-> Nobody, authVersion |-> 0, issued |-> 0,
                                     revoked |-> FALSE]]
  /\ invitations = [i \in Invitations |->
                      [status |-> "none", email |-> Nobody, role |-> "none", projects |-> {},
                       created |-> 0, acceptedBy |-> Nobody]]
  /\ requests = [r \in Requests |-> NoCommand]
  /\ now = 0
  /\ granted = [s \in Sessions |-> [status |-> "none", role |-> "none", projects |-> {}]]

-----------------------------------------------------------------------------
(* Sessions *)

\* resolveEmployeeAccessContext: a session that still opens doors.  The idle
\* deadline is never moved, so one lifetime stands for both.
Usable(s) ==
  LET u == users[sessions[s].user] IN
  /\ sessions[s].user # Nobody
  /\ ~ sessions[s].revoked
  /\ u.status = "active"
  /\ u.authVersion = sessions[s].authVersion
  /\ sessions[s].issued >= u.validAfter
  /\ now < sessions[s].issued + SessionLife

IsAdministrator(p) == users[p].status = "active" /\ users[p].role = "administrator"

\* A clock reading a handler took up to Delay ago.
Readings == {t \in Times : t <= now /\ now <= t + Delay}

OpenSession(s, p, version, t, access) ==
  /\ sessions[s].user = Nobody
  /\ sessions' = [sessions EXCEPT ![s] = [user |-> p, authVersion |-> version,
                                          issued |-> t, revoked |-> FALSE]]
  /\ granted' = [granted EXCEPT ![s] = access]

\* An active user, by a sign-in that began after the last invalidation.
Admissible(p, t) == users[p].status = "active" /\ t >= users[p].validAfter

\* authenticateEmployeeSession of a known Google account g.
SignIn(g, s, t) ==
  LET p == identity[g] IN
  /\ p # Nobody
  /\ Admissible(p, t)
  /\ OpenSession(s, p, users[p].authVersion, t, AccessOf(p))
  /\ UNCHANGED <<users, identity, invitations, requests, now>>

\* Fault: the address of the account is not compared with the invited one.
FaultyRedeemable(i, e, t) ==
  invitations[i].status = "pending" /\ t < invitations[i].created + InvitationLife

\* The credential resolves only while it is pending, for the invited address.
Redeemable(i, e, t) ==
  /\ invitations[i].status = "pending"
  /\ t < invitations[i].created + InvitationLife
  /\ invitations[i].email = e

NewUser(i, t) ==
  [status |-> "active", role |-> invitations[i].role, projects |-> invitations[i].projects,
   validAfter |-> t, authVersion |-> 1, version |-> 1]

\* An unknown account g presents address e and the credential of invitation i:
\* the user, its identity, role and projects are created and i is used up.
Redeem(g, e, i, s, t) ==
  /\ identity[g] = Nobody
  /\ Redeemable(i, e, t)
  /\ t >= invitations[i].created
  /\ users[e].status = "none"
  /\ users' = [users EXCEPT ![e] = NewUser(i, t)]
  /\ identity' = [identity EXCEPT ![g] = e]
  /\ invitations' = [invitations EXCEPT ![i].status = "accepted", ![i].acceptedBy = e]
  /\ OpenSession(s, e, 1, t, [status |-> "active", role |-> invitations[i].role,
                              projects |-> invitations[i].projects])
  /\ UNCHANGED <<requests, now>>

\* The credential came too late: the sign-in is denied and i recorded as expired.
RedeemLate(g, i, t) ==
  /\ identity[g] = Nobody
  /\ invitations[i].status = "pending"
  /\ t >= invitations[i].created + InvitationLife
  /\ invitations' = [invitations EXCEPT ![i].status = "expired"]
  /\ UNCHANGED <<users, identity, sessions, granted, requests, now>>

\* logoutSession: it answers only once the session is known to be revoked.
Logout(s) ==
  /\ sessions[s].user # Nobody
  /\ ~ sessions[s].revoked
  /\ sessions' = [sessions EXCEPT ![s].revoked = TRUE]
  /\ UNCHANGED <<users, identity, invitations, granted, requests, now>>

-----------------------------------------------------------------------------
(* Administrator requests *)

\* The overview shows p, and the author settles on a command about that row.
Review(r, p) ==
  /\ requests[r].pc = "idle"
  /\ users[p].status # "none"
  /\ requests' = [requests EXCEPT ![r].pc = "reviewed", ![r].target = p, ![r].seen = users[p]]
  /\ UNCHANGED <<database, now>>

\* authorizeSession lets the request in.
Authorize(r, s) ==
  /\ requests[r].pc # "authorized"
  /\ Usable(s)
  /\ IsAdministrator(sessions[s].user)
  /\ requests' = [requests EXCEPT ![r].pc = "authorized", ![r].session = s,
                                  ![r].authVersion = sessions[s].authVersion, ![r].at = now]
  /\ UNCHANGED <<database, now>>

\* Refused, failed or killed without an effect.
GiveUp(r) ==
  /\ requests[r].pc # "idle"
  /\ requests' = [requests EXCEPT ![r] = NoCommand]
  /\ UNCHANGED <<database, now>>

\* Fault: the transaction trusts the authorization of the request.
FaultyFence(r) == requests[r].pc = "authorized"

\* activeAdministratorActor: the session, its user and role, read again under
\* the advisory lock.
Fence(r) ==
  LET s == requests[r].session
      u == users[sessions[s].user] IN
  /\ requests[r].pc = "authorized"
  /\ ~ sessions[s].revoked
  /\ sessions[s].authVersion = requests[r].authVersion
  /\ sessions[s].issued >= u.validAfter
  /\ now < sessions[s].issued + SessionLife
  /\ IsAdministrator(sessions[s].user)
  /\ u.authVersion = requests[r].authVersion

\* Fault: only the existence of the target is checked.
FaultyReviewed(r) == requests[r].target # Nobody

\* checkedUserRow: the target still has the version its administrator reviewed.
Reviewed(r) ==
  /\ requests[r].target # Nobody
  /\ users[requests[r].target].version = requests[r].seen.version

\* Fault: off by one.
FaultyIsFinalAdministrator == Cardinality({p \in People : IsAdministrator(p)}) <= 0

IsFinalAdministrator == Cardinality({p \in People : IsAdministrator(p)}) <= 1

\* Fault: the authorization version is left alone.
FaultyTouched(u, t) ==
  [u EXCEPT !.version = @ + 1, !.validAfter = IF t > @ THEN t ELSE @]

\* authorization_version + 1, sessions_valid_after = GREATEST(..., changed_at)
Touched(u, t) ==
  [u EXCEPT !.authVersion = @ + 1, !.version = @ + 1,
            !.validAfter = IF t > @ THEN t ELSE @]

\* The clock readings a request may carry into its transaction.
ChangeTimes(r) == {t \in Times : requests[r].at <= t /\ t <= now}

\* Bound: a user is changed fewer than MaxVersion times.
Bounded(u) == u.version < MaxVersion /\ u.authVersion < MaxVersion

UpdateUser(r, row) ==
  /\ Bounded(users[requests[r].target])
  /\ users' = [users EXCEPT ![requests[r].target] = row]
  /\ requests' = [requests EXCEPT ![r] = NoCommand]
  /\ UNCHANGED <<identity, sessions, invitations, granted, now>>

\* Fault: memberships are added, those not asked for are not revoked.
FaultyMemberships(old, asked) == old \cup asked

\* Memberships outside the asked set are revoked, those in it become active.
Memberships(old, asked) == asked

\* desiredProjects
Scope(role) == IF role = "project_manager" THEN SUBSET Projects ELSE {{}}

SetUserAccess(r, role, asked, t) ==
  LET u == users[requests[r].target] IN
  /\ Fence(r)
  /\ Reviewed(r)
  /\ u.status = "active"
  /\ u.role = "administrator" /\ role # "administrator" => ~ IsFinalAdministrator
  /\ asked \in Scope(role)
  /\ <<role, asked>> # <<u.role, u.projects>>
  /\ UpdateUser(r, [Touched(u, t) EXCEPT !.role = role,
                                         !.projects = Memberships(u.projects, asked)])

DisableUser(r, t) ==
  LET u == users[requests[r].target] IN
  /\ Fence(r)
  /\ Reviewed(r)
  /\ u.status = "active"
  /\ u.role = "administrator" => ~ IsFinalAdministrator
  /\ UpdateUser(r, [Touched(u, t) EXCEPT !.status = "disabled"])

InvalidateUserSessions(r, t) ==
  /\ Fence(r)
  /\ Reviewed(r)
  /\ UpdateUser(r, Touched(users[requests[r].target], t))

\* Pending invitations of e that are over by t.
Stale(e, t) == {i \in Invitations : /\ invitations[i].status = "pending"
                                    /\ invitations[i].email = e
                                    /\ invitations[i].created + InvitationLife <= t}

\* The rows invitations_pending_email_key_idx would collide with.
Pending(e, t) == {i \in Invitations \ Stale(e, t) : /\ invitations[i].status = "pending"
                                                    /\ invitations[i].email = e}

Expired(over) == [i \in Invitations |-> IF i \in over
                                        THEN [invitations[i] EXCEPT !.status = "expired"]
                                        ELSE invitations[i]]

CreateInvitation(r, i, e, role, asked, t) ==
  /\ Fence(r)
  /\ requests[r].target = Nobody
  /\ invitations[i].status = "none"
  /\ Pending(e, t) = {}
  /\ asked \in Scope(role)
  /\ role = "project_manager" => asked # {}
  /\ invitations' = [Expired(Stale(e, t)) EXCEPT
                       ![i] = [status |-> "pending", email |-> e, role |-> role,
                               projects |-> asked, created |-> t, acceptedBy |-> Nobody]]
  /\ requests' = [requests EXCEPT ![r] = NoCommand]
  /\ UNCHANGED <<users, identity, sessions, granted, now>>

\* A project is unknown: refused, but the transaction commits what it expired.
RefuseInvitation(r, e, t) ==
  /\ Fence(r)
  /\ requests[r].target = Nobody
  /\ invitations' = Expired(Stale(e, t))
  /\ requests' = [requests EXCEPT ![r] = NoCommand]
  /\ UNCHANGED <<users, identity, sessions, granted, now>>

\* The reviewed version is that of the pending row: any change of status moves it.
Revocable(i) == invitations[i].status = "pending"

RevokeInvitation(r, i) ==
  /\ Fence(r)
  /\ requests[r].target = Nobody
  /\ Revocable(i)
  /\ invitations' = [invitations EXCEPT ![i].status = "revoked"]
  /\ requests' = [requests EXCEPT ![r] = NoCommand]
  /\ UNCHANGED <<users, identity, sessions, granted, now>>

Tick ==
  /\ now < MaxTime
  /\ now' = now + 1
  /\ UNCHANGED <<database, requests>>

Employee ==
  \E s \in Sessions :
    \/ Logout(s)
    \/ \E g \in People, t \in Readings :
         \/ SignIn(g, s, t)
         \/ \E e \in People, i \in Invitations : Redeem(g, e, i, s, t)

LateEmployee == \E g \in People, i \in Invitations, t \in Readings : RedeemLate(g, i, t)

Command(r) ==
  \/ \E p \in People : Review(r, p)
  \/ \E s \in Sessions : Authorize(r, s)
  \/ GiveUp(r)
  \/ \E t \in ChangeTimes(r) :
       \/ \E role \in Roles, asked \in SUBSET Projects : SetUserAccess(r, role, asked, t)
       \/ DisableUser(r, t)
       \/ InvalidateUserSessions(r, t)
       \/ \E e \in People :
            \/ RefuseInvitation(r, e, t)
            \/ \E i \in Invitations, role \in Roles, asked \in SUBSET Projects :
                 CreateInvitation(r, i, e, role, asked, t)
  \/ \E i \in Invitations : RevokeInvitation(r, i)

Next == Employee \/ LateEmployee \/ (\E r \in Requests : Command(r)) \/ Tick

Spec == Init /\ [][Next]_vars

-----------------------------------------------------------------------------
(* Properties *)

\* A session never works under other access than it was opened with: whoever
\* lost or gained a role or a project has to sign in again
\* (docs/specs/administration-and-access-plan.md:91).
SessionCarriesItsAccess ==
  \A s \in Sessions : Usable(s) => granted[s] = AccessOf(sessions[s].user)

\* An active administrator remains, however many administrators demote or
\* disable each other at once (docs/specs/administration-and-access-plan.md:31).
AdministratorRemains == \E p \in People : IsAdministrator(p)

\* Everyone but the founders was let in by an invitation sent to that address,
\* and no invitation let in two people or was used and not recorded as used.
AdmittedByInvitation ==
  /\ \A p \in People \ Founders :
       users[p].status # "none" <=> \E i \in Invitations : invitations[i].acceptedBy = p
  /\ \A i, j \in Invitations :
       invitations[i].acceptedBy = invitations[j].acceptedBy =>
         i = j \/ invitations[i].acceptedBy = Nobody
  /\ \A i \in Invitations :
       /\ invitations[i].status = "accepted" <=> invitations[i].acceptedBy # Nobody
       /\ invitations[i].acceptedBy \in {Nobody, invitations[i].email}

\* The access overview reads well: only project managers hold projects (one row
\* that breaks this makes getAccessOverview fail for every administrator), and
\* an address is invited at most once at a time.
OverviewIsReadable ==
  /\ \A p \in People : users[p].projects \in Scope(users[p].role)
  /\ \A i, j \in Invitations :
       invitations[i].status = "pending" /\ invitations[j].status = "pending"
         /\ invitations[i].email = invitations[j].email => i = j

\* Request r changes a user.
Writes(r) == requests[r].pc = "authorized" /\ users' # users /\ requests'[r] # requests[r]

\* A slow command cannot outlive a demotion, disablement, logout or expiry of
\* its author (docs/specs/administration-and-access-plan.md:90).
FencedStep ==
  \A r \in Requests :
    Writes(r) => /\ Usable(requests[r].session)
                 /\ IsAdministrator(sessions[requests[r].session].user)

CommandsAreFenced == [][FencedStep]_vars

\* Nobody's access is changed on the strength of an outdated view of it.
InformedStep ==
  \A r \in Requests : Writes(r) => requests[r].seen = users[requests[r].target]

NoStaleWrite == [][InformedStep]_vars

\* A used, revoked or expired invitation is never good again.
SettledStep ==
  \A i \in Invitations :
    invitations[i].status \notin {"none", "pending"} => invitations'[i] = invitations[i]

InvitationsSettleOnce == [][SettledStep]_vars

\* The rows agree with each other: the inductive invariant of the proofs.
RowsAreSound ==
  /\ \A p \in Founders : users[p].status # "none"
  /\ \A g \in People : identity[g] # Nobody => users[identity[g]].status # "none"
  /\ \A i \in Invitations :
       /\ invitations[i].projects \in Scope(invitations[i].role)
       /\ invitations[i].status # "none" =>
            invitations[i].role # "none" /\ invitations[i].email # Nobody

SessionsFollowUsers ==
  \A s \in Sessions : sessions[s].user # Nobody =>
    LET u == users[sessions[s].user] IN
    /\ u.status # "none"
    /\ sessions[s].authVersion <= u.authVersion
    /\ sessions[s].authVersion = u.authVersion => granted[s] = AccessOf(sessions[s].user)

CommandsFollowUsers ==
  \A r \in Requests :
    /\ requests[r].target # Nobody =>
         LET u == users[requests[r].target] IN
         /\ u.status # "none"
         /\ requests[r].seen.version <= u.version
         /\ requests[r].seen.version = u.version => requests[r].seen = u
    /\ requests[r].pc = "authorized" =>
         /\ requests[r].session # Nobody
         /\ sessions[requests[r].session].user # Nobody

Inv ==
  /\ TypeOK
  /\ RowsAreSound
  /\ SessionsFollowUsers
  /\ CommandsFollowUsers
  /\ AdministratorRemains
  /\ OverviewIsReadable
  /\ AdmittedByInvitation

\* Every behaviour of sign-in and the commands is one of Access.
SessionState(s) == IF sessions[s].user = Nobody THEN "new"
                   ELSE IF Usable(s) THEN "live" ELSE "ended"

AccessView == [p \in People |-> AccessOf(p)]

SessionView == [s \in Sessions |-> [state |-> SessionState(s), of |-> sessions[s].user]]

Promise == INSTANCE Access WITH access <- AccessView, session <- SessionView

ImplementsAccess == Promise!Spec
=============================================================================
