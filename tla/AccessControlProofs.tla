------------------------- MODULE AccessControlProofs -------------------------
(***************************************************************************)
(* Proofs about AccessControl, for any people, sessions, invitations and   *)
(* requests, any lifetimes and any bounds: its inductive invariant, what   *)
(* its commands can never do, and that it implements Access.               *)
(***************************************************************************)
EXTENDS AccessControl, FiniteSetTheorems, TLAPS

\* Nobody is neither a person nor a session.
LEMMA NobodyElse == Nobody \notin People /\ Nobody \notin Sessions
  BY NobodyAssumption

\* An administrator who is not the last one leaves another one behind.
LEMMA AnotherAdministrator ==
  ASSUME ~ IsFinalAdministrator, NEW p \in People
  PROVE  \E q \in People : q # p /\ IsAdministrator(q)
<1> DEFINE all == {q \in People : IsAdministrator(q)}
<1>1. SUFFICES ASSUME \A q \in People : IsAdministrator(q) => q = p PROVE FALSE
  OBVIOUS
<1>2. all = {} \/ all = {p}
  BY <1>1
<1>3. Cardinality(all) <= 1
  <2>1. Cardinality({}) = 0 /\ Cardinality({p}) = 1
    BY FS_EmptySet, FS_Singleton
  <2>2. QED
    BY <1>2, <2>1
<1>4. QED
  BY <1>3 DEF IsFinalAdministrator

-----------------------------------------------------------------------------
(* Type correctness *)

LEMMA InitTypeOK == Init => TypeOK
<1> SUFFICES ASSUME Init PROVE TypeOK
  OBVIOUS
<1> USE DEF Init, Founder, NoUser, NoCommand
<1>1. 0 \in Times /\ 0 \in Versions /\ 1 \in Versions
  BY BoundsAssumption DEF Times, Versions
<1>2. users \in [People -> Users]
  <2>1. Founder \in Users /\ NoUser \in Users
    BY <1>1 DEF Users, Roles
  <2>2. QED
    BY <2>1
<1>3. requests \in [Requests -> Commands]
  <2>1. NoUser \in Users
    BY <1>1 DEF Users, Roles
  <2>2. NoCommand \in Commands
    BY <1>1, <2>1 DEF Commands
  <2>3. QED
    BY <2>2
<1>4. sessions \in [Sessions -> SessionRows]
  BY <1>1 DEF SessionRows
<1>5. invitations \in [Invitations -> InvitationRows]
  BY <1>1 DEF InvitationRows
<1>6. identity \in [People -> People \cup {Nobody}]
  BY FoundersAssumption
<1>7. QED
  BY <1>1, <1>2, <1>3, <1>4, <1>5, <1>6 DEF TypeOK

\* The row a command writes is a user row.
LEMMA TouchedType ==
  ASSUME NEW u \in Users, NEW t \in Times, Bounded(u)
  PROVE  /\ Touched(u, t) \in Users
         /\ Touched(u, t).status = u.status
         /\ Touched(u, t).role = u.role
         /\ Touched(u, t).projects = u.projects
         /\ Touched(u, t).version = u.version + 1
         /\ Touched(u, t).authVersion = u.authVersion + 1
<1> DEFINE after == IF t > u.validAfter THEN t ELSE u.validAfter
           later == [u EXCEPT !.authVersion = u.authVersion + 1, !.version = u.version + 1,
                              !.validAfter = after]
<1>1. u.version \in 0 .. MaxVersion /\ u.authVersion \in 0 .. MaxVersion
  BY DEF Users, Versions
<1>2. u.version + 1 \in Versions /\ u.authVersion + 1 \in Versions
  BY <1>1, BoundsAssumption DEF Versions, Bounded
<1>3. after \in Times
  BY DEF Users
<1>4. Touched(u, t) = later
  BY DEF Touched
<1> HIDE DEF after
<1>5. later \in Users
  BY <1>2, <1>3 DEF Users
<1>6. /\ later.status = u.status
      /\ later.role = u.role
      /\ later.projects = u.projects
      /\ later.version = u.version + 1
      /\ later.authVersion = u.authVersion + 1
  BY DEF Users
<1>7. QED
  BY <1>4, <1>5, <1>6

\* Times a handler carries are times of the clock.
LEMMA ReadingType ==
  ASSUME TypeOK, NEW t \in Readings
  PROVE  t \in Times /\ t <= now
  BY DEF Readings

LEMMA OpenSessionType ==
  ASSUME TypeOK, NEW s \in Sessions, NEW p \in People, NEW v \in Versions,
         NEW t \in Times,
         NEW a \in [status : {"none", "active", "disabled"},
                    role : Roles \cup {"none"}, projects : SUBSET Projects],
         OpenSession(s, p, v, t, a)
  PROVE  /\ sessions' \in [Sessions -> SessionRows]
         /\ granted' \in [Sessions -> [status : {"none", "active", "disabled"},
                                       role : Roles \cup {"none"}, projects : SUBSET Projects]]
<1>1. [user |-> p, authVersion |-> v, issued |-> t, revoked |-> FALSE] \in SessionRows
  BY DEF SessionRows
<1>2. QED
  BY <1>1 DEF TypeOK, OpenSession

LEMMA AccessOfType ==
  ASSUME TypeOK, NEW p \in People
  PROVE  AccessOf(p) \in [status : {"none", "active", "disabled"},
                          role : Roles \cup {"none"}, projects : SUBSET Projects]
  BY DEF TypeOK, AccessOf, Users

\* Requests only end, are reviewed or are let in.
LEMMA RequestsType ==
  ASSUME TypeOK, NEW r \in Requests,
         requests' = [requests EXCEPT ![r] = NoCommand]
  PROVE  requests' \in [Requests -> Commands]
<1>1. NoUser \in Users
  BY BoundsAssumption DEF NoUser, Users, Roles, Times, Versions
<1>2. NoCommand \in Commands
  BY <1>1, BoundsAssumption DEF NoCommand, Commands, Times, Versions
<1>3. QED
  BY <1>2 DEF TypeOK

LEMMA SignInType ==
  ASSUME TypeOK, NEW g \in People, NEW s \in Sessions, NEW t \in Readings, SignIn(g, s, t)
  PROVE  TypeOK'
<1> DEFINE p == identity[g]
<1>1. p \in People
  BY DEF SignIn, TypeOK
<1>2. users[p].authVersion \in Versions
  BY <1>1 DEF TypeOK, Users
<1>3. OpenSession(s, p, users[p].authVersion, t, AccessOf(p))
  BY DEF SignIn
<1> HIDE DEF p
<1>4. /\ sessions' \in [Sessions -> SessionRows]
      /\ granted' \in [Sessions -> [status : {"none", "active", "disabled"},
                                    role : Roles \cup {"none"}, projects : SUBSET Projects]]
  BY <1>1, <1>2, <1>3, AccessOfType, ReadingType, OpenSessionType
<1>5. QED
  BY <1>4 DEF TypeOK, SignIn

LEMMA InvitationType ==
  ASSUME TypeOK, NEW i \in Invitations
  PROVE  /\ invitations[i] \in InvitationRows
         /\ invitations[i].role \in Roles \cup {"none"}
         /\ invitations[i].projects \in SUBSET Projects
         /\ invitations[i].email \in People \cup {Nobody}
         /\ invitations[i].created \in Times
  BY DEF TypeOK, InvitationRows

LEMMA NewUserType ==
  ASSUME TypeOK, NEW i \in Invitations, NEW t \in Times
  PROVE  NewUser(i, t) \in Users
<1>1. 1 \in Versions
  BY BoundsAssumption DEF Versions
<1>2. QED
  BY <1>1, InvitationType DEF NewUser, Users

LEMMA RedeemType ==
  ASSUME TypeOK, RowsAreSound, NEW g \in People, NEW e \in People, NEW i \in Invitations,
         NEW s \in Sessions, NEW t \in Readings, Redeem(g, e, i, s, t)
  PROVE  TypeOK'
<1>1. t \in Times
  BY ReadingType
<1>2. users' \in [People -> Users]
  BY <1>1, NewUserType DEF TypeOK, Redeem
<1>3. invitations[i].role # "none"
  BY DEF Redeem, Redeemable, RowsAreSound
<1>4. \A p \in People : users'[p].status = "none" <=> users'[p].role = "none"
  BY <1>3 DEF TypeOK, Redeem, NewUser
<1>5. identity' \in [People -> People \cup {Nobody}]
  BY DEF TypeOK, Redeem
<1>6. invitations' \in [Invitations -> InvitationRows]
  <2> DEFINE row == [invitations[i] EXCEPT !.status = "accepted", !.acceptedBy = e]
  <2>0. invitations[i] \in InvitationRows
    BY DEF TypeOK
  <2>1. row \in InvitationRows
    BY <2>0 DEF InvitationRows
  <2>2. invitations' = [invitations EXCEPT ![i] = row]
    BY DEF Redeem, TypeOK
  <2>3. QED
    BY <2>1, <2>2 DEF TypeOK
<1> DEFINE a == [status |-> "active", role |-> invitations[i].role,
                 projects |-> invitations[i].projects]
<1>7. a \in [status : {"none", "active", "disabled"},
             role : Roles \cup {"none"}, projects : SUBSET Projects]
  BY InvitationType
<1>8. 1 \in Versions
  BY BoundsAssumption DEF Versions
<1>9. OpenSession(s, e, 1, t, a)
  BY DEF Redeem
<1> HIDE DEF a
<1>10. /\ sessions' \in [Sessions -> SessionRows]
       /\ granted' \in [Sessions -> [status : {"none", "active", "disabled"},
                                     role : Roles \cup {"none"}, projects : SUBSET Projects]]
  BY <1>1, <1>7, <1>8, <1>9, OpenSessionType
<1>11. requests' = requests /\ now' = now
  BY DEF Redeem
<1>12. QED
  BY <1>2, <1>4, <1>5, <1>6, <1>10, <1>11 DEF TypeOK

LEMMA ReviewType ==
  ASSUME TypeOK, NEW r \in Requests, NEW p \in People, Review(r, p)
  PROVE  TypeOK'
<1>1. users[p] \in Users
  BY DEF TypeOK
<1> DEFINE c == [requests[r] EXCEPT !.pc = "reviewed", !.target = p, !.seen = users[p]]
<1>0. requests[r] \in Commands
  BY DEF TypeOK
<1>a. c \in Commands
  BY <1>0, <1>1 DEF Commands
<1>b. requests' = [requests EXCEPT ![r] = c]
  BY DEF Review, TypeOK
<1> HIDE DEF c
<1>2. requests' \in [Requests -> Commands]
  BY <1>a, <1>b DEF TypeOK
<1>3. QED
  BY <1>2 DEF TypeOK, Review, database

LEMMA AuthorizeType ==
  ASSUME TypeOK, NEW r \in Requests, NEW s \in Sessions, Authorize(r, s)
  PROVE  TypeOK'
<1>1. sessions[s].authVersion \in Versions /\ now \in Times
  BY DEF TypeOK, SessionRows
<1> DEFINE c == [requests[r] EXCEPT !.pc = "authorized", !.session = s,
                                    !.authVersion = sessions[s].authVersion, !.at = now]
<1>0. requests[r] \in Commands
  BY DEF TypeOK
<1>a. c \in Commands
  BY <1>0, <1>1 DEF Commands
<1>b. requests' = [requests EXCEPT ![r] = c]
  BY DEF Authorize, TypeOK
<1> HIDE DEF c
<1>2. requests' \in [Requests -> Commands]
  BY <1>a, <1>b DEF TypeOK
<1>3. QED
  BY <1>2 DEF TypeOK, Authorize, database

\* A command that writes a well-formed row for its target.
LEMMA UpdateUserType ==
  ASSUME TypeOK, NEW r \in Requests, NEW row \in Users, UpdateUser(r, row),
         row.status = "none" <=> row.role = "none"
  PROVE  TypeOK'
<1>1. users' \in [People -> Users]
  BY DEF TypeOK, UpdateUser
<1>2. \A p \in People : users'[p].status = "none" <=> users'[p].role = "none"
  BY DEF TypeOK, UpdateUser
<1>3. requests' \in [Requests -> Commands]
  BY RequestsType DEF UpdateUser
<1>4. QED
  BY <1>1, <1>2, <1>3 DEF TypeOK, UpdateUser

\* Commands about invitations rewrite the table row by row.
LEMMA ExpiredType ==
  ASSUME TypeOK, NEW e \in People, NEW t \in Times
  PROVE  Expired(Stale(e, t)) \in [Invitations -> InvitationRows]
<1>1. \A i \in Invitations :
        [invitations[i] EXCEPT !.status = "expired"] \in InvitationRows
  BY DEF TypeOK, InvitationRows
<1>2. QED
  BY <1>1 DEF TypeOK, Expired

LEMMA CreateInvitationType ==
  ASSUME TypeOK, NEW r \in Requests, NEW i \in Invitations, NEW e \in People,
         NEW role \in Roles, NEW asked \in SUBSET Projects, NEW t \in Times,
         CreateInvitation(r, i, e, role, asked, t)
  PROVE  TypeOK'
<1> DEFINE row == [status |-> "pending", email |-> e, role |-> role,
                   projects |-> asked, created |-> t, acceptedBy |-> Nobody]
<1>1. row \in InvitationRows
  BY DEF InvitationRows
<1>2. invitations' = [Expired(Stale(e, t)) EXCEPT ![i] = row]
  BY DEF CreateInvitation
<1> HIDE DEF row
<1>3. invitations' \in [Invitations -> InvitationRows]
  BY <1>1, <1>2, ExpiredType
<1>4. requests' \in [Requests -> Commands]
  BY RequestsType DEF CreateInvitation
<1>5. QED
  BY <1>3, <1>4 DEF TypeOK, CreateInvitation

LEMMA RefuseInvitationType ==
  ASSUME TypeOK, NEW r \in Requests, NEW e \in People, NEW t \in Times,
         RefuseInvitation(r, e, t)
  PROVE  TypeOK'
<1>1. requests' \in [Requests -> Commands]
  BY RequestsType DEF RefuseInvitation
<1>2. QED
  BY <1>1, ExpiredType DEF TypeOK, RefuseInvitation

\* One invitation changes its status and nothing else.
LEMMA SettleType ==
  ASSUME TypeOK, NEW i \in Invitations, NEW status \in {"revoked", "expired"},
         invitations' = [invitations EXCEPT ![i].status = status]
  PROVE  invitations' \in [Invitations -> InvitationRows]
<1> DEFINE row == [invitations[i] EXCEPT !.status = status]
<1>0. invitations[i] \in InvitationRows
  BY DEF TypeOK
<1>1. row \in InvitationRows
  BY <1>0 DEF InvitationRows
<1>2. invitations' = [invitations EXCEPT ![i] = row]
  BY DEF TypeOK
<1>3. QED
  BY <1>1, <1>2 DEF TypeOK

LEMMA LogoutType ==
  ASSUME TypeOK, NEW s \in Sessions, Logout(s)
  PROVE  TypeOK'
<1> DEFINE row == [sessions[s] EXCEPT !.revoked = TRUE]
<1>1. row \in SessionRows
  BY DEF TypeOK, SessionRows
<1>2. sessions' = [sessions EXCEPT ![s] = row]
  BY DEF TypeOK, Logout
<1>3. sessions' \in [Sessions -> SessionRows]
  BY <1>1, <1>2 DEF TypeOK
<1>4. QED
  BY <1>3 DEF TypeOK, Logout

\* The row a command writes, and what it leaves as it was.
UserRow(row, u) ==
  /\ row \in Users
  /\ row.status # "none"
  /\ row.role # "none"
  /\ row.projects \in Scope(row.role)
  /\ row.version = u.version + 1
  /\ row.authVersion = u.authVersion + 1

\* A command replaces the row of its target by a sound one; administrators who
\* are not the last keep company.
LEMMA CommandFacts ==
  ASSUME Inv, NEW r \in Requests, NEW t \in Times,
         \/ \E role \in Roles, asked \in SUBSET Projects : SetUserAccess(r, role, asked, t)
         \/ DisableUser(r, t)
         \/ InvalidateUserSessions(r, t)
  PROVE  \E row \in Users :
           LET p == requests[r].target IN
           /\ p \in People
           /\ Fence(r)
           /\ Reviewed(r)
           /\ UserRow(row, users[p])
           /\ UpdateUser(r, row)
           /\ \/ IsAdministrator(p) /\ row.status = "active" /\ row.role = "administrator"
              \/ ~ IsAdministrator(p)
              \/ \E q \in People : q # p /\ IsAdministrator(q)
           /\ \/ users[p].status = "active"
              \/ [status |-> row.status, role |-> row.role, projects |-> row.projects]
                   = AccessOf(p)
           /\ \/ row.status = "active"
              \/ [status |-> row.status, role |-> row.role, projects |-> row.projects]
                   = [AccessOf(p) EXCEPT !.status = "disabled"]
              \/ [status |-> row.status, role |-> row.role, projects |-> row.projects]
                   = AccessOf(p)
<1> DEFINE p == requests[r].target
           u == users[p]
           base == Touched(u, t)
<1>1. Reviewed(r) /\ Fence(r) /\ Bounded(u) /\ p # Nobody
  BY DEF SetUserAccess, DisableUser, InvalidateUserSessions, UpdateUser, Reviewed
<1>2. p \in People
  BY <1>1 DEF Inv, TypeOK, Commands
<1>3. u \in Users /\ u.status # "none" /\ u.role # "none" /\ u.projects \in Scope(u.role)
  BY <1>1, <1>2 DEF Inv, TypeOK, CommandsFollowUsers, OverviewIsReadable
<1>4. /\ base \in Users
      /\ base.status = u.status /\ base.role = u.role /\ base.projects = u.projects
      /\ base.version = u.version + 1 /\ base.authVersion = u.authVersion + 1
  BY <1>1, <1>3, TouchedType
<1>5. CASE \E role \in Roles, asked \in SUBSET Projects : SetUserAccess(r, role, asked, t)
  <2>1. PICK role \in Roles, asked \in SUBSET Projects : SetUserAccess(r, role, asked, t)
    BY <1>5
  <2> DEFINE row == [base EXCEPT !.role = role, !.projects = asked]
  <2>2. UpdateUser(r, row) /\ u.status = "active" /\ asked \in Scope(role)
        /\ (u.role = "administrator" /\ role # "administrator" => ~ IsFinalAdministrator)
    BY <2>1 DEF SetUserAccess, Memberships
  <2> HIDE DEF base
  <2>3. /\ row \in Users /\ row.status = u.status /\ row.role = role /\ row.projects = asked
        /\ row.version = u.version + 1 /\ row.authVersion = u.authVersion + 1
    BY <1>4 DEF Users
  <2>4. UserRow(row, u) /\ row.status = "active"
    BY <1>3, <2>2, <2>3 DEF UserRow, Roles
  <2>5. \/ IsAdministrator(p) /\ row.status = "active" /\ row.role = "administrator"
        \/ ~ IsAdministrator(p)
        \/ \E q \in People : q # p /\ IsAdministrator(q)
    <3>1. CASE ~ IsAdministrator(p)
      BY <3>1
    <3>2. CASE IsAdministrator(p) /\ role = "administrator"
      BY <3>2, <2>3, <2>4
    <3>3. CASE IsAdministrator(p) /\ role # "administrator"
      <4>1. ~ IsFinalAdministrator
        BY <3>3, <2>2 DEF IsAdministrator
      <4>2. QED
        BY <4>1, <1>2, AnotherAdministrator
    <3>4. QED
      BY <3>1, <3>2, <3>3
  <2> HIDE DEF row
  <2>6. QED
    BY <1>1, <1>2, <2>2, <2>3, <2>4, <2>5
<1>6. CASE DisableUser(r, t)
  <2> DEFINE row == [base EXCEPT !.status = "disabled"]
  <2>2. UpdateUser(r, row) /\ u.status = "active"
        /\ (u.role = "administrator" => ~ IsFinalAdministrator)
    BY <1>6 DEF DisableUser
  <2> HIDE DEF base
  <2>3. /\ row \in Users /\ row.status = "disabled" /\ row.role = u.role
        /\ row.projects = u.projects
        /\ row.version = u.version + 1 /\ row.authVersion = u.authVersion + 1
    BY <1>4 DEF Users
  <2>4. UserRow(row, u)
    BY <1>3, <2>3 DEF UserRow
  <2>5. \/ ~ IsAdministrator(p)
        \/ \E q \in People : q # p /\ IsAdministrator(q)
    BY <1>2, <2>2, AnotherAdministrator DEF IsAdministrator
  <2>6. [status |-> row.status, role |-> row.role, projects |-> row.projects]
          = [AccessOf(p) EXCEPT !.status = "disabled"]
    BY <2>3 DEF AccessOf
  <2> HIDE DEF row
  <2>7. QED
    BY <1>1, <1>2, <2>2, <2>3, <2>4, <2>5, <2>6
<1>7. CASE InvalidateUserSessions(r, t)
  <2>2. UpdateUser(r, base)
    BY <1>7 DEF InvalidateUserSessions
  <2> HIDE DEF base
  <2>4. UserRow(base, u)
    BY <1>3, <1>4 DEF UserRow
  <2>5. [status |-> base.status, role |-> base.role, projects |-> base.projects]
          = AccessOf(p)
    BY <1>4 DEF AccessOf
  <2>6. \/ ~ IsAdministrator(p)
        \/ IsAdministrator(p) /\ base.status = "active" /\ base.role = "administrator"
    BY <1>4 DEF IsAdministrator
  <2>7. QED
    BY <1>1, <1>2, <1>4, <2>2, <2>4, <2>5, <2>6
<1>8. QED
  BY <1>5, <1>6, <1>7

-----------------------------------------------------------------------------
(* The inductive invariant *)

LEMMA InitInv == Init => Inv
<1> SUFFICES ASSUME Init PROVE Inv
  OBVIOUS
<1>1. TypeOK
  BY InitTypeOK
<1>2. RowsAreSound
  BY FoundersAssumption DEF Init, RowsAreSound, Founder, Scope
<1>3. SessionsFollowUsers
  BY DEF Init, SessionsFollowUsers
<1>4. CommandsFollowUsers
  BY DEF Init, CommandsFollowUsers, NoCommand
<1>5. AdministratorRemains
  BY FoundersAssumption DEF Init, AdministratorRemains, IsAdministrator, Founder
<1>6. OverviewIsReadable
  BY DEF Init, OverviewIsReadable, Founder, NoUser, Scope
<1>7. AdmittedByInvitation
  BY NobodyElse DEF Init, AdmittedByInvitation, NoUser
<1>8. QED
  BY <1>1, <1>2, <1>3, <1>4, <1>5, <1>6, <1>7 DEF Inv

\* Steps that leave a table alone leave what is said of it alone.
LEMMA TablesKept ==
  ASSUME Inv, users' = users, identity' = identity, invitations' = invitations
  PROVE  /\ RowsAreSound' /\ AdministratorRemains' /\ OverviewIsReadable'
         /\ AdmittedByInvitation'
  BY DEF Inv, RowsAreSound, AdministratorRemains, OverviewIsReadable, AdmittedByInvitation,
         IsAdministrator, Scope

LEMMA SessionsKept ==
  ASSUME Inv, users' = users, granted' = granted,
         \A s \in Sessions : /\ sessions'[s].user = sessions[s].user
                             /\ sessions'[s].authVersion = sessions[s].authVersion
  PROVE  SessionsFollowUsers'
  BY DEF Inv, SessionsFollowUsers, AccessOf

\* Requests that end, or go on, while the users keep their rows.
LEMMA CommandsKept ==
  ASSUME Inv, users' = users,
         \A s \in Sessions : sessions[s].user # Nobody => sessions'[s].user # Nobody,
         \A r \in Requests : requests'[r] \in {requests[r], NoCommand}
  PROVE  CommandsFollowUsers'
<1> SUFFICES ASSUME NEW r \in Requests
             PROVE  CommandsFollowUsers!(r)'
  BY DEF CommandsFollowUsers
<1>1. CASE requests'[r] = NoCommand
  BY <1>1 DEF NoCommand
<1>2. CASE requests'[r] = requests[r]
  <2>1. requests[r].pc = "authorized" => requests[r].session \in Sessions
    BY DEF Inv, TypeOK, Commands, CommandsFollowUsers
  <2>2. QED
    BY <1>2, <2>1 DEF Inv, CommandsFollowUsers
<1>3. QED
  BY <1>1, <1>2

LEMMA SignInInv ==
  ASSUME Inv, NEW g \in People, NEW s \in Sessions, NEW t \in Readings, SignIn(g, s, t)
  PROVE  Inv'
<1> DEFINE p == identity[g]
<1>1. TypeOK'
  BY SignInType DEF Inv
<1>2. /\ p # Nobody /\ p \in People /\ sessions[s].user = Nobody
      /\ sessions' = [sessions EXCEPT ![s] = [user |-> p, authVersion |-> users[p].authVersion,
                                              issued |-> t, revoked |-> FALSE]]
      /\ granted' = [granted EXCEPT ![s] = AccessOf(p)]
      /\ UNCHANGED <<users, identity, invitations, requests, now>>
  BY DEF SignIn, OpenSession, Inv, TypeOK
<1>3. SessionsFollowUsers'
  <2> SUFFICES ASSUME NEW z \in Sessions
               PROVE  SessionsFollowUsers!(z)'
    BY DEF SessionsFollowUsers
  <2>1. CASE z = s
    <3>1. sessions'[z] = [user |-> p, authVersion |-> users[p].authVersion,
                          issued |-> t, revoked |-> FALSE] /\ granted'[z] = AccessOf(p)
      BY <1>2, <2>1 DEF Inv, TypeOK
    <3>2. users[p].status # "none" /\ users[p].authVersion <= users[p].authVersion
      BY <1>2 DEF Inv, RowsAreSound, TypeOK, Users, Versions
    <3>3. AccessOf(p)' = AccessOf(p)
      BY <1>2 DEF AccessOf
    <3> HIDE DEF p
    <3>4. QED
      BY <1>2, <3>1, <3>2, <3>3 DEF AccessOf
  <2>2. CASE z # s
    BY <1>2, <2>2 DEF Inv, TypeOK, SessionsFollowUsers, AccessOf
  <2>3. QED
    BY <2>1, <2>2
<1>4. CommandsFollowUsers'
  <2>1. \A z \in Sessions : sessions[z].user # Nobody => sessions'[z].user # Nobody
    BY <1>2 DEF Inv, TypeOK
  <2>2. QED
    BY <1>2, <2>1, CommandsKept
<1>5. QED
  BY <1>1, <1>2, <1>3, <1>4, TablesKept DEF Inv

LEMMA LogoutInv ==
  ASSUME Inv, NEW s \in Sessions, Logout(s)
  PROVE  Inv'
<1>1. TypeOK'
  BY LogoutType DEF Inv
<1>2. \A z \in Sessions : /\ sessions'[z].user = sessions[z].user
                          /\ sessions'[z].authVersion = sessions[z].authVersion
  BY DEF Inv, TypeOK, Logout, SessionRows
<1>3. UNCHANGED <<users, identity, invitations, granted, requests, now>>
  BY DEF Logout
<1>4. QED
  BY <1>1, <1>2, <1>3, TablesKept, SessionsKept, CommandsKept DEF Inv

LEMMA QuietInv ==
  ASSUME Inv, UNCHANGED database, UNCHANGED requests, TypeOK'
  PROVE  Inv'
<1>1. UNCHANGED <<users, identity, sessions, invitations, granted>>
  BY DEF database
<1>2. QED
  BY <1>1, TablesKept, SessionsKept, CommandsKept DEF Inv

\* A step that only moves requests along.
LEMMA RequestInv ==
  ASSUME Inv, NEW r \in Requests,
         \/ \E p \in People : Review(r, p)
         \/ \E s \in Sessions : Authorize(r, s)
         \/ GiveUp(r)
  PROVE  Inv'
<1>1. UNCHANGED <<users, identity, sessions, invitations, granted, now>>
  BY DEF Review, Authorize, GiveUp, database
<1>2. TypeOK'
  <2>1. CASE \E p \in People : Review(r, p)
    BY <2>1, ReviewType DEF Inv
  <2>2. CASE \E s \in Sessions : Authorize(r, s)
    BY <2>2, AuthorizeType DEF Inv
  <2>3. CASE GiveUp(r)
    <3>1. requests' \in [Requests -> Commands]
      BY <2>3, RequestsType DEF Inv, GiveUp
    <3>2. QED
      BY <1>1, <3>1 DEF Inv, TypeOK
  <2>4. QED
    BY <2>1, <2>2, <2>3
<1>3. CommandsFollowUsers'
  <2>1. CASE \E p \in People : Review(r, p)
    <3>1. PICK p \in People : Review(r, p)
      BY <2>1
    <3>2. SUFFICES ASSUME NEW q \in Requests
                   PROVE  CommandsFollowUsers!(q)'
      BY DEF CommandsFollowUsers
    <3>3. CASE q = r
      <4>1. /\ requests'[q].target = p /\ requests'[q].seen = users[p]
            /\ requests'[q].pc = "reviewed"
        BY <3>1, <3>3 DEF Review, Inv, TypeOK, Commands
      <4>2. users[p].status # "none" /\ users[p].version <= users[p].version
        <5>1. users[p].status # "none"
          BY <3>1 DEF Review
        <5>2. users[p] \in Users
          BY DEF Inv, TypeOK
        <5>3. users[p].version \in 0 .. MaxVersion
          BY <5>2 DEF Users, Versions
        <5>4. QED
          BY <5>1, <5>3, BoundsAssumption
      <4>3. QED
        BY <1>1, <4>1, <4>2
    <3>4. CASE q # r
      <4>1. requests'[q] = requests[q]
        BY <3>1, <3>4 DEF Review, Inv, TypeOK
      <4>2. QED
        BY <1>1, <4>1 DEF Inv, CommandsFollowUsers
    <3>5. QED
      BY <3>3, <3>4
  <2>2. CASE \E s \in Sessions : Authorize(r, s)
    <3>1. PICK s \in Sessions : Authorize(r, s)
      BY <2>2
    <3>2. SUFFICES ASSUME NEW q \in Requests
                   PROVE  CommandsFollowUsers!(q)'
      BY DEF CommandsFollowUsers
    <3>3. CASE q = r
      <4>1. /\ requests'[q].target = requests[q].target
            /\ requests'[q].seen = requests[q].seen
            /\ requests'[q].session = s
        <5> DEFINE c == [requests[r] EXCEPT !.pc = "authorized", !.session = s,
                           !.authVersion = sessions[s].authVersion, !.at = now]
        <5>1. requests[r] \in Commands
          BY DEF Inv, TypeOK
        <5>2. /\ c.target = requests[r].target /\ c.seen = requests[r].seen
              /\ c.session = s
          BY <5>1 DEF Commands
        <5>3. requests'[r] = c
          BY <3>1 DEF Authorize, Inv, TypeOK
        <5> HIDE DEF c
        <5>4. QED
          BY <3>3, <5>2, <5>3
      <4>2. s # Nobody /\ sessions[s].user # Nobody
        BY <3>1, NobodyElse DEF Authorize, Usable
      <4>3. QED
        BY <1>1, <4>1, <4>2 DEF Inv, CommandsFollowUsers
    <3>4. CASE q # r
      <4>1. requests'[q] = requests[q]
        BY <3>1, <3>4 DEF Authorize, Inv, TypeOK
      <4>2. QED
        BY <1>1, <4>1 DEF Inv, CommandsFollowUsers
    <3>5. QED
      BY <3>3, <3>4
  <2>3. CASE GiveUp(r)
    <3>1. \A q \in Requests : requests'[q] \in {requests[q], NoCommand}
      BY <2>3 DEF GiveUp, Inv, TypeOK
    <3>2. QED
      BY <1>1, <3>1, CommandsKept
  <2>4. QED
    BY <2>1, <2>2, <2>3
<1>4. QED
  BY <1>1, <1>2, <1>3, TablesKept, SessionsKept DEF Inv

\* An invitation leaves the pending state unused.
LEMMA SettleInv ==
  ASSUME Inv, TypeOK', users' = users, identity' = identity, sessions' = sessions,
         granted' = granted,
         \A r \in Requests : requests'[r] \in {requests[r], NoCommand},
         \A i \in Invitations :
           \/ invitations'[i] = invitations[i]
           \/ /\ invitations[i].status = "pending"
              /\ invitations'[i].status \in {"revoked", "expired"}
              /\ invitations'[i].email = invitations[i].email
              /\ invitations'[i].role = invitations[i].role
              /\ invitations'[i].projects = invitations[i].projects
              /\ invitations'[i].acceptedBy = invitations[i].acceptedBy
  PROVE  Inv'
<1>1. \A i \in Invitations :
        /\ invitations'[i].email = invitations[i].email
        /\ invitations'[i].role = invitations[i].role
        /\ invitations'[i].projects = invitations[i].projects
        /\ invitations'[i].acceptedBy = invitations[i].acceptedBy
        /\ invitations'[i].status = "pending" => invitations[i].status = "pending"
        /\ invitations'[i].status = "accepted" <=> invitations[i].status = "accepted"
        /\ invitations'[i].status # "none" <=> invitations[i].status # "none"
  OBVIOUS
<1>2. RowsAreSound'
  BY <1>1 DEF Inv, RowsAreSound, Scope
<1>3. AdministratorRemains'
  BY DEF Inv, AdministratorRemains, IsAdministrator
<1>4. OverviewIsReadable'
  BY <1>1 DEF Inv, OverviewIsReadable, Scope
<1>5. AdmittedByInvitation'
  BY <1>1 DEF Inv, AdmittedByInvitation
<1>6. QED
  BY <1>2, <1>3, <1>4, <1>5, SessionsKept, CommandsKept DEF Inv

\* The status of one invitation is all a settled one changes.
LEMMA SettledRow ==
  ASSUME TypeOK, NEW i \in Invitations, NEW status \in {"revoked", "expired"}
  PROVE  LET row == [invitations[i] EXCEPT !.status = status] IN
         /\ row.status = status
         /\ row.email = invitations[i].email
         /\ row.role = invitations[i].role
         /\ row.projects = invitations[i].projects
         /\ row.acceptedBy = invitations[i].acceptedBy
  BY DEF TypeOK, InvitationRows

LEMMA RedeemLateInv ==
  ASSUME Inv, NEW g \in People, NEW i \in Invitations, NEW t \in Readings,
         RedeemLate(g, i, t)
  PROVE  Inv'
<1> DEFINE row == [invitations[i] EXCEPT !.status = "expired"]
<1>1. /\ invitations' = [invitations EXCEPT ![i] = row]
      /\ invitations[i].status = "pending"
      /\ UNCHANGED <<users, identity, sessions, granted, requests, now>>
  BY DEF RedeemLate, Inv, TypeOK
<1>2. TypeOK'
  <2>1. invitations' \in [Invitations -> InvitationRows]
    BY SettleType DEF Inv, RedeemLate
  <2>2. QED
    BY <1>1, <2>1 DEF Inv, TypeOK
<1>3. /\ row.status = "expired" /\ row.email = invitations[i].email
      /\ row.role = invitations[i].role /\ row.projects = invitations[i].projects
      /\ row.acceptedBy = invitations[i].acceptedBy
  BY SettledRow DEF Inv
<1> HIDE DEF row
<1>4. \A j \in Invitations :
        invitations'[j] = IF j = i THEN row ELSE invitations[j]
  BY <1>1 DEF Inv, TypeOK
<1>5. QED
  BY <1>1, <1>2, <1>3, <1>4, SettleInv

LEMMA RevokeInvitationInv ==
  ASSUME Inv, NEW r \in Requests, NEW i \in Invitations, RevokeInvitation(r, i)
  PROVE  Inv'
<1> DEFINE row == [invitations[i] EXCEPT !.status = "revoked"]
<1>1. /\ invitations' = [invitations EXCEPT ![i] = row]
      /\ invitations[i].status = "pending"
      /\ requests' = [requests EXCEPT ![r] = NoCommand]
      /\ UNCHANGED <<users, identity, sessions, granted, now>>
  BY DEF RevokeInvitation, Revocable, Inv, TypeOK
<1>2. TypeOK'
  <2>1. invitations' \in [Invitations -> InvitationRows]
    BY SettleType DEF Inv, RevokeInvitation
  <2>2. requests' \in [Requests -> Commands]
    BY <1>1, RequestsType DEF Inv
  <2>3. QED
    BY <1>1, <2>1, <2>2 DEF Inv, TypeOK
<1>3. /\ row.status = "revoked" /\ row.email = invitations[i].email
      /\ row.role = invitations[i].role /\ row.projects = invitations[i].projects
      /\ row.acceptedBy = invitations[i].acceptedBy
  BY SettledRow DEF Inv
<1> HIDE DEF row
<1>4. \A j \in Invitations :
        invitations'[j] = IF j = i THEN row ELSE invitations[j]
  BY <1>1 DEF Inv, TypeOK
<1>5. \A q \in Requests : requests'[q] \in {requests[q], NoCommand}
  BY <1>1 DEF Inv, TypeOK
<1>6. QED
  BY <1>1, <1>2, <1>3, <1>4, <1>5, SettleInv

\* What the table of invitations looks like once those over are expired.
LEMMA ExpiredFacts ==
  ASSUME Inv, NEW e \in People, NEW t \in Times
  PROVE  LET after == Expired(Stale(e, t)) IN
         \A i \in Invitations :
           \/ after[i] = invitations[i] /\ i \notin Stale(e, t)
           \/ /\ i \in Stale(e, t)
              /\ invitations[i].status = "pending"
              /\ after[i].status = "expired"
              /\ after[i].email = invitations[i].email
              /\ after[i].role = invitations[i].role
              /\ after[i].projects = invitations[i].projects
              /\ after[i].acceptedBy = invitations[i].acceptedBy
<1> SUFFICES ASSUME NEW i \in Invitations
             PROVE  LET after == Expired(Stale(e, t)) IN
                    \/ after[i] = invitations[i] /\ i \notin Stale(e, t)
                    \/ /\ i \in Stale(e, t)
                       /\ invitations[i].status = "pending"
                       /\ after[i].status = "expired"
                       /\ after[i].email = invitations[i].email
                       /\ after[i].role = invitations[i].role
                       /\ after[i].projects = invitations[i].projects
                       /\ after[i].acceptedBy = invitations[i].acceptedBy
  OBVIOUS
<1>1. CASE i \notin Stale(e, t)
  BY <1>1 DEF Expired
<1>2. CASE i \in Stale(e, t)
  <2> DEFINE row == [invitations[i] EXCEPT !.status = "expired"]
  <2>1. Expired(Stale(e, t))[i] = row
    BY <1>2 DEF Expired
  <2>2. invitations[i].status = "pending"
    BY <1>2 DEF Stale
  <2>3. /\ row.status = "expired" /\ row.email = invitations[i].email
        /\ row.role = invitations[i].role /\ row.projects = invitations[i].projects
        /\ row.acceptedBy = invitations[i].acceptedBy
    BY SettledRow DEF Inv
  <2> HIDE DEF row
  <2>4. QED
    BY <1>2, <2>1, <2>2, <2>3
<1>3. QED
  BY <1>1, <1>2

LEMMA RefuseInvitationInv ==
  ASSUME Inv, NEW r \in Requests, NEW e \in People, NEW t \in Times,
         RefuseInvitation(r, e, t)
  PROVE  Inv'
<1>1. /\ invitations' = Expired(Stale(e, t))
      /\ requests' = [requests EXCEPT ![r] = NoCommand]
      /\ UNCHANGED <<users, identity, sessions, granted, now>>
  BY DEF RefuseInvitation
<1>2. TypeOK'
  BY RefuseInvitationType DEF Inv
<1>3. \A q \in Requests : requests'[q] \in {requests[q], NoCommand}
  BY <1>1 DEF Inv, TypeOK
<1>4. QED
  BY <1>1, <1>2, <1>3, ExpiredFacts, SettleInv

LEMMA CreateInvitationInv ==
  ASSUME Inv, NEW r \in Requests, NEW i \in Invitations, NEW e \in People,
         NEW role \in Roles, NEW asked \in SUBSET Projects, NEW t \in Times,
         CreateInvitation(r, i, e, role, asked, t)
  PROVE  Inv'
<1> DEFINE new == [status |-> "pending", email |-> e, role |-> role,
                   projects |-> asked, created |-> t, acceptedBy |-> Nobody]
           after == Expired(Stale(e, t))
<1>1. /\ invitations' = [after EXCEPT ![i] = new]
      /\ invitations[i].status = "none"
      /\ Pending(e, t) = {}
      /\ asked \in Scope(role)
      /\ requests' = [requests EXCEPT ![r] = NoCommand]
      /\ UNCHANGED <<users, identity, sessions, granted, now>>
  BY DEF CreateInvitation
<1>2. TypeOK'
  BY CreateInvitationType DEF Inv
<1>3. \A q \in Requests : requests'[q] \in {requests[q], NoCommand}
  BY <1>1 DEF Inv, TypeOK
<1>4. invitations'[i] = new
  BY <1>1 DEF Expired
<1>5. \A j \in Invitations \ {i} :
        \/ invitations'[j] = invitations[j] /\ j \notin Stale(e, t)
        \/ /\ invitations[j].status = "pending"
           /\ invitations'[j].status = "expired"
           /\ invitations'[j].email = invitations[j].email
           /\ invitations'[j].role = invitations[j].role
           /\ invitations'[j].projects = invitations[j].projects
           /\ invitations'[j].acceptedBy = invitations[j].acceptedBy
  <2>1. \A j \in Invitations \ {i} : invitations'[j] = after[j]
    BY <1>1 DEF Expired
  <2> HIDE DEF after
  <2>2. QED
    BY <2>1, ExpiredFacts DEF after
<1>6. \A j \in Invitations \ {i} :
        invitations'[j].status = "pending" => /\ invitations[j].status = "pending"
                                              /\ invitations'[j].email = invitations[j].email
                                              /\ invitations[j].email # e
  <2> SUFFICES ASSUME NEW j \in Invitations \ {i}, invitations'[j].status = "pending"
               PROVE  /\ invitations[j].status = "pending"
                      /\ invitations'[j].email = invitations[j].email
                      /\ invitations[j].email # e
    OBVIOUS
  <2>1. invitations'[j] = invitations[j] /\ j \notin Stale(e, t)
    BY <1>5
  <2>2. QED
    BY <1>1, <2>1 DEF Pending
<1>7. invitations[i].acceptedBy = Nobody
  BY <1>1 DEF Inv, AdmittedByInvitation
<1>8. /\ new.status = "pending" /\ new.email = e /\ new.role = role
      /\ new.projects = asked /\ new.acceptedBy = Nobody
  OBVIOUS
<1> HIDE DEF new, after
<1>9. RowsAreSound'
  <2>1. \A j \in Invitations :
          /\ invitations'[j].projects \in Scope(invitations'[j].role)
          /\ invitations'[j].status # "none" =>
               invitations'[j].role # "none" /\ invitations'[j].email # Nobody
    <3> SUFFICES ASSUME NEW j \in Invitations
                 PROVE  /\ invitations'[j].projects \in Scope(invitations'[j].role)
                        /\ invitations'[j].status # "none" =>
                             invitations'[j].role # "none" /\ invitations'[j].email # Nobody
      OBVIOUS
    <3>1. CASE j = i
      BY <1>1, <1>4, <1>8, <3>1, NobodyElse DEF Roles
    <3>2. CASE j # i
      BY <1>5, <3>2 DEF Inv, RowsAreSound
    <3>3. QED
      BY <3>1, <3>2
  <2>2. QED
    BY <1>1, <2>1 DEF Inv, RowsAreSound, Scope
<1>10. AdministratorRemains'
  BY <1>1 DEF Inv, AdministratorRemains, IsAdministrator
<1>11. OverviewIsReadable'
  <2>1. \A p \in People : users'[p].projects \in Scope(users'[p].role)
    BY <1>1 DEF Inv, OverviewIsReadable
  <2>2. \A j, k \in Invitations :
          invitations'[j].status = "pending" /\ invitations'[k].status = "pending"
            /\ invitations'[j].email = invitations'[k].email => j = k
    BY <1>4, <1>6, <1>8 DEF Inv, OverviewIsReadable
  <2>3. QED
    BY <2>1, <2>2 DEF OverviewIsReadable, Scope
<1>12. AdmittedByInvitation'
  <2>1. \A j \in Invitations : invitations'[j].acceptedBy = invitations[j].acceptedBy
    BY <1>4, <1>5, <1>7, <1>8
  <2>2. \A j \in Invitations : invitations'[j].status = "accepted" <=> invitations[j].status = "accepted"
    BY <1>1, <1>4, <1>5, <1>8
  <2>3. \A j \in Invitations : invitations'[j].acceptedBy \in {Nobody, invitations'[j].email}
    <3>1. \A j \in Invitations \ {i} : invitations'[j].email = invitations[j].email
      BY <1>5
    <3>2. QED
      BY <1>4, <1>8, <2>1, <3>1 DEF Inv, AdmittedByInvitation
  <2>4. QED
    BY <1>1, <2>1, <2>2, <2>3 DEF Inv, AdmittedByInvitation
<1>13. QED
  BY <1>1, <1>2, <1>3, <1>9, <1>10, <1>11, <1>12, SessionsKept, CommandsKept DEF Inv

\* An invited person arrives.
LEMMA RedeemInv ==
  ASSUME Inv, NEW g \in People, NEW e \in People, NEW i \in Invitations,
         NEW s \in Sessions, NEW t \in Readings, Redeem(g, e, i, s, t)
  PROVE  Inv'
<1> DEFINE new == NewUser(i, t)
           access == [status |-> "active", role |-> invitations[i].role,
                      projects |-> invitations[i].projects]
           row == [user |-> e, authVersion |-> 1, issued |-> t, revoked |-> FALSE]
           used == [invitations[i] EXCEPT !.status = "accepted", !.acceptedBy = e]
<1>1. TypeOK'
  BY RedeemType DEF Inv
<1>2. /\ invitations[i].status = "pending" /\ invitations[i].email = e
      /\ users[e].status = "none" /\ sessions[s].user = Nobody
      /\ users' = [users EXCEPT ![e] = new]
      /\ identity' = [identity EXCEPT ![g] = e]
      /\ invitations' = [invitations EXCEPT ![i] = used]
      /\ sessions' = [sessions EXCEPT ![s] = row]
      /\ granted' = [granted EXCEPT ![s] = access]
      /\ UNCHANGED <<requests, now>>
  BY DEF Redeem, Redeemable, OpenSession, Inv, TypeOK
<1>3. /\ new.status = "active" /\ new.role = invitations[i].role
      /\ new.projects = invitations[i].projects /\ new.authVersion = 1
  BY DEF NewUser
<1>4. /\ used.status = "accepted" /\ used.email = e /\ used.acceptedBy = e
      /\ used.role = invitations[i].role /\ used.projects = invitations[i].projects
  BY <1>2, InvitationType DEF InvitationRows, Inv
<1>5. row.user = e /\ row.authVersion = 1
  OBVIOUS
<1>6. /\ access.status = "active" /\ access.role = invitations[i].role
      /\ access.projects = invitations[i].projects
  OBVIOUS
<1>7. access = [status |-> new.status, role |-> new.role, projects |-> new.projects]
  BY <1>3
<1> HIDE DEF new, access, row, used
<1>8. /\ \A p \in People : users'[p] = IF p = e THEN new ELSE users[p]
      /\ \A q \in People : identity'[q] = IF q = g THEN e ELSE identity[q]
      /\ \A j \in Invitations : invitations'[j] = IF j = i THEN used ELSE invitations[j]
      /\ \A z \in Sessions : sessions'[z] = IF z = s THEN row ELSE sessions[z]
      /\ \A z \in Sessions : granted'[z] = IF z = s THEN access ELSE granted[z]
  BY <1>2 DEF Inv, TypeOK
<1>9. RowsAreSound'
  <2>1. \A p \in Founders : users'[p].status # "none"
    BY <1>3, <1>8, FoundersAssumption DEF Inv, RowsAreSound
  <2>2. \A q \in People : identity'[q] # Nobody => users'[identity'[q]].status # "none"
    <3> SUFFICES ASSUME NEW q \in People, identity'[q] # Nobody
                 PROVE  users'[identity'[q]].status # "none"
      OBVIOUS
    <3>1. CASE q = g
      BY <1>3, <1>8, <3>1
    <3>2. CASE q # g
      <4>1. identity'[q] = identity[q] /\ identity[q] \in People
        BY <1>8, <3>2 DEF Inv, TypeOK
      <4>2. QED
        BY <1>3, <1>8, <4>1 DEF Inv, RowsAreSound
    <3>3. QED
      BY <3>1, <3>2
  <2>3. \A j \in Invitations :
          /\ invitations'[j].projects \in Scope(invitations'[j].role)
          /\ invitations'[j].status # "none" =>
               invitations'[j].role # "none" /\ invitations'[j].email # Nobody
    <3>1. invitations[i].projects \in Scope(invitations[i].role) /\ invitations[i].role # "none"
          /\ e # Nobody
      BY <1>2, NobodyElse DEF Inv, RowsAreSound
    <3>2. QED
      BY <1>4, <1>8, <3>1 DEF Inv, RowsAreSound
  <2>4. QED
    BY <2>1, <2>2, <2>3 DEF RowsAreSound, Scope
<1>10. SessionsFollowUsers'
  <2> SUFFICES ASSUME NEW z \in Sessions, sessions'[z].user # Nobody
               PROVE  SessionsFollowUsers!(z)'
    BY DEF SessionsFollowUsers
  <2>1. CASE z = s
    <3>1. sessions'[z].user = e /\ sessions'[z].authVersion = 1 /\ granted'[z] = access
          /\ users'[e] = new
      BY <1>5, <1>8, <2>1
    <3>2. AccessOf(e)' = access
      BY <1>7, <3>1 DEF AccessOf
    <3>3. QED
      BY <1>3, <3>1, <3>2
  <2>2. CASE z # s
    <3>1. sessions'[z] = sessions[z] /\ granted'[z] = granted[z]
      BY <1>8, <2>2
    <3>2. users[sessions[z].user].status # "none"
      BY <3>1 DEF Inv, SessionsFollowUsers
    <3>3. sessions[z].user \in People
      BY <3>1 DEF Inv, TypeOK, SessionRows
    <3>4. users'[sessions[z].user] = users[sessions[z].user]
      BY <1>2, <1>8, <3>2, <3>3
    <3>5. QED
      BY <3>1, <3>4 DEF Inv, SessionsFollowUsers, AccessOf
  <2>3. QED
    BY <2>1, <2>2
<1>11. CommandsFollowUsers'
  <2> SUFFICES ASSUME NEW q \in Requests
               PROVE  CommandsFollowUsers!(q)'
    BY DEF CommandsFollowUsers
  <2>1. requests'[q] = requests[q] /\ requests[q] \in Commands
    BY <1>2 DEF Inv, TypeOK
  <2>2. requests[q].target # Nobody =>
          requests[q].target \in People /\ users'[requests[q].target] = users[requests[q].target]
    BY <1>2, <1>8, <2>1 DEF Inv, CommandsFollowUsers, Commands
  <2>3. requests[q].pc = "authorized" =>
          /\ requests[q].session \in Sessions
          /\ sessions'[requests[q].session].user # Nobody
    BY <1>2, <1>5, <1>8, <2>1, NobodyElse DEF Inv, CommandsFollowUsers, Commands
  <2>4. QED
    BY <2>1, <2>2, <2>3 DEF Inv, CommandsFollowUsers
<1>12. AdministratorRemains'
  <2>1. PICK p \in People : IsAdministrator(p)
    BY DEF Inv, AdministratorRemains
  <2>2. users'[p] = users[p]
    BY <1>2, <1>8, <2>1 DEF IsAdministrator
  <2>3. QED
    BY <2>1, <2>2 DEF AdministratorRemains, IsAdministrator
<1>13. OverviewIsReadable'
  <2>1. invitations[i].projects \in Scope(invitations[i].role)
    BY DEF Inv, RowsAreSound
  <2>2. \A p \in People : users'[p].projects \in Scope(users'[p].role)
    BY <1>3, <1>8, <2>1 DEF Inv, OverviewIsReadable
  <2>3. \A j, k \in Invitations :
          invitations'[j].status = "pending" /\ invitations'[k].status = "pending"
            /\ invitations'[j].email = invitations'[k].email => j = k
    BY <1>4, <1>8 DEF Inv, OverviewIsReadable
  <2>4. QED
    BY <2>2, <2>3 DEF OverviewIsReadable, Scope
<1>14. AdmittedByInvitation'
  <2>1. \A j \in Invitations : invitations[j].acceptedBy # e
    <3>1. CASE e \in Founders
      BY <1>2, <3>1 DEF Inv, RowsAreSound
    <3>2. CASE e \notin Founders
      BY <1>2, <3>2 DEF Inv, AdmittedByInvitation
    <3>3. QED
      BY <3>1, <3>2
  <2>2. invitations[i].acceptedBy = Nobody
    BY <1>2 DEF Inv, AdmittedByInvitation
  <2>3. e # Nobody
    BY NobodyElse
  <2>4. \A p \in People \ Founders :
          users'[p].status # "none" <=> \E j \in Invitations : invitations'[j].acceptedBy = p
    <3> SUFFICES ASSUME NEW p \in People \ Founders
                 PROVE users'[p].status # "none"
                         <=> \E j \in Invitations : invitations'[j].acceptedBy = p
      OBVIOUS
    <3>1. CASE p = e
      BY <1>3, <1>4, <1>8, <3>1
    <3>2. CASE p # e
      <4>1. users'[p] = users[p]
        BY <1>8, <3>2
      <4>2. p # Nobody
        BY NobodyElse
      <4>3. (\E j \in Invitations : invitations'[j].acceptedBy = p)
              <=> \E j \in Invitations : invitations[j].acceptedBy = p
        BY <1>4, <1>8, <2>2, <3>2, <4>2
      <4>4. QED
        BY <4>1, <4>3 DEF Inv, AdmittedByInvitation
    <3>3. QED
      BY <3>1, <3>2
  <2>5. \A j, k \in Invitations :
          invitations'[j].acceptedBy = invitations'[k].acceptedBy =>
            j = k \/ invitations'[j].acceptedBy = Nobody
    BY <1>4, <1>8, <2>1 DEF Inv, AdmittedByInvitation
  <2>6. \A j \in Invitations :
          /\ invitations'[j].status = "accepted" <=> invitations'[j].acceptedBy # Nobody
          /\ invitations'[j].acceptedBy \in {Nobody, invitations'[j].email}
    BY <1>4, <1>8, <2>3 DEF Inv, AdmittedByInvitation
  <2>7. QED
    BY <2>4, <2>5, <2>6 DEF AdmittedByInvitation
<1>15. QED
  BY <1>1, <1>9, <1>10, <1>11, <1>12, <1>13, <1>14 DEF Inv

\* Commands on a user: the version that moves settles every session and every
\* older review of that user.
LEMMA CommandInv ==
  ASSUME Inv, NEW r \in Requests, NEW t \in Times,
         \/ \E role \in Roles, asked \in SUBSET Projects : SetUserAccess(r, role, asked, t)
         \/ DisableUser(r, t)
         \/ InvalidateUserSessions(r, t)
  PROVE  Inv'
<1> DEFINE p == requests[r].target
<1>1. PICK row \in Users :
        /\ p \in People
        /\ UserRow(row, users[p])
        /\ UpdateUser(r, row)
        /\ \/ IsAdministrator(p) /\ row.status = "active" /\ row.role = "administrator"
           \/ ~ IsAdministrator(p)
           \/ \E q \in People : q # p /\ IsAdministrator(q)
        /\ Reviewed(r)
  BY CommandFacts
<1>2. /\ \A q \in People : users'[q] = IF q = p THEN row ELSE users[q]
      /\ \A q \in Requests : requests'[q] = IF q = r THEN NoCommand ELSE requests[q]
      /\ UNCHANGED <<identity, sessions, invitations, granted, now>>
  BY <1>1 DEF UpdateUser, Inv, TypeOK
<1>3. /\ row.status # "none" /\ row.role # "none" /\ row.projects \in Scope(row.role)
      /\ row.version = users[p].version + 1 /\ row.authVersion = users[p].authVersion + 1
  BY <1>1 DEF UserRow
<1>4. TypeOK'
  BY <1>1, <1>3, UpdateUserType DEF Inv
<1>5. users[p].status # "none"
  BY <1>1 DEF Inv, CommandsFollowUsers, Reviewed
<1>6. users[p].version \in 0 .. MaxVersion /\ users[p].authVersion \in 0 .. MaxVersion
  BY <1>1 DEF Inv, TypeOK, Users, Versions
<1> HIDE DEF p
<1>7. RowsAreSound'
  <2>1. \A q \in People : users[q].status # "none" => users'[q].status # "none"
    BY <1>2, <1>3
  <2>2. \A g \in People : identity[g] # Nobody => identity[g] \in People
    BY DEF Inv, TypeOK
  <2>3. QED
    BY <1>2, <2>1, <2>2, FoundersAssumption DEF Inv, RowsAreSound, Scope
<1>8. SessionsFollowUsers'
  <2> SUFFICES ASSUME NEW z \in Sessions, sessions'[z].user # Nobody
               PROVE  SessionsFollowUsers!(z)'
    BY DEF SessionsFollowUsers
  <2>1. sessions'[z] = sessions[z] /\ granted'[z] = granted[z] /\ sessions[z].user \in People
        /\ sessions[z].authVersion \in 0 .. MaxVersion
    BY <1>2 DEF Inv, TypeOK, SessionRows, Versions
  <2>2. CASE sessions[z].user = p
    <3>1. users'[p] = row /\ sessions[z].authVersion <= users[p].authVersion
      BY <1>1, <1>2, <2>1, <2>2 DEF Inv, SessionsFollowUsers
    <3>2. sessions[z].authVersion < row.authVersion
      BY <1>3, <1>6, <2>1, <3>1, BoundsAssumption
    <3>3. sessions[z].authVersion <= row.authVersion /\ sessions[z].authVersion # row.authVersion
      BY <1>3, <1>6, <2>1, <3>2, BoundsAssumption
    <3>4. QED
      BY <1>3, <2>1, <2>2, <3>1, <3>3
  <2>3. CASE sessions[z].user # p
    <3>1. users'[sessions[z].user] = users[sessions[z].user]
      BY <1>2, <2>1, <2>3
    <3>2. QED
      BY <2>1, <3>1 DEF Inv, SessionsFollowUsers, AccessOf
  <2>4. QED
    BY <2>2, <2>3
<1>9. CommandsFollowUsers'
  <2> SUFFICES ASSUME NEW q \in Requests
               PROVE  CommandsFollowUsers!(q)'
    BY DEF CommandsFollowUsers
  <2>1. CASE q = r
    BY <1>2, <2>1 DEF NoCommand
  <2>2. CASE q # r
    <3>1. requests'[q] = requests[q] /\ requests[q] \in Commands /\ sessions' = sessions
      BY <1>2, <2>2 DEF Inv, TypeOK
    <3>2. requests[q].target \in People \cup {Nobody} /\ requests[q].seen.version \in 0 .. MaxVersion
      BY <3>1 DEF Commands, Users, Versions
    <3>3. CASE requests[q].target = p /\ p # Nobody
      <4>1. users'[p] = row /\ requests[q].seen.version <= users[p].version
        BY <1>1, <1>2, <3>3 DEF Inv, CommandsFollowUsers
      <4>2. requests[q].seen.version < row.version
        BY <1>3, <1>6, <3>2, <4>1, BoundsAssumption
      <4>3. requests[q].seen.version <= row.version /\ requests[q].seen.version # row.version
        BY <1>3, <1>6, <3>2, <4>2, BoundsAssumption
      <4>4. QED
        BY <1>3, <3>1, <3>3, <4>1, <4>3 DEF Inv, CommandsFollowUsers
    <3>4. CASE requests[q].target # p /\ requests[q].target # Nobody
      <4>1. users'[requests[q].target] = users[requests[q].target]
        BY <1>2, <3>2, <3>4
      <4>2. QED
        BY <3>1, <4>1 DEF Inv, CommandsFollowUsers
    <3>5. CASE requests[q].target = Nobody
      BY <3>1, <3>5 DEF Inv, CommandsFollowUsers
    <3>6. QED
      BY <3>3, <3>4, <3>5
  <2>3. QED
    BY <2>1, <2>2
<1>10. AdministratorRemains'
  <2>1. CASE row.status = "active" /\ row.role = "administrator"
    BY <1>1, <1>2, <2>1 DEF AdministratorRemains, IsAdministrator
  <2>2. CASE \E q \in People : q # p /\ IsAdministrator(q)
    BY <1>2, <2>2 DEF AdministratorRemains, IsAdministrator
  <2>3. CASE ~ IsAdministrator(p)
    <3>1. PICK q \in People : IsAdministrator(q)
      BY DEF Inv, AdministratorRemains
    <3>2. q # p
      BY <2>3, <3>1
    <3>3. QED
      BY <3>1, <3>2, <2>2
  <2>4. QED
    BY <1>1, <2>1, <2>2, <2>3 DEF p
<1>11. OverviewIsReadable'
  <2>1. \A q \in People : users'[q].projects \in Scope(users'[q].role)
    BY <1>2, <1>3 DEF Inv, OverviewIsReadable
  <2>2. QED
    BY <1>2, <2>1 DEF Inv, OverviewIsReadable, Scope
<1>12. AdmittedByInvitation'
  <2>1. \A q \in People : users'[q].status # "none" <=> users[q].status # "none"
    BY <1>2, <1>3, <1>5
  <2>2. QED
    BY <1>2, <2>1 DEF Inv, AdmittedByInvitation
<1>13. QED
  BY <1>4, <1>7, <1>8, <1>9, <1>10, <1>11, <1>12 DEF Inv

\* Every step of the system keeps the invariant.
LEMMA StepInv == Inv /\ [Next]_vars => Inv'
<1> SUFFICES ASSUME Inv, [Next]_vars PROVE Inv'
  OBVIOUS
<1>1. CASE Employee
  <2>1. CASE \E s \in Sessions : Logout(s)
    BY <2>1, LogoutInv
  <2>2. CASE \E s \in Sessions, g \in People, t \in Readings : SignIn(g, s, t)
    BY <2>2, SignInInv
  <2>3. CASE \E s \in Sessions, g \in People, t \in Readings,
                e \in People, i \in Invitations : Redeem(g, e, i, s, t)
    BY <2>3, RedeemInv
  <2>4. QED
    BY <1>1, <2>1, <2>2, <2>3 DEF Employee
<1>2. CASE LateEmployee
  BY <1>2, RedeemLateInv DEF LateEmployee
<1>3. ASSUME NEW r \in Requests, Command(r) PROVE Inv'
  <2>1. CASE \/ \E p \in People : Review(r, p)
             \/ \E s \in Sessions : Authorize(r, s)
             \/ GiveUp(r)
    BY <2>1, RequestInv
  <2>2. ASSUME NEW t \in ChangeTimes(r),
               \/ \E role \in Roles, asked \in SUBSET Projects : SetUserAccess(r, role, asked, t)
               \/ DisableUser(r, t)
               \/ InvalidateUserSessions(r, t)
        PROVE  Inv'
    <3>1. t \in Times
      BY DEF ChangeTimes
    <3>2. QED
      BY <2>2, <3>1, CommandInv
  <2>3. ASSUME NEW t \in ChangeTimes(r), NEW e \in People,
               \/ RefuseInvitation(r, e, t)
               \/ \E i \in Invitations, role \in Roles, asked \in SUBSET Projects :
                    CreateInvitation(r, i, e, role, asked, t)
        PROVE  Inv'
    <3>1. t \in Times
      BY DEF ChangeTimes
    <3>2. QED
      BY <2>3, <3>1, RefuseInvitationInv, CreateInvitationInv
  <2>4. CASE \E i \in Invitations : RevokeInvitation(r, i)
    BY <2>4, RevokeInvitationInv
  <2>5. QED
    BY <1>3, <2>1, <2>2, <2>3, <2>4 DEF Command
<1>4. CASE Tick
  <2>1. TypeOK'
    BY <1>4, BoundsAssumption DEF Tick, Inv, TypeOK, Times, database
  <2>2. QED
    BY <1>4, <2>1, QuietInv DEF Tick
<1>5. CASE UNCHANGED vars
  <2>1. TypeOK'
    BY <1>5 DEF vars, Inv, TypeOK
  <2>2. QED
    BY <1>5, <2>1, QuietInv DEF vars, database
<1>6. QED
  BY <1>1, <1>2, <1>3, <1>4, <1>5 DEF Next

\* The rows of users, sessions, invitations and requests always agree.
THEOREM Invariance == Spec => []Inv
<1>1. Init => Inv
  BY InitInv
<1>2. Inv /\ [Next]_vars => Inv'
  BY StepInv
<1>3. QED
  BY <1>1, <1>2, PTL DEF Spec

\* Users, sessions, invitations and requests keep their types.
THEOREM TypeCorrect == Spec => []TypeOK
<1>1. Inv => TypeOK
  BY DEF Inv
<1>2. QED
  BY <1>1, Invariance, PTL

\* An active administrator remains, whatever the administrators do to each
\* other at once and however many they are.
THEOREM SomeoneAdministers == Spec => []AdministratorRemains
<1>1. Inv => AdministratorRemains
  BY DEF Inv
<1>2. QED
  BY <1>1, Invariance, PTL

\* A session that still opens doors opens exactly those it was granted.
THEOREM SessionsKeepTheirAccess == Spec => []SessionCarriesItsAccess
<1>1. Inv => SessionCarriesItsAccess
  BY DEF Inv, SessionsFollowUsers, SessionCarriesItsAccess, Usable
<1>2. QED
  BY <1>1, Invariance, PTL

\* Everyone but the founders entered by one invitation sent to that address.
THEOREM EntryByInvitation == Spec => []AdmittedByInvitation
<1>1. Inv => AdmittedByInvitation
  BY DEF Inv
<1>2. QED
  BY <1>1, Invariance, PTL

\* The access overview never meets rows it would refuse to show.
THEOREM OverviewNeverFails == Spec => []OverviewIsReadable
<1>1. Inv => OverviewIsReadable
  BY DEF Inv
<1>2. QED
  BY <1>1, Invariance, PTL

-----------------------------------------------------------------------------
(* Action properties *)

Changes(r, t) ==
  \/ \E role \in Roles, asked \in SUBSET Projects : SetUserAccess(r, role, asked, t)
  \/ DisableUser(r, t)
  \/ InvalidateUserSessions(r, t)

\* Only the commands on users write users on behalf of a request.
LEMMA WritesAreChanges ==
  ASSUME Inv, [Next]_vars, NEW r \in Requests, Writes(r)
  PROVE  \E t \in ChangeTimes(r) : Changes(r, t)
<1>1. users' # users /\ requests'[r] # requests[r]
  BY DEF Writes
<1>2. ~ Employee /\ ~ LateEmployee /\ ~ Tick /\ ~ UNCHANGED vars
  <2>1. Employee => users' = users \/ requests' = requests
    <3>1. \A s \in Sessions : Logout(s) => users' = users
      BY DEF Logout
    <3>2. \A g \in People, s \in Sessions, t \in Readings : SignIn(g, s, t) => users' = users
      BY DEF SignIn
    <3>3. \A g \in People, e \in People, i \in Invitations, s \in Sessions, t \in Readings :
            Redeem(g, e, i, s, t) => requests' = requests
      BY DEF Redeem
    <3>4. QED
      BY <3>1, <3>2, <3>3 DEF Employee
  <2>2. LateEmployee => users' = users
    BY DEF LateEmployee, RedeemLate
  <2>3. Tick \/ UNCHANGED vars => users' = users
    BY DEF Tick, vars, database
  <2>4. QED
    BY <1>1, <2>1, <2>2, <2>3
<1>3. PICK q \in Requests : Command(q)
  BY <1>2 DEF Next
<1>4. PICK t \in ChangeTimes(q) : Changes(q, t)
  BY <1>1, <1>3 DEF Command, Changes, Review, Authorize, GiveUp, database, RefuseInvitation,
                    CreateInvitation, RevokeInvitation
<1>5. requests' = [requests EXCEPT ![q] = NoCommand]
  BY <1>4 DEF Changes, SetUserAccess, DisableUser, InvalidateUserSessions, UpdateUser
<1>6. q = r
  BY <1>1, <1>5 DEF Inv, TypeOK
<1>7. QED
  BY <1>4, <1>6

\* What the fence of a command establishes.
LEMMA FenceHolds ==
  ASSUME Inv, NEW r \in Requests, Fence(r)
  PROVE  /\ requests[r].session \in Sessions
         /\ sessions[requests[r].session].user \in People
         /\ Usable(requests[r].session)
         /\ IsAdministrator(sessions[requests[r].session].user)
<1> DEFINE s == requests[r].session
<1>1. requests[r] \in Commands /\ requests[r].pc = "authorized"
  BY DEF Inv, TypeOK, Fence
<1>2. s \in Sessions /\ sessions[s].user # Nobody
  BY <1>1 DEF Inv, CommandsFollowUsers, Commands
<1>3. sessions[s].user \in People
  BY <1>2 DEF Inv, TypeOK, SessionRows
<1>4. QED
  BY <1>2, <1>3 DEF Fence, Usable, IsAdministrator

LEMMA StepIsFenced == Inv /\ [Next]_vars => FencedStep
<1> SUFFICES ASSUME Inv, [Next]_vars, NEW r \in Requests, Writes(r)
             PROVE  /\ Usable(requests[r].session)
                    /\ IsAdministrator(sessions[requests[r].session].user)
  BY DEF FencedStep
<1>1. PICK t \in ChangeTimes(r) : Changes(r, t)
  BY WritesAreChanges
<1>2. Fence(r)
  BY <1>1 DEF Changes, SetUserAccess, DisableUser, InvalidateUserSessions
<1>3. QED
  BY <1>2, FenceHolds

\* However late a command commits, its author is a signed-in active
\* administrator at that instant.
THEOREM NoCommandOutlivesItsAuthor == Spec => CommandsAreFenced
  BY StepIsFenced, Invariance, PTL DEF Spec, CommandsAreFenced

LEMMA StepIsInformed == Inv /\ [Next]_vars => InformedStep
<1> SUFFICES ASSUME Inv, [Next]_vars, NEW r \in Requests, Writes(r)
             PROVE  requests[r].seen = users[requests[r].target]
  BY DEF InformedStep
<1>1. PICK t \in ChangeTimes(r) : Changes(r, t)
  BY WritesAreChanges
<1>2. Reviewed(r)
  BY <1>1 DEF Changes, SetUserAccess, DisableUser, InvalidateUserSessions
<1>3. QED
  BY <1>2 DEF Reviewed, Inv, CommandsFollowUsers

\* A command writes the row its author reviewed, in every column.
THEOREM NoLostUpdate == Spec => NoStaleWrite
  BY StepIsInformed, Invariance, PTL DEF Spec, NoStaleWrite

LEMMA StepSettlesOnce == Inv /\ [Next]_vars => SettledStep
<1> SUFFICES ASSUME Inv, [Next]_vars, NEW i \in Invitations,
                    invitations[i].status \notin {"none", "pending"}
             PROVE  invitations'[i] = invitations[i]
  BY DEF SettledStep
<1>1. CASE UNCHANGED invitations
  BY <1>1
<1>2. ASSUME NEW g \in People, NEW j \in Invitations, NEW t \in Readings,
             \/ RedeemLate(g, j, t)
             \/ \E e \in People, s \in Sessions : Redeem(g, e, j, s, t)
      PROVE  invitations'[i] = invitations[i]
  <2>1. j # i
    BY <1>2 DEF RedeemLate, Redeem, Redeemable
  <2>2. QED
    BY <1>2, <2>1 DEF RedeemLate, Redeem, Inv, TypeOK
<1>3. ASSUME NEW r \in Requests, NEW j \in Invitations, RevokeInvitation(r, j)
      PROVE  invitations'[i] = invitations[i]
  <2>1. j # i
    BY <1>3 DEF RevokeInvitation, Revocable
  <2>2. QED
    BY <1>3, <2>1 DEF RevokeInvitation, Inv, TypeOK
<1>4. ASSUME NEW r \in Requests, NEW e \in People, NEW t \in Times,
             \/ RefuseInvitation(r, e, t)
             \/ \E j \in Invitations, role \in Roles, asked \in SUBSET Projects :
                  CreateInvitation(r, j, e, role, asked, t)
      PROVE  invitations'[i] = invitations[i]
  <2>1. Expired(Stale(e, t))[i] = invitations[i]
    BY DEF Expired, Stale
  <2>2. CASE RefuseInvitation(r, e, t)
    BY <2>1, <2>2 DEF RefuseInvitation
  <2>3. ASSUME NEW j \in Invitations, NEW role \in Roles, NEW asked \in SUBSET Projects,
               CreateInvitation(r, j, e, role, asked, t)
        PROVE  invitations'[i] = invitations[i]
    <3>1. j # i
      BY <2>3 DEF CreateInvitation
    <3>2. invitations'[i] = Expired(Stale(e, t))[i]
      BY <2>3, <3>1 DEF CreateInvitation, Expired
    <3>3. QED
      BY <2>1, <3>2
  <2>4. QED
    BY <1>4, <2>2, <2>3
<1>5. CASE Employee
  <2>1. CASE UNCHANGED invitations
    BY <2>1, <1>1
  <2>2. QED
    BY <1>2, <1>5, <2>1 DEF Employee, Logout, SignIn
<1>6. CASE LateEmployee
  BY <1>2, <1>6 DEF LateEmployee
<1>7. ASSUME NEW r \in Requests, Command(r) PROVE invitations'[i] = invitations[i]
  <2>1. CASE \E t \in ChangeTimes(r) : Changes(r, t)
    BY <1>1, <2>1 DEF Changes, SetUserAccess, DisableUser, InvalidateUserSessions, UpdateUser
  <2>2. CASE \/ \E p \in People : Review(r, p)
             \/ \E s \in Sessions : Authorize(r, s)
             \/ GiveUp(r)
    BY <1>1, <2>2 DEF Review, Authorize, GiveUp, database
  <2>3. \A t \in ChangeTimes(r) : t \in Times
    BY DEF ChangeTimes
  <2>4. QED
    BY <1>3, <1>4, <1>7, <2>1, <2>2, <2>3 DEF Command, Changes
<1>8. QED
  BY <1>1, <1>5, <1>6, <1>7 DEF Next, Tick, database, vars

\* An invitation that was used, revoked or over stays as it is.
THEOREM SettledInvitationsStay == Spec => InvitationsSettleOnce
  BY StepSettlesOnce, Invariance, PTL DEF Spec, InvitationsSettleOnce

-----------------------------------------------------------------------------
(* AccessControl implements Access *)

LEMMA RefinesInit == Init => Promise!Init
<1> SUFFICES ASSUME Init PROVE Promise!Init
  OBVIOUS
<1>1. AccessView = [p \in People |->
                      IF p \in Founders
                      THEN [status |-> "active", role |-> "administrator", projects |-> {}]
                      ELSE Promise!Outsider]
  BY DEF Init, AccessView, AccessOf, Founder, NoUser, Promise!Outsider
<1>2. SessionView = [s \in Sessions |-> [state |-> "new", of |-> Nobody]]
  BY DEF Init, SessionView, SessionState
<1>3. QED
  BY <1>1, <1>2 DEF Promise!Init

\* Steps that leave users, sessions and the clock alone are not seen.
LEMMA Unseen ==
  ASSUME users' = users, sessions' = sessions, now' = now
  PROVE  UNCHANGED <<AccessView, SessionView>>
<1>1. AccessView' = AccessView
  BY DEF AccessView, AccessOf
<1>2. \A s \in Sessions : SessionState(s)' = SessionState(s)
  BY DEF SessionState, Usable
<1>3. SessionView' = SessionView
  BY <1>2 DEF SessionView
<1>4. QED
  BY <1>1, <1>3

\* Steps that only make sessions unusable.
LEMMA RefinesEnd ==
  ASSUME users' = users,
         \A s \in Sessions : sessions'[s].user = sessions[s].user,
         \A s \in Sessions : Usable(s)' => Usable(s)
  PROVE  \E over \in SUBSET Sessions : Promise!End(over)
<1> DEFINE over == {s \in Sessions : SessionState(s) = "live" /\ SessionState(s)' = "ended"}
           ended == [s \in Sessions |->
                       IF s \in over /\ SessionView[s].state = "live"
                       THEN [SessionView[s] EXCEPT !.state = "ended"] ELSE SessionView[s]]
<1>1. AccessView' = AccessView
  BY DEF AccessView, AccessOf
<1>2. ASSUME NEW s \in Sessions PROVE SessionView'[s] = ended[s]
  <2>1. \/ s \in over /\ SessionState(s) = "live" /\ SessionState(s)' = "ended"
        \/ s \notin over /\ SessionState(s)' = SessionState(s)
    BY DEF SessionState
  <2>2. /\ SessionView[s] = [state |-> SessionState(s), of |-> sessions[s].user]
        /\ SessionView'[s] = [state |-> SessionState(s)', of |-> sessions[s].user]
    BY DEF SessionView
  <2> HIDE DEF over
  <2>3. QED
    BY <2>1, <2>2
<1>3. SessionView' = ended
  BY <1>2 DEF SessionView
<1>4. over \in SUBSET Sessions
  OBVIOUS
<1> HIDE DEF over
<1>5. Promise!End(over)
  BY <1>1, <1>3 DEF Promise!End
<1>6. QED
  BY <1>4, <1>5

LEMMA RefinesTick == Inv /\ Tick => \E over \in SUBSET Sessions : Promise!End(over)
<1> SUFFICES ASSUME Inv, Tick PROVE \E over \in SUBSET Sessions : Promise!End(over)
  OBVIOUS
<1>1. UNCHANGED <<users, sessions>> /\ now' = now + 1
  BY DEF Tick, database
<1>2. ASSUME NEW s \in Sessions, Usable(s)' PROVE Usable(s)
  <2>1. now \in Nat /\ sessions[s].issued \in Nat
    BY BoundsAssumption DEF Inv, TypeOK, SessionRows, Times
  <2>2. now + 1 < sessions[s].issued + SessionLife
    BY <1>1, <1>2 DEF Usable
  <2>3. now < sessions[s].issued + SessionLife
    BY <2>1, <2>2, LivesAssumption
  <2>4. QED
    BY <1>1, <1>2, <2>3 DEF Usable
<1>3. QED
  BY <1>1, <1>2, RefinesEnd

LEMMA RefinesLogout ==
  ASSUME Inv, NEW s \in Sessions, Logout(s)
  PROVE  \E over \in SUBSET Sessions : Promise!End(over)
<1> DEFINE row == [sessions[s] EXCEPT !.revoked = TRUE]
<1>1. sessions' = [sessions EXCEPT ![s] = row] /\ users' = users /\ now' = now
  BY DEF Logout, Inv, TypeOK
<1>2. row.user = sessions[s].user /\ row.revoked
  BY DEF Inv, TypeOK, SessionRows
<1> HIDE DEF row
<1>3. \A z \in Sessions : sessions'[z] = IF z = s THEN row ELSE sessions[z]
  BY <1>1 DEF Inv, TypeOK
<1>4. ASSUME NEW z \in Sessions, Usable(z)' PROVE Usable(z)
  <2>1. z # s
    BY <1>2, <1>3, <1>4 DEF Usable
  <2>2. QED
    BY <1>1, <1>3, <1>4, <2>1 DEF Usable
<1>5. QED
  BY <1>1, <1>2, <1>3, <1>4, RefinesEnd

\* A session is opened; those of others are not touched.
LEMMA RefinesOpen ==
  ASSUME Inv, NEW s \in Sessions, NEW p \in People, sessions[s].user = Nobody,
         now' = now, sessions'[s].user = p,
         \A z \in Sessions \ {s} : sessions'[z] = sessions[z],
         \A z \in Sessions \ {s} :
           sessions[z].user # Nobody => users'[sessions[z].user] = users[sessions[z].user]
  PROVE  Promise!Open(p, s)
<1>0. p # Nobody
  BY NobodyElse
<1>1. SessionView[s].state = "new"
  BY DEF SessionView, SessionState
<1>2. SessionState(s)' \in {"live", "ended"}
  BY <1>0 DEF SessionState
<1> DEFINE after == [SessionView EXCEPT ![s] = [state |-> SessionState(s)', of |-> p]]
<1>3. ASSUME NEW z \in Sessions PROVE SessionView'[z] = after[z]
  <2>1. CASE z = s
    BY <2>1 DEF SessionView
  <2>2. CASE z # s
    <3>1. SessionState(z)' = SessionState(z)
      BY <2>2 DEF SessionState, Usable
    <3>2. QED
      BY <2>2, <3>1 DEF SessionView
  <2>3. QED
    BY <2>1, <2>2
<1>4. SessionView' = after
  BY <1>3 DEF SessionView
<1> HIDE DEF after
<1>5. QED
  BY <1>1, <1>2, <1>4 DEF Promise!Open, after

LEMMA RefinesSignIn ==
  ASSUME Inv, NEW g \in People, NEW s \in Sessions, NEW t \in Readings, SignIn(g, s, t)
  PROVE  \E p \in People : Promise!SignIn(p, s)
<1> DEFINE p == identity[g]
<1>1. /\ p \in People /\ users[p].status = "active" /\ sessions[s].user = Nobody
      /\ UNCHANGED <<users, now>>
  BY DEF SignIn, OpenSession, Admissible, Inv, TypeOK
<1>2. sessions'[s].user = p /\ \A z \in Sessions \ {s} : sessions'[z] = sessions[z]
  BY DEF SignIn, OpenSession, Inv, TypeOK
<1> HIDE DEF p
<1>3. Promise!Open(p, s)
  BY <1>1, <1>2, RefinesOpen
<1>4. AccessView' = AccessView
  BY <1>1 DEF AccessView, AccessOf
<1>5. AccessView[p].status = "active"
  BY <1>1 DEF AccessView, AccessOf
<1>6. Promise!SignIn(p, s)
  BY <1>3, <1>4, <1>5 DEF Promise!SignIn
<1>7. QED
  BY <1>1, <1>6

LEMMA RefinesRedeem ==
  ASSUME Inv, NEW g \in People, NEW e \in People, NEW i \in Invitations,
         NEW s \in Sessions, NEW t \in Readings, Redeem(g, e, i, s, t)
  PROVE  \E grant \in Promise!Grants : Promise!Admit(e, s, grant)
<1> DEFINE grant == [status |-> "active", role |-> invitations[i].role,
                     projects |-> invitations[i].projects]
<1>1. /\ users[e].status = "none" /\ sessions[s].user = Nobody /\ now' = now
      /\ users' = [users EXCEPT ![e] = NewUser(i, t)]
      /\ invitations[i].status = "pending"
  BY DEF Redeem, Redeemable, OpenSession
<1>2. sessions'[s].user = e /\ \A z \in Sessions \ {s} : sessions'[z] = sessions[z]
  BY DEF Redeem, OpenSession, Inv, TypeOK
<1>3. \A z \in Sessions \ {s} :
        sessions[z].user # Nobody => users'[sessions[z].user] = users[sessions[z].user]
  BY <1>1 DEF Inv, SessionsFollowUsers, TypeOK, SessionRows
<1>4. Promise!Open(e, s)
  BY <1>1, <1>2, <1>3, RefinesOpen
<1>5. AccessView[e] = Promise!Outsider
  <2>1. users[e].role = "none" /\ users[e].projects = {}
    BY <1>1 DEF Inv, TypeOK, OverviewIsReadable, Scope
  <2>2. QED
    BY <1>1, <2>1 DEF AccessView, AccessOf, Promise!Outsider
<1>6. grant \in Promise!Grants
  <2>1. invitations[i].role \in Roles
    BY <1>1, InvitationType DEF Inv, RowsAreSound
  <2>2. QED
    BY <2>1, InvitationType DEF Inv, Promise!Grants, Roles
<1>7. AccessView' = [AccessView EXCEPT ![e] = grant]
  BY <1>1 DEF Inv, TypeOK, AccessView, AccessOf, NewUser
<1> HIDE DEF grant
<1>8. Promise!Admit(e, s, grant)
  BY <1>4, <1>5, <1>7 DEF Promise!Admit
<1>9. QED
  BY <1>6, <1>8

\* A command ends every session of the person it changes, in the same step.
LEMMA RefinesDecide ==
  ASSUME Inv, Inv', NEW r \in Requests, NEW t \in Times, Changes(r, t)
  PROVE  \E p \in People :
           \/ AccessView[p].status = "active"
              /\ \E grant \in Promise!Grants : Promise!Decide(p, grant)
           \/ AccessView[p].status = "active"
              /\ Promise!Decide(p, [AccessView[p] EXCEPT !.status = "disabled"])
           \/ Promise!Decide(p, AccessView[p])
<1> DEFINE p == requests[r].target
<1>1. PICK row \in Users :
        /\ p \in People
        /\ Fence(r)
        /\ Reviewed(r)
        /\ UserRow(row, users[p])
        /\ UpdateUser(r, row)
        /\ \/ users[p].status = "active"
           \/ [status |-> row.status, role |-> row.role, projects |-> row.projects]
                = AccessOf(p)
        /\ \/ row.status = "active"
           \/ [status |-> row.status, role |-> row.role, projects |-> row.projects]
                = [AccessOf(p) EXCEPT !.status = "disabled"]
           \/ [status |-> row.status, role |-> row.role, projects |-> row.projects]
                = AccessOf(p)
  BY CommandFacts DEF Changes
<1> DEFINE grant == [status |-> row.status, role |-> row.role, projects |-> row.projects]
<1>2. /\ users' = [users EXCEPT ![p] = row]
      /\ UNCHANGED <<sessions, now>>
  BY <1>1 DEF UpdateUser
<1>3. users[p].status # "none"
  BY <1>1 DEF Inv, CommandsFollowUsers, Reviewed
<1>4. AccessView[p] = AccessOf(p) /\ AccessOf(p).status = users[p].status
  BY <1>1 DEF AccessView, AccessOf
<1>5. AccessView' = [AccessView EXCEPT ![p] = grant]
  BY <1>1, <1>2 DEF Inv, TypeOK, AccessView, AccessOf
<1>6. row.status = "active" => grant \in Promise!Grants
  BY <1>1 DEF Users, UserRow, Roles, Promise!Grants
<1> HIDE DEF p, grant
<1>7. \E a \in Promise!Administrators(AccessView) : Promise!SignedIn(a) # {}
  <2> DEFINE s == requests[r].session
             a == sessions[s].user
  <2>1. s \in Sessions /\ a \in People /\ Usable(s) /\ IsAdministrator(a)
    BY <1>1, FenceHolds
  <2>2. a \in Promise!Administrators(AccessView)
    BY <2>1 DEF Promise!Administrators, AccessView, AccessOf, IsAdministrator
  <2>3. s \in Promise!SignedIn(a)
    BY <2>1, NobodyElse DEF Promise!SignedIn, SessionView, SessionState
  <2>4. QED
    BY <2>2, <2>3
<1>8. Promise!Administrators(AccessView') # {}
  BY DEF Inv, AdministratorRemains, IsAdministrator, Promise!Administrators, AccessView, AccessOf
<1> DEFINE after == [s \in Sessions |->
                       IF s \in Promise!SignedIn(p)
                       THEN [SessionView[s] EXCEPT !.state = "ended"] ELSE SessionView[s]]
<1>9. ASSUME NEW s \in Sessions PROVE SessionView'[s] = after[s]
  <2>1. /\ SessionView[s] = [state |-> SessionState(s), of |-> sessions[s].user]
        /\ SessionView'[s] = [state |-> SessionState(s)', of |-> sessions[s].user]
    BY <1>2 DEF SessionView
  <2>2. s \in Promise!SignedIn(p) <=> SessionState(s) = "live" /\ sessions[s].user = p
    BY <2>1 DEF Promise!SignedIn
  <2>3. CASE sessions[s].user = p
    <3>1. p # Nobody /\ users'[p] = row /\ row.authVersion = users[p].authVersion + 1
      BY <1>1, <1>2, NobodyElse DEF Inv, TypeOK, UserRow
    <3>2. sessions[s].authVersion <= users[p].authVersion
      BY <2>3, <3>1 DEF Inv, SessionsFollowUsers
    <3>3. sessions[s].authVersion \in 0 .. MaxVersion /\ users[p].authVersion \in 0 .. MaxVersion
      BY <1>1 DEF Inv, TypeOK, Users, SessionRows, Versions
    <3>4. row.authVersion # sessions[s].authVersion
      BY <3>1, <3>2, <3>3, BoundsAssumption
    <3>5. SessionState(s)' = "ended"
      BY <1>2, <2>3, <3>1, <3>4 DEF SessionState, Usable
    <3>6. SessionState(s) \in {"live", "ended"}
      BY <2>3, <3>1 DEF SessionState
    <3>7. QED
      BY <2>1, <2>2, <2>3, <3>5, <3>6
  <2>4. CASE sessions[s].user # p
    <3>1. sessions[s].user # Nobody => users'[sessions[s].user] = users[sessions[s].user]
      BY <1>2, <2>4 DEF Inv, TypeOK, SessionRows
    <3>2. SessionState(s)' = SessionState(s)
      BY <1>2, <3>1 DEF SessionState, Usable
    <3>3. QED
      BY <2>1, <2>2, <2>4, <3>2
  <2>5. QED
    BY <2>3, <2>4
<1>10. SessionView' = after
  BY <1>9 DEF SessionView
<1>11. Promise!Decide(p, grant)
  BY <1>3, <1>4, <1>5, <1>7, <1>8, <1>10 DEF Promise!Decide
<1>12. \/ users[p].status = "active" /\ row.status = "active"
       \/ users[p].status = "active" /\ grant = [AccessView[p] EXCEPT !.status = "disabled"]
       \/ grant = AccessView[p]
  BY <1>1, <1>4 DEF grant, p
<1>13. QED
  BY <1>1, <1>4, <1>6, <1>11, <1>12 DEF p

LEMMA RefinesNext == Inv /\ Inv' /\ [Next]_vars => [Promise!Next]_(Promise!promise)
<1> SUFFICES ASSUME Inv, Inv', [Next]_vars
             PROVE  Promise!Next \/ UNCHANGED <<AccessView, SessionView>>
  BY DEF Promise!promise
<1>1. CASE Employee
  <2>1. ASSUME NEW s \in Sessions, Logout(s) PROVE Promise!Next
    BY <2>1, RefinesLogout DEF Promise!Next
  <2>2. ASSUME NEW s \in Sessions, NEW g \in People, NEW t \in Readings, SignIn(g, s, t)
        PROVE  Promise!Next
    BY <2>2, RefinesSignIn DEF Promise!Next
  <2>3. ASSUME NEW s \in Sessions, NEW g \in People, NEW t \in Readings, NEW e \in People,
               NEW i \in Invitations, Redeem(g, e, i, s, t)
        PROVE  Promise!Next
    BY <2>3, RefinesRedeem DEF Promise!Next
  <2>4. QED
    BY <1>1, <2>1, <2>2, <2>3 DEF Employee
<1>2. CASE LateEmployee
  BY <1>2, Unseen DEF LateEmployee, RedeemLate
<1>3. ASSUME NEW r \in Requests, NEW t \in ChangeTimes(r), Changes(r, t)
      PROVE  Promise!Next
  <2>1. t \in Times
    BY DEF ChangeTimes
  <2>2. QED
    BY <1>3, <2>1, RefinesDecide DEF Promise!Next
<1>4. ASSUME NEW r \in Requests,
             \/ \E p \in People : Review(r, p)
             \/ \E s \in Sessions : Authorize(r, s)
             \/ GiveUp(r)
             \/ \E t \in ChangeTimes(r), e \in People :
                  \/ RefuseInvitation(r, e, t)
                  \/ \E i \in Invitations, role \in Roles, asked \in SUBSET Projects :
                       CreateInvitation(r, i, e, role, asked, t)
             \/ \E i \in Invitations : RevokeInvitation(r, i)
      PROVE  UNCHANGED <<AccessView, SessionView>>
  <2>1. UNCHANGED <<users, sessions, now>>
    BY <1>4 DEF Review, Authorize, GiveUp, RefuseInvitation, CreateInvitation,
                RevokeInvitation, database
  <2>2. QED
    BY <2>1, Unseen
<1>5. CASE \E r \in Requests : Command(r)
  BY <1>3, <1>4, <1>5 DEF Command, Changes
<1>6. CASE Tick
  BY <1>6, RefinesTick DEF Promise!Next
<1>7. CASE UNCHANGED vars
  BY <1>7, Unseen DEF vars
<1>8. QED
  BY <1>1, <1>2, <1>5, <1>6, <1>7 DEF Next

\* Sign-in and the commands keep the promise of Access: a change of access and
\* the end of the sessions it concerns are one step for everyone.
THEOREM KeepsThePromise == Spec => ImplementsAccess
<1>1. Inv /\ Inv' /\ [Next]_vars => [Promise!Next]_(Promise!promise)
  BY RefinesNext
<1>2. QED
  BY <1>1, RefinesInit, Invariance, PTL DEF Spec, ImplementsAccess, Promise!Spec
=============================================================================
