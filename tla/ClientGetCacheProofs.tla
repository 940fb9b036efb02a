------------------------ MODULE ClientGetCacheProofs -------------------------
(***************************************************************************)
(* What holds of the client GET cache for every set of URLs, readers and   *)
(* open requests: types, freshness after an invalidation, that every       *)
(* behaviour is one of Replica, no wait on a request that nobody settles,  *)
(* and every trigger answered.                                             *)
(***************************************************************************)
EXTENDS ClientGetCache, TLAPS

LEMMA Distinct ==
  /\ Versions \subseteq Nat
  /\ Nothing \notin Versions /\ NoBody \notin Versions
  /\ Denied \notin Versions /\ Failed \notin Versions
  /\ Nothing # NoBody /\ Nothing # Denied /\ Nothing # Failed /\ NoBody # Denied
  /\ NoBody # Failed /\ Denied # Failed /\ Nothing \notin Slots
BY MarksAssumption, DistinctAssumption, MaxVersionAssumption DEF Marks, Versions

LEMMA Constructed ==
  /\ Absent \in Entries /\ Unused \in Fetches /\ Away \in Panels
BY DEF Absent, Unused, Away, Entries, Fetches, Panels

-----------------------------------------------------------------------------
(* Types *)

LEMMA StartTypes ==
  ASSUME TypeOK, NEW u \in Urls, NEW s \in Slots, StartJsonGet(u, s)
  PROVE  cache' \in [Urls -> Entries] /\ requests' \in [Urls -> [Slots -> Fetches]]
<1>1. cache[u] \in Entries /\ requests[u] \in [Slots -> Fetches]
  BY DEF TypeOK
<1>2. Opened(u) \in Fetches /\ EntryAwaiting(u, s) \in Entries
  BY <1>1 DEF Opened, EntryAwaiting, Absent, Entries, Fetches
<1> QED
  BY <1>1, <1>2 DEF StartJsonGet, TypeOK

LEMMA LoadTypes ==
  ASSUME TypeOK, NEW x \in Readers, NEW r \in Panels, NEW silent \in BOOLEAN,
         NEW force \in BOOLEAN, Load(x, r, silent, force)
  PROVE  /\ cache' \in [Urls -> Entries] /\ requests' \in [Urls -> [Slots -> Fetches]]
         /\ readers' \in [Readers -> Panels] /\ readers'[x].mounted = r.mounted
         /\ \A y \in Readers \ {x} : readers'[y] = readers[y]
<1> DEFINE u == ReaderUrl[x]
<1>u. u \in Urls /\ cache[u] \in Entries
  BY ReaderUrlAssumption DEF TypeOK
<1>r. readers \in [Readers -> Panels]
  BY DEF TypeOK
<1>a. ASSUME NEW a \in Panels, readers' = [readers EXCEPT ![x] = a], a.mounted = r.mounted
      PROVE  /\ readers' \in [Readers -> Panels] /\ readers'[x].mounted = r.mounted
             /\ \A y \in Readers \ {x} : readers'[y] = readers[y]
  BY <1>a, <1>r
<1>c. CASE UNCHANGED <<cache, requests>>
  <2>1. cache' \in [Urls -> Entries] /\ requests' \in [Urls -> [Slots -> Fetches]]
    BY <1>c DEF TypeOK
  <2>2. [r EXCEPT !.awaits = Nothing, !.shown = Nothing] \in Panels
        /\ [r EXCEPT !.awaits = Nothing, !.shown = Nothing].mounted = r.mounted
    BY DEF Panels
  <2>3. CASE Hits(u, force) /\ readers' = Shows(x, r, cache[u].value, silent)
    <3> DEFINE a == [r EXCEPT !.awaits = Nothing,
          !.shown = IF cache[u].value # NoBody THEN cache[u].value ELSE IF silent THEN @ ELSE Nothing]
    <3>1. a \in Panels /\ a.mounted = r.mounted
      BY <1>u DEF Panels, Entries
    <3>2. readers' = [readers EXCEPT ![x] = a]
      BY <2>3 DEF Shows
    <3> HIDE DEF a
    <3> QED BY <1>a, <2>1, <3>1, <3>2
  <2>4. CASE Joins(u, force) /\ readers' = Awaits(x, r, cache[u].inFlight, silent)
    <3> DEFINE a == [r EXCEPT !.awaits = cache[u].inFlight,
          !.visible = IF silent THEN @ ELSE @ \cup {cache[u].inFlight}]
    <3>1. a \in Panels /\ a.mounted = r.mounted
      <4>1. cache[u].inFlight \in Slots
        BY <2>4, <1>u DEF Joins, Entries
      <4> QED BY <4>1 DEF Panels
    <3>2. readers' = [readers EXCEPT ![x] = a]
      BY <2>4 DEF Awaits
    <3> HIDE DEF a
    <3> QED BY <1>a, <2>1, <3>1, <3>2
  <2>5. CASE readers' = [readers EXCEPT ![x] = r]
    BY <1>a, <2>1, <2>5
  <2>6. CASE readers' = [readers EXCEPT ![x] = [r EXCEPT !.awaits = Nothing, !.shown = Nothing]]
    BY <1>a, <2>1, <2>2, <2>6
  <2>7. ASSUME NEW s \in Slots, StartJsonGet(u, s), readers' = Awaits(x, r, s, silent)
        PROVE  FALSE
    <3>1. requests[u][s].phase = "unused" /\ requests'[u][s].phase = "open"
      BY <2>7, <1>u DEF StartJsonGet, IsUnused, Opened, TypeOK
    <3> QED BY <3>1, <1>c
  <2> QED BY <2>3, <2>4, <2>5, <2>6, <2>7 DEF Load
<1>d. CASE \E s \in Slots : StartJsonGet(u, s) /\ readers' = Awaits(x, r, s, silent)
  <2>1. PICK s \in Slots : StartJsonGet(u, s) /\ readers' = Awaits(x, r, s, silent)
    BY <1>d
  <2> DEFINE a == [r EXCEPT !.awaits = s, !.visible = IF silent THEN @ ELSE @ \cup {s}]
  <2>2. a \in Panels /\ a.mounted = r.mounted
    BY DEF Panels
  <2>3. readers' = [readers EXCEPT ![x] = a]
    BY <2>1 DEF Awaits
  <2> HIDE DEF a
  <2> QED BY <1>a, <1>u, <2>1, <2>2, <2>3, StartTypes
<1>e. CASE /\ Hits(u, force) /\ readers' = Shows(x, r, cache[u].value, silent)
           /\ \E s \in Slots : StartJsonGet(u, s)
  <2> DEFINE a == [r EXCEPT !.awaits = Nothing,
        !.shown = IF cache[u].value # NoBody THEN cache[u].value ELSE IF silent THEN @ ELSE Nothing]
  <2>1. a \in Panels /\ a.mounted = r.mounted
    BY <1>u DEF Panels, Entries
  <2>2. readers' = [readers EXCEPT ![x] = a]
    BY <1>e DEF Shows
  <2> HIDE DEF a
  <2> QED BY <1>a, <1>e, <1>u, <2>1, <2>2, StartTypes
<1> QED BY <1>c, <1>d, <1>e DEF Load

LEMMA SettleTypes ==
  ASSUME TypeOK, NEW u \in Urls, NEW s \in Slots,
         NEW outcome \in Versions \cup Marks, Settle(u, s, outcome)
  PROVE  TypeOK'
<1>1. cache[u] \in Entries /\ requests[u] \in [Slots -> Fetches]
  BY DEF TypeOK
<1>2. SettledEntry(cache[u], outcome) \in Entries
  <2>1. CASE outcome \in Versions \cup {NoBody}
    BY <2>1, Distinct DEF SettledEntry, Entries
  <2>2. CASE outcome = Denied
    BY <2>2, Distinct DEF SettledEntry, Entries, Absent
  <2>3. CASE outcome \in {Failed, Nothing}
    BY <2>3, <1>1, Distinct, Constructed DEF SettledEntry, Entries
  <2> QED BY <2>1, <2>2, <2>3 DEF Marks
<1>3. cache' \in [Urls -> Entries]
  <2>1. cache' = cache \/ cache' = [cache EXCEPT ![u] = SettledEntry(cache[u], outcome)]
    BY DEF Settle
  <2> QED BY <1>2, <2>1 DEF TypeOK
<1>4. requests' \in [Urls -> [Slots -> Fetches]]
  BY <1>1, Constructed DEF Settle, TypeOK
<1>5. \A x \in Readers : Received(readers[x], s, outcome) \in Panels
  BY DEF TypeOK, Received, Panels
<1>6. readers' \in [Readers -> Panels]
  BY <1>5 DEF Settle, TypeOK
<1>7. notified' \in SUBSET Readers /\ census' \in Rounds
  BY DEF Settle, TypeOK, ReadersOf, MountedReaders, Rounds
<1>8. floor' \in [Urls -> Versions]
  BY DEF Settle, TypeOK
<1> QED BY <1>3, <1>4, <1>6, <1>7, <1>8 DEF Settle, TypeOK

LEMMA RoundTypes ==
  ASSUME TypeOK, StartRound
  PROVE  /\ cache' \in [Urls -> Entries] /\ requests' \in [Urls -> [Slots -> Fetches]]
         /\ census' \in Rounds
         /\ lifecycle' \in [mounted : SUBSET LifecycleReaders, reading : SUBSET LifecycleReaders]
<1>1. PICK pick \in [MountedUrls -> Slots] :
        /\ requests' = [u \in Urls |->
             IF u \in MountedUrls /\ cache[u].inFlight = Nothing
               THEN [requests[u] EXCEPT ![pick[u]] = Opened(u)] ELSE requests[u]]
        /\ cache' = [u \in Urls |->
             IF u \in MountedUrls /\ cache[u].inFlight = Nothing
               THEN EntryAwaiting(u, pick[u]) ELSE cache[u]]
        /\ census' = [running |-> TRUE, queued |-> FALSE, received |-> FALSE,
                      waits |-> {<<u, pick[u]>> : u \in MountedUrls},
                      existed |-> {u \in MountedUrls : cache[u] # Absent}]
  BY DEF StartRound
<1>2. MountedUrls \subseteq Urls
  BY ReaderUrlAssumption DEF MountedUrls, MountedReaders
<1>3. \A u \in Urls : cache[u] \in Entries /\ requests[u] \in [Slots -> Fetches]
  BY DEF TypeOK
<1>4. \A u \in Urls : Opened(u) \in Fetches
  BY <1>3 DEF Opened, Entries, Fetches
<1>5. \A u \in Urls, s \in Slots : EntryAwaiting(u, s) \in Entries
  BY <1>3 DEF EntryAwaiting, Absent, Entries
<1>6. cache' \in [Urls -> Entries]
  BY <1>1, <1>3, <1>5
<1>7. requests' \in [Urls -> [Slots -> Fetches]]
  BY <1>1, <1>3, <1>4
<1>8. census' \in Rounds
  BY <1>1, <1>2 DEF Rounds
<1>9. lifecycle' \in [mounted : SUBSET LifecycleReaders, reading : SUBSET LifecycleReaders]
  BY DEF StartRound, TypeOK
<1> QED BY <1>6, <1>7, <1>8, <1>9

LEMMA CensusChangedTypes ==
  ASSUME TypeOK, CensusChanged PROVE census' \in Rounds
BY DEF TypeOK, CensusChanged, Rounds

LEMMA TypeInit == Init => TypeOK
<1> SUFFICES ASSUME Init PROVE TypeOK
  OBVIOUS
<1>1. 0 \in Versions
  BY MaxVersionAssumption DEF Versions
<1> QED BY <1>1, Constructed DEF Init, TypeOK, Rounds

LEMMA TypeNext == TypeOK /\ [Next]_vars => TypeOK'
<1> SUFFICES ASSUME TypeOK, [Next]_vars PROVE TypeOK'
  OBVIOUS
<1>1. ASSUME NEW x \in Readers, Mount(x) PROVE TypeOK'
  <2>1. [Away EXCEPT !.mounted = TRUE] \in Panels
    BY DEF Away, Panels
  <2> QED BY <1>1, <2>1, LoadTypes, CensusChangedTypes DEF Mount, TypeOK, history
<1>2. ASSUME NEW x \in Readers, Unmount(x) PROVE TypeOK'
  BY <1>2, Constructed, CensusChangedTypes DEF Unmount, TypeOK, history
<1>3. ASSUME NEW x \in Readers, Retry(x) PROVE TypeOK'
  <2>1. readers[x] \in Panels
    BY DEF TypeOK
  <2> QED BY <1>3, <2>1, LoadTypes DEF Retry, TypeOK, history
<1>4. ASSUME NEW x \in Readers, Reload(x) PROVE TypeOK'
  <2>1. readers[x] \in Panels
    BY DEF TypeOK
  <2> QED BY <1>4, <2>1, LoadTypes DEF Reload, TypeOK, history
<1>5. ASSUME NEW u \in Urls, NEW s \in Slots, ServerAnswers(u, s) PROVE TypeOK'
  <2>1. requests[u] \in [Slots -> Fetches] /\ requests[u][s] \in Fetches /\ server[u] \in Versions
    BY DEF TypeOK
  <2>2. \A answer \in {server[u], Denied} :
          [requests[u][s] EXCEPT !.phase = "evaluated", !.answer = answer] \in Fetches
    BY <2>1 DEF Fetches
  <2>3. PICK answer \in {server[u], Denied} :
          requests' = [requests EXCEPT ![u][s] =
            [requests[u][s] EXCEPT !.phase = "evaluated", !.answer = answer]]
    BY <1>5 DEF ServerAnswers
  <2>4. [requests[u][s] EXCEPT !.phase = "evaluated", !.answer = answer] \in Fetches
    BY <2>2
  <2>5. requests' \in [Urls -> [Slots -> Fetches]]
    BY <2>1, <2>3, <2>4 DEF TypeOK
  <2> QED BY <1>5, <2>5 DEF ServerAnswers, TypeOK, history
<1>6. ASSUME NEW u \in Urls, NEW s \in Slots, ResponseArrives(u, s) PROVE TypeOK'
  <2>1. requests[u][s].answer \in Versions \cup Marks
    BY DEF TypeOK, Fetches, Marks
  <2> QED BY <1>6, <2>1, SettleTypes DEF ResponseArrives
<1>7. ASSUME NEW u \in Urls, NEW s \in Slots, RequestFails(u, s) PROVE TypeOK'
  BY <1>7, SettleTypes DEF RequestFails, Marks
<1>8. ASSUME NEW u \in Urls, NEW s \in Slots, BodyIsLost(u, s) PROVE TypeOK'
  BY <1>8, SettleTypes DEF BodyIsLost, Marks
<1>9. CASE Trigger
  <2>1. CASE StartRound
    BY <1>9, <2>1, RoundTypes DEF Trigger, TypeOK
  <2>2. CASE census' = [census EXCEPT !.queued = TRUE]
             /\ UNCHANGED <<cache, requests, lifecycle>>
    BY <1>9, <2>2 DEF Trigger, TypeOK, Rounds
  <2>3. CASE UNCHANGED <<cache, requests, census, lifecycle>>
    BY <1>9, <2>3 DEF Trigger, TypeOK
  <2> QED BY <1>9, <2>1, <2>2, <2>3 DEF Trigger
<1>10. CASE FinishRound
  <2>1. CASE StartRound
    BY <1>10, <2>1, RoundTypes DEF FinishRound, TypeOK, history
  <2>2. CASE census' = [census EXCEPT !.running = FALSE]
             /\ UNCHANGED <<cache, requests, lifecycle>>
    BY <1>10, <2>2 DEF FinishRound, TypeOK, Rounds, history
  <2> QED BY <1>10, <2>1, <2>2 DEF FinishRound
<1>11. ASSUME NEW p \in LifecycleReaders, LifecycleReadLands(p) PROVE TypeOK'
  BY <1>11 DEF LifecycleReadLands, history, TypeOK
<1>12. ASSUME NEW p \in LifecycleReaders, SubscribeLifecycle(p) PROVE TypeOK'
  BY <1>12, CensusChangedTypes DEF SubscribeLifecycle, TypeOK, history
<1>13. ASSUME NEW p \in LifecycleReaders, UnsubscribeLifecycle(p) PROVE TypeOK'
  BY <1>13, CensusChangedTypes DEF UnsubscribeLifecycle, TypeOK, history
<1>14. ASSUME NEW u \in Urls, Expire(u) PROVE TypeOK'
  <2>1. cache' \in [Urls -> Entries]
    BY <1>14 DEF Expire, TypeOK, Entries
  <2> QED BY <1>14, <2>1 DEF Expire, TypeOK, history
<1>15. ASSUME NEW u \in Urls, ServerChanges(u) PROVE TypeOK'
  BY <1>15, MaxVersionAssumption DEF ServerChanges, TypeOK, Versions, browser, history
<1>16. ASSUME NEW S \in SUBSET Urls, NEW notify \in BOOLEAN, InvalidateCachedGets(S, notify)
       PROVE  TypeOK'
  <2>1. cache' \in [Urls -> Entries]
    BY <1>16, Constructed DEF InvalidateCachedGets, TypeOK
  <2>2. floor' \in [Urls -> Versions]
    BY <1>16 DEF InvalidateCachedGets, TypeOK
  <2>3. notified' \in SUBSET Readers
    BY <1>16 DEF InvalidateCachedGets, ReadersOf, MountedReaders
  <2> QED BY <1>16, <2>1, <2>2, <2>3 DEF InvalidateCachedGets, TypeOK
<1>17. CASE UNCHANGED vars
  BY <1>17 DEF vars, browser, history, TypeOK
<1> QED
  BY <1>1, <1>2, <1>3, <1>4, <1>5, <1>6, <1>7, <1>8, <1>9, <1>10, <1>11, <1>12, <1>13,
     <1>14, <1>15, <1>16, <1>17 DEF Next

\* Every reachable state has the types of the code's module variables.
THEOREM TypeCorrect == Spec => []TypeOK
BY TypeInit, TypeNext, PTL DEF Spec

-----------------------------------------------------------------------------
(* Freshness *)

\* What a URL's entry holds, and what its request in flight will bring, lies
\* between the last invalidation and the server's present state; the request in
\* flight brings nothing older than the entry holds.
FreshEntry(u) ==
  /\ floor[u] <= server[u]
  /\ cache[u].value \in Versions => floor[u] <= cache[u].value /\ cache[u].value <= server[u]
  /\ \A s \in Slots : requests[u][s].answer \in Versions =>
       /\ requests[u][s].answer <= server[u]
       /\ cache[u].inFlight = s =>
            /\ floor[u] <= requests[u][s].answer
            /\ cache[u].value \in Versions => cache[u].value <= requests[u][s].answer

Fresh == \A u \in Urls : FreshEntry(u)

\* The state one URL's freshness is about is left alone.
SameUrl(u) ==
  /\ server'[u] = server[u] /\ floor'[u] = floor[u]
  /\ cache'[u] = cache[u] /\ requests'[u] = requests[u]

LEMMA SameFresh ==
  ASSUME TypeOK, NEW u \in Urls, FreshEntry(u), SameUrl(u)
  PROVE  FreshEntry(u)'
<1>1. cache[u].value \in Versions => cache[u].value \in Nat
  BY Distinct
<1> QED BY <1>1 DEF FreshEntry, SameUrl

\* Starting a request keeps the entry's value and brings no answer yet.
LEMMA OpenFresh ==
  ASSUME TypeOK, NEW u \in Urls, FreshEntry(u), NEW s \in Slots,
         server'[u] = server[u], floor'[u] = floor[u],
         cache'[u] = EntryAwaiting(u, s),
         requests'[u] = [requests[u] EXCEPT ![s] = Opened(u)]
  PROVE  FreshEntry(u)'
<1>1. cache[u] \in Entries /\ requests[u] \in [Slots -> Fetches]
  BY DEF TypeOK
<1>2. requests'[u][s].answer = Nothing
  BY <1>1 DEF Opened
<1>3. \A q \in Slots \ {s} : requests'[u][q] = requests[u][q]
  BY <1>1
<1>4. cache'[u].inFlight = s
  BY <1>1 DEF EntryAwaiting, Absent, Entries
<1>5. cache'[u].value = cache[u].value \/ cache'[u].value = Nothing
  BY <1>1 DEF EntryAwaiting, Absent, Entries
<1>6. cache[u].value \in Versions => cache[u].value \in Nat
  BY Distinct
<1> QED BY <1>2, <1>3, <1>4, <1>5, <1>6, Distinct DEF FreshEntry

LEMMA StartFresh ==
  ASSUME TypeOK, Fresh, NEW u \in Urls, NEW s \in Slots, StartJsonGet(u, s),
         UNCHANGED <<server, floor>>
  PROVE  Fresh'
<1> SUFFICES ASSUME NEW v \in Urls PROVE FreshEntry(v)'
  BY DEF Fresh
<1>0. FreshEntry(v)
  BY DEF Fresh
<1>1. CASE v # u
  <2>1. SameUrl(v)
    BY <1>1 DEF StartJsonGet, SameUrl, TypeOK
  <2> QED BY <1>0, <2>1, SameFresh
<1>2. CASE v = u
  <2>1. /\ cache'[u] = EntryAwaiting(u, s)
        /\ requests'[u] = [requests[u] EXCEPT ![s] = Opened(u)]
    BY DEF StartJsonGet, TypeOK
  <2> QED BY <1>0, <1>2, <2>1, OpenFresh
<1> QED BY <1>1, <1>2

LEMMA UntouchedFresh ==
  ASSUME TypeOK, Fresh, UNCHANGED <<server, floor, cache, requests>>
  PROVE  Fresh'
<1>1. \A v \in Urls : SameUrl(v)
  BY DEF SameUrl
<1> QED BY <1>1, SameFresh DEF Fresh

LEMMA LoadFresh ==
  ASSUME TypeOK, Fresh, NEW x \in Readers, NEW r, NEW silent, NEW force,
         Load(x, r, silent, force), UNCHANGED <<server, floor>>
  PROVE  Fresh'
<1>1. ReaderUrl[x] \in Urls
  BY ReaderUrlAssumption
<1>2. UNCHANGED <<cache, requests>> \/ \E s \in Slots : StartJsonGet(ReaderUrl[x], s)
  BY DEF Load
<1> QED BY <1>1, <1>2, StartFresh, UntouchedFresh

LEMMA RoundFresh ==
  ASSUME TypeOK, Fresh, StartRound, UNCHANGED <<server, floor>>
  PROVE  Fresh'
<1> SUFFICES ASSUME NEW v \in Urls PROVE FreshEntry(v)'
  BY DEF Fresh
<1>0. FreshEntry(v)
  BY DEF Fresh
<1>1. PICK pick \in [MountedUrls -> Slots] :
        /\ requests' = [u \in Urls |->
             IF u \in MountedUrls /\ cache[u].inFlight = Nothing
               THEN [requests[u] EXCEPT ![pick[u]] = Opened(u)] ELSE requests[u]]
        /\ cache' = [u \in Urls |->
             IF u \in MountedUrls /\ cache[u].inFlight = Nothing
               THEN EntryAwaiting(u, pick[u]) ELSE cache[u]]
  BY DEF StartRound
<1>2. CASE v \in MountedUrls /\ cache[v].inFlight = Nothing
  <2>1. pick[v] \in Slots
    BY <1>2
  <2> QED BY <1>0, <1>1, <1>2, <2>1, OpenFresh
<1>3. CASE ~(v \in MountedUrls /\ cache[v].inFlight = Nothing)
  <2>1. SameUrl(v)
    BY <1>1, <1>3 DEF SameUrl
  <2> QED BY <1>0, <2>1, SameFresh
<1> QED BY <1>2, <1>3

\* A settled request leaves its answer only if it is the one in flight.
LEMMA SettleFresh ==
  ASSUME TypeOK, Fresh, NEW u \in Urls, NEW s \in Slots, NEW outcome,
         outcome \in Marks \/ (outcome \in Versions /\ outcome = requests[u][s].answer),
         Settle(u, s, outcome)
  PROVE  Fresh'
<1> SUFFICES ASSUME NEW v \in Urls PROVE FreshEntry(v)'
  BY DEF Fresh
<1>0. FreshEntry(v) /\ FreshEntry(u)
  BY DEF Fresh
<1>1. /\ server' = server
      /\ \A w \in Urls : w # u \/ ~ IsCurrent(u, s) \/ outcome \notin Versions => floor'[w] = floor[w]
  BY DEF Settle, TypeOK
<1>2. CASE v # u
  <2>1. SameUrl(v)
    BY <1>1, <1>2 DEF Settle, SameUrl, TypeOK
  <2> QED BY <1>0, <2>1, SameFresh
<1>3. CASE v = u
  <2>1. cache[u] \in Entries /\ requests[u] \in [Slots -> Fetches]
    BY DEF TypeOK
  <2>2. requests'[u][s].answer = Nothing /\ \A q \in Slots \ {s} : requests'[u][q] = requests[u][q]
    BY <2>1 DEF Settle, TypeOK, Unused
  <2>3. CASE ~IsCurrent(u, s)
    <3>1. cache'[u] = cache[u] /\ cache[u].inFlight # s
      BY <2>3 DEF Settle, IsCurrent
    <3>2. cache[u].value \in Versions => cache[u].value \in Nat
      BY Distinct
    <3>3. floor'[u] = floor[u]
      BY <1>1, <2>3
    <3> QED BY <1>0, <1>1, <1>3, <2>2, <3>1, <3>2, <3>3, Distinct DEF FreshEntry
  <2>4. CASE IsCurrent(u, s)
    <3>1. cache'[u] = SettledEntry(cache[u], outcome)
      BY <2>4 DEF Settle, TypeOK
    <3>2. cache'[u].inFlight = Nothing
      BY <2>1, <3>1, Distinct DEF SettledEntry, Absent, Entries
    <3>3. /\ outcome \in Marks => cache'[u].value \in {cache[u].value, Nothing, NoBody}
          /\ outcome \in Versions => cache'[u].value = outcome
      BY <2>1, <3>1, Distinct DEF SettledEntry, Absent, Entries, Marks
    <3>4. \A q \in Slots : q # Nothing
      BY Distinct
    <3>5. \A a \in Versions : a \in Nat
      BY Distinct
    <3>6. /\ floor'[u] <= server[u]
          /\ cache'[u].value \in Versions =>
               floor'[u] <= cache'[u].value /\ cache'[u].value <= server[u]
      <4>1. CASE outcome \in Marks
        <5>1. cache'[u].value \in Versions => cache'[u].value = cache[u].value
          BY <3>3, <4>1, Distinct
        <5>2. floor'[u] = floor[u]
          BY <1>1, <4>1, Distinct DEF Marks
        <5> QED BY <1>0, <3>5, <5>1, <5>2 DEF FreshEntry
      <4>2. CASE outcome \in Versions /\ outcome = requests[u][s].answer
        <5>1. cache[u].inFlight = s /\ requests[u][s].answer \in Versions
          BY <2>4, <4>2 DEF IsCurrent
        <5>2. floor[u] <= outcome /\ outcome <= server[u]
          BY <1>0, <4>2, <5>1 DEF FreshEntry
        <5>3. floor'[u] \in {outcome, floor[u]}
          BY DEF Settle, TypeOK
        <5> QED BY <1>0, <3>3, <3>5, <4>2, <5>2, <5>3 DEF FreshEntry, TypeOK
      <4> QED BY <4>1, <4>2
    <3>7. \A q \in Slots : requests'[u][q].answer \in Versions =>
            requests'[u][q].answer <= server[u] /\ cache'[u].inFlight # q
      BY <1>0, <2>2, <3>2, <3>4, Distinct DEF FreshEntry
    <3>8. FreshEntry(u)'
      BY <1>0, <1>1, <3>6, <3>7 DEF FreshEntry
    <3> QED BY <1>3, <3>8
  <2> QED BY <2>3, <2>4
<1> QED BY <1>2, <1>3

LEMMA AnswerFresh ==
  ASSUME TypeOK, Fresh, NEW u \in Urls, NEW s \in Slots, ServerAnswers(u, s)
  PROVE  Fresh'
<1>1. PICK answer \in {server[u], Denied} :
        requests' = [requests EXCEPT ![u][s] =
          [requests[u][s] EXCEPT !.phase = "evaluated", !.answer = answer]]
  BY DEF ServerAnswers
<1>2. UNCHANGED <<server, floor, cache>>
  BY DEF ServerAnswers, history
<1> SUFFICES ASSUME NEW v \in Urls PROVE FreshEntry(v)'
  BY DEF Fresh
<1>0. FreshEntry(v)
  BY DEF Fresh
<1>3. CASE v # u
  <2>1. SameUrl(v)
    BY <1>1, <1>2, <1>3 DEF SameUrl, TypeOK
  <2> QED BY <1>0, <2>1, SameFresh
<1>4. CASE v = u
  <2>1. requests[u] \in [Slots -> Fetches] /\ requests[u][s] \in Fetches
    BY DEF TypeOK
  <2>2. /\ requests'[u][s].answer = answer
        /\ \A q \in Slots \ {s} : requests'[u][q] = requests[u][q]
    BY <1>1, <2>1 DEF TypeOK, Fetches
  <2>3. cache[u].value \in Versions => cache[u].value \in Nat
    BY Distinct
  <2>4. server[u] \in Nat
    BY Distinct DEF TypeOK
  <2>5. FreshEntry(u)'
    BY <1>0, <1>2, <1>4, <2>2, <2>4, Distinct DEF FreshEntry
  <2> QED BY <1>4, <2>5
<1> QED BY <1>3, <1>4

LEMMA InvalidateFresh ==
  ASSUME TypeOK, Fresh, NEW S \in SUBSET Urls, NEW notify, InvalidateCachedGets(S, notify)
  PROVE  Fresh'
<1> SUFFICES ASSUME NEW v \in Urls PROVE FreshEntry(v)'
  BY DEF Fresh
<1>0. FreshEntry(v)
  BY DEF Fresh
<1>1. UNCHANGED <<server, requests>>
  BY DEF InvalidateCachedGets
<1>2. CASE v \notin S
  <2>1. SameUrl(v)
    BY <1>1, <1>2 DEF InvalidateCachedGets, SameUrl
  <2> QED BY <1>0, <2>1, SameFresh
<1>3. CASE v \in S
  <2>1. cache'[v] = Absent /\ floor'[v] = server[v]
    BY <1>3 DEF InvalidateCachedGets
  <2>2. cache'[v].value = Nothing /\ cache'[v].inFlight = Nothing
    BY <2>1 DEF Absent
  <2>3. server[v] \in Nat /\ Nothing \notin Slots /\ Nothing \notin Versions
    BY Distinct DEF TypeOK
  <2>4. FreshEntry(v)'
    BY <1>0, <1>1, <2>1, <2>2, <2>3 DEF FreshEntry
  <2> QED BY <2>4
<1> QED BY <1>2, <1>3

LEMMA FreshInit == Init => Fresh
<1> SUFFICES ASSUME Init, NEW u \in Urls PROVE FreshEntry(u)
  BY DEF Fresh
<1>1. cache[u].value = Nothing /\ floor[u] = 0 /\ server[u] = 0
  BY DEF Init, Absent
<1>2. \A s \in Slots : requests[u][s].answer = Nothing
  BY DEF Init, Unused
<1> QED BY <1>1, <1>2, Distinct DEF FreshEntry

LEMMA FreshNext ==
  ASSUME TypeOK, Fresh, [Next]_vars
  PROVE  Fresh'
<1>1. ASSUME NEW x \in Readers, Mount(x) \/ Retry(x) \/ Reload(x)
      PROVE  Fresh'
  BY <1>1, LoadFresh DEF Mount, Retry, Reload, history
<1>2. ASSUME NEW x \in Readers, Unmount(x) PROVE Fresh'
  BY <1>2, UntouchedFresh DEF Unmount, history
<1>3. ASSUME NEW u \in Urls, NEW s \in Slots, ResponseArrives(u, s)
      PROVE  Fresh'
  <2>1. requests[u][s].answer \in Versions \cup Marks
    BY DEF TypeOK, Fetches, Marks
  <2> QED BY <1>3, <2>1, SettleFresh DEF ResponseArrives
<1>4. ASSUME NEW u \in Urls, NEW s \in Slots, RequestFails(u, s) \/ BodyIsLost(u, s)
      PROVE  Fresh'
  BY <1>4, SettleFresh DEF RequestFails, BodyIsLost, Marks
<1>5. ASSUME NEW u \in Urls, NEW s \in Slots, ServerAnswers(u, s)
      PROVE  Fresh'
  BY <1>5, AnswerFresh
<1>6. CASE Trigger \/ FinishRound
  <2>1. UNCHANGED <<server, floor>> /\ (StartRound \/ UNCHANGED <<cache, requests>>)
    BY <1>6 DEF Trigger, FinishRound, history
  <2> QED BY <2>1, RoundFresh, UntouchedFresh
<1>7. ASSUME NEW p \in LifecycleReaders,
             LifecycleReadLands(p) \/ SubscribeLifecycle(p) \/ UnsubscribeLifecycle(p)
      PROVE  Fresh'
  BY <1>7, UntouchedFresh
  DEF LifecycleReadLands, SubscribeLifecycle, UnsubscribeLifecycle, history
<1>8. ASSUME NEW u \in Urls, Expire(u) PROVE Fresh'
  <2>1. UNCHANGED <<server, floor, requests>>
    BY <1>8 DEF Expire, history
  <2>2. \A v \in Urls : cache'[v].value = cache[v].value /\ cache'[v].inFlight = cache[v].inFlight
    BY <1>8 DEF Expire, TypeOK, Entries
  <2>3. \A a \in Versions : a \in Nat
    BY Distinct
  <2> QED BY <2>1, <2>2, <2>3 DEF Fresh, FreshEntry
<1>9. ASSUME NEW u \in Urls, ServerChanges(u) PROVE Fresh'
  <2>1. UNCHANGED <<cache, floor, requests>>
    BY <1>9 DEF ServerChanges, browser, history
  <2>2. \A v \in Urls : server[v] \in Nat /\ server'[v] \in Nat /\ server[v] <= server'[v]
    BY <1>9, Distinct DEF ServerChanges, TypeOK, Versions
  <2>3. \A a \in Versions : a \in Nat
    BY Distinct
  <2>4. \A v \in Urls : floor[v] \in Nat
    BY Distinct DEF TypeOK
  <2> QED BY <2>1, <2>2, <2>3, <2>4 DEF Fresh, FreshEntry
<1>10. ASSUME NEW S \in SUBSET Urls, NEW notify, InvalidateCachedGets(S, notify)
       PROVE  Fresh'
  BY <1>10, InvalidateFresh
<1>11. CASE UNCHANGED vars
  BY <1>11, UntouchedFresh DEF vars, browser, history
<1> QED
  BY <1>1, <1>2, <1>3, <1>4, <1>5, <1>6, <1>7, <1>8, <1>9, <1>10, <1>11 DEF Next

\* However requests overlap, later calls see nothing older than the last
\* invalidation of their URL.
THEOREM NothingOlder == Spec => []NothingOlderThanTheInvalidation
<1>1. TypeOK /\ Fresh => NothingOlderThanTheInvalidation
  <2>1. \A a \in Versions : a \in Nat
    BY Distinct
  <2> QED BY <2>1 DEF Fresh, FreshEntry, NothingOlderThanTheInvalidation, TypeOK
<1>2. Init => TypeOK /\ Fresh
  BY TypeInit, FreshInit
<1>3. (TypeOK /\ Fresh) /\ [Next]_vars => (TypeOK /\ Fresh)'
  BY TypeNext, FreshNext
<1> QED BY <1>1, <1>2, <1>3, PTL DEF Spec

-----------------------------------------------------------------------------
(* The refinement of Replica *)

LEMMA LoseMaps ==
  ASSUME TypeOK, TypeOK', UNCHANGED <<server, floor>>,
         \A u \in Urls : cache'[u].value \in {cache[u].value, Nothing}
  PROVE  [Replica!Next]_Replica!vars
<1>1. PICK S \in SUBSET Urls : S = {u \in Urls : cache'[u].value # cache[u].value}
  OBVIOUS
<1>2. [u \in Urls |-> cache[u].value]' = [u \in Urls |-> IF u \in S THEN Nothing ELSE cache[u].value]
  BY <1>1
<1>3. Replica!Lose(S)
  BY <1>2 DEF Replica!Lose
<1> QED BY <1>3 DEF Replica!Next

LEMMA AwaitingKeeps ==
  ASSUME NEW u, NEW s PROVE EntryAwaiting(u, s).value \in {cache[u].value, Nothing}
BY DEF EntryAwaiting, Absent

LEMMA LoadMaps ==
  ASSUME TypeOK, TypeOK', NEW x \in Readers, NEW r, NEW silent, NEW force,
         Load(x, r, silent, force), UNCHANGED <<server, floor>>
  PROVE  [Replica!Next]_Replica!vars
<1>1. cache' = cache \/ \E s \in Slots :
        cache' = [cache EXCEPT ![ReaderUrl[x]] = EntryAwaiting(ReaderUrl[x], s)]
  BY DEF Load, StartJsonGet
<1>2. \A u \in Urls : cache'[u].value \in {cache[u].value, Nothing}
  BY <1>1, AwaitingKeeps DEF TypeOK
<1> QED BY <1>2, LoseMaps

LEMMA RoundMaps ==
  ASSUME TypeOK, TypeOK', StartRound, UNCHANGED <<server, floor>>
  PROVE  [Replica!Next]_Replica!vars
<1>1. PICK pick \in [MountedUrls -> Slots] :
        cache' = [u \in Urls |->
          IF u \in MountedUrls /\ cache[u].inFlight = Nothing
            THEN EntryAwaiting(u, pick[u]) ELSE cache[u]]
  BY DEF StartRound
<1>2. \A u \in Urls : cache'[u].value \in {cache[u].value, Nothing}
  BY <1>1, AwaitingKeeps
<1> QED BY <1>2, LoseMaps

\* An answer that is kept is a state the server has had since the last that was
\* kept; any other settlement leaves the value or loses it.
LEMMA SettleMaps ==
  ASSUME TypeOK, Fresh, NEW u \in Urls, NEW s \in Slots, NEW outcome,
         outcome \in Marks \/ (outcome \in Versions /\ outcome = requests[u][s].answer),
         Settle(u, s, outcome), TypeOK'
  PROVE  [Replica!Next]_Replica!vars
<1> DEFINE copy == [v \in Urls |-> cache[v].value]
<1>1. cache \in [Urls -> Entries] /\ server' = server /\ FreshEntry(u)
  BY DEF Settle, TypeOK, Fresh
<1>2. CASE IsCurrent(u, s) /\ outcome \in Versions
  <2>1. /\ floor[u] \in Nat /\ server[u] \in Nat /\ outcome \in Nat
        /\ floor[u] <= outcome /\ outcome <= server[u]
    BY <1>1, <1>2, Distinct DEF FreshEntry, IsCurrent, TypeOK, Marks
  <2>2. outcome \in floor[u] .. server[u]
    BY <2>1
  <2>3. floor' = [floor EXCEPT ![u] = outcome]
    <3>1. CASE outcome > floor[u]
      BY <1>2, <3>1 DEF Settle
    <3>2. CASE ~ outcome > floor[u]
      <4>1. outcome = floor[u] /\ floor' = floor
        BY <2>1, <3>2 DEF Settle
      <4> QED BY <4>1 DEF TypeOK
    <3> QED BY <3>1, <3>2
  <2>4. SettledEntry(cache[u], outcome).value = outcome
    BY <1>2, Distinct DEF SettledEntry
  <2>5. cache' = [cache EXCEPT ![u] = SettledEntry(cache[u], outcome)]
    BY <1>2 DEF Settle
  <2>6. copy' = [copy EXCEPT ![u] = outcome]
    BY <1>1, <2>4, <2>5
  <2>7. Replica!Take(u)
    BY <1>1, <2>2, <2>3, <2>6 DEF Replica!Take
  <2> QED BY <2>7 DEF Replica!Next
<1>3. CASE ~ (IsCurrent(u, s) /\ outcome \in Versions)
  <2>1. floor' = floor
    BY <1>3 DEF Settle
  <2>2. CASE ~ IsCurrent(u, s)
    <3>1. cache' = cache
      BY <2>2 DEF Settle
    <3> QED BY <1>1, <2>1, <3>1 DEF Replica!vars
  <2>3. CASE IsCurrent(u, s) /\ outcome \in Marks
    <3>1. cache' = [cache EXCEPT ![u] = SettledEntry(cache[u], outcome)]
      BY <2>3 DEF Settle
    <3>2. SettledEntry(cache[u], outcome).value \in {cache[u].value, Nothing, NoBody}
      <4>1. CASE outcome = NoBody
        BY <4>1, Distinct DEF SettledEntry
      <4>2. CASE outcome # NoBody
        BY <1>1, <2>3, <4>2, Distinct DEF SettledEntry, Absent, Marks, Entries
      <4> QED BY <4>1, <4>2
    <3>3. CASE SettledEntry(cache[u], outcome).value = cache[u].value
      <4>1. copy' = copy
        BY <1>1, <3>1, <3>3
      <4> QED BY <1>1, <2>1, <4>1 DEF Replica!vars
    <3>4. CASE SettledEntry(cache[u], outcome).value \in {Nothing, NoBody}
      <4>1. PICK blank \in {Nothing, NoBody} : SettledEntry(cache[u], outcome).value = blank
        BY <3>4
      <4>2. copy' = [v \in Urls |-> IF v \in {u} THEN blank ELSE copy[v]]
        BY <1>1, <3>1, <4>1
      <4>3. Replica!Lose({u})
        BY <1>1, <2>1, <4>2 DEF Replica!Lose
      <4> QED BY <4>3 DEF Replica!Next
    <3> QED BY <3>2, <3>3, <3>4
  <2> QED BY <1>3, <2>2, <2>3
<1> QED BY <1>2, <1>3

LEMMA InvalidateMaps ==
  ASSUME NEW S \in SUBSET Urls, NEW notify, InvalidateCachedGets(S, notify)
  PROVE  Replica!Next
<1>1. Replica!Discard(S)
  BY DEF InvalidateCachedGets, Absent, Replica!Discard
<1> QED BY <1>1 DEF Replica!Next

LEMMA ReplicaNext ==
  ASSUME TypeOK, TypeOK', Fresh, [Next]_vars
  PROVE  [Replica!Next]_Replica!vars
<1>1. ASSUME NEW x \in Readers, Mount(x) \/ Retry(x) \/ Reload(x)
      PROVE  [Replica!Next]_Replica!vars
  BY <1>1, LoadMaps DEF Mount, Retry, Reload, history
<1>2. CASE UNCHANGED <<server, cache, floor>>
  BY <1>2 DEF Replica!vars
<1>3. ASSUME NEW u \in Urls, NEW s \in Slots, ResponseArrives(u, s)
      PROVE  [Replica!Next]_Replica!vars
  <2>1. requests[u][s].answer \in Versions \cup Marks
    BY DEF TypeOK, Fetches, Marks
  <2> QED BY <1>3, <2>1, SettleMaps DEF ResponseArrives
<1>4. ASSUME NEW u \in Urls, NEW s \in Slots, RequestFails(u, s) \/ BodyIsLost(u, s)
      PROVE  [Replica!Next]_Replica!vars
  BY <1>4, SettleMaps DEF RequestFails, BodyIsLost, Marks
<1>5. CASE Trigger \/ FinishRound
  <2>1. UNCHANGED <<server, floor>> /\ (StartRound \/ UNCHANGED cache)
    BY <1>5 DEF Trigger, FinishRound, history
  <2> QED BY <1>2, <2>1, RoundMaps
<1>6. ASSUME NEW u \in Urls, Expire(u) PROVE [Replica!Next]_Replica!vars
  <2>1. UNCHANGED <<server, floor>>
    BY <1>6 DEF Expire, history
  <2>2. \A v \in Urls : cache'[v].value = cache[v].value
    BY <1>6 DEF Expire, TypeOK, Entries
  <2> QED BY <2>1, <2>2, LoseMaps
<1>7. ASSUME NEW u \in Urls, ServerChanges(u) PROVE [Replica!Next]_Replica!vars
  <2>1. Replica!Change(u)
    BY <1>7 DEF ServerChanges, browser, history, Replica!Change
  <2> QED BY <2>1 DEF Replica!Next
<1>8. ASSUME NEW x \in Readers, Unmount(x) PROVE UNCHANGED <<server, cache, floor>>
  BY <1>8 DEF Unmount, history
<1>9. ASSUME NEW u \in Urls, NEW s \in Slots, ServerAnswers(u, s)
      PROVE  UNCHANGED <<server, cache, floor>>
  BY <1>9 DEF ServerAnswers, history
<1>10. ASSUME NEW p \in LifecycleReaders,
              LifecycleReadLands(p) \/ SubscribeLifecycle(p) \/ UnsubscribeLifecycle(p)
       PROVE  UNCHANGED <<server, cache, floor>>
  BY <1>10 DEF LifecycleReadLands, SubscribeLifecycle, UnsubscribeLifecycle, history
<1>11. ASSUME NEW S \in SUBSET Urls, NEW notify, InvalidateCachedGets(S, notify)
       PROVE  [Replica!Next]_Replica!vars
  BY <1>11, InvalidateMaps
<1>12. UNCHANGED vars => UNCHANGED <<server, cache, floor>>
  BY DEF vars, browser, history
<1> QED
  BY <1>1, <1>2, <1>3, <1>4, <1>5, <1>6, <1>7, <1>8, <1>9, <1>10, <1>11, <1>12 DEF Next

\* To its readers the cache is one copy of the server's state that moves forward,
\* however requests overlap, fail, are denied or are discarded.
THEOREM CacheIsAReplica == Spec => ImplementsReplica
<1>1. Init => Replica!Init
  BY DEF Init, Absent, Replica!Init
<1>2. Init => TypeOK /\ Fresh
  BY TypeInit, FreshInit
<1>3. (TypeOK /\ Fresh) /\ [Next]_vars => (TypeOK /\ Fresh)'
  BY TypeNext, FreshNext
<1>4. (TypeOK /\ Fresh) /\ (TypeOK /\ Fresh)' /\ [Next]_vars => [Replica!Next]_Replica!vars
  BY ReplicaNext
<1> QED BY <1>1, <1>2, <1>3, <1>4, PTL DEF Spec, ImplementsReplica, Replica!Spec

-----------------------------------------------------------------------------
(* Triggers *)

Awaited(u) == \E s \in Slots : <<u, s>> \in census.waits

\* A running round either will be followed by another, or still awaits every
\* mounted URL it has not answered since the last trigger; until a response has
\* been received it awaits them all, so that a joined trigger loses nothing.
Answering == census.running =>
  /\ census.queued \/ \A u \in MountedUrls : u \in answered \/ Awaited(u)
  /\ census.received \/ census.queued \/ \A u \in MountedUrls : Awaited(u)

LEMMA MountedIn == MountedUrls \subseteq Urls
BY ReaderUrlAssumption DEF MountedUrls, MountedReaders

LEMMA SameMounted ==
  ASSUME \A x \in Readers : readers'[x].mounted = readers[x].mounted
  PROVE  MountedUrls' = MountedUrls
BY DEF MountedUrls, MountedReaders

LEMMA SameAnswering ==
  ASSUME Answering, UNCHANGED census, answered \subseteq answered',
         MountedUrls' = MountedUrls
  PROVE  Answering'
BY DEF Answering, Awaited

LEMMA ChangedAnswering ==
  ASSUME TypeOK, CensusChanged PROVE Answering'
BY DEF TypeOK, Rounds, CensusChanged, Answering

LEMMA RoundAnswering ==
  ASSUME TypeOK, StartRound, UNCHANGED readers PROVE Answering'
<1>1. PICK pick \in [MountedUrls -> Slots] :
        census' = [running |-> TRUE, queued |-> FALSE, received |-> FALSE,
                   waits |-> {<<u, pick[u]>> : u \in MountedUrls},
                   existed |-> {u \in MountedUrls : cache[u] # Absent}]
  BY DEF StartRound
<1>2. MountedUrls' = MountedUrls
  BY DEF MountedUrls, MountedReaders
<1>3. \A u \in MountedUrls : Awaited(u)'
  BY <1>1 DEF Awaited
<1> QED BY <1>2, <1>3 DEF Answering

LEMMA SettleAnswering ==
  ASSUME TypeOK, Answering, NEW u \in Urls, NEW s \in Slots, NEW outcome,
         Settle(u, s, outcome)
  PROVE  Answering'
<1>1. MountedUrls' = MountedUrls
  <2>1. \A x \in Readers : readers'[x].mounted = readers[x].mounted
    BY DEF Settle, Received, TypeOK, Panels
  <2> QED BY <2>1, SameMounted
<1>2. /\ census'.running = census.running /\ census'.queued = census.queued
      /\ census'.waits = census.waits \ {<<u, s>>}
      /\ census'.received = (census.received \/ <<u, s>> \in census.waits)
  BY DEF Settle, TypeOK, Rounds
<1>3. \A v \in MountedUrls : Awaited(v) => Awaited(v)' \/ (v = u /\ <<u, s>> \in census.waits)
  BY <1>2 DEF Awaited
<1>4. answered' = answered \cup (IF <<u, s>> \in census.waits THEN {u} ELSE {})
  BY DEF Settle
<1> QED BY <1>1, <1>2, <1>3, <1>4 DEF Answering

LEMMA AnsweringNext ==
  ASSUME TypeOK, Answering, [Next]_vars PROVE Answering'
<1>1. ASSUME NEW x \in Readers, Mount(x) \/ Unmount(x) PROVE Answering'
  BY <1>1, ChangedAnswering DEF Mount, Unmount
<1>2. ASSUME NEW x \in Readers, Retry(x) \/ Reload(x) PROVE Answering'
  <2>1. PICK silent \in BOOLEAN, force \in BOOLEAN : Load(x, readers[x], silent, force)
    BY <1>2 DEF Retry, Reload
  <2>2. \A y \in Readers : readers'[y].mounted = readers[y].mounted
    BY <2>1, LoadTypes DEF TypeOK
  <2> QED BY <1>2, <2>2, SameMounted, SameAnswering DEF Retry, Reload, history
<1>3. ASSUME NEW u \in Urls, NEW s \in Slots,
             ResponseArrives(u, s) \/ RequestFails(u, s) \/ BodyIsLost(u, s)
      PROVE  Answering'
  BY <1>3, SettleAnswering DEF ResponseArrives, RequestFails, BodyIsLost
<1>4. CASE UNCHANGED <<census, readers>> /\ answered \subseteq answered'
  BY <1>4, SameMounted, SameAnswering
<1>5. ASSUME NEW u \in Urls, NEW s \in Slots, ServerAnswers(u, s) PROVE Answering'
  BY <1>4, <1>5 DEF ServerAnswers, history
<1>6. CASE Trigger
  <2>1. CASE StartRound
    BY <1>6, <2>1, RoundAnswering DEF Trigger
  <2>2. CASE census' = [census EXCEPT !.queued = TRUE]
    BY <2>2 DEF Answering, TypeOK, Rounds
  <2>3. CASE census.running /\ ~census.received /\ UNCHANGED census
    <3>1. MountedUrls' = MountedUrls
      BY <1>6 DEF Trigger, MountedUrls, MountedReaders
    <3> QED BY <2>3, <3>1 DEF Answering, Awaited
  <2> QED BY <1>6, <2>1, <2>2, <2>3 DEF Trigger
<1>7. CASE FinishRound
  <2>1. CASE StartRound
    BY <1>7, <2>1, RoundAnswering DEF FinishRound
  <2>2. CASE census' = [census EXCEPT !.running = FALSE]
    BY <2>2 DEF Answering, TypeOK, Rounds
  <2> QED BY <1>7, <2>1, <2>2 DEF FinishRound
<1>8. ASSUME NEW p \in LifecycleReaders, LifecycleReadLands(p) PROVE Answering'
  BY <1>4, <1>8 DEF LifecycleReadLands, history
<1>9. ASSUME NEW p \in LifecycleReaders, SubscribeLifecycle(p) \/ UnsubscribeLifecycle(p)
      PROVE  Answering'
  BY <1>9, ChangedAnswering DEF SubscribeLifecycle, UnsubscribeLifecycle
<1>10. ASSUME NEW u \in Urls, Expire(u) \/ ServerChanges(u) PROVE Answering'
  BY <1>4, <1>10 DEF Expire, ServerChanges, browser, history
<1>11. ASSUME NEW S \in SUBSET Urls, NEW notify, InvalidateCachedGets(S, notify)
       PROVE  Answering'
  BY <1>4, <1>11 DEF InvalidateCachedGets
<1>12. CASE UNCHANGED vars
  BY <1>4, <1>12 DEF vars, browser, history
<1> QED
  BY <1>1, <1>2, <1>3, <1>5, <1>6, <1>7, <1>8, <1>9, <1>10, <1>11, <1>12 DEF Next

\* No revalidation round ends before every mounted URL has been read again since
\* the last focus, visibility or navigation trigger.
THEOREM EveryRoundAnswers == Spec => TriggersAreAnswered
<1>1. Init => TypeOK /\ Answering
  <2>1. Init => Answering
    BY DEF Init, Answering
  <2> QED BY <2>1, TypeInit
<1>2. (TypeOK /\ Answering) /\ [Next]_vars => (TypeOK /\ Answering)'
  BY TypeNext, AnsweringNext
<1>3. (TypeOK /\ Answering) /\ [Next]_vars => [RoundEnds => MountedUrls \subseteq answered]_vars
  <2> SUFFICES ASSUME TypeOK, Answering, Next, RoundEnds PROVE MountedUrls \subseteq answered
    BY DEF RoundEnds, vars, browser
  <2>1. FinishRound
    <3>1. ASSUME CensusChanged PROVE FALSE
      BY <3>1 DEF CensusChanged, RoundEnds, TypeOK, Rounds
    <3>2. ASSUME NEW u \in Urls, NEW s \in Slots, NEW outcome, Settle(u, s, outcome) PROVE FALSE
      BY <3>2 DEF Settle, RoundEnds, TypeOK, Rounds
    <3>3. ASSUME UNCHANGED census PROVE FALSE
      BY <3>3 DEF RoundEnds
    <3>4. ASSUME Trigger PROVE FALSE
      BY <3>4 DEF Trigger, StartRound, RoundEnds, TypeOK, Rounds
    <3>5. ASSUME NEW x \in Readers, Mount(x) \/ Unmount(x) \/ Retry(x) \/ Reload(x) PROVE FALSE
      BY <3>1, <3>3, <3>5 DEF Mount, Unmount, Retry, Reload
    <3>6. ASSUME NEW u \in Urls, NEW s \in Slots,
                 ServerAnswers(u, s) \/ ResponseArrives(u, s) \/ RequestFails(u, s) \/ BodyIsLost(u, s)
          PROVE  FALSE
      BY <3>2, <3>3, <3>6 DEF ServerAnswers, ResponseArrives, RequestFails, BodyIsLost
    <3>7. ASSUME NEW p \in LifecycleReaders,
                 LifecycleReadLands(p) \/ SubscribeLifecycle(p) \/ UnsubscribeLifecycle(p)
          PROVE  FALSE
      BY <3>1, <3>3, <3>7 DEF LifecycleReadLands, SubscribeLifecycle, UnsubscribeLifecycle
    <3>8. ASSUME NEW u \in Urls, Expire(u) \/ ServerChanges(u) PROVE FALSE
      BY <3>3, <3>8 DEF Expire, ServerChanges, browser
    <3>9. ASSUME NEW S \in SUBSET Urls, NEW notify, InvalidateCachedGets(S, notify) PROVE FALSE
      BY <3>3, <3>9 DEF InvalidateCachedGets
    <3> QED BY <3>4, <3>5, <3>6, <3>7, <3>8, <3>9 DEF Next
  <2>2. ~census.queued /\ census.waits = {}
    BY <2>1 DEF FinishRound, StartRound, RoundComplete, RoundEnds, TypeOK, Rounds
  <2> QED BY <2>2 DEF Answering, Awaited, RoundEnds
<1> QED BY <1>1, <1>2, <1>3, PTL DEF Spec, TriggersAreAnswered

-----------------------------------------------------------------------------
(* Waits *)

\* An unmounted panel waits for nothing.
Waiting ==
  /\ NobodyWaitsInVain
  /\ \A x \in Readers : ~readers[x].mounted => readers[x].awaits = Nothing

EntryWaits == \A u \in Urls : cache[u].inFlight # Nothing => ~IsUnused(u, cache[u].inFlight)
ReaderWaits(x, r) ==
  /\ r.awaits # Nothing => ~IsUnused(ReaderUrl[x], r.awaits)
  /\ ~r.mounted => r.awaits = Nothing
RoundWaits == \A w \in census.waits : ~IsUnused(w[1], w[2])

LEMMA WaitingParts ==
  Waiting <=> EntryWaits /\ (\A x \in Readers : ReaderWaits(x, readers[x])) /\ RoundWaits
BY DEF Waiting, NobodyWaitsInVain, EntryWaits, ReaderWaits, RoundWaits

\* No open request is closed.
StaysOpen == \A u \in Urls, s \in Slots : ~IsUnused(u, s) => requests'[u][s].phase # "unused"

LEMMA SameRequests ==
  ASSUME UNCHANGED requests PROVE StaysOpen
BY DEF StaysOpen, IsUnused

LEMMA StartOpens ==
  ASSUME TypeOK, EntryWaits, NEW u \in Urls, NEW s \in Slots, StartJsonGet(u, s)
  PROVE  StaysOpen /\ EntryWaits' /\ requests'[u][s].phase # "unused"
<1>1. cache[u] \in Entries /\ requests[u] \in [Slots -> Fetches]
  BY DEF TypeOK
<1>2. StaysOpen /\ requests'[u][s].phase # "unused"
  BY <1>1 DEF StartJsonGet, StaysOpen, IsUnused, Opened, TypeOK
<1>3. cache'[u].inFlight = s /\ \A v \in Urls \ {u} : cache'[v] = cache[v]
  BY <1>1 DEF StartJsonGet, EntryAwaiting, Absent, Entries, TypeOK
<1>4. \A v \in Urls : cache[v].inFlight # Nothing => cache[v].inFlight \in Slots
  BY DEF TypeOK, Entries
<1> QED BY <1>2, <1>3, <1>4 DEF EntryWaits, StaysOpen, IsUnused

\* Whoever waited and is left alone still waits on an open request.
LEMMA StillWaiting ==
  ASSUME TypeOK, Waiting, StaysOpen
  PROVE  /\ \A x \in Readers : readers'[x] = readers[x] => ReaderWaits(x, readers[x])'
         /\ census'.waits \subseteq census.waits => RoundWaits'
<1>1. \A x \in Readers : readers[x].awaits # Nothing =>
        readers[x].awaits \in Slots /\ ReaderUrl[x] \in Urls
  BY ReaderUrlAssumption DEF TypeOK, Panels
<1>2. \A w \in census.waits : w[1] \in Urls /\ w[2] \in Slots
  BY DEF TypeOK, Rounds
<1>3. (\A x \in Readers : ReaderWaits(x, readers[x])) /\ RoundWaits
  BY WaitingParts
<1>4. ASSUME NEW x \in Readers, readers'[x] = readers[x] PROVE ReaderWaits(x, readers[x])'
  BY <1>1, <1>3, <1>4 DEF ReaderWaits, StaysOpen, IsUnused
<1>5. ASSUME census'.waits \subseteq census.waits PROVE RoundWaits'
  BY <1>2, <1>3, <1>5 DEF RoundWaits, StaysOpen, IsUnused
<1> QED BY <1>4, <1>5

LEMMA LoadWaits ==
  ASSUME TypeOK, Waiting, NEW x \in Readers, NEW r \in Panels, r.mounted,
         ReaderWaits(x, r), NEW silent \in BOOLEAN, NEW force \in BOOLEAN,
         Load(x, r, silent, force), census'.waits = census.waits
  PROVE  Waiting'
<1> DEFINE u == ReaderUrl[x]
<1>u. u \in Urls /\ cache[u] \in Entries
  BY ReaderUrlAssumption DEF TypeOK
<1>e. EntryWaits
  BY WaitingParts
<1>m. /\ \A y \in Readers \ {x} : readers'[y] = readers[y]
      /\ readers'[x].mounted /\ readers'[x] \in Panels
  BY LoadTypes
<1>1. StaysOpen /\ EntryWaits'
  <2>1. UNCHANGED <<cache, requests>> \/ \E s \in Slots : StartJsonGet(u, s)
    BY DEF Load
  <2>2. CASE UNCHANGED <<cache, requests>>
    BY <1>e, <2>2, SameRequests DEF EntryWaits, IsUnused
  <2> QED BY <1>e, <1>u, <2>1, <2>2, StartOpens
<1>2. readers'[x].awaits # Nothing => requests'[u][readers'[x].awaits].phase # "unused"
  <2>1. CASE \E s \in Slots : StartJsonGet(u, s) /\ readers' = Awaits(x, r, s, silent)
    <3>1. PICK s \in Slots : StartJsonGet(u, s) /\ readers' = Awaits(x, r, s, silent)
      BY <2>1
    <3>2. readers'[x].awaits = s
      BY <3>1 DEF Awaits, TypeOK, Panels
    <3>3. requests'[u][s].phase # "unused"
      BY <1>e, <1>u, <3>1, StartOpens
    <3> QED BY <3>2, <3>3 DEF IsUnused
  <2>2. CASE readers' = Shows(x, r, cache[u].value, silent)
    <3>1. readers'[x].awaits = Nothing
      BY <2>2 DEF Shows, TypeOK, Panels
    <3> QED BY <3>1
  <2>3. CASE readers' = [readers EXCEPT ![x] = [r EXCEPT !.awaits = Nothing, !.shown = Nothing]]
    <3>1. readers'[x].awaits = Nothing
      BY <2>3 DEF TypeOK, Panels
    <3> QED BY <3>1
  <2>4. CASE readers' = [readers EXCEPT ![x] = r]
    <3>1. readers'[x] = r
      BY <2>4 DEF TypeOK
    <3>2. r.awaits \in Slots \cup {Nothing}
      BY DEF Panels
    <3> QED BY <1>1, <1>u, <3>1, <3>2 DEF ReaderWaits, StaysOpen, IsUnused
  <2>5. CASE Joins(u, force) /\ readers' = Awaits(x, r, cache[u].inFlight, silent)
             /\ UNCHANGED requests
    <3>1. readers'[x].awaits = cache[u].inFlight
      BY <2>5 DEF Awaits, TypeOK, Panels
    <3>2. ~IsUnused(u, cache[u].inFlight)
      BY <1>e, <1>u, <2>5 DEF Joins, EntryWaits
    <3> QED BY <2>5, <3>1, <3>2 DEF IsUnused
  <2> QED BY <2>1, <2>2, <2>3, <2>4, <2>5 DEF Load
<1>3. ReaderWaits(x, readers[x])'
  BY <1>2, <1>m DEF ReaderWaits, IsUnused
<1>4. \A y \in Readers : ReaderWaits(y, readers[y])'
  BY <1>1, <1>3, <1>m, StillWaiting
<1>5. RoundWaits'
  BY <1>1, StillWaiting
<1>6. (EntryWaits /\ (\A y \in Readers : ReaderWaits(y, readers[y])) /\ RoundWaits)'
  BY <1>1, <1>4, <1>5
<1> QED BY <1>6 DEF Waiting, NobodyWaitsInVain, EntryWaits, ReaderWaits, RoundWaits, IsUnused

LEMMA SettleWaits ==
  ASSUME TypeOK, Waiting, NEW u \in Urls, NEW s \in Slots,
         NEW outcome \in Versions \cup Marks, Settle(u, s, outcome)
  PROVE  Waiting'
<1>1. cache[u] \in Entries /\ requests[u] \in [Slots -> Fetches]
  BY DEF TypeOK
<1>2. \A v \in Urls, q \in Slots : <<v, q>> # <<u, s>> => requests'[v][q] = requests[v][q]
  BY <1>1 DEF Settle, IsUnused, TypeOK
<1>3. EntryWaits /\ (\A x \in Readers : ReaderWaits(x, readers[x])) /\ RoundWaits
  BY WaitingParts
<1>4. ASSUME NEW v \in Urls, cache'[v].inFlight # Nothing
      PROVE  requests'[v][cache'[v].inFlight].phase # "unused"
  <2>1. CASE v = u /\ IsCurrent(u, s)
    <3>1. cache'[u] = SettledEntry(cache[u], outcome)
      BY <2>1 DEF Settle, TypeOK
    <3>2. cache'[u].inFlight = Nothing
      BY <1>1, <3>1, Distinct DEF SettledEntry, Absent, Entries
    <3> QED BY <1>4, <2>1, <3>2
  <2>2. CASE ~(v = u /\ IsCurrent(u, s))
    <3>1. cache'[v] = cache[v] /\ cache[v].inFlight \in Slots
      BY <1>4, <2>2 DEF Settle, TypeOK, Entries
    <3>2. <<v, cache[v].inFlight>> # <<u, s>>
      BY <2>2 DEF IsCurrent
    <3>3. ~IsUnused(v, cache[v].inFlight)
      BY <1>3, <1>4, <3>1 DEF EntryWaits
    <3>4. requests'[v][cache[v].inFlight].phase # "unused"
      BY <1>2, <3>1, <3>2, <3>3 DEF IsUnused
    <3> QED BY <3>1, <3>4 DEF IsUnused
  <2> QED BY <2>1, <2>2
<1>5. ASSUME NEW x \in Readers PROVE ReaderWaits(x, readers[x])'
  <2>1. readers[x] \in Panels /\ ReaderUrl[x] \in Urls
    BY ReaderUrlAssumption DEF TypeOK
  <2>2. ReaderWaits(x, readers[x])
    BY <1>3
  <2>3. readers'[x].awaits = readers[x].awaits \/ readers'[x].awaits = Nothing
    BY <2>1 DEF Settle, Received, Panels
  <2>4. readers'[x].mounted = readers[x].mounted
    BY <2>1 DEF Settle, Received, Panels
  <2>5. readers'[x].awaits # Nothing => <<ReaderUrl[x], readers'[x].awaits>> # <<u, s>>
    <3>1. CASE x \in ReadersOf(u)
      BY <2>1, <3>1 DEF Settle, Received, Panels
    <3>2. CASE x \notin ReadersOf(u)
      <4>1. readers'[x] = readers[x]
        BY <3>2 DEF Settle
      <4>2. ReaderUrl[x] # u \/ ~readers[x].mounted
        BY <3>2 DEF ReadersOf, MountedReaders
      <4> QED BY <2>2, <4>1, <4>2 DEF ReaderWaits
    <3> QED BY <3>1, <3>2
  <2>6. readers[x].awaits \in Slots \cup {Nothing}
    BY <2>1 DEF Panels
  <2>7. readers'[x].awaits # Nothing => requests'[ReaderUrl[x]][readers'[x].awaits].phase # "unused"
    BY <1>2, <2>1, <2>2, <2>3, <2>5, <2>6 DEF ReaderWaits, IsUnused
  <2> QED BY <2>2, <2>3, <2>4, <2>7 DEF ReaderWaits, IsUnused
<1>6. RoundWaits'
  <2>1. census'.waits = census.waits \ {<<u, s>>}
    BY DEF Settle, TypeOK, Rounds
  <2>2. \A w \in census.waits : w = <<w[1], w[2]>> /\ w[1] \in Urls /\ w[2] \in Slots
    BY DEF TypeOK, Rounds
  <2> QED BY <1>2, <1>3, <2>1, <2>2 DEF RoundWaits, IsUnused
<1> QED BY <1>4, <1>5, <1>6
        DEF Waiting, NobodyWaitsInVain, ReaderWaits, RoundWaits, IsUnused

LEMMA RoundStartWaits ==
  ASSUME TypeOK, Waiting, StartRound, UNCHANGED readers PROVE Waiting'
<1>1. PICK pick \in [MountedUrls -> Slots] :
        /\ \A u \in MountedUrls :
             IF cache[u].inFlight # Nothing THEN pick[u] = cache[u].inFlight
             ELSE IsUnused(u, pick[u])
        /\ requests' = [u \in Urls |->
             IF u \in MountedUrls /\ cache[u].inFlight = Nothing
               THEN [requests[u] EXCEPT ![pick[u]] = Opened(u)] ELSE requests[u]]
        /\ cache' = [u \in Urls |->
             IF u \in MountedUrls /\ cache[u].inFlight = Nothing
               THEN EntryAwaiting(u, pick[u]) ELSE cache[u]]
        /\ census' = [running |-> TRUE, queued |-> FALSE, received |-> FALSE,
                      waits |-> {<<u, pick[u]>> : u \in MountedUrls},
                      existed |-> {u \in MountedUrls : cache[u] # Absent}]
  BY DEF StartRound
<1>2. EntryWaits /\ (\A x \in Readers : ReaderWaits(x, readers[x]))
  BY WaitingParts
<1>3. \A u \in Urls : cache[u] \in Entries /\ requests[u] \in [Slots -> Fetches]
  BY DEF TypeOK
<1>4. StaysOpen
  <2> SUFFICES ASSUME NEW u \in Urls, NEW s \in Slots, ~IsUnused(u, s) PROVE requests'[u][s].phase # "unused"
    BY DEF StaysOpen
  <2>1. CASE u \in MountedUrls /\ cache[u].inFlight = Nothing
    <3>1. requests'[u] = [requests[u] EXCEPT ![pick[u]] = Opened(u)] /\ s # pick[u]
      BY <1>1, <2>1
    <3> QED BY <1>3, <3>1 DEF IsUnused
  <2>2. CASE ~(u \in MountedUrls /\ cache[u].inFlight = Nothing)
    <3>1. requests'[u] = requests[u]
      BY <1>1, <2>2
    <3> QED BY <3>1 DEF IsUnused
  <2> QED BY <2>1, <2>2
<1>5. ASSUME NEW u \in MountedUrls
      PROVE  requests'[u][pick[u]].phase # "unused" /\ cache'[u].inFlight = pick[u]
  <2>1. u \in Urls /\ pick[u] \in Slots
    BY MountedIn
  <2>2. CASE cache[u].inFlight = Nothing
    <3>1. /\ requests'[u] = [requests[u] EXCEPT ![pick[u]] = Opened(u)]
          /\ cache'[u] = EntryAwaiting(u, pick[u])
      BY <1>1, <2>1, <2>2
    <3>2. requests'[u][pick[u]].phase = "open"
      BY <1>3, <2>1, <3>1 DEF Opened
    <3>3. cache'[u].inFlight = pick[u]
      BY <1>3, <2>1, <3>1 DEF EntryAwaiting, Absent, Entries
    <3> QED BY <3>2, <3>3 DEF IsUnused
  <2>3. CASE cache[u].inFlight # Nothing
    <3>1. cache'[u] = cache[u] /\ pick[u] = cache[u].inFlight
      BY <1>1, <2>1, <2>3
    <3>2. ~IsUnused(u, pick[u])
      BY <1>2, <2>1, <2>3, <3>1 DEF EntryWaits
    <3> QED BY <1>4, <2>1, <3>1, <3>2 DEF StaysOpen
  <2> QED BY <2>2, <2>3
<1>6. EntryWaits'
  <2> SUFFICES ASSUME NEW u \in Urls, cache'[u].inFlight # Nothing
               PROVE  requests'[u][cache'[u].inFlight].phase # "unused"
    BY DEF EntryWaits, IsUnused
  <2>1. CASE u \in MountedUrls
    BY <1>5, <2>1 DEF IsUnused
  <2>2. CASE u \notin MountedUrls
    <3>1. cache'[u] = cache[u]
      BY <1>1, <2>2
    <3>2. ~IsUnused(u, cache[u].inFlight) /\ cache[u].inFlight \in Slots
      BY <1>2, <1>3, <3>1 DEF EntryWaits, Entries
    <3> QED BY <1>4, <3>1, <3>2 DEF StaysOpen, IsUnused
  <2> QED BY <2>1, <2>2
<1>7. \A x \in Readers : ReaderWaits(x, readers[x])'
  BY <1>4, StillWaiting
<1>8. RoundWaits'
  <2>1. census'.waits = {<<u, pick[u]>> : u \in MountedUrls}
    BY <1>1
  <2>2. \A w \in census'.waits : requests'[w[1]][w[2]].phase # "unused"
    BY <1>5, <2>1
  <2> QED BY <2>2 DEF RoundWaits, IsUnused
<1> QED BY <1>6, <1>7, <1>8
        DEF Waiting, NobodyWaitsInVain, EntryWaits, ReaderWaits, RoundWaits, IsUnused

\* Entries that keep or lose their request, readers and rounds left alone.
LEMMA QuietWaits ==
  ASSUME TypeOK, Waiting, StaysOpen, UNCHANGED readers, census'.waits \subseteq census.waits,
         \A u \in Urls : cache'[u].inFlight \in {cache[u].inFlight, Nothing}
  PROVE  Waiting'
<1>1. EntryWaits
  BY WaitingParts
<1>2. \A u \in Urls : cache[u].inFlight # Nothing => cache[u].inFlight \in Slots
  BY DEF TypeOK, Entries
<1>3. EntryWaits'
  BY <1>1, <1>2 DEF EntryWaits, StaysOpen, IsUnused
<1>4. (\A x \in Readers : ReaderWaits(x, readers[x])') /\ RoundWaits'
  BY StillWaiting
<1> QED BY <1>3, <1>4
        DEF Waiting, NobodyWaitsInVain, EntryWaits, ReaderWaits, RoundWaits, IsUnused

\* Only a mounted reader is owed a reload.
OwedToMounted == \A x \in notified : readers[x].mounted

LEMMA OwedNext ==
  ASSUME TypeOK, OwedToMounted, [Next]_vars PROVE OwedToMounted'
<1>q. CASE UNCHANGED <<readers, notified>>
  BY <1>q DEF OwedToMounted
<1>1. ASSUME NEW x \in Readers, Mount(x) \/ Unmount(x) PROVE OwedToMounted'
  BY <1>1 DEF Mount, Unmount, StackEmpty, OwedToMounted
<1>2. ASSUME NEW x \in Readers, Retry(x) \/ Reload(x) PROVE OwedToMounted'
  <2>1. PICK silent \in BOOLEAN, force \in BOOLEAN : Load(x, readers[x], silent, force)
    BY <1>2 DEF Retry, Reload
  <2>2. \A y \in Readers : readers'[y].mounted = readers[y].mounted
    BY <2>1, LoadTypes DEF TypeOK
  <2>3. notified' \subseteq notified
    BY <1>2 DEF Retry, Reload
  <2> QED BY <2>2, <2>3 DEF OwedToMounted, TypeOK
<1>3. ASSUME NEW u \in Urls, NEW s \in Slots, NEW outcome, Settle(u, s, outcome)
      PROVE  OwedToMounted'
  BY <1>3 DEF Settle, ReadersOf, MountedReaders, Received, OwedToMounted, TypeOK, Panels
<1>4. ASSUME NEW S \in SUBSET Urls, NEW notify, InvalidateCachedGets(S, notify)
      PROVE  OwedToMounted'
  BY <1>4 DEF InvalidateCachedGets, ReadersOf, MountedReaders, OwedToMounted
<1> QED
  BY <1>q, <1>1, <1>2, <1>3, <1>4
  DEF Next, vars, browser, ServerAnswers, ResponseArrives, RequestFails, BodyIsLost, Trigger,
      FinishRound, LifecycleReadLands, SubscribeLifecycle, UnsubscribeLifecycle, Expire,
      ServerChanges

LEMMA WaitingNext ==
  ASSUME TypeOK, OwedToMounted, Waiting, [Next]_vars PROVE Waiting'
<1>p. (\A x \in Readers : ReaderWaits(x, readers[x])) /\ RoundWaits /\ EntryWaits
  BY WaitingParts
<1>t. \A x \in Readers : readers[x] \in Panels
  BY DEF TypeOK
<1>q. CASE UNCHANGED <<cache, requests, readers>> /\ census'.waits \subseteq census.waits
  BY <1>q, SameRequests, QuietWaits
<1>c. CensusChanged => census'.waits = census.waits
  BY DEF CensusChanged, TypeOK, Rounds
<1>1. ASSUME NEW x \in Readers, Mount(x) PROVE Waiting'
  <2> DEFINE r == [Away EXCEPT !.mounted = TRUE]
  <2>1. r \in Panels /\ r.mounted /\ r.awaits = Nothing
    BY DEF Away, Panels
  <2>2. ReaderWaits(x, r)
    BY <2>1 DEF ReaderWaits
  <2>3. Load(x, r, FALSE, FALSE)
    BY <1>1 DEF Mount
  <2> HIDE DEF r
  <2> QED BY <1>1, <1>c, <2>1, <2>2, <2>3, LoadWaits DEF Mount
<1>2. ASSUME NEW x \in Readers, Unmount(x) PROVE Waiting'
  <2>1. \A y \in Readers : readers'[y] = readers[y] \/ readers'[y] = Away
    BY <1>2 DEF Unmount, TypeOK
  <2>2. \A y \in Readers : readers'[y].awaits # Nothing => readers'[y] = readers[y]
    BY <2>1 DEF Away
  <2>3. \A y \in Readers : ~readers'[y].mounted => readers'[y].awaits = Nothing
    BY <1>p, <2>1 DEF ReaderWaits, Away
  <2>4. UNCHANGED <<cache, requests>> /\ census'.waits = census.waits
    BY <1>2, <1>c DEF Unmount
  <2> QED BY <1>p, <2>2, <2>3, <2>4
          DEF Waiting, NobodyWaitsInVain, EntryWaits, ReaderWaits, RoundWaits, IsUnused
<1>3. ASSUME NEW x \in Readers, Retry(x) \/ Reload(x) PROVE Waiting'
  <2>2. PICK silent \in BOOLEAN, force \in BOOLEAN : Load(x, readers[x], silent, force)
    BY <1>3 DEF Retry, Reload
  <2>3. census'.waits = census.waits
    BY <1>3 DEF Retry, Reload
  <2>4. readers[x].mounted
    BY <1>3 DEF Retry, Reload, OwedToMounted
  <2> QED BY <1>p, <1>t, <2>2, <2>3, <2>4, LoadWaits
<1>4. ASSUME NEW u \in Urls, NEW s \in Slots,
             ResponseArrives(u, s) \/ RequestFails(u, s) \/ BodyIsLost(u, s)
      PROVE  Waiting'
  <2>1. requests[u][s].answer \in Versions \cup Marks
    BY DEF TypeOK, Fetches, Marks
  <2> QED BY <1>4, <2>1, SettleWaits DEF ResponseArrives, RequestFails, BodyIsLost, Marks
<1>5. ASSUME NEW u \in Urls, NEW s \in Slots, ServerAnswers(u, s) PROVE Waiting'
  <2>1. PICK answer \in {server[u], Denied} :
          requests' = [requests EXCEPT ![u][s] =
            [requests[u][s] EXCEPT !.phase = "evaluated", !.answer = answer]]
    BY <1>5 DEF ServerAnswers
  <2>2. StaysOpen
    BY <2>1 DEF StaysOpen, IsUnused, TypeOK, Fetches
  <2> QED BY <1>5, <2>2, QuietWaits DEF ServerAnswers
<1>6. CASE Trigger
  <2>1. CASE StartRound
    BY <1>6, <2>1, RoundStartWaits DEF Trigger
  <2>2. CASE UNCHANGED <<cache, requests>> /\ census'.waits = census.waits
    BY <1>6, <1>q, <2>2 DEF Trigger
  <2> QED BY <1>6, <2>1, <2>2 DEF Trigger, TypeOK, Rounds
<1>7. CASE FinishRound
  <2>1. CASE StartRound
    BY <1>7, <2>1, RoundStartWaits DEF FinishRound
  <2>2. CASE UNCHANGED <<cache, requests>> /\ census'.waits = census.waits
    BY <1>7, <1>q, <2>2 DEF FinishRound
  <2> QED BY <1>7, <2>1, <2>2 DEF FinishRound, TypeOK, Rounds
<1>8. ASSUME NEW p \in LifecycleReaders,
             LifecycleReadLands(p) \/ SubscribeLifecycle(p) \/ UnsubscribeLifecycle(p)
      PROVE  Waiting'
  BY <1>8, <1>c, <1>q DEF LifecycleReadLands, SubscribeLifecycle, UnsubscribeLifecycle
<1>9. ASSUME NEW u \in Urls, Expire(u) PROVE Waiting'
  <2>1. \A v \in Urls : cache'[v].inFlight = cache[v].inFlight
    BY <1>9 DEF Expire, TypeOK, Entries
  <2> QED BY <1>9, <2>1, SameRequests, QuietWaits DEF Expire
<1>10. ASSUME NEW u \in Urls, ServerChanges(u) PROVE Waiting'
  BY <1>10, <1>q DEF ServerChanges, browser
<1>11. ASSUME NEW S \in SUBSET Urls, NEW notify, InvalidateCachedGets(S, notify)
       PROVE  Waiting'
  <2>1. \A v \in Urls : cache'[v].inFlight \in {cache[v].inFlight, Nothing}
    BY <1>11 DEF InvalidateCachedGets, Absent
  <2> QED BY <1>11, <2>1, SameRequests, QuietWaits DEF InvalidateCachedGets
<1>12. CASE UNCHANGED vars
  BY <1>12, <1>q DEF vars, browser
<1> QED
  BY <1>1, <1>2, <1>3, <1>4, <1>5, <1>6, <1>7, <1>8, <1>9, <1>10, <1>11, <1>12 DEF Next

\* Every promise that a caller, a panel or a round holds belongs to an open
\* request, which its deadline will end.
THEOREM NoWaitIsInVain == Spec => []NobodyWaitsInVain
<1>1. Init => TypeOK /\ OwedToMounted /\ Waiting
  <2>1. Init => OwedToMounted /\ Waiting
    BY DEF Init, OwedToMounted, Waiting, NobodyWaitsInVain, Absent, Away
  <2> QED BY <2>1, TypeInit
<1>2. (TypeOK /\ OwedToMounted /\ Waiting) /\ [Next]_vars
        => (TypeOK /\ OwedToMounted /\ Waiting)'
  BY TypeNext, OwedNext, WaitingNext
<1>3. Waiting => NobodyWaitsInVain
  BY DEF Waiting
<1> QED BY <1>1, <1>2, <1>3, PTL DEF Spec
=============================================================================
