--------------------------- MODULE ClientGetCache ----------------------------
(***************************************************************************)
(* The browser's shared GET cache (app/lib/client-get-cache.ts) and the    *)
(* hooks through which mounted panels read it (client-get-hooks.ts).       *)
(*                                                                         *)
(* An action is one task of the browser's event loop: a settled fetch, a   *)
(* focus event, a mount.  What a task queues as a microtask, the reload of *)
(* a notified reader and the end of a revalidation round, runs before the  *)
(* next task (StackEmpty).  The server is external: it evaluates a read at *)
(* some instant between its request and its response, and any user may     *)
(* change its state at any time.                                           *)
(***************************************************************************)
EXTENDS Naturals, FiniteSets

CONSTANTS
  Urls,
  Readers, ReaderUrl,   \* panels, and the URL each one subscribes to and loads
  Slots,                \* bound: requests open at once for one URL
  MaxVersion,           \* bound: changes of the server's state behind a URL
  LifecycleReaders,     \* panels whose URL slides: they run a callback instead
  Nothing, NoBody, Denied, Failed

Versions == 0 .. MaxVersion
Marks == {Nothing, NoBody, Denied, Failed}

ASSUME ReaderUrlAssumption == ReaderUrl \in [Readers -> Urls]
ASSUME MaxVersionAssumption == MaxVersion \in Nat
ASSUME MarksAssumption ==
  /\ Marks \cap Nat = {} /\ Nothing \notin Slots /\ Cardinality(Marks) = 4
ASSUME DistinctAssumption ==
  /\ Nothing # NoBody /\ Nothing # Denied /\ Nothing # Failed
  /\ NoBody # Denied /\ NoBody # Failed /\ Denied # Failed

VARIABLES
  server,      \* external: the version of the state each URL reads
  cache,       \* jsonGetCache
  requests,    \* the fetches in flight, by URL and slot
  readers,     \* what each panel shows and which responses it awaits
  notified,    \* readers whose reload is queued as a microtask
  census,      \* the revalidation round and its two module flags
  lifecycle,   \* clientLifecycleSubscribers, and those whose read is open
  floor,       \* history: what was cached, or at the server on an invalidation, last
  answered     \* history: URLs whose reads landed since the last trigger

browser == <<cache, requests, readers, notified, census, lifecycle>>
history == <<floor, answered>>
vars == <<server, browser, history>>

Entries == [has : BOOLEAN, value : Versions \cup {NoBody, Nothing}, fresh : BOOLEAN,
            terminal : BOOLEAN, inFlight : Slots \cup {Nothing}]
Fetches == [phase : {"unused", "open", "evaluated"},
            answer : Versions \cup {Denied, Nothing}, notify : BOOLEAN]
Panels == [mounted : BOOLEAN, shown : Versions \cup {Nothing},
           awaits : Slots \cup {Nothing}, visible : SUBSET Slots]
Rounds == [running : BOOLEAN, queued : BOOLEAN, received : BOOLEAN,
           waits : SUBSET (Urls \X Slots), existed : SUBSET Urls]

Absent == [has |-> FALSE, value |-> Nothing, fresh |-> FALSE, terminal |-> FALSE,
           inFlight |-> Nothing]
Unused == [phase |-> "unused", answer |-> Nothing, notify |-> FALSE]
Away == [mounted |-> FALSE, shown |-> Nothing, awaits |-> Nothing, visible |-> {}]

TypeOK ==
  /\ server \in [Urls -> Versions] /\ cache \in [Urls -> Entries]
  /\ requests \in [Urls -> [Slots -> Fetches]]
  /\ readers \in [Readers -> Panels] /\ notified \in SUBSET Readers
  /\ census \in Rounds /\ lifecycle \in [mounted : SUBSET LifecycleReaders, reading : SUBSET LifecycleReaders]
  /\ floor \in [Urls -> Versions]
  /\ answered \in SUBSET Urls

MountedReaders == {x \in Readers : readers[x].mounted}
MountedUrls == {ReaderUrl[x] : x \in MountedReaders}
ReadersOf(u) == {x \in MountedReaders : ReaderUrl[x] = u}

RoundComplete == census.running /\ census.waits = {} /\ lifecycle.reading = {}
StackEmpty == notified = {} /\ ~RoundComplete

Init ==
  /\ server = [u \in Urls |-> 0] /\ cache = [u \in Urls |-> Absent]
  /\ requests = [u \in Urls |-> [s \in Slots |-> Unused]]
  /\ readers = [x \in Readers |-> Away] /\ notified = {}
  /\ census = [running |-> FALSE, queued |-> FALSE, received |-> FALSE,
               waits |-> {}, existed |-> {}]
  /\ lifecycle = [mounted |-> {}, reading |-> {}]
  /\ floor = [u \in Urls |-> 0]
  /\ answered = Urls

-----------------------------------------------------------------------------
(* startJsonGet and cachedGetJson *)

IsUnused(u, s) == requests[u][s].phase = "unused"

\* The request a call starts now, with the settlement notice it captures.
Opened(u) == [phase |-> "open", answer |-> Nothing,
              notify |-> cache[u].has \/ cache[u].terminal]
EntryAwaiting(u, s) ==
  IF cache[u].has THEN [cache[u] EXCEPT !.inFlight = s] ELSE [Absent EXCEPT !.inFlight = s]

StartJsonGet(u, s) ==
  /\ IsUnused(u, s)
  /\ requests' = [requests EXCEPT ![u][s] = Opened(u)]
  /\ cache' = [cache EXCEPT ![u] = EntryAwaiting(u, s)]

Rejects(u, force) == ~force /\ cache[u].terminal
Hits(u, force) == ~force /\ cache[u].has
Joins(u, force) == cache[u].inFlight # Nothing /\ ~Rejects(u, force) /\ ~Hits(u, force)
Starts(u, force) == cache[u].inFlight = Nothing /\ ~Rejects(u, force) /\ ~Hits(u, force)

\* A hit is parsed at once; a body that was lost fails its parser, which a
\* silent reader ignores.
Shows(x, r, value, silent) ==
  [readers EXCEPT ![x] = [r EXCEPT !.awaits = Nothing,
     !.shown = IF value # NoBody THEN value ELSE IF silent THEN @ ELSE Nothing]]

Awaits(x, r, s, silent) ==
  [readers EXCEPT ![x] = [r EXCEPT !.awaits = s,
     !.visible = IF silent THEN @ ELSE @ \cup {s}]]

\* useClientLoadState().run: the latest load wins, and a silent load gives way
\* to a visible one that is still open.  r is the reader as the load finds it.
Load(x, r, silent, force) ==
  LET u == ReaderUrl[x]
      declined == silent /\ r.visible # {} IN
  \/ declined /\ readers' = [readers EXCEPT ![x] = r] /\ UNCHANGED <<cache, requests>>
  \/ /\ ~declined /\ Rejects(u, force)
     /\ readers' = [readers EXCEPT ![x] = [r EXCEPT !.awaits = Nothing, !.shown = Nothing]]
     /\ UNCHANGED <<cache, requests>>
  \/ /\ ~declined /\ Hits(u, force) /\ readers' = Shows(x, r, cache[u].value, silent)
     /\ \/ ~cache[u].fresh /\ cache[u].inFlight = Nothing /\ \E s \in Slots : StartJsonGet(u, s)
        \/ (cache[u].fresh \/ cache[u].inFlight # Nothing) /\ UNCHANGED <<cache, requests>>
  \/ /\ ~declined /\ Joins(u, force) /\ readers' = Awaits(x, r, cache[u].inFlight, silent)
     /\ UNCHANGED <<cache, requests>>
  \/ /\ ~declined /\ Starts(u, force)
     /\ \E s \in Slots : StartJsonGet(u, s) /\ readers' = Awaits(x, r, s, silent)

\* Mutant: a panel that mounts during a round waits for the next trigger.
FaultyCensusChanged == UNCHANGED census

\* markLifecycleCensusChanged
CensusChanged == census' = [census EXCEPT !.queued = @ \/ census.running]

\* A panel mounts: it subscribes, then loads visibly.
Mount(x) ==
  /\ StackEmpty /\ ~readers[x].mounted
  /\ Load(x, [Away EXCEPT !.mounted = TRUE], FALSE, FALSE)
  /\ CensusChanged
  /\ UNCHANGED <<server, notified, lifecycle, history>>

Unmount(x) ==
  /\ StackEmpty /\ readers[x].mounted
  /\ readers' = [readers EXCEPT ![x] = Away]
  /\ CensusChanged
  /\ UNCHANGED <<server, cache, requests, notified, lifecycle, history>>

\* The Retry control of an error notice: a visible load that bypasses the cache.
Retry(x) ==
  /\ StackEmpty /\ readers[x].mounted
  /\ Load(x, readers[x], FALSE, TRUE)
  /\ UNCHANGED <<server, notified, census, lifecycle, history>>

\* Microtask of a notified reader: one silent load for a burst of notices.
Reload(x) ==
  /\ x \in notified
  /\ Load(x, readers[x], TRUE, FALSE)
  /\ notified' = notified \ {x}
  /\ UNCHANGED <<server, census, lifecycle, history>>

-----------------------------------------------------------------------------
(* Settlement of a request *)

\* Mutant: a failed refresh leaves its promise in the entry.
LeakySettledEntry(entry, outcome) ==
  CASE outcome \in Versions \cup {NoBody} ->
         [has |-> TRUE, value |-> outcome, fresh |-> TRUE, terminal |-> FALSE,
          inFlight |-> Nothing]
    [] outcome = Denied -> [Absent EXCEPT !.terminal = TRUE]
    [] OTHER -> entry

\* The entry the settled request leaves behind when it is still the current one.
SettledEntry(entry, outcome) ==
  CASE outcome \in Versions \cup {NoBody} ->
         [has |-> TRUE, value |-> outcome, fresh |-> TRUE, terminal |-> FALSE,
          inFlight |-> Nothing]
    [] outcome = Denied -> [Absent EXCEPT !.terminal = TRUE]
    [] OTHER -> IF entry.has THEN [entry EXCEPT !.inFlight = Nothing] ELSE Absent

\* What a reader that awaits the request makes of it.  A notice of the same
\* request reaches the reader first and gives way to its visible load; here the
\* load ends first and the reload finds the value it already shows.
Received(r, s, outcome) ==
  [r EXCEPT !.visible = @ \ {s},
     !.awaits = IF r.awaits = s THEN Nothing ELSE @,
     !.shown = IF r.awaits # s THEN @
               ELSE IF outcome \in Versions THEN outcome
               ELSE IF outcome = Denied \/ s \in r.visible THEN Nothing
               ELSE @]

\* Mutants: every response is kept; a response is kept while some request is open.
FaultyIsCurrent(u, s) == TRUE
LooseIsCurrent(u, s) == cache[u].inFlight # Nothing

IsCurrent(u, s) == cache[u].inFlight = s
Landed(outcome) == outcome \in Versions \cup {NoBody, Denied}

\* Notices: the request's own, and those the round gives for URLs that had no
\* entry when it read them.
NoticeDue(u, s, outcome) ==
  /\ Landed(outcome)
  /\ \/ IsCurrent(u, s) /\ requests[u][s].notify
     \/ <<u, s>> \in census.waits /\ u \notin census.existed

Settle(u, s, outcome) ==
  /\ cache' = IF IsCurrent(u, s)
                THEN [cache EXCEPT ![u] = SettledEntry(@, outcome)] ELSE cache
  /\ requests' = [requests EXCEPT ![u][s] = Unused]
  /\ readers' = [x \in Readers |->
                   IF x \in ReadersOf(u) THEN Received(readers[x], s, outcome)
                   ELSE readers[x]]
  /\ notified' = IF NoticeDue(u, s, outcome) THEN ReadersOf(u) ELSE {}
  /\ census' = [census EXCEPT !.waits = @ \ {<<u, s>>},
                              !.received = @ \/ <<u, s>> \in census.waits]
  /\ answered' = answered \cup (IF <<u, s>> \in census.waits THEN {u} ELSE {})
  /\ floor' = IF IsCurrent(u, s) /\ outcome \in Versions /\ outcome > floor[u]
                THEN [floor EXCEPT ![u] = outcome] ELSE floor
  /\ UNCHANGED <<server, lifecycle>>

\* The server evaluates the read; it may deny it (401, 403).
ServerAnswers(u, s) ==
  /\ StackEmpty /\ requests[u][s].phase = "open"
  /\ \E answer \in {server[u], Denied} :
       requests' = [requests EXCEPT ![u][s] = [@ EXCEPT !.phase = "evaluated",
                                                        !.answer = answer]]
  /\ UNCHANGED <<server, cache, readers, notified, census, lifecycle, history>>

ResponseArrives(u, s) ==
  /\ StackEmpty /\ requests[u][s].phase = "evaluated"
  /\ Settle(u, s, requests[u][s].answer)

\* No response (deadline or transport), or an error response of the server.
RequestFails(u, s) ==
  /\ StackEmpty /\ ~IsUnused(u, s)
  /\ Settle(u, s, Failed)

\* The deadline aborts a response whose status has arrived and whose body has
\* not: response.json() rejects and its catch answers null.
BodyIsLost(u, s) ==
  /\ StackEmpty /\ requests[u][s].phase = "evaluated"
  /\ Settle(u, s, IF requests[u][s].answer = Denied THEN Denied ELSE NoBody)

-----------------------------------------------------------------------------
(* revalidateSubscribedCachedGets *)

\* One census: every subscribed URL is read with force, which joins a request
\* already in flight, and every lifecycle subscriber runs.
StartRound ==
  \E pick \in [MountedUrls -> Slots] :
    /\ \A u \in MountedUrls :
         IF cache[u].inFlight # Nothing THEN pick[u] = cache[u].inFlight
         ELSE IsUnused(u, pick[u])
    /\ requests' = [u \in Urls |->
         IF u \in MountedUrls /\ cache[u].inFlight = Nothing
           THEN [requests[u] EXCEPT ![pick[u]] = Opened(u)] ELSE requests[u]]
    /\ cache' = [u \in Urls |->
         IF u \in MountedUrls /\ cache[u].inFlight = Nothing
           THEN EntryAwaiting(u, pick[u]) ELSE cache[u]]
    /\ census' = [running |-> TRUE, queued |-> FALSE, received |-> FALSE,
                  waits |-> {<<u, pick[u]>> : u \in MountedUrls},
                  existed |-> {u \in MountedUrls : cache[u] # Absent}]
    /\ lifecycle' = [lifecycle EXCEPT !.reading = @ \cup lifecycle.mounted]

\* Focus, visibility or navigation.
Trigger ==
  /\ StackEmpty
  /\ answered' = {}
  /\ \/ /\ ~census.running /\ StartRound
     \/ /\ census.running /\ census.received
        /\ census' = [census EXCEPT !.queued = TRUE]
        /\ UNCHANGED <<cache, requests, lifecycle>>
     \/ /\ census.running /\ ~census.received
        /\ UNCHANGED <<cache, requests, census, lifecycle>>
  /\ UNCHANGED <<server, readers, notified, floor>>

\* Promise.allSettled resolves: another round if one is queued.
FinishRound ==
  /\ RoundComplete
  /\ \/ census.queued /\ StartRound
     \/ /\ ~census.queued
        /\ census' = [census EXCEPT !.running = FALSE]
        /\ UNCHANGED <<cache, requests, lifecycle>>
  /\ UNCHANGED <<server, readers, notified, history>>

\* The subscriber's own read settles; its failure is handled inside.
LifecycleReadLands(p) ==
  /\ StackEmpty /\ p \in lifecycle.reading
  /\ lifecycle' = [lifecycle EXCEPT !.reading = @ \ {p}]
  /\ UNCHANGED <<server, cache, requests, readers, notified, census, history>>

SubscribeLifecycle(p) ==
  /\ StackEmpty /\ p \notin lifecycle.mounted
  /\ lifecycle' = [lifecycle EXCEPT !.mounted = @ \cup {p}]
  /\ CensusChanged
  /\ UNCHANGED <<server, cache, requests, readers, notified, history>>

UnsubscribeLifecycle(p) ==
  /\ StackEmpty /\ p \in lifecycle.mounted
  /\ lifecycle' = [lifecycle EXCEPT !.mounted = @ \ {p}]
  /\ CensusChanged
  /\ UNCHANGED <<server, cache, requests, readers, notified, history>>

-----------------------------------------------------------------------------
(* Time, other users, and this user's mutations *)

Expire(u) ==
  /\ StackEmpty /\ cache[u].fresh
  /\ cache' = [cache EXCEPT ![u].fresh = FALSE]
  /\ UNCHANGED <<server, requests, readers, notified, census, lifecycle, history>>

ServerChanges(u) ==
  /\ StackEmpty /\ server[u] < MaxVersion
  /\ server' = [server EXCEPT ![u] = @ + 1]
  /\ UNCHANGED <<browser, history>>

\* bound: a discarded request leaves a slot for its successor
RoomFor(u) == \E s \in Slots : IsUnused(u, s)

\* After a mutation of this tab, with the notice or without it.
InvalidateCachedGets(S, notify) ==
  /\ StackEmpty /\ \A u \in S : RoomFor(u)
  /\ cache' = [u \in Urls |-> IF u \in S THEN Absent ELSE cache[u]]
  /\ floor' = [u \in Urls |-> IF u \in S THEN server[u] ELSE floor[u]]
  /\ notified' = IF notify THEN UNION {ReadersOf(u) : u \in S} ELSE {}
  /\ UNCHANGED <<server, requests, readers, census, lifecycle, answered>>

Next ==
  \/ \E x \in Readers : Mount(x) \/ Unmount(x) \/ Retry(x) \/ Reload(x)
  \/ \E u \in Urls, s \in Slots :
       ServerAnswers(u, s) \/ ResponseArrives(u, s) \/ RequestFails(u, s) \/ BodyIsLost(u, s)
  \/ Trigger \/ FinishRound
  \/ \E p \in LifecycleReaders :
       LifecycleReadLands(p) \/ SubscribeLifecycle(p) \/ UnsubscribeLifecycle(p)
  \/ \E u \in Urls : Expire(u) \/ ServerChanges(u)
  \/ \E S \in SUBSET Urls \ {{}}, notify \in BOOLEAN : InvalidateCachedGets(S, notify)

Spec == Init /\ [][Next]_vars

\* Microtasks run, and the deadline ends every request that is open.
Fairness ==
  /\ \A x \in Readers : WF_vars(Reload(x))
  /\ WF_vars(FinishRound) /\ \A p \in LifecycleReaders : SF_vars(LifecycleReadLands(p))
  /\ \A u \in Urls, s \in Slots : SF_vars(RequestFails(u, s))

FairSpec == Spec /\ Fairness

-----------------------------------------------------------------------------
(* Properties *)

\* Neither the cache nor the request that later calls join holds a state of the
\* server from before the last mutation of its URL, or older than one that has
\* been cached since, although older requests may still be open (startJsonGet's
\* identity check).
NothingOlderThanTheInvalidation ==
  \A u \in Urls :
    /\ cache[u].value \in Versions => cache[u].value >= floor[u]
    /\ \A s \in Slots :
         /\ cache[u].inFlight = s /\ requests[u][s].answer \in Versions
         => requests[u][s].answer >= floor[u]

\* Whoever waits, waits on a request that is still open: the cache entry that
\* later calls join, a panel's load and the revalidation round.  A leaked
\* in-flight promise would wedge its URL for the life of the tab.
NobodyWaitsInVain ==
  /\ \A u \in Urls : cache[u].inFlight # Nothing => ~IsUnused(u, cache[u].inFlight)
  /\ \A x \in Readers : readers[x].awaits # Nothing =>
       ~IsUnused(ReaderUrl[x], readers[x].awaits)
  /\ \A w \in census.waits : ~IsUnused(w[1], w[2])

\* In whichever order responses arrive, to the readers the cache is one copy of
\* the server's state that moves forward, through losses and denials too.
Replica ==
  INSTANCE Replica WITH copy <- [u \in Urls |-> cache[u].value], least <- floor,
                        Blanks <- {Nothing, NoBody}

ImplementsReplica == Replica!Spec

RoundEnds == census.running /\ ~census'.running

\* When a revalidation round ends, every URL with a mounted reader has taken
\* delivery of a response since the last trigger, whether the trigger was joined
\* or queued and whenever the reader mounted (revalidateSubscribedCachedGets,
\* markLifecycleCensusChanged).
TriggersAreAnswered == [][RoundEnds => MountedUrls \subseteq answered]_vars

\* No stalled response keeps a mounted reader from its revalidation for ever:
\* the deadline of every request ends every round, the queued ones included.
EveryTriggerLands ==
  \A u \in Urls :
    (census.running /\ u \in MountedUrls \ answered) ~> (u \in answered \/ u \notin MountedUrls)

\* The comment at app/lib/client-get-cache.ts:106, which a run refutes: "A
\* timed-out request ... never poisons a stale-but-honest cached value".
TimeoutsNeverPoison ==
  [][\A u \in Urls : cache[u].value \in Versions => cache'[u].value # NoBody]_vars
=============================================================================
