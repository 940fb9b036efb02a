--------------------------- MODULE RecordsProofs -----------------------------
(***************************************************************************)
(* Proofs about Records for any requests, keys, values, reviews, records,  *)
(* creations and edits: the inductive invariant Inv, that an edit changes  *)
(* what it patches of what was seen and nothing else, and that the         *)
(* transactions implement OncePerKey.                                      *)
(***************************************************************************)
EXTENDS Records, TLAPS

-----------------------------------------------------------------------------
(* The constants and the records of a request *)

LEMMA NothingFacts ==
  /\ Nothing \notin Procs /\ Nothing \notin Intents /\ Nothing \notin Edits
  /\ Nothing \notin Rows /\ Nothing \notin Answers
  /\ Nothing \notin [intent : Intents, verdict : Answers]
  /\ Nothing \notin [intent : Intents, verdict : Verdicts]
  <1>1. Verdicts \subseteq Answers
    BY DEF Verdicts, Answers, RecordIds
  <1>2. QED
    BY <1>1, NothingAssumption

LEMMA IntentFacts ==
  ASSUME NEW i \in Intents
  PROVE  /\ i.key \in Keys /\ i.kind \in Kinds /\ i.kind # "contact" /\ i.kind # "task"
         /\ NewRow(i) \in Rows
         /\ NewRow(i).kind = i.kind /\ NewRow(i).version = 1 /\ NewRow(i).cols["name"] = i.name
  <1>1. i.key \in Keys /\ i.name \in Values
        /\ i.kind \in {"client", "project", "meeting", "lead"} /\ Blank \in Values
    BY IntentsAssumption
  <1>2. [c \in Cols |-> IF c = "name" THEN i.name ELSE Blank] \in [Cols -> Values]
    BY <1>1
  <1>3. QED
    BY <1>1, <1>2 DEF NewRow, Rows, Kinds, Cols

LEMMA EditFacts ==
  ASSUME NEW e \in Edits
  PROVE  /\ e.target \in RecordIds /\ e.patch \in Patches /\ e.versioned \in BOOLEAN
         /\ DOMAIN e.patch \subseteq Columns(e.op)
  BY EditsAssumption

LEMMA MergedFacts ==
  ASSUME NEW row \in Rows, NEW patch \in Patches
  PROVE  Merged(row, patch) \in [Cols -> Values]
  <1>1. PICK S \in SUBSET Cols : patch \in [S -> Values]
    BY DEF Patches
  <1>2. \A c \in Cols : (IF c \in DOMAIN patch THEN patch[c] ELSE row.cols[c]) \in Values
    BY <1>1 DEF Rows
  <1>3. QED
    BY <1>2 DEF Merged

LEMMA AnswerFacts ==
  ASSUME NEW u \in Procs
  PROVE  /\ Verdict("error", Nothing) \in Answers
         /\ Verdict("completed", u) \in Answers /\ Verdict("completed", u) \in Verdicts
         /\ Verdict("failed", Nothing) \in Answers /\ Verdict("failed", Nothing) \in Verdicts
  BY DEF Verdict, Answers, Verdicts, RecordIds

\* What End leaves of a request.
LEMMA EndFacts ==
  ASSUME NEW r \in Requests, NEW a \in Answers
  PROVE  LET e == [r EXCEPT !.pc = "done", !.next = Nothing, !.answer = a] IN
           /\ e \in Requests
           /\ e.pc = "done" /\ e.answer = a /\ e.intent = r.intent /\ e.edit = r.edit
           /\ e.seen = r.seen
  BY DEF Requests

-----------------------------------------------------------------------------
(* Steps of one request that leave the tables alone *)

Alone(t, r) == tx' = [tx EXCEPT ![t] = r] /\ Untouched

LEMMA AloneKeeps ==
  ASSUME Inv, NEW t \in Procs, NEW r \in Requests, Alone(t, r),
         r.intent = tx[t].intent \/ tx[t].intent = Nothing
  PROVE  /\ TypeOK'
         /\ tx'[t] = r
         /\ \A u \in Procs \ {t} : tx'[u] = tx[u]
         /\ OneRecordPerKey'
         /\ EvidenceIsComplete'
         /\ NamesAreUnique'
         /\ ReviewsDecidedOnce'
  <1>1. tx \in [Procs -> Requests]
    BY DEF Inv, TypeOK
  <1>2. tx'[t] = r /\ \A u \in Procs \ {t} : tx'[u] = tx[u]
    BY <1>1 DEF Alone
  <1>3. TypeOK'
    BY <1>1 DEF Inv, TypeOK, Alone, Untouched
  <1>4. rows' = rows /\ idem' = idem /\ reviews' = reviews /\ events' = events /\ evidence' = evidence
    BY DEF Alone, Untouched
  <1>5. \A u \in Procs : rows[u] # Nothing => tx[u].intent # Nothing /\ tx'[u].intent = tx[u].intent
    BY <1>2 DEF Inv, OneRecordPerKey
  <1>6. OneRecordPerKey'
    <2>1. \A u \in Procs : rows[u] # Nothing =>
            /\ tx'[u].intent # Nothing
            /\ idem[tx'[u].intent.key] = [intent |-> tx'[u].intent, verdict |-> Verdict("completed", u)]
      BY <1>5 DEF Inv, OneRecordPerKey
    <2>2. ASSUME NEW k \in Keys, idem[k] # Nothing
          PROVE  /\ idem[k].intent.key = k
                 /\ \/ idem[k].verdict = Verdict("failed", Nothing)
                    \/ \E u \in Procs : /\ idem[k].verdict = Verdict("completed", u)
                                        /\ rows[u] # Nothing
                                        /\ rows[u].kind = idem[k].intent.kind
                                        /\ tx'[u].intent = idem[k].intent
      BY <1>5, <2>2 DEF Inv, OneRecordPerKey
    <2>3. QED
      BY <1>4, <2>1, <2>2 DEF OneRecordPerKey
  <1>7. EvidenceIsComplete' /\ NamesAreUnique'
    BY <1>4 DEF Inv, EvidenceIsComplete, NamesAreUnique
  <1>8. ReviewsDecidedOnce'
    <2>1. ASSUME NEW q \in Reviews, NEW u \in Procs
          PROVE  (rows[u] # Nothing /\ tx'[u].intent.kind = "lead" /\ tx'[u].intent.target = q)
                 <=> reviews[q] = Verdict("accepted", u)
      BY <1>5 DEF Inv, ReviewsDecidedOnce
    <2>2. QED
      BY <1>4, <2>1 DEF ReviewsDecidedOnce
  <1>9. QED
    BY <1>2, <1>3, <1>6, <1>7, <1>8

\* A request that holds nothing afterwards disturbs nobody's locks or names.
LEMMA QuietKeeps ==
  ASSUME Inv, NEW t \in Procs, NEW r \in Requests, Alone(t, r),
         r.intent = tx[t].intent \/ tx[t].intent = Nothing,
         r.pc \notin {"claimed", "refusing", "locked", "written"}
  PROVE  LocksHold' /\ NamesReserved'
  <1>1. tx'[t] = r /\ \A u \in Procs \ {t} : tx'[u] = tx[u]
    BY AloneKeeps
  <1>2. rows' = rows /\ idem' = idem /\ reviews' = reviews
    BY DEF Alone, Untouched
  <1>3. ~Creating(t)' /\ ~Editing(t)' /\ ~Deciding(t)' /\ tx'[t].pc # "written"
    BY <1>1 DEF Creating, Editing, Deciding
  <1>4. \A u \in Procs : /\ Creating(u)' => Creating(u) /\ tx'[u] = tx[u]
                         /\ Editing(u)' => Editing(u) /\ tx'[u] = tx[u]
                         /\ Deciding(u)' => Deciding(u) /\ tx'[u] = tx[u]
    <2>1. SUFFICES ASSUME NEW u \in Procs \ {t}
          PROVE  /\ Creating(u)' => Creating(u) /\ tx'[u] = tx[u]
                 /\ Editing(u)' => Editing(u) /\ tx'[u] = tx[u]
                 /\ Deciding(u)' => Deciding(u) /\ tx'[u] = tx[u]
      BY <1>3, Zenon
    <2>2. QED
      BY <1>1 DEF Creating, Editing, Deciding
  <1>5. LocksHold'
    <2>1. ASSUME NEW u \in Procs
          PROVE  /\ Creating(u)' => idem'[tx'[u].intent.key] = Nothing
                 /\ Creating(u)' /\ tx'[u].pc = "written" => tx'[u].next = NewRow(tx'[u].intent)
                 /\ Deciding(u)' => reviews'[tx'[u].intent.target].status = "needs-review"
      BY <1>1, <1>2 DEF Inv, LocksHold, Creating, Deciding
    <2>2. ASSUME NEW u \in Procs, NEW w \in Procs
          PROVE  /\ Creating(u)' /\ Creating(w)' /\ tx'[u].intent.key = tx'[w].intent.key => u = w
                 /\ Editing(u)' /\ Editing(w)' /\ tx'[u].edit.target = tx'[w].edit.target => u = w
                 /\ Deciding(u)' /\ Deciding(w)' /\ tx'[u].intent.target = tx'[w].intent.target => u = w
      BY <1>1 DEF Inv, LocksHold, Creating, Editing, Deciding
    <2>3. QED
      BY <2>1, <2>2 DEF LocksHold
  <1>6. NamesReserved'
    <2>1. \A u \in Procs : tx'[u].pc = "written" => u # t /\ tx'[u] = tx[u]
      BY <1>1, <1>3
    <2>2. QED
      BY <1>2, <2>1 DEF Inv, NamesReserved
  <1>7. QED
    BY <1>5, <1>6

\* End: the request keeps only its intent, its edit and an answer.
LEMMA EndKeeps ==
  ASSUME Inv, NEW t \in Procs, tx[t].pc \notin {"idle", "done"}, NEW a \in Answers,
         End(t, a), Untouched,
         tx[t].intent # Nothing /\ a.status \in {"completed", "failed"}
           => idem[tx[t].intent.key] = [intent |-> tx[t].intent, verdict |-> a]
  PROVE  Inv'
  <1> DEFINE r == [tx[t] EXCEPT !.pc = "done", !.next = Nothing, !.answer = a]
  <1>1. tx[t] \in Requests
    BY DEF Inv, TypeOK
  <1>2. /\ r \in Requests /\ r.pc = "done" /\ r.answer = a /\ r.intent = tx[t].intent
        /\ r.edit = tx[t].edit /\ r.seen = tx[t].seen
    BY <1>1, EndFacts
  <1>3. Alone(t, r)
    BY DEF Alone, End, Step
  <1> HIDE DEF r
  <1>4. /\ TypeOK' /\ OneRecordPerKey' /\ EvidenceIsComplete' /\ NamesAreUnique' /\ ReviewsDecidedOnce'
        /\ tx'[t] = r /\ \A u \in Procs \ {t} : tx'[u] = tx[u]
    BY <1>2, <1>3, AloneKeeps
  <1>5. LocksHold' /\ NamesReserved'
    BY <1>2, <1>3, QuietKeeps
  <1>6. rows' = rows /\ idem' = idem
    BY DEF Untouched
  <1>7. AnswersAreTrue'
    BY <1>2, <1>4, <1>6 DEF Inv, AnswersAreTrue
  <1>8. ProgressIsSound'
    <2>1. a # Nothing
      BY NothingFacts
    <2>2. QED
      BY <1>2, <1>4, <2>1 DEF Inv, ProgressIsSound
  <1>9. SnapshotsAreExact'
    <2>1. ASSUME NEW u \in Procs, tx'[u].edit # Nothing
          PROVE  /\ tx[u].edit = tx'[u].edit /\ tx[u].seen = tx'[u].seen
                 /\ tx'[u].pc \in {"read", "locked", "written"} => tx'[u] = tx[u]
      BY <1>2, <1>4, <2>1
    <2>2. QED
      BY <1>6, <2>1 DEF Inv, SnapshotsAreExact, Editing
  <1>10. QED
    BY <1>4, <1>5, <1>7, <1>8, <1>9 DEF Inv

LEMMA TruthNeeded ==
  ASSUME NEW status \in {"idempotency-conflict", "review-not-found", "unchanged", "conflict",
                         "duplicate", "error"}
  PROVE  /\ Verdict(status, Nothing) \in Answers
         /\ Verdict(status, Nothing).status \notin {"completed", "failed"}
  BY DEF Verdict, Answers

-----------------------------------------------------------------------------
(* Creation *)

LEMMA AskKeeps ==
  ASSUME Inv, NEW t \in Procs, NEW i \in Intents, Ask(t, i)
  PROVE  Inv'
  <1> DEFINE r == [tx[t] EXCEPT !.pc = "begun", !.intent = i]
  <1>1. tx[t] \in Requests /\ tx[t] = Idle
    BY DEF Inv, TypeOK, ProgressIsSound, Ask
  <1>2. /\ r \in Requests /\ r.pc = "begun" /\ r.intent = i /\ r.edit = Nothing /\ r.answer = Nothing
        /\ tx[t].intent = Nothing
    <2>1. r \in Requests /\ r.pc = "begun" /\ r.intent = i /\ r.edit = tx[t].edit /\ r.answer = tx[t].answer
      BY <1>1 DEF Requests
    <2>2. tx[t].intent = Nothing /\ tx[t].edit = Nothing /\ tx[t].answer = Nothing
      BY <1>1 DEF Idle
    <2>3. QED
      BY <2>1, <2>2
  <1>3. Alone(t, r)
    BY DEF Alone, Ask, Step
  <1> HIDE DEF r
  <1>4. /\ TypeOK' /\ OneRecordPerKey' /\ EvidenceIsComplete' /\ NamesAreUnique' /\ ReviewsDecidedOnce'
        /\ tx'[t] = r /\ \A u \in Procs \ {t} : tx'[u] = tx[u]
    BY <1>2, <1>3, AloneKeeps
  <1>5. LocksHold' /\ NamesReserved'
    BY <1>2, <1>3, QuietKeeps
  <1>6. rows' = rows /\ idem' = idem
    BY <1>3 DEF Alone, Untouched
  <1>7. AnswersAreTrue'
    BY <1>2, <1>4, <1>6 DEF Inv, AnswersAreTrue
  <1>8. ProgressIsSound'
    BY <1>2, <1>4, NothingFacts DEF Inv, ProgressIsSound
  <1>9. SnapshotsAreExact'
    BY <1>2, <1>4, <1>6 DEF Inv, SnapshotsAreExact, Editing
  <1>10. QED
    BY <1>4, <1>5, <1>7, <1>8, <1>9 DEF Inv

LEMMA ReplayKeeps ==
  ASSUME Inv, NEW t \in Procs, Replay(t)
  PROVE  Inv'
  <1> DEFINE k == tx[t].intent.key
             a == IF idem[k].intent = tx[t].intent THEN idem[k].verdict
                  ELSE Verdict("idempotency-conflict", Nothing)
  <1>1. /\ tx[t] \in Requests /\ tx[t].pc = "begun" /\ tx[t].intent \in Intents /\ idem[k] # Nothing
        /\ End(t, a) /\ Untouched
    BY DEF Inv, TypeOK, ProgressIsSound, Replay, Requests
  <1>2. k \in Keys
    BY <1>1, IntentFacts
  <1>3. idem[k] \in [intent : Intents, verdict : Verdicts]
    BY <1>1, <1>2 DEF Inv, TypeOK
  <1>4. idem[k].verdict \in Answers
    BY <1>3 DEF Verdicts, Answers, RecordIds
  <1>5. a \in Answers
    BY <1>4, TruthNeeded
  <1>6. a.status \in {"completed", "failed"} => idem[k] = [intent |-> tx[t].intent, verdict |-> a]
    <2>1. CASE idem[k].intent = tx[t].intent
      BY <1>3, <2>1
    <2>2. CASE idem[k].intent # tx[t].intent
      BY <2>2, TruthNeeded
    <2>3. QED
      BY <2>1, <2>2
  <1> HIDE DEF a
  <1>7. QED
    BY <1>1, <1>5, <1>6, EndKeeps

\* A request that goes on under its key: it claims it, refuses, or has its
\* row ready.
LEMMA CreatingKeeps ==
  ASSUME Inv, NEW t \in Procs, NEW r \in Requests, Alone(t, r),
         tx[t].intent \in Intents, tx[t].pc \in {"begun", "claimed"},
         r.intent = tx[t].intent, r.edit = tx[t].edit, r.answer = tx[t].answer,
         r.pc \in {"claimed", "refusing", "written"},
         r.pc = "written" => r.next = NewRow(tx[t].intent),
         idem[tx[t].intent.key] = Nothing, ~KeyHeld(tx[t].intent.key, t),
         r.pc = "written" /\ tx[t].intent.kind = "client" =>
           ~NameTaken(tx[t].intent.name) /\ ~NameContested(tx[t].intent.name, t),
         r.pc = "written" /\ tx[t].intent.kind = "lead" /\ tx[t].intent.target \in Reviews =>
           /\ reviews[tx[t].intent.target].status = "needs-review"
           /\ ~ReviewLocked(tx[t].intent.target, t)
  PROVE  Inv'
  <1>1. /\ TypeOK' /\ OneRecordPerKey' /\ EvidenceIsComplete' /\ NamesAreUnique' /\ ReviewsDecidedOnce'
        /\ tx'[t] = r /\ \A u \in Procs \ {t} : tx'[u] = tx[u]
    BY AloneKeeps
  <1>2. rows' = rows /\ idem' = idem /\ reviews' = reviews
    BY DEF Alone, Untouched
  <1>3. tx[t].intent # Nothing /\ tx[t].edit = Nothing /\ tx[t].answer = Nothing
    BY NothingFacts DEF Inv, ProgressIsSound
  <1>4. AnswersAreTrue'
    BY <1>1, <1>2, <1>3 DEF Inv, AnswersAreTrue
  <1>5. ProgressIsSound'
    BY <1>1, <1>3 DEF Inv, ProgressIsSound
  <1>6. SnapshotsAreExact'
    BY <1>1, <1>2, <1>3 DEF Inv, SnapshotsAreExact, Editing
  <1>7. LocksHold'
    <2>1. ASSUME NEW u \in Procs
          PROVE  /\ Creating(u)' => idem'[tx'[u].intent.key] = Nothing
                 /\ Creating(u)' /\ tx'[u].pc = "written" => tx'[u].next = NewRow(tx'[u].intent)
                 /\ Deciding(u)' => reviews'[tx'[u].intent.target].status = "needs-review"
      BY <1>1, <1>2 DEF Inv, LocksHold, Creating, Deciding
    <2>2. ASSUME NEW u \in Procs \ {t}
          PROVE  /\ Creating(u) => tx[u].intent.key # tx[t].intent.key
                 /\ r.pc = "written" /\ tx[t].intent.kind = "lead" /\ tx[t].intent.target \in Reviews
                    /\ Deciding(u) => tx[u].intent.target # tx[t].intent.target
      BY DEF KeyHeld, ReviewLocked
    <2>3. ASSUME NEW u \in Procs, NEW w \in Procs
          PROVE  /\ Creating(u)' /\ Creating(w)' /\ tx'[u].intent.key = tx'[w].intent.key => u = w
                 /\ Editing(u)' /\ Editing(w)' /\ tx'[u].edit.target = tx'[w].edit.target => u = w
                 /\ Deciding(u)' /\ Deciding(w)' /\ tx'[u].intent.target = tx'[w].intent.target => u = w
      BY <1>1, <1>3, <2>2 DEF Inv, LocksHold, Creating, Editing, Deciding
    <2>4. QED
      BY <2>1, <2>3 DEF LocksHold
  <1>8. NamesReserved'
    <2>1. r.pc = "written" =>
            /\ r.next.kind = tx[t].intent.kind /\ r.next.cols["name"] = tx[t].intent.name
      BY IntentFacts
    <2>2. ASSUME r.pc = "written", r.next.kind = "client"
          PROVE  /\ \A id \in RecordIds : ~(/\ rows[id] # Nothing /\ rows[id].kind = "client"
                                            /\ rows[id].cols["name"] = r.next.cols["name"])
                 /\ \A u \in Procs \ {t} : tx[u].pc = "written" /\ tx[u].next.kind = "client"
                                          => tx[u].next.cols["name"] # r.next.cols["name"]
      BY <2>1, <2>2 DEF NameTaken, NameContested
    <2>3. QED
      BY <1>1, <1>2, <2>2 DEF Inv, NamesReserved
  <1>9. QED
    BY <1>1, <1>4, <1>5, <1>6, <1>7, <1>8 DEF Inv

LEMMA ClaimKeeps ==
  ASSUME Inv, NEW t \in Procs, Claim(t)
  PROVE  Inv'
  <1> DEFINE r == [tx[t] EXCEPT !.pc = "claimed"]
  <1>1. tx[t] \in Requests /\ tx[t].pc = "begun" /\ tx[t].intent \in Intents
    BY DEF Inv, TypeOK, ProgressIsSound, Claim, Requests
  <1>2. /\ r \in Requests /\ r.pc = "claimed"
        /\ r.intent = tx[t].intent /\ r.edit = tx[t].edit /\ r.answer = tx[t].answer
    BY <1>1 DEF Requests
  <1>3. Alone(t, r) /\ idem[tx[t].intent.key] = Nothing /\ ~KeyHeld(tx[t].intent.key, t)
    BY DEF Alone, Claim, Step
  <1> HIDE DEF r
  <1>4. QED
    BY <1>1, <1>2, <1>3, CreatingKeeps

LEMMA ClaimedFacts ==
  ASSUME Inv, NEW t \in Procs, tx[t].pc = "claimed"
  PROVE  /\ tx[t] \in Requests /\ tx[t].intent \in Intents
         /\ idem[tx[t].intent.key] = Nothing /\ ~KeyHeld(tx[t].intent.key, t)
  <1>1. tx[t] \in Requests /\ tx[t].intent # Nothing
    BY DEF Inv, TypeOK, ProgressIsSound
  <1>2. Creating(t)
    BY <1>1 DEF Creating
  <1>3. QED
    BY <1>1, <1>2 DEF Inv, LocksHold, KeyHeld, Requests

LEMMA RefuseKeeps ==
  ASSUME Inv, NEW t \in Procs, tx[t].pc = "claimed", Refuse(t), Untouched
  PROVE  Inv'
  <1> DEFINE r == [tx[t] EXCEPT !.pc = "refusing"]
  <1>1. /\ r \in Requests /\ r.pc = "refusing"
        /\ r.intent = tx[t].intent /\ r.edit = tx[t].edit /\ r.answer = tx[t].answer
    BY ClaimedFacts DEF Requests
  <1>2. Alone(t, r)
    BY DEF Alone, Refuse, Step
  <1> HIDE DEF r
  <1>3. QED
    BY <1>1, <1>2, ClaimedFacts, CreatingKeeps

LEMMA InsertKeeps ==
  ASSUME Inv, NEW t \in Procs, tx[t].pc = "claimed", Insert(t), Untouched,
         tx[t].intent.kind = "client" =>
           ~NameTaken(tx[t].intent.name) /\ ~NameContested(tx[t].intent.name, t),
         tx[t].intent.kind = "lead" /\ tx[t].intent.target \in Reviews =>
           /\ reviews[tx[t].intent.target].status = "needs-review"
           /\ ~ReviewLocked(tx[t].intent.target, t)
  PROVE  Inv'
  <1> DEFINE r == [tx[t] EXCEPT !.pc = "written", !.next = NewRow(tx[t].intent)]
  <1>1. /\ r \in Requests /\ r.pc = "written" /\ r.next = NewRow(tx[t].intent)
        /\ r.intent = tx[t].intent /\ r.edit = tx[t].edit /\ r.answer = tx[t].answer
    <2>1. NewRow(tx[t].intent) \in Rows
      BY ClaimedFacts, IntentFacts
    <2>2. QED
      BY <2>1, ClaimedFacts DEF Requests
  <1>2. Alone(t, r)
    BY DEF Alone, Insert, Step
  <1> HIDE DEF r
  <1>3. QED
    BY <1>1, <1>2, ClaimedFacts, CreatingKeeps

LEMMA CreateKeeps ==
  ASSUME Inv, NEW t \in Procs,
         CreateClient(t) \/ CreateProject(t) \/ CreateMeeting(t) \/ CreateLead(t)
  PROVE  Inv'
  <1>1. tx[t].pc = "claimed" /\ Untouched
    BY DEF CreateClient, CreateProject, CreateMeeting, CreateLead, Claimed
  <1>2. CASE CreateClient(t)
    <2>1. tx[t].intent.kind = "client" /\ ~NameContested(tx[t].intent.name, t)
      BY <1>2 DEF CreateClient, Claimed
    <2>2. CASE NameTaken(tx[t].intent.name)
      BY <1>1, <1>2, <2>2, RefuseKeeps DEF CreateClient
    <2>3. CASE ~NameTaken(tx[t].intent.name)
      <3>1. Insert(t)
        BY <1>2, <2>3 DEF CreateClient
      <3>2. tx[t].intent.kind # "lead"
        BY <2>1
      <3>3. QED
        BY <1>1, <2>1, <2>3, <3>1, <3>2, InsertKeeps
    <2>4. QED
      BY <2>2, <2>3
  <1>3. CASE CreateProject(t) \/ CreateMeeting(t)
    <2>1. tx[t].intent.kind \in {"project", "meeting"} /\ (Refuse(t) \/ Insert(t))
      BY <1>3 DEF CreateProject, CreateMeeting, Claimed
    <2>2. tx[t].intent.kind # "client" /\ tx[t].intent.kind # "lead"
      BY <2>1
    <2>3. CASE Refuse(t)
      BY <1>1, <2>3, RefuseKeeps
    <2>4. CASE Insert(t)
      BY <1>1, <2>2, <2>4, InsertKeeps
    <2>5. QED
      BY <2>1, <2>3, <2>4
  <1>4. CASE CreateLead(t)
    <2>1. tx[t].intent.kind = "lead" /\ tx[t].intent.kind # "client"
      BY <1>4 DEF CreateLead, Claimed
    <2>2. CASE tx[t].intent.target \notin Reviews
      <3>1. Insert(t)
        BY <1>4, <2>2 DEF CreateLead
      <3>2. QED
        BY <1>1, <2>1, <2>2, <3>1, InsertKeeps
    <2>3. CASE tx[t].intent.target \in Reviews /\ reviews[tx[t].intent.target].status # "needs-review"
      <3>1. End(t, Verdict("review-not-found", Nothing))
        BY <1>4, <2>3 DEF CreateLead
      <3>2. QED
        BY <1>1, <3>1, TruthNeeded, EndKeeps
    <2>4. CASE tx[t].intent.target \in Reviews /\ reviews[tx[t].intent.target].status = "needs-review"
      <3>1. ~ReviewLocked(tx[t].intent.target, t) /\ Insert(t)
        BY <1>4, <2>4 DEF CreateLead
      <3>2. QED
        BY <1>1, <2>1, <2>4, <3>1, InsertKeeps
    <2>5. QED
      BY <2>2, <2>3, <2>4
  <1>5. QED
    BY <1>2, <1>3, <1>4

\* What a request that is about to commit a creation stands on.
LEMMA WrittenFacts ==
  ASSUME Inv, NEW t \in Procs, tx[t].pc = "written", tx[t].edit = Nothing
  PROVE  /\ tx[t] \in Requests /\ tx[t].intent \in Intents
         /\ tx[t].intent.key \in Keys
         /\ Creating(t)
         /\ idem[tx[t].intent.key] = Nothing
         /\ rows[t] = Nothing
         /\ tx[t].next = NewRow(tx[t].intent) /\ tx[t].next \in Rows
         /\ tx[t].next.kind = tx[t].intent.kind /\ tx[t].next.version = 1
  <1>1. tx[t] \in Requests /\ tx[t].intent # Nothing
    BY DEF Inv, TypeOK, ProgressIsSound
  <1>2. tx[t].intent \in Intents
    BY <1>1 DEF Requests
  <1>3. Creating(t)
    BY <1>1 DEF Creating
  <1>4. idem[tx[t].intent.key] = Nothing /\ tx[t].next = NewRow(tx[t].intent)
    BY <1>3 DEF Inv, LocksHold
  <1>5. rows[t] = Nothing
    <2>1. [intent |-> tx[t].intent, verdict |-> Verdict("completed", t)] # Nothing
      BY <1>2, AnswerFacts, NothingFacts
    <2>2. QED
      BY <1>4, <2>1 DEF Inv, OneRecordPerKey
  <1>6. QED
    BY <1>1, <1>2, <1>3, <1>4, <1>5, IntentFacts

\* A request that was told of its key was told of a key that is decided.
LEMMA ToldIsDecided ==
  ASSUME Inv, NEW u \in Procs, tx[u].intent # Nothing, tx[u].answer # Nothing,
         tx[u].answer.status \in {"completed", "failed"}
  PROVE  tx[u].intent.key \in Keys /\ idem[tx[u].intent.key] # Nothing
  <1>1. tx[u].intent \in Intents /\ tx[u].answer \in Answers
    BY DEF Inv, TypeOK, Requests
  <1>2. tx[u].intent.key \in Keys
    BY <1>1, IntentFacts
  <1>3. idem[tx[u].intent.key] = [intent |-> tx[u].intent, verdict |-> tx[u].answer]
    BY DEF Inv, AnswersAreTrue
  <1>4. QED
    BY <1>1, <1>2, <1>3, NothingFacts

\* What the request is left with when its COMMIT is answered or is not.
LEMMA HeardFacts ==
  ASSUME NEW t \in Procs, tx \in [Procs -> Requests], NEW answer \in Answers, Heard(t, answer)
  PROVE  /\ tx'[t] \in Requests /\ tx'[t].pc = "done"
         /\ tx'[t].answer \in {answer, Verdict("error", Nothing)}
         /\ tx'[t].intent = tx[t].intent /\ tx'[t].edit = tx[t].edit /\ tx'[t].seen = tx[t].seen
         /\ \A u \in Procs \ {t} : tx'[u] = tx[u]
         /\ tx' \in [Procs -> Requests]
  <1>1. PICK a \in {answer, Verdict("error", Nothing)} : End(t, a)
    BY DEF Heard
  <1> DEFINE r == [tx[t] EXCEPT !.pc = "done", !.next = Nothing, !.answer = a]
  <1>2. a \in Answers /\ tx[t] \in Requests
    BY <1>1, AnswerFacts
  <1>3. /\ r \in Requests /\ r.pc = "done" /\ r.answer = a /\ r.intent = tx[t].intent
        /\ r.edit = tx[t].edit /\ r.seen = tx[t].seen
    BY <1>2, EndFacts
  <1>4. tx' = [tx EXCEPT ![t] = r]
    BY <1>1 DEF End, Step
  <1> HIDE DEF r
  <1>5. QED
    BY <1>1, <1>3, <1>4

\* An open transaction after another's end is the transaction it was.
LEMMA OthersStand ==
  ASSUME NEW t \in Procs, tx'[t].pc = "done", \A u \in Procs \ {t} : tx'[u] = tx[u]
  PROVE  \A u \in Procs : /\ Creating(u)' => u # t /\ Creating(u)
                          /\ Editing(u)' => u # t /\ Editing(u)
                          /\ Deciding(u)' => u # t /\ Deciding(u)
                          /\ tx'[u].pc = "written" => u # t
  BY DEF Creating, Editing, Deciding

LEMMA CommitCreationKeeps ==
  ASSUME Inv, NEW t \in Procs, CommitCreation(t)
  PROVE  Inv'
  <1> DEFINE i == tx[t].intent
             row == tx[t].next
             done == Verdict("completed", t)
             entry == [intent |-> i, verdict |-> done]
             decides == i.kind = "lead" /\ i.target \in Reviews
  <1>1. tx[t].pc = "written" /\ tx[t].edit = Nothing
    BY DEF CommitCreation
  <1>2. /\ tx[t] \in Requests /\ i \in Intents /\ i.key \in Keys
        /\ Creating(t) /\ idem[i.key] = Nothing /\ rows[t] = Nothing
        /\ row = NewRow(i) /\ row \in Rows /\ row.kind = i.kind /\ row.version = 1
    BY <1>1, WrittenFacts
  <1>3. /\ rows' = [rows EXCEPT ![t] = row]
        /\ evidence' = [evidence EXCEPT ![t] = @ + 1]
        /\ events' = events \cup {t}
        /\ idem' = [idem EXCEPT ![i.key] = entry]
        /\ reviews' = IF decides THEN [reviews EXCEPT ![i.target] = Verdict("accepted", t)] ELSE reviews
        /\ Heard(t, done)
    BY DEF CommitCreation
  <1>4. done \in Answers /\ done \in Verdicts /\ entry \in [intent : Intents, verdict : Verdicts]
    BY <1>2, AnswerFacts
  <1>5. /\ rows \in [RecordIds -> Rows \cup {Nothing}] /\ tx \in [Procs -> Requests]
        /\ idem \in [Keys -> [intent : Intents, verdict : Verdicts] \cup {Nothing}]
        /\ evidence \in [RecordIds -> Nat] /\ t \in RecordIds
    BY DEF Inv, TypeOK, RecordIds
  <1>6. /\ tx'[t].pc = "done" /\ tx'[t].answer \in {done, Verdict("error", Nothing)}
        /\ tx'[t].intent = i /\ tx'[t].edit = Nothing
        /\ \A u \in Procs \ {t} : tx'[u] = tx[u]
        /\ tx' \in [Procs -> Requests]
    BY <1>1, <1>3, <1>4, <1>5, HeardFacts
  <1>7. /\ rows'[t] = row /\ \A id \in RecordIds \ {t} : rows'[id] = rows[id]
        /\ idem'[i.key] = entry /\ \A k \in Keys \ {i.key} : idem'[k] = idem[k]
        /\ entry # Nothing /\ row # Nothing /\ i # Nothing
    BY <1>2, <1>3, <1>4, <1>5, NothingFacts
  <1> HIDE DEF i, row, done, entry, decides
  <1>8. \A u \in Procs : tx'[u].intent = tx[u].intent /\ tx'[u].edit = tx[u].edit
    BY <1>1, <1>6 DEF i
  <1>9. \A u \in Procs : /\ Creating(u)' => u # t /\ Creating(u)
                         /\ Editing(u)' => u # t /\ Editing(u)
                         /\ Deciding(u)' => u # t /\ Deciding(u)
                         /\ tx'[u].pc = "written" => u # t
    BY <1>6, OthersStand
  <1>10. TypeOK'
    <2>1. rows' \in [RecordIds -> Rows \cup {Nothing}] /\ evidence' \in [RecordIds -> Nat]
      BY <1>2, <1>3, <1>5
    <2>2. idem' \in [Keys -> [intent : Intents, verdict : Verdicts] \cup {Nothing}]
      BY <1>2, <1>3, <1>4, <1>5
    <2>3. reviews' \in [Reviews -> [status : {"needs-review", "dismissed", "accepted"},
                                    record : Procs \cup {Nothing}]]
      BY <1>3 DEF Inv, TypeOK, Verdict
    <2>4. events' \subseteq Procs
      BY <1>3 DEF Inv, TypeOK
    <2>5. QED
      BY <1>6, <2>1, <2>2, <2>3, <2>4 DEF TypeOK
  <1>11. OneRecordPerKey'
    <2>1. ASSUME NEW u \in Procs, rows'[u] # Nothing
          PROVE  /\ tx'[u].intent # Nothing
                 /\ idem'[tx'[u].intent.key] = [intent |-> tx'[u].intent, verdict |-> Verdict("completed", u)]
      <3>1. CASE u = t
        BY <1>6, <1>7, <3>1 DEF entry, done
      <3>2. CASE u # t
        <4>1. rows[u] # Nothing
          BY <1>7, <2>1, <3>2 DEF RecordIds
        <4>2. /\ tx[u].intent # Nothing
              /\ idem[tx[u].intent.key] = [intent |-> tx[u].intent, verdict |-> Verdict("completed", u)]
          BY <4>1 DEF Inv, OneRecordPerKey
        <4>3. tx[u].intent \in Intents
          BY <1>5, <4>2 DEF Requests
        <4>4. [intent |-> tx[u].intent, verdict |-> Verdict("completed", u)] # Nothing
          BY <4>3, AnswerFacts, NothingFacts
        <4>5. tx[u].intent.key \in Keys /\ tx[u].intent.key # i.key
          BY <1>2, <4>2, <4>3, <4>4, IntentFacts
        <4>6. QED
          BY <1>7, <1>8, <4>2, <4>5
      <3>3. QED
        BY <3>1, <3>2
    <2>2. ASSUME NEW k \in Keys, idem'[k] # Nothing
          PROVE  /\ idem'[k].intent.key = k
                 /\ \/ idem'[k].verdict = Verdict("failed", Nothing)
                    \/ \E u \in Procs : /\ idem'[k].verdict = Verdict("completed", u)
                                        /\ rows'[u] # Nothing
                                        /\ rows'[u].kind = idem'[k].intent.kind
                                        /\ tx'[u].intent = idem'[k].intent
      <3>1. CASE k = i.key
        BY <1>2, <1>6, <1>7, <3>1 DEF entry, done
      <3>2. CASE k # i.key
        <4>1. idem'[k] = idem[k]
          BY <1>7, <3>2
        <4>2. CASE idem[k].verdict = Verdict("failed", Nothing)
          BY <2>2, <4>1, <4>2 DEF Inv, OneRecordPerKey
        <4>3. CASE idem[k].verdict # Verdict("failed", Nothing)
          <5>1. PICK u \in Procs : /\ idem[k].verdict = Verdict("completed", u)
                                   /\ rows[u] # Nothing
                                   /\ rows[u].kind = idem[k].intent.kind
                                   /\ tx[u].intent = idem[k].intent
            BY <2>2, <4>1, <4>3 DEF Inv, OneRecordPerKey
          <5>2. u # t /\ u \in RecordIds
            BY <1>2, <5>1 DEF RecordIds
          <5>3. rows'[u] = rows[u] /\ tx'[u] = tx[u]
            BY <1>6, <1>7, <5>2
          <5>4. idem[k].intent.key = k
            BY <2>2, <4>1 DEF Inv, OneRecordPerKey
          <5>5. QED
            BY <4>1, <5>1, <5>3, <5>4
        <4>4. QED
          BY <4>2, <4>3
      <3>3. QED
        BY <3>1, <3>2
    <2>3. QED
      BY <2>1, <2>2 DEF OneRecordPerKey
  <1>12. EvidenceIsComplete'
    <2>1. events' = {u \in Procs : rows'[u] # Nothing}
      BY <1>3, <1>7 DEF Inv, EvidenceIsComplete, RecordIds
    <2>2. evidence[t] = 0
      BY <1>2, <1>5 DEF Inv, EvidenceIsComplete
    <2>3. ASSUME NEW id \in RecordIds
          PROVE  evidence'[id] = IF rows'[id] = Nothing THEN 0 ELSE rows'[id].version
      <3>1. CASE id = t
        BY <1>2, <1>3, <1>5, <1>7, <2>2, <3>1
      <3>2. CASE id # t
        BY <1>3, <1>5, <1>7, <3>2 DEF Inv, EvidenceIsComplete
      <3>3. QED
        BY <3>1, <3>2
    <2>4. QED
      BY <2>1, <2>3 DEF EvidenceIsComplete
  <1>13. row.kind = "client" =>
           /\ \A id \in RecordIds : rows[id] # Nothing /\ rows[id].kind = "client"
                                    => rows[id].cols["name"] # row.cols["name"]
           /\ \A u \in Procs \ {t} : tx[u].pc = "written" /\ tx[u].next.kind = "client"
                                    => tx[u].next.cols["name"] # row.cols["name"]
    BY <1>1 DEF Inv, NamesReserved, row
  <1>14. NamesAreUnique'
    BY <1>7, <1>13 DEF Inv, NamesAreUnique
  <1>15. ReviewsDecidedOnce'
    <2>1. ASSUME NEW q \in Reviews, NEW u \in Procs
          PROVE  (rows'[u] # Nothing /\ tx'[u].intent.kind = "lead" /\ tx'[u].intent.target = q)
                 <=> reviews'[q] = Verdict("accepted", u)
      <3>1. CASE decides /\ q = i.target
        <4>1. Deciding(t)
          BY <1>1, <1>7, <3>1 DEF Deciding, decides, i
        <4>2. reviews[q].status = "needs-review"
          BY <3>1, <4>1 DEF Inv, LocksHold, i
        <4>3. \A w \in Procs : ~(rows[w] # Nothing /\ tx[w].intent.kind = "lead" /\ tx[w].intent.target = q)
          <5>1. \A w \in Procs : reviews[q] # Verdict("accepted", w)
            BY <4>2 DEF Verdict
          <5>2. QED
            BY <5>1 DEF Inv, ReviewsDecidedOnce
        <4>4. reviews'[q] = Verdict("accepted", t)
          BY <1>3, <3>1 DEF Inv, TypeOK
        <4>5. u # t => rows'[u] = rows[u]
          BY <1>7 DEF RecordIds
        <4>6. Verdict("accepted", t) = Verdict("accepted", u) <=> u = t
          BY DEF Verdict
        <4>7. rows'[t] # Nothing /\ tx'[t].intent.kind = "lead" /\ tx'[t].intent.target = q
          BY <1>6, <1>7, <3>1 DEF decides
        <4>8. QED
          BY <1>8, <4>3, <4>4, <4>5, <4>6, <4>7
      <3>2. CASE ~(decides /\ q = i.target)
        <4>1. reviews'[q] = reviews[q]
          BY <1>3, <3>2 DEF Inv, TypeOK
        <4>2. CASE u = t
          <5>1. reviews[q] # Verdict("accepted", t)
            BY <1>2 DEF Inv, ReviewsDecidedOnce
          <5>2. ~(tx'[t].intent.kind = "lead" /\ tx'[t].intent.target = q)
            BY <1>6, <3>2 DEF decides
          <5>3. QED
            BY <4>1, <4>2, <5>1, <5>2
        <4>3. CASE u # t
          BY <1>7, <1>8, <4>1, <4>3 DEF Inv, ReviewsDecidedOnce, RecordIds
        <4>4. QED
          BY <4>2, <4>3
      <3>3. QED
        BY <3>1, <3>2
    <2>2. QED
      BY <2>1 DEF ReviewsDecidedOnce
  <1>16. AnswersAreTrue'
    <2>1. ASSUME NEW u \in Procs, tx'[u].intent # Nothing, tx'[u].answer # Nothing,
                 tx'[u].answer.status \in {"completed", "failed"}
          PROVE  idem'[tx'[u].intent.key] = [intent |-> tx'[u].intent, verdict |-> tx'[u].answer]
      <3>1. CASE u = t
        <4>1. tx'[t].answer = done
          BY <1>6, <2>1, <3>1, TruthNeeded
        <4>2. QED
          BY <1>6, <1>7, <3>1, <4>1 DEF entry
      <3>2. CASE u # t
        <4>1. tx'[u] = tx[u]
          BY <1>6, <3>2
        <4>2. idem[tx[u].intent.key] = [intent |-> tx[u].intent, verdict |-> tx[u].answer]
          BY <2>1, <4>1 DEF Inv, AnswersAreTrue
        <4>3. tx[u].intent.key \in Keys /\ idem[tx[u].intent.key] # Nothing
          BY <2>1, <4>1, ToldIsDecided
        <4>4. QED
          BY <1>2, <1>7, <4>1, <4>2, <4>3
      <3>3. QED
        BY <3>1, <3>2
    <2>2. QED
      BY <2>1 DEF AnswersAreTrue
  <1>17. ProgressIsSound'
    <2>1. tx'[t].answer # Nothing
      BY <1>4, <1>6, AnswerFacts, NothingFacts
    <2>2. QED
      BY <1>6, <1>7, <2>1 DEF Inv, ProgressIsSound
  <1>18. LocksHold'
    <2>1. ASSUME NEW u \in Procs
          PROVE  /\ Creating(u)' => idem'[tx'[u].intent.key] = Nothing
                 /\ Creating(u)' /\ tx'[u].pc = "written" => tx'[u].next = NewRow(tx'[u].intent)
                 /\ Deciding(u)' => reviews'[tx'[u].intent.target].status = "needs-review"
      <3>1. SUFFICES ASSUME u # t
                     PROVE  /\ Creating(u) => idem'[tx[u].intent.key] = Nothing
                            /\ Creating(u) /\ tx[u].pc = "written" => tx[u].next = NewRow(tx[u].intent)
                            /\ Deciding(u) => reviews'[tx[u].intent.target].status = "needs-review"
        BY <1>6 DEF Creating, Deciding
      <3>2. Creating(u) => idem'[tx[u].intent.key] = Nothing
        <4>1. SUFFICES ASSUME Creating(u) PROVE idem'[tx[u].intent.key] = Nothing
          OBVIOUS
        <4>2. tx[u].intent.key # i.key /\ idem[tx[u].intent.key] = Nothing
          BY <1>2, <3>1, <4>1 DEF Inv, LocksHold, i
        <4>3. tx[u].intent \in Intents
          BY <1>5, <4>1 DEF Creating, Requests
        <4>4. QED
          BY <1>7, <4>2, <4>3, IntentFacts
      <3>3. Deciding(u) => reviews'[tx[u].intent.target].status = "needs-review"
        <4>1. SUFFICES ASSUME Deciding(u) PROVE reviews'[tx[u].intent.target].status = "needs-review"
          OBVIOUS
        <4>2. decides => Deciding(t)
          BY <1>1, <1>7 DEF Deciding, decides, i
        <4>3. decides => tx[u].intent.target # i.target
          BY <3>1, <4>1, <4>2 DEF Inv, LocksHold, i
        <4>4. reviews[tx[u].intent.target].status = "needs-review" /\ tx[u].intent.target \in Reviews
          BY <4>1 DEF Inv, LocksHold, Deciding
        <4>5. QED
          BY <1>3, <4>3, <4>4 DEF Inv, TypeOK
      <3>4. QED
        BY <3>2, <3>3 DEF Inv, LocksHold
    <2>2. ASSUME NEW u \in Procs, NEW w \in Procs
          PROVE  /\ Creating(u)' /\ Creating(w)' /\ tx'[u].intent.key = tx'[w].intent.key => u = w
                 /\ Editing(u)' /\ Editing(w)' /\ tx'[u].edit.target = tx'[w].edit.target => u = w
                 /\ Deciding(u)' /\ Deciding(w)' /\ tx'[u].intent.target = tx'[w].intent.target => u = w
      BY <1>6 DEF Inv, LocksHold, Creating, Editing, Deciding
    <2>3. QED
      BY <2>1, <2>2 DEF LocksHold
  <1>19. SnapshotsAreExact'
    <2>1. ASSUME NEW u \in Procs, tx'[u].edit # Nothing
          PROVE  /\ u # t /\ tx'[u] = tx[u] /\ rows'[tx[u].edit.target] = rows[tx[u].edit.target]
      <3>1. u # t /\ tx'[u] = tx[u]
        BY <1>6, <2>1
      <3>2. tx[u].edit \in Edits
        BY <1>5, <2>1, <3>1 DEF Requests
      <3>3. rows[tx[u].edit.target] # Nothing /\ tx[u].edit.target \in RecordIds
        BY <2>1, <3>1, <3>2, EditFacts DEF Inv, SnapshotsAreExact
      <3>4. QED
        BY <1>2, <1>7, <3>1, <3>3
    <2>2. QED
      BY <2>1 DEF Inv, SnapshotsAreExact, Editing
  <1>20. NamesReserved'
    <2>1. ASSUME NEW u \in Procs, tx'[u].pc = "written", tx'[u].next.kind = "client"
          PROVE  /\ \A id \in RecordIds :
                      rows'[id] # Nothing /\ rows'[id].kind = "client"
                      /\ rows'[id].cols["name"] = tx'[u].next.cols["name"]
                      => tx'[u].edit # Nothing /\ tx'[u].edit.target = id
                 /\ \A w \in Procs \ {u} : tx'[w].pc = "written" /\ tx'[w].next.kind = "client"
                                          => tx'[w].next.cols["name"] # tx'[u].next.cols["name"]
      <3>1. u # t /\ tx'[u] = tx[u]
        BY <1>6, <1>9, <2>1
      <3>2. rows'[t].kind = "client" => tx[u].next.cols["name"] # rows'[t].cols["name"]
        BY <1>7, <1>13, <2>1, <3>1
      <3>3. \A id \in RecordIds :
              rows'[id] # Nothing /\ rows'[id].kind = "client"
              /\ rows'[id].cols["name"] = tx'[u].next.cols["name"]
              => tx'[u].edit # Nothing /\ tx'[u].edit.target = id
        BY <1>7, <2>1, <3>1, <3>2 DEF Inv, NamesReserved
      <3>4. \A w \in Procs \ {u} : tx'[w].pc = "written" /\ tx'[w].next.kind = "client"
                                  => tx'[w].next.cols["name"] # tx'[u].next.cols["name"]
        BY <1>6, <1>9, <2>1, <3>1 DEF Inv, NamesReserved
      <3>5. QED
        BY <3>3, <3>4
    <2>2. QED
      BY <2>1 DEF NamesReserved
  <1>21. QED
    BY <1>10, <1>11, <1>12, <1>14, <1>15, <1>16, <1>17, <1>18, <1>19, <1>20 DEF Inv

LEMMA CommitRefusalKeeps ==
  ASSUME Inv, NEW t \in Procs, CommitRefusal(t)
  PROVE  Inv'
  <1> DEFINE i == tx[t].intent
             failed == Verdict("failed", Nothing)
             entry == [intent |-> i, verdict |-> failed]
  <1>1. tx[t] \in Requests /\ tx[t].pc = "refusing" /\ i \in Intents
    BY DEF Inv, TypeOK, ProgressIsSound, CommitRefusal, Requests
  <1>2. i.key \in Keys /\ i # Nothing /\ idem[i.key] = Nothing /\ Creating(t)
    <2>1. Creating(t)
      BY <1>1, NothingFacts DEF Creating
    <2>2. QED
      BY <1>1, <2>1, IntentFacts, NothingFacts DEF Inv, LocksHold
  <1>3. /\ idem' = [idem EXCEPT ![i.key] = entry] /\ Heard(t, failed)
        /\ rows' = rows /\ reviews' = reviews /\ events' = events /\ evidence' = evidence
    BY DEF CommitRefusal
  <1>4. failed \in Answers /\ failed \in Verdicts /\ entry \in [intent : Intents, verdict : Verdicts]
    BY <1>1, AnswerFacts
  <1>5. tx \in [Procs -> Requests] /\ idem \in [Keys -> [intent : Intents, verdict : Verdicts] \cup {Nothing}]
    BY DEF Inv, TypeOK
  <1>6. /\ tx'[t].pc = "done" /\ tx'[t].answer \in {failed, Verdict("error", Nothing)}
        /\ tx'[t].intent = i /\ tx'[t].edit = tx[t].edit /\ tx'[t].seen = tx[t].seen
        /\ \A u \in Procs \ {t} : tx'[u] = tx[u]
        /\ tx' \in [Procs -> Requests]
    BY <1>3, <1>4, <1>5, HeardFacts
  <1>7. idem'[i.key] = entry /\ entry # Nothing /\ \A k \in Keys \ {i.key} : idem'[k] = idem[k]
    BY <1>2, <1>3, <1>4, <1>5, NothingFacts
  <1>8. tx[t].edit = Nothing
    BY <1>2 DEF Inv, ProgressIsSound
  <1> HIDE DEF i, failed, entry
  <1>9. \A u \in Procs : tx'[u].intent = tx[u].intent /\ tx'[u].edit = tx[u].edit
    BY <1>6 DEF i
  <1>10. TypeOK'
    BY <1>2, <1>3, <1>4, <1>5, <1>6 DEF Inv, TypeOK
  <1>11. OneRecordPerKey'
    <2>1. ASSUME NEW u \in Procs, rows[u] # Nothing
          PROVE  /\ tx'[u].intent # Nothing
                 /\ idem'[tx'[u].intent.key] = [intent |-> tx'[u].intent, verdict |-> Verdict("completed", u)]
      <3>1. /\ tx[u].intent # Nothing
            /\ idem[tx[u].intent.key] = [intent |-> tx[u].intent, verdict |-> Verdict("completed", u)]
        BY <2>1 DEF Inv, OneRecordPerKey
      <3>2. tx[u].intent \in Intents
        BY <1>5, <3>1 DEF Requests
      <3>3. [intent |-> tx[u].intent, verdict |-> Verdict("completed", u)] # Nothing
        BY <3>2, AnswerFacts, NothingFacts
      <3>4. tx[u].intent.key \in Keys /\ tx[u].intent.key # i.key
        BY <1>2, <3>1, <3>2, <3>3, IntentFacts
      <3>5. QED
        BY <1>7, <1>9, <3>1, <3>4
    <2>2. ASSUME NEW k \in Keys, idem'[k] # Nothing
          PROVE  /\ idem'[k].intent.key = k
                 /\ \/ idem'[k].verdict = Verdict("failed", Nothing)
                    \/ \E u \in Procs : /\ idem'[k].verdict = Verdict("completed", u)
                                        /\ rows[u] # Nothing
                                        /\ rows[u].kind = idem'[k].intent.kind
                                        /\ tx'[u].intent = idem'[k].intent
      <3>1. CASE k = i.key
        BY <1>7, <3>1 DEF entry, failed
      <3>2. CASE k # i.key
        BY <1>7, <1>9, <2>2, <3>2 DEF Inv, OneRecordPerKey
      <3>3. QED
        BY <3>1, <3>2
    <2>3. QED
      BY <1>3, <2>1, <2>2 DEF OneRecordPerKey
  <1>12. EvidenceIsComplete' /\ NamesAreUnique'
    BY <1>3 DEF Inv, EvidenceIsComplete, NamesAreUnique
  <1>13. ReviewsDecidedOnce'
    BY <1>3, <1>9 DEF Inv, ReviewsDecidedOnce
  <1>14. AnswersAreTrue'
    <2>1. ASSUME NEW u \in Procs, tx'[u].intent # Nothing, tx'[u].answer # Nothing,
                 tx'[u].answer.status \in {"completed", "failed"}
          PROVE  idem'[tx'[u].intent.key] = [intent |-> tx'[u].intent, verdict |-> tx'[u].answer]
      <3>1. CASE u = t
        <4>1. tx'[t].answer = failed
          BY <1>6, <2>1, <3>1, TruthNeeded
        <4>2. QED
          BY <1>6, <1>7, <3>1, <4>1 DEF entry
      <3>2. CASE u # t
        <4>1. tx'[u] = tx[u]
          BY <1>6, <3>2
        <4>2. idem[tx[u].intent.key] = [intent |-> tx[u].intent, verdict |-> tx[u].answer]
          BY <2>1, <4>1 DEF Inv, AnswersAreTrue
        <4>3. tx[u].intent.key \in Keys /\ idem[tx[u].intent.key] # Nothing
          BY <2>1, <4>1, ToldIsDecided
        <4>4. QED
          BY <1>2, <1>7, <4>1, <4>2, <4>3
      <3>3. QED
        BY <3>1, <3>2
    <2>2. QED
      BY <2>1 DEF AnswersAreTrue
  <1>15. ProgressIsSound'
    <2>1. tx'[t].answer # Nothing
      BY <1>4, <1>6, AnswerFacts, NothingFacts
    <2>2. QED
      BY <1>2, <1>6, <1>8, <2>1 DEF Inv, ProgressIsSound
  <1>16. LocksHold'
    <2>1. ASSUME NEW u \in Procs
          PROVE  /\ Creating(u)' => idem'[tx'[u].intent.key] = Nothing
                 /\ Creating(u)' /\ tx'[u].pc = "written" => tx'[u].next = NewRow(tx'[u].intent)
                 /\ Deciding(u)' => reviews'[tx'[u].intent.target].status = "needs-review"
      <3>1. SUFFICES ASSUME u # t
                     PROVE  /\ Creating(u) => idem'[tx[u].intent.key] = Nothing
                            /\ Creating(u) /\ tx[u].pc = "written" => tx[u].next = NewRow(tx[u].intent)
                            /\ Deciding(u) => reviews'[tx[u].intent.target].status = "needs-review"
        BY <1>6 DEF Creating, Deciding
      <3>2. Creating(u) => idem'[tx[u].intent.key] = Nothing
        <4>1. SUFFICES ASSUME Creating(u) PROVE idem'[tx[u].intent.key] = Nothing
          OBVIOUS
        <4>2. tx[u].intent.key # i.key /\ idem[tx[u].intent.key] = Nothing
          BY <1>2, <3>1, <4>1 DEF Inv, LocksHold, i
        <4>3. tx[u].intent \in Intents
          BY <1>5, <4>1 DEF Creating, Requests
        <4>4. QED
          BY <1>7, <4>2, <4>3, IntentFacts
      <3>3. QED
        BY <1>3, <3>2 DEF Inv, LocksHold
    <2>2. ASSUME NEW u \in Procs, NEW w \in Procs
          PROVE  /\ Creating(u)' /\ Creating(w)' /\ tx'[u].intent.key = tx'[w].intent.key => u = w
                 /\ Editing(u)' /\ Editing(w)' /\ tx'[u].edit.target = tx'[w].edit.target => u = w
                 /\ Deciding(u)' /\ Deciding(w)' /\ tx'[u].intent.target = tx'[w].intent.target => u = w
      BY <1>6 DEF Inv, LocksHold, Creating, Editing, Deciding
    <2>3. QED
      BY <2>1, <2>2 DEF LocksHold
  <1>17. SnapshotsAreExact'
    <2>1. ASSUME NEW u \in Procs, tx'[u].edit # Nothing
          PROVE  tx'[u] = tx[u]
      BY <1>6, <1>8, <2>1
    <2>2. QED
      BY <1>3, <2>1 DEF Inv, SnapshotsAreExact, Editing
  <1>18. NamesReserved'
    <2>1. ASSUME NEW u \in Procs, tx'[u].pc = "written"
          PROVE  u # t /\ tx'[u] = tx[u]
      BY <1>6, <2>1
    <2>2. QED
      BY <1>3, <2>1 DEF Inv, NamesReserved
  <1>19. QED
    BY <1>10, <1>11, <1>12, <1>13, <1>14, <1>15, <1>16, <1>17, <1>18 DEF Inv

LEMMA DismissReviewKeeps ==
  ASSUME Inv, NEW r \in Reviews, DismissReview(r)
  PROVE  Inv'
  <1> DEFINE dismissed == Verdict("dismissed", Nothing)
  <1>1. /\ reviews[r].status = "needs-review"
        /\ reviews' = [reviews EXCEPT ![r] = dismissed]
        /\ rows' = rows /\ idem' = idem /\ events' = events /\ evidence' = evidence /\ tx' = tx
    BY DEF DismissReview
  <1>2. TypeOK'
    BY <1>1 DEF Inv, TypeOK, Verdict
  <1>3. ReviewsDecidedOnce'
    <2>1. ASSUME NEW u \in Procs
          PROVE  reviews[r] # Verdict("accepted", u) /\ dismissed # Verdict("accepted", u)
      BY <1>1 DEF Verdict
    <2>2. \A q \in Reviews, u \in Procs : reviews'[q] = Verdict("accepted", u) <=> reviews[q] = Verdict("accepted", u)
      BY <1>1, <2>1 DEF Inv, TypeOK
    <2>3. QED
      BY <1>1, <2>2 DEF Inv, ReviewsDecidedOnce
  <1>4. LocksHold'
    <2>1. \A u \in Procs : Deciding(u) => tx[u].intent.target # r /\ tx[u].intent.target \in Reviews
      BY DEF DismissReview, Deciding
    <2>2. QED
      BY <1>1, <2>1 DEF Inv, LocksHold, Creating, Editing, Deciding, TypeOK
  <1>5. QED
    BY <1>1, <1>2, <1>3, <1>4 DEF Inv, OneRecordPerKey, EvidenceIsComplete, NamesAreUnique,
       AnswersAreTrue, ProgressIsSound, SnapshotsAreExact, NamesReserved, Editing

-----------------------------------------------------------------------------
(* Edits *)

\* What a request that edits stands on.
LEMMA EditingFacts ==
  ASSUME Inv, NEW t \in Procs, tx[t].edit # Nothing
  PROVE  /\ tx[t] \in Requests /\ tx[t].edit \in Edits /\ tx[t].intent = Nothing
         /\ tx[t].edit.target \in RecordIds
         /\ rows[tx[t].edit.target] \in Rows /\ rows[tx[t].edit.target] # Nothing
  <1>1. tx[t] \in Requests /\ tx[t].intent = Nothing
    BY DEF Inv, TypeOK, ProgressIsSound
  <1>2. tx[t].edit \in Edits
    BY <1>1 DEF Requests
  <1>3. tx[t].edit.target \in RecordIds
    BY <1>2, EditFacts
  <1>4. rows[tx[t].edit.target] # Nothing
    BY DEF Inv, SnapshotsAreExact
  <1>5. QED
    BY <1>1, <1>2, <1>3, <1>4 DEF Inv, TypeOK

\* A request that has only read holds nothing.
LEMMA ReadingKeeps ==
  ASSUME Inv, NEW t \in Procs, NEW r \in Requests, Alone(t, r),
         tx[t].intent = Nothing, r.intent = Nothing, r.edit # Nothing, r.answer = Nothing,
         r.pc \in {"loaded", "read"},
         rows[r.edit.target] # Nothing, r.seen # Nothing,
         rows[r.edit.target].version >= r.seen.version,
         rows[r.edit.target].version = r.seen.version => rows[r.edit.target] = r.seen,
         r.pc = "read" =>
           /\ r.base # Nothing
           /\ rows[r.edit.target].version >= r.base.version
           /\ rows[r.edit.target].version = r.base.version => rows[r.edit.target] = r.base
           /\ r.edit.versioned => r.base = r.seen
  PROVE  Inv'
  <1>1. /\ TypeOK' /\ OneRecordPerKey' /\ EvidenceIsComplete' /\ NamesAreUnique' /\ ReviewsDecidedOnce'
        /\ tx'[t] = r /\ \A u \in Procs \ {t} : tx'[u] = tx[u]
    BY AloneKeeps
  <1>2. LocksHold' /\ NamesReserved'
    BY QuietKeeps
  <1>3. rows' = rows /\ idem' = idem
    BY DEF Alone, Untouched
  <1>4. AnswersAreTrue'
    BY <1>1, <1>3 DEF Inv, AnswersAreTrue
  <1>5. ProgressIsSound'
    BY <1>1 DEF Inv, ProgressIsSound
  <1>6. SnapshotsAreExact'
    BY <1>1, <1>3 DEF Inv, SnapshotsAreExact, Editing
  <1>7. QED
    BY <1>1, <1>2, <1>4, <1>5, <1>6 DEF Inv

LEMMA LoadKeeps ==
  ASSUME Inv, NEW t \in Procs, NEW e \in Edits, Load(t, e)
  PROVE  Inv'
  <1> DEFINE r == [tx[t] EXCEPT !.pc = "loaded", !.edit = e, !.seen = rows[e.target]]
  <1>1. tx[t] \in Requests /\ tx[t] = Idle
    BY DEF Inv, TypeOK, ProgressIsSound, Load
  <1>2. e.target \in RecordIds /\ rows[e.target] # Nothing /\ rows[e.target] \in Rows /\ e # Nothing
    BY NothingFacts DEF Load, Is, Inv, TypeOK
  <1>3. tx[t].intent = Nothing /\ tx[t].answer = Nothing
    BY <1>1 DEF Idle
  <1>4. /\ r \in Requests /\ r.pc = "loaded" /\ r.edit = e /\ r.seen = rows[e.target]
        /\ r.intent = Nothing /\ r.answer = Nothing
    BY <1>1, <1>2, <1>3 DEF Requests
  <1>5. Alone(t, r)
    BY DEF Alone, Load, Step
  <1>6. rows[e.target].version \in Nat
    BY <1>2 DEF Rows
  <1> HIDE DEF r
  <1>7. QED
    BY <1>2, <1>3, <1>4, <1>5, <1>6, ReadingKeeps

\* A request that has loaded its form reads the row anew.
LEMMA BaseKeeps ==
  ASSUME Inv, NEW t \in Procs, tx[t].pc = "loaded", NEW base \in Rows,
         Step(t, [tx[t] EXCEPT !.pc = "read", !.base = base]), Untouched,
         rows[tx[t].edit.target].version >= base.version,
         rows[tx[t].edit.target].version = base.version => rows[tx[t].edit.target] = base,
         tx[t].edit.versioned => base = tx[t].seen
  PROVE  Inv'
  <1> DEFINE r == [tx[t] EXCEPT !.pc = "read", !.base = base]
  <1>1. tx[t].edit # Nothing /\ tx[t].answer = Nothing
    BY DEF Inv, ProgressIsSound
  <1>2. /\ r \in Requests /\ r.pc = "read" /\ r.base = base /\ r.edit = tx[t].edit
        /\ r.seen = tx[t].seen /\ r.intent = Nothing /\ r.answer = Nothing /\ tx[t].intent = Nothing
    BY <1>1, EditingFacts DEF Requests
  <1>3. Alone(t, r)
    BY DEF Alone, Step
  <1>4. base # Nothing
    BY NothingFacts
  <1>5. /\ rows[tx[t].edit.target] # Nothing /\ tx[t].seen # Nothing
        /\ rows[tx[t].edit.target].version >= tx[t].seen.version
        /\ rows[tx[t].edit.target].version = tx[t].seen.version => rows[tx[t].edit.target] = tx[t].seen
    BY <1>1 DEF Inv, SnapshotsAreExact
  <1> HIDE DEF r
  <1>6. QED
    BY <1>1, <1>2, <1>3, <1>4, <1>5, ReadingKeeps

LEMMA FindKeeps ==
  ASSUME Inv, NEW t \in Procs, NEW op \in Operations, FindFor(t, op)
  PROVE  Inv'
  <1> DEFINE row == rows[tx[t].edit.target]
  <1>1. tx[t].pc = "loaded" /\ tx[t].edit # Nothing /\ Untouched
    BY DEF Inv, ProgressIsSound, FindFor
  <1>2. row \in Rows
    BY <1>1, EditingFacts
  <1>3. CASE tx[t].edit.versioned /\ row.version # tx[t].seen.version
    <2>1. End(t, Verdict("conflict", Nothing))
      BY <1>3 DEF FindFor
    <2>2. QED
      BY <1>1, <2>1, TruthNeeded, EndKeeps
  <1>4. CASE ~(tx[t].edit.versioned /\ row.version # tx[t].seen.version)
    <2>1. CASE Merged(row, tx[t].edit.patch) = row.cols
      <3>1. End(t, Verdict("unchanged", Nothing))
        BY <1>4, <2>1 DEF FindFor
      <3>2. QED
        BY <1>1, <3>1, TruthNeeded, EndKeeps
    <2>2. CASE Merged(row, tx[t].edit.patch) # row.cols
      <3>1. Step(t, [tx[t] EXCEPT !.pc = "read", !.base = row])
        BY <1>4, <2>2 DEF FindFor
      <3>2. row.version \in Nat
        BY <1>2 DEF Rows
      <3>3. tx[t].edit.versioned => row = tx[t].seen
        BY <1>1, <1>4 DEF Inv, SnapshotsAreExact
      <3>4. row.version >= row.version
        BY <3>2
      <3> HIDE DEF row
      <3>5. QED
        BY <1>1, <1>2, <3>1, <3>3, <3>4, BaseKeeps DEF row
    <2>3. QED
      BY <2>1, <2>2
  <1>5. QED
    BY <1>3, <1>4

LEMMA ExpectedVersionKeeps ==
  ASSUME Inv, NEW t \in Procs, ExpectedVersion(t)
  PROVE  Inv'
  <1> DEFINE row == rows[tx[t].edit.target]
             base == IF tx[t].edit.versioned THEN tx[t].seen ELSE row
  <1>1. tx[t].pc = "loaded" /\ tx[t].edit # Nothing /\ Untouched
    BY DEF Inv, ProgressIsSound, ExpectedVersion
  <1>2. row \in Rows /\ row.version \in Nat /\ tx[t] \in Requests
    BY <1>1, EditingFacts DEF Rows
  <1>3. tx[t].seen \in Rows /\ row.version >= tx[t].seen.version
        /\ (row.version = tx[t].seen.version => row = tx[t].seen)
    BY <1>1, <1>2 DEF Inv, SnapshotsAreExact, Requests
  <1>4. /\ base \in Rows /\ row.version >= base.version
        /\ row.version = base.version => row = base
        /\ tx[t].edit.versioned => base = tx[t].seen
    BY <1>2, <1>3
  <1>5. Step(t, [tx[t] EXCEPT !.pc = "read", !.base = base])
    BY DEF ExpectedVersion
  <1> HIDE DEF base
  <1>6. QED
    BY <1>1, <1>4, <1>5, BaseKeeps

\* The row an edit is about to commit.
NextRow(row, patch) == [kind |-> row.kind, version |-> row.version + 1, cols |-> Merged(row, patch)]

LEMMA NextRowFacts ==
  ASSUME NEW row \in Rows, NEW patch \in Patches
  PROVE  /\ NextRow(row, patch) \in Rows
         /\ NextRow(row, patch).kind = row.kind /\ NextRow(row, patch).version = row.version + 1
         /\ NextRow(row, patch).cols = Merged(row, patch)
  <1>1. Merged(row, patch) \in [Cols -> Values]
    BY MergedFacts
  <1>2. row.kind \in Kinds /\ row.version + 1 \in Nat \ {0}
    BY DEF Rows
  <1>3. QED
    BY <1>1, <1>2 DEF NextRow, Rows

\* A request that holds the row it has read, and its new name once the row
\* is written.
LEMMA WritingKeeps ==
  ASSUME Inv, NEW t \in Procs, NEW r \in Requests, Alone(t, r),
         tx[t].edit # Nothing, tx[t].pc \in {"read", "locked"},
         r.intent = tx[t].intent, r.edit = tx[t].edit, r.seen = tx[t].seen, r.base = tx[t].base,
         r.answer = Nothing, r.pc \in {"locked", "written"},
         rows[tx[t].edit.target] = tx[t].base,
         r.next = NextRow(rows[tx[t].edit.target], tx[t].edit.patch),
         ~RowLocked(tx[t].edit.target, t),
         r.pc = "written" /\ r.next.kind = "client" =>
           \/ r.next.cols["name"] = rows[tx[t].edit.target].cols["name"]
           \/ ~NameTaken(r.next.cols["name"]) /\ ~NameContested(r.next.cols["name"], t)
  PROVE  Inv'
  <1> DEFINE id == tx[t].edit.target
  <1>1. /\ TypeOK' /\ OneRecordPerKey' /\ EvidenceIsComplete' /\ NamesAreUnique' /\ ReviewsDecidedOnce'
        /\ tx'[t] = r /\ \A u \in Procs \ {t} : tx'[u] = tx[u]
    BY AloneKeeps
  <1>2. rows' = rows /\ idem' = idem /\ reviews' = reviews
    BY DEF Alone, Untouched
  <1>3. /\ tx[t].intent = Nothing /\ tx[t].edit \in Edits /\ id \in RecordIds
        /\ rows[id] \in Rows /\ rows[id] # Nothing
    BY EditingFacts
  <1>4. r.next \in Rows /\ r.next.kind = rows[id].kind
    BY <1>3, EditFacts, NextRowFacts
  <1>5. \A u \in Procs \ {t} : Editing(u) => tx[u].edit.target # id
    BY DEF RowLocked
  <1>6. AnswersAreTrue'
    BY <1>1, <1>2 DEF Inv, AnswersAreTrue
  <1>7. ProgressIsSound'
    BY <1>1, <1>3 DEF Inv, ProgressIsSound
  <1>8. LocksHold'
    <2>1. ASSUME NEW u \in Procs
          PROVE  /\ Creating(u)' => idem'[tx'[u].intent.key] = Nothing
                 /\ Creating(u)' /\ tx'[u].pc = "written" => tx'[u].next = NewRow(tx'[u].intent)
                 /\ Deciding(u)' => reviews'[tx'[u].intent.target].status = "needs-review"
      BY <1>1, <1>2, <1>3 DEF Inv, LocksHold, Creating, Deciding
    <2>2. ASSUME NEW u \in Procs, NEW w \in Procs
          PROVE  /\ Creating(u)' /\ Creating(w)' /\ tx'[u].intent.key = tx'[w].intent.key => u = w
                 /\ Deciding(u)' /\ Deciding(w)' /\ tx'[u].intent.target = tx'[w].intent.target => u = w
      BY <1>1, <1>3 DEF Inv, LocksHold, Creating, Deciding
    <2>3. ASSUME NEW u \in Procs, NEW w \in Procs
          PROVE  Editing(u)' /\ Editing(w)' /\ tx'[u].edit.target = tx'[w].edit.target => u = w
      BY <1>1, <1>5 DEF Inv, LocksHold, Editing
    <2>4. QED
      BY <2>1, <2>2, <2>3 DEF LocksHold
  <1>9. SnapshotsAreExact'
    <2>1. ASSUME NEW u \in Procs \ {t}, tx[u].edit # Nothing
          PROVE  /\ tx'[u] = tx[u] /\ rows'[tx[u].edit.target] = rows[tx[u].edit.target]
      BY <1>1, <1>2
    <2>2. /\ tx[t].seen # Nothing /\ tx[t].base # Nothing
          /\ rows[id].version >= tx[t].seen.version
          /\ rows[id].version = tx[t].seen.version => rows[id] = tx[t].seen
          /\ rows[id].version >= tx[t].base.version
          /\ tx[t].edit.versioned => tx[t].base = tx[t].seen
      BY DEF Inv, SnapshotsAreExact
    <2>3. QED
      BY <1>1, <1>2, <1>3, <2>1, <2>2 DEF Inv, SnapshotsAreExact, Editing, NextRow
  <1>10. NamesReserved'
    <2>1. ASSUME r.pc = "written", r.next.kind = "client"
          PROVE  /\ \A d \in RecordIds :
                      rows[d] # Nothing /\ rows[d].kind = "client" /\ rows[d].cols["name"] = r.next.cols["name"]
                      => d = id
                 /\ \A u \in Procs \ {t} : tx[u].pc = "written" /\ tx[u].next.kind = "client"
                                          => tx[u].next.cols["name"] # r.next.cols["name"]
      <3>1. CASE r.next.cols["name"] = rows[id].cols["name"]
        <4>1. \A d \in RecordIds :
                rows[d] # Nothing /\ rows[d].kind = "client" /\ rows[d].cols["name"] = r.next.cols["name"]
                => d = id
          BY <1>3, <1>4, <2>1, <3>1 DEF Inv, NamesAreUnique
        <4>2. ASSUME NEW u \in Procs \ {t}, tx[u].pc = "written", tx[u].next.kind = "client",
                     tx[u].next.cols["name"] = r.next.cols["name"]
              PROVE  FALSE
          <5>1. tx[u].edit # Nothing /\ tx[u].edit.target = id
            <6>1. rows[id] # Nothing /\ rows[id].kind = "client" /\ rows[id].cols["name"] = tx[u].next.cols["name"]
              BY <1>3, <1>4, <2>1, <3>1, <4>2
            <6>2. \A d \in RecordIds :
                    rows[d] # Nothing /\ rows[d].kind = "client" /\ rows[d].cols["name"] = tx[u].next.cols["name"]
                    => tx[u].edit # Nothing /\ tx[u].edit.target = d
              BY <4>2 DEF Inv, NamesReserved
            <6>3. QED
              BY <1>3, <6>1, <6>2
          <5>2. QED
            BY <1>5, <4>2, <5>1 DEF Editing
        <4>3. QED
          BY <4>1, <4>2
      <3>2. CASE ~NameTaken(r.next.cols["name"]) /\ ~NameContested(r.next.cols["name"], t)
        BY <3>2 DEF NameTaken, NameContested
      <3>3. QED
        BY <2>1, <3>1, <3>2
    <2>2. QED
      BY <1>1, <1>2, <2>1 DEF Inv, NamesReserved
  <1>11. QED
    BY <1>1, <1>6, <1>7, <1>8, <1>9, <1>10 DEF Inv

LEMMA UpdateKeeps ==
  ASSUME Inv, NEW t \in Procs, NEW op \in Operations, Update(t, op)
  PROVE  Inv'
  <1> DEFINE id == tx[t].edit.target
             row == rows[id]
             cols == [c \in Cols |-> IF c \in Columns(op) THEN Merged(tx[t].base, tx[t].edit.patch)[c]
                                     ELSE row.cols[c]]
             next == [kind |-> row.kind, version |-> row.version + 1, cols |-> cols]
             pc == IF row.kind = "client" /\ next.cols["name"] # row.cols["name"] THEN "locked" ELSE "written"
             r == [tx[t] EXCEPT !.pc = pc, !.next = next]
  <1>1. tx[t].pc = "read" /\ tx[t].edit # Nothing /\ tx[t].edit.op = op /\ Untouched
    BY DEF Inv, ProgressIsSound, Update
  <1>2. row \in Rows /\ tx[t] \in Requests /\ tx[t].edit \in Edits
    BY <1>1, EditingFacts
  <1>3. CASE row.version # tx[t].base.version
    <2>1. End(t, Verdict("conflict", Nothing))
      BY <1>3 DEF Update
    <2>2. QED
      BY <1>1, <2>1, TruthNeeded, EndKeeps
  <1>4. CASE row.version = tx[t].base.version
    <2>1. row = tx[t].base
      BY <1>1, <1>4 DEF Inv, SnapshotsAreExact
    <2>2. ~RowLocked(id, t) /\ Step(t, r)
      BY <1>4 DEF Update
    <2>3. DOMAIN tx[t].edit.patch \subseteq Columns(op) /\ tx[t].edit.patch \in Patches
      BY <1>1, <1>2, EditFacts
    <2>4. cols = Merged(row, tx[t].edit.patch)
      BY <2>1, <2>3 DEF Merged
    <2>5. next = NextRow(row, tx[t].edit.patch)
      BY <2>4 DEF NextRow
    <2>6. next \in Rows
      BY <1>2, <2>3, <2>5, NextRowFacts
    <2> HIDE DEF next
    <2>7. pc \in {"locked", "written"}
      OBVIOUS
    <2>8. pc = "written" /\ next.kind = "client" => next.cols["name"] = row.cols["name"]
      BY <1>2, <2>3, <2>5, NextRowFacts
    <2> HIDE DEF pc
    <2>9. /\ r \in Requests /\ r.pc = pc /\ r.next = next /\ r.intent = tx[t].intent
          /\ r.edit = tx[t].edit /\ r.seen = tx[t].seen /\ r.base = tx[t].base /\ r.answer = tx[t].answer
      BY <1>2, <2>6, <2>7 DEF Requests
    <2>10. Alone(t, r)
      BY <1>1, <2>2 DEF Alone, Step
    <2>11. tx[t].answer = Nothing
      BY <1>1 DEF Inv, ProgressIsSound
    <2> HIDE DEF r
    <2>12. QED
      BY <1>1, <2>1, <2>2, <2>5, <2>7, <2>8, <2>9, <2>10, <2>11, WritingKeeps
  <1>5. QED
    BY <1>3, <1>4

LEMMA TakeNameKeeps ==
  ASSUME Inv, NEW t \in Procs, TakeName(t)
  PROVE  Inv'
  <1> DEFINE name == tx[t].next.cols["name"]
             r == [tx[t] EXCEPT !.pc = "written"]
  <1>1. tx[t].pc = "locked" /\ tx[t].edit # Nothing /\ tx[t].answer = Nothing /\ Untouched
        /\ ~NameContested(name, t)
    BY DEF Inv, ProgressIsSound, TakeName
  <1>2. tx[t] \in Requests
    BY <1>1, EditingFacts
  <1>3. CASE NameTaken(name)
    <2>1. End(t, Verdict("duplicate", Nothing))
      BY <1>3 DEF TakeName
    <2>2. QED
      BY <1>1, <2>1, TruthNeeded, EndKeeps
  <1>4. CASE ~NameTaken(name)
    <2>1. Alone(t, r)
      BY <1>1, <1>4 DEF TakeName, Alone, Step
    <2>2. /\ r \in Requests /\ r.pc = "written" /\ r.next = tx[t].next /\ r.intent = tx[t].intent
          /\ r.edit = tx[t].edit /\ r.seen = tx[t].seen /\ r.base = tx[t].base /\ r.answer = tx[t].answer
      BY <1>2 DEF Requests
    <2>3. Editing(t)
      BY <1>1 DEF Editing
    <2>4. /\ rows[tx[t].edit.target] = tx[t].base
          /\ tx[t].next = NextRow(rows[tx[t].edit.target], tx[t].edit.patch)
      BY <1>1, <2>3 DEF Inv, SnapshotsAreExact, NextRow
    <2>5. ~RowLocked(tx[t].edit.target, t)
      BY <2>3 DEF Inv, LocksHold, RowLocked
    <2> HIDE DEF r
    <2>6. QED
      BY <1>1, <1>4, <2>1, <2>2, <2>4, <2>5, WritingKeeps
  <1>5. QED
    BY <1>3, <1>4

LEMMA CommitEditKeeps ==
  ASSUME Inv, NEW t \in Procs, CommitEdit(t)
  PROVE  Inv'
  <1> DEFINE id == tx[t].edit.target
             next == tx[t].next
             done == Verdict("updated", id)
  <1>1. tx[t].pc = "written" /\ tx[t].edit # Nothing
    BY DEF CommitEdit
  <1>2. /\ tx[t] \in Requests /\ tx[t].edit \in Edits /\ tx[t].intent = Nothing
        /\ id \in RecordIds /\ rows[id] \in Rows /\ rows[id] # Nothing
    BY <1>1, EditingFacts
  <1>3. Editing(t) /\ next = NextRow(rows[id], tx[t].edit.patch)
    <2>1. Editing(t)
      BY <1>1 DEF Editing
    <2>2. QED
      BY <1>1, <2>1 DEF Inv, SnapshotsAreExact, NextRow
  <1>4. next \in Rows /\ next # Nothing /\ next.kind = rows[id].kind /\ next.version = rows[id].version + 1
    BY <1>2, <1>3, EditFacts, NextRowFacts, NothingFacts
  <1>5. /\ rows' = [rows EXCEPT ![id] = next] /\ evidence' = [evidence EXCEPT ![id] = @ + 1]
        /\ Heard(t, done) /\ idem' = idem /\ reviews' = reviews /\ events' = events
    BY DEF CommitEdit
  <1>6. done \in Answers
    BY <1>2 DEF Verdict, Answers
  <1>7. /\ tx \in [Procs -> Requests] /\ rows \in [RecordIds -> Rows \cup {Nothing}]
        /\ evidence \in [RecordIds -> Nat]
    BY DEF Inv, TypeOK
  <1>8. /\ tx'[t].pc = "done" /\ tx'[t].answer \in {done, Verdict("error", Nothing)}
        /\ tx'[t].intent = Nothing /\ tx'[t].edit = tx[t].edit /\ tx'[t].seen = tx[t].seen
        /\ \A u \in Procs \ {t} : tx'[u] = tx[u]
        /\ tx' \in [Procs -> Requests]
    BY <1>2, <1>5, <1>6, <1>7, HeardFacts
  <1>9. rows'[id] = next /\ \A d \in RecordIds \ {id} : rows'[d] = rows[d]
    BY <1>2, <1>5, <1>7
  <1>10. \A u \in Procs : tx'[u].intent = tx[u].intent /\ tx'[u].edit = tx[u].edit
    BY <1>2, <1>8
  <1>11. \A d \in RecordIds : /\ rows'[d] = Nothing <=> rows[d] = Nothing
                              /\ rows[d] # Nothing => rows'[d].kind = rows[d].kind
    BY <1>2, <1>4, <1>9
  <1>12. TypeOK'
    BY <1>2, <1>4, <1>5, <1>7, <1>8 DEF Inv, TypeOK
  <1> HIDE DEF id, next, done
  <1>13. OneRecordPerKey'
    <2>1. \A u \in Procs : u \in RecordIds
      BY DEF RecordIds
    <2>2. ASSUME NEW u \in Procs, rows'[u] # Nothing
          PROVE  /\ tx'[u].intent # Nothing
                 /\ idem[tx'[u].intent.key] = [intent |-> tx'[u].intent, verdict |-> Verdict("completed", u)]
      <3>1. rows[u] # Nothing
        BY <1>11, <2>1, <2>2
      <3>2. /\ tx[u].intent # Nothing
            /\ idem[tx[u].intent.key] = [intent |-> tx[u].intent, verdict |-> Verdict("completed", u)]
        BY <3>1 DEF Inv, OneRecordPerKey
      <3>3. QED
        BY <1>10, <3>2
    <2>3. ASSUME NEW k \in Keys, idem[k] # Nothing
          PROVE  /\ idem[k].intent.key = k
                 /\ \/ idem[k].verdict = Verdict("failed", Nothing)
                    \/ \E u \in Procs : /\ idem[k].verdict = Verdict("completed", u)
                                        /\ rows'[u] # Nothing
                                        /\ rows'[u].kind = idem[k].intent.kind
                                        /\ tx'[u].intent = idem[k].intent
      <3>1. idem[k].intent.key = k
        BY <2>3 DEF Inv, OneRecordPerKey
      <3>2. CASE idem[k].verdict = Verdict("failed", Nothing)
        BY <3>1, <3>2
      <3>3. CASE idem[k].verdict # Verdict("failed", Nothing)
        <4>1. PICK u \in Procs : /\ idem[k].verdict = Verdict("completed", u)
                                 /\ rows[u] # Nothing
                                 /\ rows[u].kind = idem[k].intent.kind
                                 /\ tx[u].intent = idem[k].intent
          BY <2>3, <3>3 DEF Inv, OneRecordPerKey
        <4>2. u \in RecordIds
          BY <2>1
        <4>3. rows'[u] # Nothing /\ rows'[u].kind = rows[u].kind /\ tx'[u].intent = tx[u].intent
          BY <1>10, <1>11, <4>1, <4>2
        <4>4. QED
          BY <3>1, <4>1, <4>3
      <3>4. QED
        BY <3>2, <3>3
    <2>4. QED
      BY <1>5, <2>2, <2>3 DEF OneRecordPerKey
  <1>14. EvidenceIsComplete'
    <2>1. events' = {u \in Procs : rows'[u] # Nothing}
      <3>1. ASSUME NEW u \in Procs PROVE rows'[u] # Nothing <=> rows[u] # Nothing
        <4>1. u \in RecordIds
          BY DEF RecordIds
        <4>2. QED
          BY <1>11, <4>1
      <3>2. events = {u \in Procs : rows[u] # Nothing}
        BY DEF Inv, EvidenceIsComplete
      <3>3. QED
        BY <1>5, <3>1, <3>2
    <2>2. ASSUME NEW d \in RecordIds
          PROVE  evidence'[d] = IF rows'[d] = Nothing THEN 0 ELSE rows'[d].version
      <3>1. CASE d = id
        <4>1. evidence[id] = rows[id].version
          BY <1>2 DEF Inv, EvidenceIsComplete
        <4>2. QED
          BY <1>2, <1>4, <1>5, <1>7, <1>9, <3>1, <4>1
      <3>2. CASE d # id
        BY <1>5, <1>7, <1>9, <3>2 DEF Inv, EvidenceIsComplete
      <3>3. QED
        BY <3>1, <3>2
    <2>3. QED
      BY <2>1, <2>2 DEF EvidenceIsComplete
  <1>15. next.kind = "client" =>
           /\ \A d \in RecordIds \ {id} : rows[d] # Nothing /\ rows[d].kind = "client"
                                          => rows[d].cols["name"] # next.cols["name"]
           /\ \A u \in Procs \ {t} : tx[u].pc = "written" /\ tx[u].next.kind = "client"
                                    => tx[u].next.cols["name"] # next.cols["name"]
    BY <1>1 DEF Inv, NamesReserved, next, id
  <1>16. NamesAreUnique'
    BY <1>9, <1>15 DEF Inv, NamesAreUnique
  <1>17. ReviewsDecidedOnce'
    <2>1. ASSUME NEW u \in Procs PROVE rows'[u] # Nothing <=> rows[u] # Nothing
      <3>1. u \in RecordIds
        BY DEF RecordIds
      <3>2. QED
        BY <1>11, <3>1
    <2>2. QED
      BY <1>5, <1>10, <2>1 DEF Inv, ReviewsDecidedOnce
  <1>18. AnswersAreTrue'
    BY <1>5, <1>8 DEF Inv, AnswersAreTrue
  <1>19. ProgressIsSound'
    <2>1. tx'[t].answer # Nothing
      BY <1>6, <1>8, AnswerFacts, NothingFacts
    <2>2. QED
      BY <1>1, <1>8, <2>1 DEF Inv, ProgressIsSound
  <1>20. LocksHold'
    <2>1. ASSUME NEW u \in Procs
          PROVE  /\ Creating(u)' => idem'[tx'[u].intent.key] = Nothing
                 /\ Creating(u)' /\ tx'[u].pc = "written" => tx'[u].next = NewRow(tx'[u].intent)
                 /\ Deciding(u)' => reviews'[tx'[u].intent.target].status = "needs-review"
      BY <1>5, <1>8 DEF Inv, LocksHold, Creating, Deciding
    <2>2. ASSUME NEW u \in Procs, NEW w \in Procs
          PROVE  /\ Creating(u)' /\ Creating(w)' /\ tx'[u].intent.key = tx'[w].intent.key => u = w
                 /\ Editing(u)' /\ Editing(w)' /\ tx'[u].edit.target = tx'[w].edit.target => u = w
                 /\ Deciding(u)' /\ Deciding(w)' /\ tx'[u].intent.target = tx'[w].intent.target => u = w
      BY <1>8 DEF Inv, LocksHold, Creating, Editing, Deciding
    <2>3. QED
      BY <2>1, <2>2 DEF LocksHold
  <1>21. SnapshotsAreExact'
    <2>1. ASSUME NEW u \in Procs \ {t}, tx[u].edit # Nothing
          PROVE  LET row == rows'[tx[u].edit.target] IN
                   /\ row # Nothing /\ tx[u].seen # Nothing
                   /\ row.version >= tx[u].seen.version
                   /\ row.version = tx[u].seen.version => row = tx[u].seen
                   /\ tx[u].pc \in {"read", "locked", "written"} =>
                        /\ tx[u].base # Nothing
                        /\ row.version >= tx[u].base.version
                        /\ row.version = tx[u].base.version => row = tx[u].base
                        /\ tx[u].edit.versioned => tx[u].base = tx[u].seen
                   /\ Editing(u) =>
                        /\ row = tx[u].base
                        /\ tx[u].next = [kind |-> row.kind, version |-> row.version + 1,
                                        cols |-> Merged(row, tx[u].edit.patch)]
      <3>1. tx[u].edit.target \in RecordIds /\ tx[u] \in Requests
        BY <2>1, EditingFacts
      <3>2. CASE tx[u].edit.target = id
        <4>1. ~Editing(u)
          BY <1>3, <3>2 DEF Inv, LocksHold, id
        <4>2. /\ rows[id].version >= tx[u].seen.version /\ tx[u].seen # Nothing
              /\ tx[u].pc \in {"read", "locked", "written"} =>
                   /\ tx[u].base # Nothing
                   /\ rows[id].version >= tx[u].base.version
                   /\ tx[u].edit.versioned => tx[u].base = tx[u].seen
          BY <2>1, <3>2 DEF Inv, SnapshotsAreExact
        <4>3. /\ rows[id].version \in Nat /\ tx[u].seen.version \in Nat
              /\ tx[u].base # Nothing => tx[u].base.version \in Nat
          BY <1>2, <3>1, <4>2 DEF Requests, Rows
        <4>4. /\ next.version > tx[u].seen.version
              /\ tx[u].pc \in {"read", "locked", "written"} => next.version > tx[u].base.version
          BY <1>4, <4>2, <4>3
        <4>5. /\ next.version >= tx[u].seen.version /\ next.version # tx[u].seen.version
              /\ tx[u].pc \in {"read", "locked", "written"} =>
                   next.version >= tx[u].base.version /\ next.version # tx[u].base.version
          BY <1>2, <1>4, <4>2, <4>3, <4>4
        <4>6. QED
          BY <1>4, <1>9, <3>2, <4>1, <4>2, <4>5
      <3>3. CASE tx[u].edit.target # id
        <4>1. rows'[tx[u].edit.target] = rows[tx[u].edit.target]
          BY <1>9, <3>1, <3>3
        <4>2. QED
          BY <2>1, <4>1 DEF Inv, SnapshotsAreExact
      <3>4. QED
        BY <3>2, <3>3
    <2>2. /\ rows'[id] # Nothing /\ tx[t].seen # Nothing
          /\ rows'[id].version >= tx[t].seen.version
          /\ rows'[id].version = tx[t].seen.version => rows'[id] = tx[t].seen
      <3>1. tx[t].seen # Nothing /\ rows[id].version >= tx[t].seen.version
        BY <1>1 DEF Inv, SnapshotsAreExact, id
      <3>2. rows[id].version \in Nat /\ tx[t].seen.version \in Nat
        BY <1>2, <3>1 DEF Requests, Rows
      <3>3. next.version >= tx[t].seen.version /\ next.version # tx[t].seen.version
        BY <1>4, <3>1, <3>2
      <3>4. QED
        BY <1>4, <1>9, <3>1, <3>3
    <2>3. QED
      BY <1>8, <2>1, <2>2 DEF SnapshotsAreExact, Editing, id
  <1>22. NamesReserved'
    <2>1. ASSUME NEW u \in Procs, tx'[u].pc = "written", tx'[u].next.kind = "client"
          PROVE  /\ \A d \in RecordIds :
                      rows'[d] # Nothing /\ rows'[d].kind = "client"
                      /\ rows'[d].cols["name"] = tx'[u].next.cols["name"]
                      => tx'[u].edit # Nothing /\ tx'[u].edit.target = d
                 /\ \A w \in Procs \ {u} : tx'[w].pc = "written" /\ tx'[w].next.kind = "client"
                                          => tx'[w].next.cols["name"] # tx'[u].next.cols["name"]
      <3>1. u # t /\ tx'[u] = tx[u]
        BY <1>8, <2>1
      <3>2. rows'[id].kind = "client" => rows'[id].cols["name"] # tx[u].next.cols["name"]
        BY <1>9, <1>15, <2>1, <3>1
      <3>3. \A d \in RecordIds :
              rows'[d] # Nothing /\ rows'[d].kind = "client"
              /\ rows'[d].cols["name"] = tx'[u].next.cols["name"]
              => tx'[u].edit # Nothing /\ tx'[u].edit.target = d
        BY <1>9, <2>1, <3>1, <3>2 DEF Inv, NamesReserved
      <3>4. \A w \in Procs \ {u} : tx'[w].pc = "written" /\ tx'[w].next.kind = "client"
                                  => tx'[w].next.cols["name"] # tx'[u].next.cols["name"]
        BY <1>8, <2>1, <3>1 DEF Inv, NamesReserved
      <3>5. QED
        BY <3>3, <3>4
    <2>2. QED
      BY <2>1 DEF NamesReserved
  <1>23. QED
    BY <1>12, <1>13, <1>14, <1>16, <1>17, <1>18, <1>19, <1>20, <1>21, <1>22 DEF Inv

LEMMA AbortKeeps ==
  ASSUME Inv, NEW t \in Procs, Abort(t)
  PROVE  Inv'
  BY TruthNeeded, EndKeeps DEF Abort

-----------------------------------------------------------------------------
(* The invariant *)

LEMMA InitInv == Init => Inv
  <1> SUFFICES ASSUME Init PROVE Inv
    OBVIOUS
  <1>1. \A t \in Procs : tx[t] = Idle
    BY DEF Init
  <1>2. /\ Idle.pc = "idle" /\ Idle.intent = Nothing /\ Idle.edit = Nothing /\ Idle.answer = Nothing
        /\ Idle \in Requests
    BY DEF Idle, Requests
  <1>3. \A t \in Procs : rows[t] = Nothing
    BY SeedsAssumption DEF Init, RecordIds
  <1>4. \A s \in Seeds : rows[s] = SeedRows[s] /\ SeedRows[s] \in Rows /\ rows[s] # Nothing
    BY SeedsAssumption, NothingFacts DEF Init, RecordIds
  <1>5. TypeOK
    <2>1. rows \in [RecordIds -> Rows \cup {Nothing}] /\ evidence \in [RecordIds -> Nat]
      BY SeedsAssumption DEF Init, Rows
    <2>2. reviews \in [Reviews -> [status : {"needs-review", "dismissed", "accepted"},
                                   record : Procs \cup {Nothing}]]
      BY DEF Init, Verdict
    <2>3. QED
      BY <1>2, <2>1, <2>2 DEF Init, TypeOK
  <1>6. OneRecordPerKey
    BY <1>3 DEF Init, OneRecordPerKey
  <1>7. EvidenceIsComplete
    BY <1>3, <1>4, SeedsAssumption DEF Init, EvidenceIsComplete, RecordIds
  <1>8. NamesAreUnique
    <2>1. ASSUME NEW c \in RecordIds, rows[c] # Nothing
          PROVE  c \in Seeds /\ rows[c] = SeedRows[c]
      BY <1>3, <1>4, <2>1 DEF RecordIds
    <2>2. QED
      BY <2>1, SeedNamesAssumption DEF NamesAreUnique
  <1>9. ReviewsDecidedOnce
    BY <1>3 DEF Init, ReviewsDecidedOnce, Verdict
  <1>10. AnswersAreTrue /\ ProgressIsSound
    BY <1>1, <1>2 DEF AnswersAreTrue, ProgressIsSound
  <1>11. LocksHold
    BY <1>1, <1>2 DEF LocksHold, Creating, Editing, Deciding
  <1>12. SnapshotsAreExact /\ NamesReserved
    BY <1>1, <1>2 DEF SnapshotsAreExact, NamesReserved, Editing
  <1>13. QED
    BY <1>5, <1>6, <1>7, <1>8, <1>9, <1>10, <1>11, <1>12 DEF Inv

LEMMA StepKeeps == Inv /\ [Next]_vars => Inv'
  <1> SUFFICES ASSUME Inv, [Next]_vars PROVE Inv'
    OBVIOUS
  <1>1. CASE UNCHANGED vars
    BY <1>1 DEF vars, Inv, TypeOK, OneRecordPerKey, EvidenceIsComplete, NamesAreUnique,
       ReviewsDecidedOnce, AnswersAreTrue, ProgressIsSound, LocksHold, SnapshotsAreExact,
       NamesReserved, Creating, Editing, Deciding
  <1>2. ASSUME NEW t \in Procs, Creation(t)
        PROVE  Inv'
    BY <1>2, AskKeeps, ClaimKeeps, ReplayKeeps, CreateKeeps, CommitCreationKeeps, CommitRefusalKeeps
       DEF Creation
  <1>3. ASSUME NEW t \in Procs, Edit(t)
        PROVE  Inv'
    <2>1. {"UpdateClient", "UpdateContact", "UpdateProject", "UpdateLead", "UpdateTask",
           "AssignManager", "RecordInstallationDates", "RecordFollowUpResult"} \subseteq Operations
      BY DEF Operations
    <2>2. CASE \E e \in Edits : Load(t, e)
      BY <2>2, LoadKeeps
    <2>3. CASE FindClient(t) \/ FindContact(t) \/ FindProject(t) \/ FindLead(t) \/ FindTask(t)
      BY <2>1, <2>3, FindKeeps DEF FindClient, FindContact, FindProject, FindLead, FindTask
    <2>4. CASE ExpectedVersion(t)
      BY <2>4, ExpectedVersionKeeps
    <2>5. CASE \/ UpdateClient(t) \/ UpdateContact(t) \/ UpdateProject(t) \/ UpdateLead(t) \/ UpdateTask(t)
               \/ AssignManager(t) \/ RecordInstallationDates(t) \/ RecordFollowUpResult(t)
      BY <2>1, <2>5, UpdateKeeps DEF UpdateClient, UpdateContact, UpdateProject, UpdateLead, UpdateTask,
         AssignManager, RecordInstallationDates, RecordFollowUpResult
    <2>6. CASE TakeName(t)
      BY <2>6, TakeNameKeeps
    <2>7. CASE CommitEdit(t)
      BY <2>7, CommitEditKeeps
    <2>8. QED
      BY <1>3, <2>2, <2>3, <2>4, <2>5, <2>6, <2>7 DEF Edit
  <1>4. ASSUME NEW t \in Procs, Abort(t)
        PROVE  Inv'
    BY <1>4, AbortKeeps
  <1>5. ASSUME NEW r \in Reviews, DismissReview(r)
        PROVE  Inv'
    BY <1>5, DismissReviewKeeps
  <1>6. QED
    BY <1>1, <1>2, <1>3, <1>4, <1>5 DEF Next

\* In every reachable state of any instance all the named parts hold: the
\* tables agree with each other and with what the requests have been told.
THEOREM InvHolds == Spec => []Inv
  BY InitInv, StepKeeps, PTL DEF Spec

\* A record that exists was created under a key that says so for that very
\* intent, and a key that says so has its record.
THEOREM OneRecordPerKeyHolds == Spec => []OneRecordPerKey
  <1>1. Inv => OneRecordPerKey
    BY DEF Inv
  <1>2. QED
    BY <1>1, InvHolds, PTL

\* Creations and renames that cross never leave two clients one name.
THEOREM NamesAreUniqueHolds == Spec => []NamesAreUnique
  <1>1. Inv => NamesAreUnique
    BY DEF Inv
  <1>2. QED
    BY <1>1, InvHolds, PTL

\* A review is accepted exactly by the one lead made for it.
THEOREM ReviewsDecidedOnceHolds == Spec => []ReviewsDecidedOnce
  <1>1. Inv => ReviewsDecidedOnce
    BY DEF Inv
  <1>2. QED
    BY <1>1, InvHolds, PTL

\* A request that was told of its key was told what the key says.
THEOREM AnswersAreTrueHolds == Spec => []AnswersAreTrue
  <1>1. Inv => AnswersAreTrue
    BY DEF Inv
  <1>2. QED
    BY <1>1, InvHolds, PTL

-----------------------------------------------------------------------------
(* What an edit changes *)

\* Only a commit touches the records.
LEMMA OnlyCommitsWrite ==
  ASSUME [Next]_vars, rows' # rows
  PROVE  \E t \in Procs : CommitCreation(t) \/ CommitEdit(t)
  <1>1. rows' = rows \/ Next
    BY DEF vars
  <1>2. ASSUME NEW t \in Procs, Creation(t) PROVE rows' = rows \/ CommitCreation(t)
    BY <1>2 DEF Creation, Ask, Claim, Replay, CreateClient, CreateProject, CreateMeeting, CreateLead,
       CommitRefusal, Untouched
  <1>3. ASSUME NEW t \in Procs, Edit(t) PROVE rows' = rows \/ CommitEdit(t)
    BY <1>3 DEF Edit, Load, FindClient, FindContact, FindProject, FindLead, FindTask, FindFor,
       ExpectedVersion, UpdateClient, UpdateContact, UpdateProject, UpdateLead, UpdateTask,
       AssignManager, RecordInstallationDates, RecordFollowUpResult, Update, TakeName, Untouched
  <1>4. ASSUME NEW t \in Procs, Abort(t) PROVE rows' = rows
    BY <1>4 DEF Abort, Untouched
  <1>5. ASSUME NEW r \in Reviews, DismissReview(r) PROVE rows' = rows
    BY <1>5 DEF DismissReview
  <1>6. QED
    BY <1>1, <1>2, <1>3, <1>4, <1>5 DEF Next

\* Two forms opened on one record never both take effect over each other: a
\* versioned edit that commits starts from what its person was shown, and
\* every edit keeps the columns it does not patch.
THEOREM EditsKeepTheRestHolds == Spec => EditsKeepTheRest
  <1> DEFINE Kept ==
        \A id \in RecordIds : rows[id] # Nothing /\ rows'[id] # rows[id] =>
          \E t \in Procs :
            /\ tx[t].pc = "written" /\ tx'[t].pc = "done"
            /\ tx[t].edit # Nothing /\ tx[t].edit.target = id
            /\ rows'[id].version = rows[id].version + 1
            /\ rows'[id].cols = Merged(rows[id], tx[t].edit.patch)
            /\ tx[t].edit.versioned => rows[id] = tx[t].seen
  <1>1. ASSUME Inv, [Next]_vars PROVE Kept
    <2>1. CASE rows' = rows
      BY <2>1
    <2>2. CASE rows' # rows
      <3>1. PICK t \in Procs : CommitCreation(t) \/ CommitEdit(t)
        BY <1>1, <2>2, OnlyCommitsWrite
      <3>2. rows \in [RecordIds -> Rows \cup {Nothing}] /\ tx \in [Procs -> Requests]
        BY <1>1 DEF Inv, TypeOK
      <3>3. CASE CommitCreation(t)
        <4>1. rows[t] = Nothing
          BY <1>1, <3>3, WrittenFacts DEF CommitCreation
        <4>2. \A id \in RecordIds \ {t} : rows'[id] = rows[id]
          BY <3>2, <3>3 DEF CommitCreation
        <4>3. QED
          BY <4>1, <4>2
      <3>4. CASE CommitEdit(t)
        <4> DEFINE d == tx[t].edit.target
        <4>1. tx[t].pc = "written" /\ tx[t].edit # Nothing /\ Editing(t)
          BY <3>4 DEF CommitEdit, Editing
        <4>2. d \in RecordIds /\ rows[d] \in Rows
          BY <1>1, <4>1, EditingFacts
        <4>3. /\ rows[d] = tx[t].base
              /\ tx[t].next = [kind |-> rows[d].kind, version |-> rows[d].version + 1,
                               cols |-> Merged(rows[d], tx[t].edit.patch)]
              /\ tx[t].edit.versioned => tx[t].base = tx[t].seen
          BY <1>1, <4>1 DEF Inv, SnapshotsAreExact
        <4>4. rows'[d] = tx[t].next /\ \A id \in RecordIds \ {d} : rows'[id] = rows[id]
          BY <3>2, <3>4, <4>2 DEF CommitEdit
        <4>5. Verdict("updated", d) \in Answers /\ Heard(t, Verdict("updated", d))
          BY <3>4, <4>2 DEF CommitEdit, Verdict, Answers
        <4>6. tx'[t].pc = "done"
          BY <3>2, <4>5, HeardFacts
        <4>7. rows'[d].version = rows[d].version + 1 /\ rows'[d].cols = Merged(rows[d], tx[t].edit.patch)
          BY <4>3, <4>4
        <4>8. QED
          BY <4>1, <4>3, <4>4, <4>6, <4>7
      <3>5. QED
        BY <3>1, <3>3, <3>4
    <2>3. QED
      BY <2>1, <2>2
  <1>2. Inv /\ [Next]_vars => [Kept]_vars
    BY <1>1
  <1>3. QED
    BY <1>2, InvHolds, PTL DEF Spec, EditsKeepTheRest

-----------------------------------------------------------------------------
(* The transactions implement OncePerKey *)

LEMMA KeyedInit == Init => Keyed!Init
  <1> SUFFICES ASSUME Init PROVE Keyed!Init
    OBVIOUS
  <1>1. \A t \in Procs : tx[t].intent = Nothing /\ tx[t].answer = Nothing
    BY DEF Init, Idle
  <1>2. \A t \in Procs : rows[t] = Nothing
    BY SeedsAssumption DEF Init, RecordIds
  <1>3. QED
    BY <1>1, <1>2 DEF Init, Keyed!Init

\* A step of one request that the promise does not see.
Silent(t) ==
  /\ Untouched
  /\ \A u \in Procs \ {t} : tx'[u] = tx[u]
  /\ tx'[t].intent = tx[t].intent
  /\ tx[t].intent = Nothing \/ tx'[t].answer = tx[t].answer

LEMMA SilentStutters ==
  ASSUME NEW t \in Procs, Silent(t)
  PROVE  UNCHANGED Keyed!vars
  <1>1. rows' = rows /\ idem' = idem /\ events' = events
    BY DEF Silent, Untouched
  <1>2. \A u \in Procs : /\ tx'[u].intent = tx[u].intent
                         /\ tx[u].intent = Nothing \/ tx'[u].answer = tx[u].answer
    BY DEF Silent
  <1>3. QED
    BY <1>1, <1>2 DEF Keyed!vars

\* The request is answered and the tables stay.
LEMMA AnsweredFacts ==
  ASSUME Inv, NEW t \in Procs, tx[t].intent # Nothing, tx[t].pc \notin {"idle", "done"},
         NEW a \in Answers, End(t, a), Untouched
  PROVE  /\ tx[t].answer = Nothing
         /\ tx'[t].intent = tx[t].intent /\ tx'[t].answer = a
         /\ \A u \in Procs \ {t} : tx'[u] = tx[u]
         /\ rows' = rows /\ idem' = idem /\ events' = events
  <1>1. tx \in [Procs -> Requests] /\ tx[t].answer = Nothing
    BY DEF Inv, TypeOK, ProgressIsSound
  <1>2. tx[t] \in Requests
    BY <1>1
  <1>3. QED
    BY <1>1, <1>2 DEF End, Step, Untouched, Requests

LEMMA GiveUpMaps ==
  ASSUME Inv, NEW t \in Procs, tx[t].intent # Nothing, tx[t].pc \notin {"idle", "done"},
         NEW a \in Keyed!Shrugs, End(t, a), Untouched
  PROVE  Keyed!Next
  <1>1. a \in Answers
    BY DEF Keyed!Shrugs, Keyed!Verdict, Answers
  <1>2. /\ tx[t].answer = Nothing
        /\ tx'[t].intent = tx[t].intent /\ tx'[t].answer = a
        /\ \A u \in Procs \ {t} : tx'[u] = tx[u]
        /\ rows' = rows /\ idem' = idem /\ events' = events
    BY <1>1, AnsweredFacts
  <1>3. Keyed!GiveUp(t)
    BY <1>2 DEF Keyed!GiveUp, Keyed!Unanswered
  <1>4. QED
    BY <1>3 DEF Keyed!Next

LEMMA AskMaps ==
  ASSUME Inv, NEW t \in Procs, NEW i \in Intents, Ask(t, i)
  PROVE  Keyed!Next
  <1>1. tx \in [Procs -> Requests] /\ tx[t] = Idle /\ tx[t] \in Requests
    BY DEF Inv, TypeOK, ProgressIsSound, Ask
  <1>2. tx[t].intent = Nothing /\ tx[t].answer = Nothing
    BY <1>1 DEF Idle
  <1>3. /\ tx'[t].intent = i /\ tx'[t].answer = Nothing
        /\ \A u \in Procs \ {t} : tx'[u] = tx[u]
        /\ rows' = rows /\ idem' = idem /\ events' = events
    BY <1>1, <1>2 DEF Ask, Step, Untouched, Requests
  <1>4. Keyed!Ask(t)
    BY <1>2, <1>3 DEF Keyed!Ask
  <1>5. QED
    BY <1>4 DEF Keyed!Next

LEMMA ReplayMaps ==
  ASSUME Inv, NEW t \in Procs, Replay(t)
  PROVE  Keyed!Next
  <1> DEFINE k == tx[t].intent.key
             a == IF idem[k].intent = tx[t].intent THEN idem[k].verdict
                  ELSE Verdict("idempotency-conflict", Nothing)
  <1>1. /\ tx[t] \in Requests /\ tx[t].pc = "begun" /\ tx[t].intent \in Intents /\ tx[t].intent # Nothing
        /\ idem[k] # Nothing /\ End(t, a) /\ Untouched
    BY DEF Inv, TypeOK, ProgressIsSound, Replay, Requests
  <1>2. idem[k] \in [intent : Intents, verdict : Verdicts]
    BY <1>1, IntentFacts DEF Inv, TypeOK
  <1>3. a \in Answers
    <2>1. idem[k].verdict \in Answers
      BY <1>2 DEF Verdicts, Answers, RecordIds
    <2>2. QED
      BY <2>1, TruthNeeded
  <1>4. /\ tx[t].answer = Nothing
        /\ tx'[t].intent = tx[t].intent /\ tx'[t].answer = a
        /\ \A u \in Procs \ {t} : tx'[u] = tx[u]
        /\ rows' = rows /\ idem' = idem /\ events' = events
    BY <1>1, <1>3, AnsweredFacts
  <1>5. Keyed!Recall(t)
    BY <1>1, <1>4 DEF Keyed!Recall, Keyed!Unanswered, Keyed!Verdict, Verdict
  <1>6. QED
    BY <1>5 DEF Keyed!Next

LEMMA CommitCreationMaps ==
  ASSUME Inv, NEW t \in Procs, CommitCreation(t)
  PROVE  Keyed!Next
  <1> DEFINE i == tx[t].intent
             done == Verdict("completed", t)
  <1>1. tx[t].pc = "written" /\ tx[t].edit = Nothing
    BY DEF CommitCreation
  <1>2. /\ i \in Intents /\ i.key \in Keys /\ idem[i.key] = Nothing /\ rows[t] = Nothing
        /\ tx[t].next \in Rows /\ tx[t].next # Nothing /\ i # Nothing /\ tx[t].answer = Nothing
    BY <1>1, WrittenFacts, NothingFacts DEF Inv, ProgressIsSound
  <1>3. /\ rows' = [rows EXCEPT ![t] = tx[t].next] /\ events' = events \cup {t}
        /\ idem' = [idem EXCEPT ![i.key] = [intent |-> i, verdict |-> done]]
        /\ Heard(t, done)
    BY DEF CommitCreation
  <1>4. tx \in [Procs -> Requests] /\ rows \in [RecordIds -> Rows \cup {Nothing}]
    BY DEF Inv, TypeOK
  <1>5. /\ tx'[t].answer \in {done, Verdict("error", Nothing)} /\ tx'[t].intent = i
        /\ \A u \in Procs \ {t} : tx'[u] = tx[u]
    BY <1>3, <1>4, AnswerFacts, HeardFacts
  <1>6. {u \in Procs : rows'[u] # Nothing} = {u \in Procs : rows[u] # Nothing} \cup {t}
    BY <1>2, <1>3, <1>4 DEF RecordIds
  <1>7. [u \in Procs |-> tx'[u].intent] = [u \in Procs |-> tx[u].intent]
    BY <1>5
  <1>8. [u \in Procs |-> IF tx'[u].intent = Nothing THEN Nothing ELSE tx'[u].answer]
        = [[u \in Procs |-> IF tx[u].intent = Nothing THEN Nothing ELSE tx[u].answer]
             EXCEPT ![t] = tx'[t].answer]
    BY <1>2, <1>5
  <1>9. done.status = "completed"
    BY DEF Verdict
  <1>10. Keyed!Settle(t)
    BY <1>2, <1>3, <1>5, <1>6, <1>7, <1>8, <1>9
       DEF Keyed!Settle, Keyed!Unanswered, Keyed!Verdict, Verdict
  <1>11. QED
    BY <1>10 DEF Keyed!Next

LEMMA CommitRefusalMaps ==
  ASSUME Inv, NEW t \in Procs, CommitRefusal(t)
  PROVE  Keyed!Next
  <1> DEFINE i == tx[t].intent
             failed == Verdict("failed", Nothing)
  <1>1. tx[t] \in Requests /\ tx[t].pc = "refusing" /\ i # Nothing /\ tx[t].answer = Nothing
    BY DEF Inv, TypeOK, ProgressIsSound, CommitRefusal
  <1>2. idem[i.key] = Nothing
    BY <1>1 DEF Inv, LocksHold, Creating
  <1>3. /\ rows' = rows /\ events' = events
        /\ idem' = [idem EXCEPT ![i.key] = [intent |-> i, verdict |-> failed]]
        /\ Heard(t, failed)
    BY DEF CommitRefusal
  <1>4. tx \in [Procs -> Requests]
    BY DEF Inv, TypeOK
  <1>5. /\ tx'[t].answer \in {failed, Verdict("error", Nothing)} /\ tx'[t].intent = i
        /\ \A u \in Procs \ {t} : tx'[u] = tx[u]
    BY <1>3, <1>4, AnswerFacts, HeardFacts
  <1>6. [u \in Procs |-> tx'[u].intent] = [u \in Procs |-> tx[u].intent]
    BY <1>5
  <1>7. [u \in Procs |-> IF tx'[u].intent = Nothing THEN Nothing ELSE tx'[u].answer]
        = [[u \in Procs |-> IF tx[u].intent = Nothing THEN Nothing ELSE tx[u].answer]
             EXCEPT ![t] = tx'[t].answer]
    BY <1>1, <1>5
  <1>8. failed.status # "completed"
    BY DEF Verdict
  <1>9. Keyed!Settle(t)
    BY <1>1, <1>2, <1>3, <1>5, <1>6, <1>7, <1>8
       DEF Keyed!Settle, Keyed!Unanswered, Keyed!Verdict, Verdict
  <1>10. QED
    BY <1>9 DEF Keyed!Next

\* Claiming and preparing a row are silent; a review that is gone gives up.
LEMMA CreateMaps ==
  ASSUME Inv, NEW t \in Procs,
         Claim(t) \/ CreateClient(t) \/ CreateProject(t) \/ CreateMeeting(t) \/ CreateLead(t)
  PROVE  Keyed!Next \/ UNCHANGED Keyed!vars
  <1>1. tx \in [Procs -> Requests] /\ tx[t] \in Requests
    BY DEF Inv, TypeOK
  <1>2. Untouched /\ tx[t].pc \in {"begun", "claimed"}
    BY DEF Claim, CreateClient, CreateProject, CreateMeeting, CreateLead, Claimed
  <1>3. \/ Step(t, [tx[t] EXCEPT !.pc = "claimed"])
        \/ Refuse(t) \/ Insert(t) \/ End(t, Verdict("review-not-found", Nothing))
    BY DEF Claim, CreateClient, CreateProject, CreateMeeting, CreateLead
  <1>4. CASE Step(t, [tx[t] EXCEPT !.pc = "claimed"]) \/ Refuse(t) \/ Insert(t)
    <2>1. Silent(t)
      BY <1>1, <1>2, <1>4 DEF Silent, Step, Refuse, Insert, Requests
    <2>2. QED
      BY <2>1, SilentStutters
  <1>5. CASE End(t, Verdict("review-not-found", Nothing))
    <2>1. tx[t].intent # Nothing
      BY <1>2 DEF Inv, ProgressIsSound
    <2>2. Verdict("review-not-found", Nothing) \in Keyed!Shrugs
      BY DEF Keyed!Shrugs, Keyed!Verdict, Verdict
    <2>3. tx[t].pc \notin {"idle", "done"}
      BY <1>2
    <2>4. QED
      BY <1>2, <1>5, <2>1, <2>2, <2>3, GiveUpMaps
  <1>6. QED
    BY <1>3, <1>4, <1>5

\* A step of one request leaves its intent and everybody else alone.
LEMMA LocalStep ==
  ASSUME NEW t \in Procs, tx \in [Procs -> Requests], NEW a, NEW b,
         \/ End(t, a)
         \/ Step(t, [tx[t] EXCEPT !.pc = "written"])
         \/ Step(t, [tx[t] EXCEPT !.pc = "read", !.base = b])
         \/ Step(t, [tx[t] EXCEPT !.pc = a, !.next = b])
  PROVE  tx'[t].intent = tx[t].intent /\ \A u \in Procs \ {t} : tx'[u] = tx[u]
  <1>1. tx[t] \in Requests
    OBVIOUS
  <1>2. QED
    BY <1>1 DEF End, Step, Requests

\* Nothing an edit does concerns a key.
LEMMA EditMaps ==
  ASSUME Inv, NEW t \in Procs, Edit(t)
  PROVE  UNCHANGED Keyed!vars
  <1>1. tx \in [Procs -> Requests] /\ tx[t] \in Requests
    BY DEF Inv, TypeOK
  <1>2. tx[t].intent = Nothing
    <2>1. tx[t].pc \in {"idle", "loaded", "read", "locked"} \/ tx[t].edit # Nothing
      BY DEF Edit, Load, FindClient, FindContact, FindProject, FindLead, FindTask, FindFor, ExpectedVersion,
         UpdateClient, UpdateContact, UpdateProject, UpdateLead, UpdateTask, AssignManager,
         RecordInstallationDates, RecordFollowUpResult, Update, TakeName, CommitEdit
    <2>2. Idle.intent = Nothing
      BY DEF Idle
    <2>3. QED
      BY <2>1, <2>2 DEF Inv, ProgressIsSound
  <1>3. CASE CommitEdit(t)
    <2>1. tx[t].edit # Nothing
      BY <1>3 DEF CommitEdit
    <2>2. /\ rows' = [rows EXCEPT ![tx[t].edit.target] = tx[t].next]
          /\ Heard(t, Verdict("updated", tx[t].edit.target)) /\ idem' = idem /\ events' = events
      BY <1>3 DEF CommitEdit
    <2>3. tx[t].edit.target \in RecordIds /\ rows[tx[t].edit.target] # Nothing
      BY <2>1, EditingFacts
    <2>4. tx[t].next # Nothing
      <3>1. Editing(t) /\ rows[tx[t].edit.target] \in Rows /\ tx[t].edit \in Edits
        BY <1>3, <2>1, EditingFacts DEF CommitEdit, Editing
      <3>2. tx[t].next = NextRow(rows[tx[t].edit.target], tx[t].edit.patch)
        BY <2>1, <3>1 DEF Inv, SnapshotsAreExact, NextRow
      <3>3. QED
        BY <3>1, <3>2, EditFacts, NextRowFacts, NothingFacts
    <2>5. rows \in [RecordIds -> Rows \cup {Nothing}]
      BY DEF Inv, TypeOK
    <2>6. {u \in Procs : rows'[u] # Nothing} = {u \in Procs : rows[u] # Nothing}
      BY <2>2, <2>3, <2>4, <2>5 DEF RecordIds
    <2>7. Verdict("updated", tx[t].edit.target) \in Answers
      BY <2>3 DEF Verdict, Answers
    <2>8. tx'[t].intent = Nothing /\ \A u \in Procs \ {t} : tx'[u] = tx[u]
      BY <1>1, <1>2, <2>2, <2>7, HeardFacts
    <2>9. \A u \in Procs : /\ tx'[u].intent = tx[u].intent
                           /\ tx[u].intent = Nothing \/ tx'[u].answer = tx[u].answer
      BY <1>2, <2>8
    <2>10. QED
      BY <2>2, <2>6, <2>9 DEF Keyed!vars
  <1>4. CASE ~CommitEdit(t)
    <2>1. Untouched /\ tx'[t].intent = Nothing /\ \A u \in Procs \ {t} : tx'[u] = tx[u]
      <3>1. CASE \E e \in Edits : Load(t, e)
        BY <1>1, <1>2, <3>1 DEF Load, Step, Requests
      <3>2. CASE \E op \in Operations : FindFor(t, op)
        <4>1. PICK op \in Operations : FindFor(t, op)
          BY <3>2
        <4>2. \/ End(t, Verdict("conflict", Nothing)) \/ End(t, Verdict("unchanged", Nothing))
              \/ Step(t, [tx[t] EXCEPT !.pc = "read", !.base = rows[tx[t].edit.target]])
          BY <4>1 DEF FindFor
        <4>3. Untouched
          BY <4>1 DEF FindFor
        <4>4. QED
          BY <1>1, <1>2, <4>2, <4>3, LocalStep
      <3>3. CASE ExpectedVersion(t) \/ TakeName(t)
        <4>1. \/ End(t, Verdict("duplicate", Nothing)) \/ Step(t, [tx[t] EXCEPT !.pc = "written"])
              \/ \E base : Step(t, [tx[t] EXCEPT !.pc = "read", !.base = base])
          BY <3>3 DEF ExpectedVersion, TakeName
        <4>2. Untouched
          BY <3>3 DEF ExpectedVersion, TakeName
        <4>3. QED
          BY <1>1, <1>2, <4>1, <4>2, LocalStep
      <3>4. CASE \E op \in Operations : Update(t, op)
        <4>1. PICK op \in Operations : Update(t, op)
          BY <3>4
        <4>2. \/ End(t, Verdict("conflict", Nothing))
              \/ \E pc, next : Step(t, [tx[t] EXCEPT !.pc = pc, !.next = next])
          BY <4>1 DEF Update
        <4>3. Untouched
          BY <4>1 DEF Update
        <4>4. QED
          BY <1>1, <1>2, <4>2, <4>3, LocalStep
      <3>5. {"UpdateClient", "UpdateContact", "UpdateProject", "UpdateLead", "UpdateTask",
             "AssignManager", "RecordInstallationDates", "RecordFollowUpResult"} \subseteq Operations
        BY DEF Operations
      <3>6. QED
        BY <1>4, <3>1, <3>2, <3>3, <3>4, <3>5 DEF Edit, FindClient, FindContact, FindProject, FindLead,
           FindTask, UpdateClient, UpdateContact, UpdateProject, UpdateLead, UpdateTask,
           AssignManager, RecordInstallationDates, RecordFollowUpResult
    <2>2. Silent(t)
      BY <1>2, <2>1 DEF Silent
    <2>3. QED
      BY <2>2, SilentStutters
  <1>5. QED
    BY <1>3, <1>4

LEMMA AbortMaps ==
  ASSUME Inv, NEW t \in Procs, Abort(t)
  PROVE  Keyed!Next \/ UNCHANGED Keyed!vars
  <1>1. /\ tx \in [Procs -> Requests] /\ tx[t] \in Requests
        /\ tx[t].pc \notin {"idle", "done"} /\ End(t, Verdict("error", Nothing)) /\ Untouched
    BY DEF Inv, TypeOK, Abort
  <1>2. CASE tx[t].intent = Nothing
    <2>1. Silent(t)
      BY <1>1, <1>2 DEF Silent, End, Step, Requests
    <2>2. QED
      BY <2>1, SilentStutters
  <1>3. CASE tx[t].intent # Nothing
    <2>1. Verdict("error", Nothing) \in Keyed!Shrugs
      BY DEF Keyed!Shrugs, Keyed!Verdict, Verdict
    <2>2. QED
      BY <1>1, <1>3, <2>1, GiveUpMaps
  <1>4. QED
    BY <1>2, <1>3

LEMMA KeyedStep == Inv /\ [Next]_vars => [Keyed!Next]_(Keyed!vars)
  <1> SUFFICES ASSUME Inv, [Next]_vars PROVE Keyed!Next \/ UNCHANGED Keyed!vars
    OBVIOUS
  <1>1. CASE UNCHANGED vars
    BY <1>1 DEF vars, Keyed!vars
  <1>2. ASSUME NEW t \in Procs, Creation(t) PROVE Keyed!Next \/ UNCHANGED Keyed!vars
    BY <1>2, AskMaps, ReplayMaps, CreateMaps, CommitCreationMaps, CommitRefusalMaps DEF Creation
  <1>3. ASSUME NEW t \in Procs, Edit(t) PROVE UNCHANGED Keyed!vars
    BY <1>3, EditMaps
  <1>4. ASSUME NEW t \in Procs, Abort(t) PROVE Keyed!Next \/ UNCHANGED Keyed!vars
    BY <1>4, AbortMaps
  <1>5. ASSUME NEW r \in Reviews, DismissReview(r) PROVE UNCHANGED Keyed!vars
    BY <1>5 DEF DismissReview, Keyed!vars
  <1>6. QED
    BY <1>1, <1>2, <1>3, <1>4, <1>5 DEF Next

\* Creation decides every key once, in one step with the record and the one
\* event it owes, and answers alike for ever after, for any requests.
THEOREM RecordsImplementOncePerKey == Spec => ImplementsOncePerKey
  BY KeyedInit, KeyedStep, InvHolds, PTL DEF Spec, ImplementsOncePerKey, Keyed!Spec
=============================================================================
