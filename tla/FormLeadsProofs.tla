--------------------------- MODULE FormLeadsProofs ---------------------------
(***************************************************************************)
(* Proofs about FormLeads for any responses, scans, window and bounds: the *)
(* inductive invariant Inv, that nothing before the cursor is skipped while*)
(* the Sheet only grows, that silence is true, that the cursor advances,   *)
(* that every behaviour is one of Intake, and that no former tenant turns  *)
(* up.                                                                     *)
(***************************************************************************)
EXTENDS FormLeads, SequenceTheorems, TLAPS

USE WindowAssumption, RowsAssumption, TimeAssumption, TenantAssumption, EditsAssumption,
    RealAssumption, NobodyAssumption

-----------------------------------------------------------------------------
(* Rows that are read *)

LEMMA ReadFacts ==
  ASSUME sheet \in Rows, NEW first \in Nat \ {0}, NEW limit \in Int
  PROVE  /\ Read(first, limit) \in Rows
         /\ \A i \in 1 .. Len(Read(first, limit)) :
              /\ first + i - 1 <= Len(sheet)
              /\ Read(first, limit)[i] = sheet[first + i - 1]
         /\ first + Len(Read(first, limit)) - 1 <= Len(sheet) \/ Read(first, limit) = <<>>
         /\ limit > 0 /\ Read(first, limit) = <<>> => Len(sheet) < first
  <1> DEFINE last == IF first + limit - 1 < Len(sheet) THEN first + limit - 1 ELSE Len(sheet)
             rows == SubSeq(sheet, first, last)
  <1>1. /\ sheet \in Seq(Responses) /\ Len(sheet) \in Nat /\ Len(sheet) <= MaxRows
        /\ last \in Int /\ last <= Len(sheet)
    BY DEF Rows
  <1>2. \A i \in first .. last : sheet[i] \in Responses
    BY <1>1
  <1>3. /\ rows \in Seq(Responses)
        /\ Len(rows) = IF first <= last THEN last - first + 1 ELSE 0
        /\ \A i \in 1 .. last - first + 1 : rows[i] = sheet[first + i - 1]
    <2> HIDE DEF last
    <2>1. QED
      BY <1>1, <1>2, SubSeqProperties
  <1>4. Len(rows) = 0 => rows = <<>>
    BY <1>3
  <1>5. rows = <<>> => Len(rows) = 0
    OBVIOUS
  <1>6. rows = Read(first, limit)
    BY DEF Read
  <1> HIDE DEF rows
  <1>7. Len(rows) \in 0 .. MaxRows
    BY <1>1, <1>3
  <1>8. rows \in Rows
    BY <1>3, <1>7 DEF Rows
  <1>9. \A i \in 1 .. Len(rows) : first + i - 1 <= Len(sheet) /\ rows[i] = sheet[first + i - 1]
    BY <1>1, <1>3
  <1>10. first + Len(rows) - 1 <= Len(sheet) \/ rows = <<>>
    BY <1>1, <1>3, <1>4
  <1>11. limit > 0 /\ rows = <<>> => Len(sheet) < first
    BY <1>1, <1>3, <1>5
  <1>12. QED
    BY <1>6, <1>8, <1>9, <1>10, <1>11

LEMMA EmptyRows == <<>> \in Rows /\ Len(<<>>) = 0 /\ Content(<<>>) = {}
  BY DEF Rows, Content

LEMMA PlaceFacts ==
  ASSUME TypeOK, NEW s \in Scans
  PROVE  /\ \A r \in Met(s) : Position(s, r) \in 1 .. MaxRows
         /\ Checkpoint(s) \in 0 .. MaxRows /\ Checkpoint(s) >= mark[s]
         /\ Met(s) \subseteq Responses
  <1>1. /\ forward[s] \in Seq(Responses) /\ Len(forward[s]) \in 0 .. MaxRows
        /\ wrapped[s] \in Seq(Responses) /\ Len(wrapped[s]) \in 0 .. MaxRows
        /\ mark[s] \in 0 .. MaxRows /\ mark[s] + Len(forward[s]) <= MaxRows
    BY DEF TypeOK, Fits, Rows
  <1>2. ASSUME NEW rows \in Seq(Responses), NEW r \in Content(rows)
        PROVE  IndexIn(rows, r) \in 1 .. Len(rows)
    BY <1>2 DEF IndexIn, Content
  <1>3. \A r \in Met(s) : Position(s, r) \in 1 .. MaxRows
    BY <1>1, <1>2 DEF Position, Met, First
  <1>4. forward[s] # <<>> => Len(forward[s]) > 0
    BY <1>1
  <1>5. Checkpoint(s) \in 0 .. MaxRows /\ Checkpoint(s) >= mark[s]
    BY <1>1, <1>4 DEF Checkpoint, First
  <1>6. Met(s) \subseteq Responses
    BY <1>1 DEF Met, Content
  <1>7. QED
    BY <1>3, <1>5, <1>6

-----------------------------------------------------------------------------
(* Types *)

LEMMA TypeInit == Init => TypeOK
  <1> SUFFICES ASSUME Init PROVE TypeOK
    OBVIOUS
  <1>1. /\ reviews \in [Responses -> Reviews] /\ cursor \in Cursors /\ lease \in Leases
        /\ now \in Times /\ tenant \in Tenants /\ edits \in 0 .. MaxEdits
        /\ born \in [Scans -> Tenants] /\ at \in [Scans -> Times]
        /\ mark \in [Scans -> 0 .. MaxRows] /\ length \in [Scans -> 0 .. MaxRows]
    BY DEF Init, NoReview, Reviews, NoCursor, Cursors, NoLease, Leases, Times, Tenants
  <1>2. sheet \in Rows /\ forward \in [Scans -> Rows] /\ wrapped \in [Scans -> Rows]
    BY EmptyRows DEF Init
  <1>3. ASSUME NEW s \in Scans PROVE Fits(s)
    BY EmptyRows DEF Init, Fits
  <1>4. QED
    BY <1>1, <1>2, <1>3 DEF Init, TypeOK

LEMMA FitsStays ==
  ASSUME TypeOK, NEW o \in Scans, mark'[o] = mark[o], forward'[o] = forward[o],
         wrapped'[o] = wrapped[o], new'[o] = new[o], moved'[o] = moved[o],
         \/ pc'[o] = pc[o]
         \/ pc[o] = "begun" /\ pc'[o] = "stamped"
         \/ pc[o] = "matched" /\ pc'[o] = "leased"
  PROVE  Fits(o)'
  <1>1. Fits(o)
    BY DEF TypeOK
  <1>2. Met(o)' = Met(o)
    BY DEF Met
  <1>3. QED
    BY <1>1, <1>2 DEF Fits

LEMMA ForgetTyped ==
  ASSUME TypeOK, NEW s \in Scans, Forget(s)
  PROVE  /\ pc' \in [Scans -> {"idle", "begun", "stamped", "read", "loaded", "matched", "leased",
                               "over"}]
         /\ born' \in [Scans -> Tenants] /\ mark' \in [Scans -> 0 .. MaxRows]
         /\ at' \in [Scans -> Times]
         /\ forward' \in [Scans -> Rows] /\ wrapped' \in [Scans -> Rows]
         /\ length' \in [Scans -> 0 .. MaxRows]
         /\ new' \in [Scans -> SUBSET Responses] /\ moved' \in [Scans -> SUBSET Responses]
         /\ \A o \in Scans : Fits(o)'
  <1>1. /\ pc' \in [Scans -> {"idle", "begun", "stamped", "read", "loaded", "matched", "leased",
                              "over"}]
        /\ born' \in [Scans -> Tenants] /\ mark' \in [Scans -> 0 .. MaxRows]
        /\ at' \in [Scans -> Times]
        /\ forward' \in [Scans -> Rows] /\ wrapped' \in [Scans -> Rows]
        /\ length' \in [Scans -> 0 .. MaxRows]
        /\ new' \in [Scans -> SUBSET Responses] /\ moved' \in [Scans -> SUBSET Responses]
    BY EmptyRows DEF TypeOK, Forget, Tenants, Times
  <1>2. /\ mark'[s] = 0 /\ forward'[s] = <<>> /\ new'[s] = {} /\ moved'[s] = {}
        /\ \A o \in Scans \ {s} : /\ pc'[o] = pc[o] /\ mark'[o] = mark[o] /\ forward'[o] = forward[o]
                                  /\ wrapped'[o] = wrapped[o]
                                  /\ new'[o] = new[o] /\ moved'[o] = moved[o]
    BY DEF TypeOK, Forget
  <1>3. ASSUME NEW o \in Scans PROVE Fits(o)'
    <2>1. CASE o # s
      BY <1>2, <2>1, FitsStays
    <2>2. CASE o = s
      <3>1. /\ mark'[s] + Len(forward'[s]) <= MaxRows
            /\ pc'[s] = "over"
        BY <1>2, EmptyRows DEF Forget, TypeOK
      <3>2. wrapped'[s] = <<>>
        BY DEF Forget, TypeOK
      <3>3. QED
        BY <1>2, <2>2, <3>1, <3>2 DEF Fits
    <2>3. QED
      BY <2>1, <2>2
  <1>4. QED
    BY <1>1, <1>3

LEMMA SavedTyped ==
  ASSUME TypeOK, NEW s \in Scans
  PROVE  /\ \A r \in Responses : Saved(s, r) \in Reviews
         /\ SavedCursor(s) \in Cursors
  <1>1. at[s] \in Times /\ new[s] \cup moved[s] \subseteq Met(s) /\ reviews \in [Responses -> Reviews]
    BY DEF TypeOK, Fits
  <1>2. ASSUME NEW r \in Met(s)
        PROVE  [status |-> "needs-review", position |-> Position(s, r), updated |-> at[s]] \in Reviews
    <2>1. Position(s, r) \in 0 .. MaxRows
      BY PlaceFacts
    <2>2. QED
      BY <1>1, <2>1 DEF Reviews
  <1>3. \A r \in Responses : Saved(s, r) \in Reviews
    BY <1>1, <1>2 DEF Saved
  <1>4. SavedCursor(s) \in Cursors
    BY <1>1, PlaceFacts DEF SavedCursor, Cursors, TypeOK
  <1>5. QED
    BY <1>3, <1>4

PCs == {"idle", "begun", "stamped", "read", "loaded", "matched", "leased", "over"}

LEMMA EnterFacts ==
  ASSUME TypeOK, NEW s \in Scans, NEW from, NEW to \in PCs, Enter(s, from, to)
  PROVE  /\ pc' \in [Scans -> PCs] /\ pc[s] = from /\ pc'[s] = to
         /\ \A o \in Scans \ {s} : pc'[o] = pc[o]
  BY DEF TypeOK, Enter, PCs

LEMMA BeginTyped == ASSUME TypeOK, NEW s \in Scans, Begin(s) PROVE TypeOK'
  <1>1. pc' \in [Scans -> PCs] /\ pc[s] = "idle" /\ \A o \in Scans \ {s} : pc'[o] = pc[o]
    BY EnterFacts DEF Begin, PCs
  <1>2. pc'[s] = "begun"
    BY EnterFacts DEF Begin, PCs
  <1>3. born' \in [Scans -> Tenants] /\ mark' \in [Scans -> 0 .. MaxRows]
    BY DEF TypeOK, Begin, Cursors
  <1>4. ASSUME NEW o \in Scans PROVE Fits(o)'
    <2>1. CASE o # s
      BY <1>1, <2>1, FitsStays DEF Begin, window, TypeOK
    <2>2. CASE o = s
      <3>1. Fits(s)
        BY DEF TypeOK
      <3>2. /\ forward'[s] = <<>> /\ wrapped'[s] = <<>> /\ new'[s] = {} /\ moved'[s] = {}
        BY <1>1, <3>1 DEF Fits, Begin, window
      <3>3. mark'[s] + Len(forward'[s]) <= MaxRows
        BY <1>3, <3>2, EmptyRows
      <3>4. QED
        BY <1>2, <2>2, <3>2, <3>3 DEF Fits
    <2>3. QED
      BY <2>1, <2>2
  <1>5. QED
    BY <1>1, <1>3, <1>4 DEF TypeOK, Begin, shared, window, PCs

LEMMA StampTyped == ASSUME TypeOK, NEW s \in Scans, Stamp(s) PROVE TypeOK'
  <1>1. pc' \in [Scans -> PCs] /\ pc[s] = "begun" /\ pc'[s] = "stamped"
        /\ \A o \in Scans \ {s} : pc'[o] = pc[o]
    BY EnterFacts DEF Stamp, PCs
  <1>2. now' \in Times /\ at' \in [Scans -> Times]
    BY DEF TypeOK, Stamp, Times
  <1>3. ASSUME NEW o \in Scans PROVE Fits(o)'
    <2>1. pc'[o] = pc[o] \/ (pc[o] = "begun" /\ pc'[o] = "stamped")
      BY <1>1
    <2>2. QED
      BY <2>1, FitsStays DEF Stamp, window
  <1>4. QED
    BY <1>1, <1>2, <1>3 DEF TypeOK, Stamp, window, PCs

LEMMA ForwardTyped == ASSUME TypeOK, NEW s \in Scans, ReadForward(s) PROVE TypeOK'
  <1> DEFINE rows == Read(First(s), Window)
  <1>1. pc' \in [Scans -> PCs] /\ pc[s] = "stamped" /\ pc'[s] = "read"
        /\ \A o \in Scans \ {s} : pc'[o] = pc[o]
    BY EnterFacts DEF ReadForward, PCs
  <1>2. mark[s] \in 0 .. MaxRows /\ sheet \in Rows /\ First(s) = mark[s] + 1
        /\ First(s) \in Nat \ {0} /\ Window \in Int
    BY DEF TypeOK, First
  <1>3. rows \in Rows /\ (First(s) + Len(rows) - 1 <= Len(sheet) \/ rows = <<>>)
    BY <1>2, ReadFacts
  <1>4. forward' = [forward EXCEPT ![s] = rows]
    BY DEF ReadForward
  <1> HIDE DEF rows
  <1>5. Len(sheet) \in 0 .. MaxRows /\ Len(rows) \in Nat
    BY <1>2, <1>3 DEF Rows
  <1>6. mark[s] + Len(rows) <= MaxRows
    BY <1>2, <1>3, <1>5, EmptyRows
  <1>7. forward' \in [Scans -> Rows] /\ length' \in [Scans -> 0 .. MaxRows]
    BY <1>3, <1>4, <1>5 DEF TypeOK, ReadForward
  <1>8. ASSUME NEW o \in Scans PROVE Fits(o)'
    <2>1. CASE o # s
      <3>1. forward'[o] = forward[o]
        BY <1>4, <2>1 DEF TypeOK
      <3>2. QED
        BY <1>1, <2>1, <3>1, FitsStays DEF ReadForward
    <2>2. CASE o = s
      <3>1. forward'[s] = rows /\ new'[s] = {} /\ moved'[s] = {} /\ mark'[s] = mark[s]
        BY <1>1, <1>4 DEF Fits, TypeOK, ReadForward
      <3>2. QED
        BY <1>1, <1>6, <2>2, <3>1 DEF Fits
    <2>3. QED
      BY <2>1, <2>2
  <1>9. QED
    BY <1>1, <1>7, <1>8 DEF TypeOK, ReadForward, shared, PCs

LEMMA WrappedFacts ==
  ASSUME TypeOK, NEW s \in Scans
  PROVE  Wrapped(s) \in Rows /\ Shown(Wrapped(s), 1)
  <1>1. sheet \in Rows /\ Window - Len(forward[s]) \in Int /\ 1 \in Nat \ {0}
    BY DEF TypeOK, Rows
  <1>2. /\ Read(1, Window - Len(forward[s])) \in Rows
        /\ Shown(Read(1, Window - Len(forward[s])), 1)
    BY <1>1, ReadFacts DEF Shown
  <1>3. Shown(<<>>, 1)
    BY EmptyRows DEF Shown
  <1>4. QED
    BY <1>2, <1>3, EmptyRows DEF Wrapped

LEMMA WrappedTyped == ASSUME TypeOK, NEW s \in Scans, ReadWrapped(s) PROVE TypeOK'
  <1>1. pc' \in [Scans -> PCs] /\ pc[s] = "read" /\ pc'[s] = "loaded"
        /\ \A o \in Scans \ {s} : pc'[o] = pc[o]
    BY EnterFacts DEF ReadWrapped, PCs
  <1>2. wrapped' = [wrapped EXCEPT ![s] = Wrapped(s)] /\ wrapped' \in [Scans -> Rows]
    BY WrappedFacts DEF TypeOK, ReadWrapped
  <1>3. ASSUME NEW o \in Scans PROVE Fits(o)'
    <2>1. CASE o # s
      <3>1. wrapped'[o] = wrapped[o]
        BY <1>2, <2>1 DEF TypeOK
      <3>2. QED
        BY <1>1, <2>1, <3>1, FitsStays DEF ReadWrapped
    <2>2. CASE o = s
      <3>1. Fits(s)
        BY DEF TypeOK
      <3>2. QED
        BY <1>1, <2>2, <3>1 DEF Fits, ReadWrapped
    <2>3. QED
      BY <2>1, <2>2
  <1>4. QED
    BY <1>1, <1>2, <1>3 DEF TypeOK, ReadWrapped, shared, PCs

LEMMA MatchTyped == ASSUME TypeOK, NEW s \in Scans, Match(s) PROVE TypeOK'
  <1>1. pc' \in [Scans -> PCs] /\ pc[s] = "loaded" /\ pc'[s] = "matched"
        /\ \A o \in Scans \ {s} : pc'[o] = pc[o]
    BY EnterFacts DEF Match, PCs
  <1>2. /\ Drafts(s) \subseteq Met(s) /\ Elsewhere(s) \subseteq Met(s)
        /\ Met(s) \subseteq Responses
    BY PlaceFacts DEF Drafts, Unseen, Elsewhere
  <1>3. /\ new' \in [Scans -> SUBSET Responses] /\ moved' \in [Scans -> SUBSET Responses]
        /\ length' \in [Scans -> 0 .. MaxRows]
    BY <1>2 DEF TypeOK, Match
  <1>4. ASSUME NEW o \in Scans PROVE Fits(o)'
    <2>1. CASE o # s
      <3>1. new'[o] = new[o] /\ moved'[o] = moved[o]
        BY <2>1 DEF TypeOK, Match
      <3>2. QED
        BY <1>1, <2>1, <3>1, FitsStays DEF Match
    <2>2. CASE o = s
      <3>1. new'[s] = Drafts(s) /\ moved'[s] = Elsewhere(s) /\ Met(s)' = Met(s)
        BY DEF TypeOK, Match, Met
      <3>2. Fits(s)
        BY DEF TypeOK
      <3>3. QED
        BY <1>1, <1>2, <2>2, <3>1, <3>2 DEF Fits, Match
    <2>3. QED
      BY <2>1, <2>2
  <1>5. QED
    BY <1>1, <1>3, <1>4 DEF TypeOK, Match, shared, PCs

LEMMA AcquireTyped == ASSUME TypeOK, NEW s \in Scans, Acquire(s) PROVE TypeOK'
  <1>1. pc' \in [Scans -> PCs] /\ pc[s] = "matched" /\ pc'[s] = "leased"
        /\ \A o \in Scans \ {s} : pc'[o] = pc[o]
    BY EnterFacts DEF Acquire, PCs
  <1>2. lease' \in Leases
    BY DEF Acquire, Leases
  <1>3. ASSUME NEW o \in Scans PROVE Fits(o)'
    <2>1. pc'[o] = pc[o] \/ (pc[o] = "matched" /\ pc'[o] = "leased")
      BY <1>1
    <2>2. QED
      BY <2>1, FitsStays DEF Acquire, window
  <1>4. overrun' \in BOOLEAN
    BY DEF TypeOK, Acquire
  <1>5. QED
    BY <1>1, <1>2, <1>3, <1>4 DEF TypeOK, Acquire, window, PCs

LEMMA ReleaseTyped == ASSUME TypeOK, NEW s \in Scans, Release(s) PROVE lease' \in Leases
  BY DEF TypeOK, Release, NoLease, Leases

LEMMA EndTyped ==
  ASSUME TypeOK, NEW s \in Scans, NoNews(s) \/ Refuse(s) \/ Save(s) \/ Fail(s) \/ Stop(s)
  PROVE  TypeOK'
  <1>1. Forget(s)
    BY DEF NoNews, Refuse, Save, Fail, Stop
  <1>2. CASE NoNews(s) \/ Refuse(s) \/ Stop(s)
    BY <1>1, <1>2, ForgetTyped DEF TypeOK, NoNews, Refuse, Stop, shared
  <1>3. CASE Fail(s)
    BY <1>1, <1>3, ForgetTyped, ReleaseTyped DEF TypeOK, Fail
  <1>4. CASE Save(s)
    <2>1. lease' \in Leases
      BY <1>4, ReleaseTyped DEF Save, TypeOK
    <2>2. /\ reviews' \in [Responses -> Reviews] /\ cursor' \in Cursors
          /\ strays' \subseteq Responses
      BY <1>4, SavedTyped DEF Save, TypeOK
    <2>3. QED
      BY <1>1, <1>4, <2>1, <2>2, ForgetTyped DEF TypeOK, Save
  <1>5. QED
    BY <1>2, <1>3, <1>4

LEMMA SheetTyped ==
  ASSUME TypeOK,
         \/ \E r \in Responses : Submit(r) \/ \E p \in 1 .. Len(sheet) : Insert(r, p)
         \/ \E p \in 1 .. Len(sheet) : Delete(p)
  PROVE  sheet' \in Rows
  <1>1. sheet \in Seq(Responses) /\ Len(sheet) \in 0 .. MaxRows
    BY DEF TypeOK, Rows
  <1>2. ASSUME NEW r \in Responses, Submit(r)
        PROVE  sheet' \in Rows
    <2>1. Append(sheet, r) \in Seq(Responses) /\ Len(Append(sheet, r)) = Len(sheet) + 1
      BY <1>1, AppendProperties
    <2>2. sheet' = Append(sheet, r) /\ Len(sheet) < MaxRows
      BY <1>2 DEF Submit
    <2>3. QED
      BY <1>1, <2>1, <2>2 DEF Rows
  <1>3. ASSUME NEW m \in Int, NEW n \in Int, 1 <= m, n <= Len(sheet)
        PROVE  /\ SubSeq(sheet, m, n) \in Seq(Responses)
               /\ Len(SubSeq(sheet, m, n)) = IF m <= n THEN n - m + 1 ELSE 0
    <2>1. \A i \in m .. n : sheet[i] \in Responses
      BY <1>1, <1>3
    <2>2. QED
      BY <1>3, <2>1, SubSeqProperties
  <1>4. ASSUME NEW a \in Seq(Responses), NEW b \in Seq(Responses)
        PROVE  a \o b \in Seq(Responses) /\ Len(a \o b) = Len(a) + Len(b)
    BY <1>4, ConcatProperties
  <1>5. ASSUME NEW p \in 1 .. Len(sheet), Delete(p)
        PROVE  sheet' \in Rows
    <2> DEFINE a == SubSeq(sheet, 1, p - 1)
               b == SubSeq(sheet, p + 1, Len(sheet))
    <2>1. p \in Int /\ p - 1 \in Int /\ p + 1 \in Int /\ Len(sheet) \in Int
      BY <1>1
    <2>2. a \in Seq(Responses) /\ Len(a) = p - 1
      BY <1>1, <1>3, <2>1
    <2>5. b \in Seq(Responses) /\ Len(b) = Len(sheet) - p
      BY <1>1, <1>3, <2>1
    <2>3. sheet' = a \o b
      BY <1>5 DEF Delete
    <2> HIDE DEF a, b
    <2>4. QED
      BY <1>1, <1>4, <2>2, <2>3, <2>5 DEF Rows
  <1>6. ASSUME NEW p \in 1 .. Len(sheet), NEW r \in Responses, Insert(r, p)
        PROVE  sheet' \in Rows
    <2> DEFINE a == SubSeq(sheet, 1, p - 1)
               b == SubSeq(sheet, p, Len(sheet))
    <2>1. p \in Int /\ p - 1 \in Int /\ Len(sheet) \in Int
      BY <1>1
    <2>2. Len(sheet) < MaxRows /\ sheet' = a \o <<r>> \o b
      BY <1>6 DEF Insert
    <2>3. a \in Seq(Responses) /\ b \in Seq(Responses) /\ Len(a) + Len(b) + 1 <= MaxRows
      BY <1>1, <1>3, <2>1, <2>2
    <2>4. <<r>> \in Seq(Responses) /\ Len(<<r>>) = 1
      OBVIOUS
    <2> HIDE DEF a, b
    <2>5. a \o <<r>> \in Seq(Responses) /\ Len(a \o <<r>>) = Len(a) + 1
      BY <1>4, <2>3, <2>4
    <2>6. Len(sheet') = Len(a) + 1 + Len(b) /\ sheet' \in Seq(Responses)
      BY <1>4, <2>2, <2>3, <2>5
    <2>7. Len(a) \in Nat /\ Len(b) \in Nat
      BY <2>3
    <2>8. QED
      BY <2>3, <2>6, <2>7 DEF Rows
  <1>7. QED
    BY <1>2, <1>5, <1>6

LEMMA QuietFits ==
  ASSUME TypeOK, UNCHANGED scan, NEW o \in Scans
  PROVE  Fits(o)'
  BY FitsStays DEF scan, window

LEMMA EditTyped == TypeOK /\ Edit => TypeOK'
  <1> SUFFICES ASSUME TypeOK, Edit PROVE TypeOK'
    OBVIOUS
  <1>1. sheet' \in Rows
    BY SheetTyped DEF Edit
  <1>2. /\ edits' = edits \/ (edits + tenant < MaxEdits /\ edits' = edits + 1)
        /\ UNCHANGED <<reviews, cursor, tenant, lease, now, overrun, strays, scan>>
    BY DEF Edit, Submit, Insert, Delete
  <1>5. edits' \in 0 .. MaxEdits
    BY <1>2 DEF TypeOK, Tenants
  <1>3. \A o \in Scans : Fits(o)'
    BY <1>2, QuietFits
  <1>4. QED
    BY <1>1, <1>2, <1>3, <1>5 DEF TypeOK, scan, window

LEMMA OtherTyped ==
  ASSUME TypeOK, (\E r \in Responses : Decide(r)) \/ LeaseRunsOut \/ ResetTenant
  PROVE  TypeOK'
  <1>1. UNCHANGED scan
    BY DEF Decide, LeaseRunsOut, ResetTenant
  <1>2. \A o \in Scans : Fits(o)'
    BY <1>1, QuietFits
  <1>3. /\ pc' = pc /\ born' = born /\ mark' = mark /\ at' = at /\ forward' = forward
        /\ wrapped' = wrapped /\ length' = length /\ new' = new /\ moved' = moved
    BY <1>1 DEF scan, window
  <1>4. CASE \E r \in Responses : Decide(r)
    <2>1. reviews' \in [Responses -> Reviews]
      BY <1>4 DEF TypeOK, Decide, NoReview, Reviews, Times
    <2>2. QED
      BY <1>2, <1>3, <1>4, <2>1 DEF TypeOK, Decide
  <1>5. CASE LeaseRunsOut
    <2>1. lease' \in Leases
      BY <1>5 DEF TypeOK, LeaseRunsOut, Leases
    <2>2. QED
      BY <1>2, <1>3, <1>5, <2>1 DEF TypeOK, LeaseRunsOut
  <1>6. CASE ResetTenant
    <2>1. /\ reviews' \in [Responses -> Reviews] /\ cursor' \in Cursors /\ tenant' \in Tenants
      BY <1>6 DEF TypeOK, ResetTenant, NoReview, Reviews, NoCursor, Cursors, Times, Tenants
    <2>2. sheet' \in Rows /\ edits' \in 0 .. MaxEdits /\ strays' \subseteq Responses
      BY <1>6, EmptyRows DEF ResetTenant
    <2>3. QED
      BY <1>2, <1>3, <1>6, <2>1, <2>2 DEF TypeOK, ResetTenant
  <1>7. QED
    BY <1>4, <1>5, <1>6

LEMMA TypeStep == TypeOK /\ [Next]_vars => TypeOK'
  <1> SUFFICES ASSUME TypeOK, [Next]_vars PROVE TypeOK'
    OBVIOUS
  <1>1. CASE UNCHANGED vars
    <2>1. \A o \in Scans : Fits(o)'
      BY <1>1, QuietFits DEF vars
    <2>2. QED
      BY <1>1, <2>1 DEF TypeOK, vars, shared, scan, window
  <1>2. ASSUME NEW s \in Scans, Scan(s) PROVE TypeOK'
    BY <1>2, BeginTyped, StampTyped, ForwardTyped, WrappedTyped, MatchTyped, AcquireTyped, EndTyped
       DEF Scan
  <1>3. QED
    BY <1>1, <1>2, EditTyped, OtherTyped DEF Next

-----------------------------------------------------------------------------
(* What is covered stays covered *)

Grows ==
  /\ Len(sheet) <= Len(sheet')
  /\ \A p \in 1 .. Len(sheet) : sheet'[p] = sheet[p]
  /\ \A r \in Responses : Known(r) => Known(r)'

LEMMA CoveredStays ==
  ASSUME TypeOK, TypeOK', Grows, NEW n \in Int, Covered(n)
  PROVE  Covered(n)'
  <1>1. sheet \in Seq(Responses) /\ Len(sheet) \in Nat /\ Len(sheet') \in Nat
    BY DEF TypeOK, Rows
  <1>2. n <= Len(sheet')
    BY <1>1 DEF Grows, Covered
  <1>3. ASSUME NEW p \in 1 .. n PROVE Known(sheet[p])'
    <2>1. sheet[p] \in Responses /\ Known(sheet[p]) /\ sheet'[p] = sheet[p]
      BY <1>1 DEF Grows, Covered
    <2>2. reviews'[sheet[p]].status # "absent"
      BY <2>1 DEF Grows, Known
    <2>3. QED
      BY <2>1, <2>2 DEF Known
  <1>4. QED
    BY <1>2, <1>3 DEF Covered

LEMMA ShownStays ==
  ASSUME TypeOK, TypeOK', Grows, NEW rows, NEW first \in Nat \ {0}, Len(rows) \in Nat, Shown(rows, first)
  PROVE  \A i \in 1 .. Len(rows) : first + i - 1 <= Len(sheet') /\ sheet'[first + i - 1] = rows[i]
  <1>1. Len(sheet) \in Nat /\ Len(sheet') \in Nat
    BY DEF TypeOK, Rows
  <1>2. QED
    BY <1>1 DEF Grows, Shown

LEMMA SoundStays ==
  ASSUME TypeOK, TypeOK', Grows, NEW o \in Scans, Sound(o),
         pc'[o] = pc[o], mark'[o] = mark[o], forward'[o] = forward[o],
         wrapped'[o] = wrapped[o], length'[o] = length[o], new'[o] = new[o]
  PROVE  Sound(o)'
  <1>1. mark[o] \in Nat /\ Len(forward[o]) \in Nat /\ Len(wrapped[o]) \in Nat
    BY DEF TypeOK, Rows
  <1>2. First(o) \in Nat \ {0} /\ First(o)' = First(o)
    BY <1>1 DEF First
  <1>3. Covered(mark[o]) => Covered(mark[o])'
    BY <1>1, CoveredStays
  <1>4. ASSUME Shown(forward[o], First(o)) PROVE Shown(forward[o], First(o))'
    <2>1. \A i \in 1 .. Len(forward[o]) :
            First(o) + i - 1 <= Len(sheet') /\ sheet'[First(o) + i - 1] = forward[o][i]
      BY <1>1, <1>2, <1>4, ShownStays
    <2>2. QED
      BY <1>2, <2>1 DEF Shown
  <1>5. ASSUME Shown(wrapped[o], 1) PROVE Shown(wrapped[o], 1)'
    <2>1. \A i \in 1 .. Len(wrapped[o]) :
            1 + i - 1 <= Len(sheet') /\ sheet'[1 + i - 1] = wrapped[o][i]
      BY <1>1, <1>5, ShownStays
    <2>2. QED
      BY <2>1 DEF Shown
  <1>6. Met(o)' = Met(o) /\ Met(o) \subseteq Responses
    BY PlaceFacts DEF Met
  <1>7. QED
    BY <1>2, <1>3, <1>4, <1>5, <1>6 DEF Sound, Grows

LEMMA ScanGrows ==
  ASSUME TypeOK, NEW s \in Scans, Scan(s)
  PROVE  Grows /\ sheet' = sheet /\ edits' = edits /\ tenant' = tenant
  <1>1. sheet' = sheet /\ edits' = edits /\ tenant' = tenant
    BY DEF Scan, Begin, Stamp, ReadForward, ReadWrapped, NoNews, Refuse, Match, Acquire, Save, Fail,
           Stop, shared
  <1>2. ASSUME NEW r \in Responses, Known(r) PROVE Known(r)'
    <2>1. reviews' = reviews \/ reviews'[r] = Saved(s, r)
      BY DEF Scan, Begin, Stamp, ReadForward, ReadWrapped, NoNews, Refuse, Match, Acquire, Save,
             Fail, Stop, shared
    <2>2. Saved(s, r).status # "absent"
      BY <1>2 DEF Saved, Insertable, Known
    <2>3. QED
      BY <1>2, <2>1, <2>2 DEF Known
  <1>3. Len(sheet) \in Nat
    BY DEF TypeOK, Rows
  <1>4. QED
    BY <1>1, <1>2, <1>3 DEF Grows

\* A step of s leaves the other scans alone.
Alone(s) ==
  \A o \in Scans \ {s} :
    /\ pc'[o] = pc[o] /\ born'[o] = born[o] /\ mark'[o] = mark[o]
    /\ forward'[o] = forward[o] /\ wrapped'[o] = wrapped[o] /\ length'[o] = length[o]
    /\ new'[o] = new[o]

LEMMA ScanAlone == ASSUME TypeOK, NEW s \in Scans, Scan(s) PROVE Alone(s)
  <1>1. CASE Begin(s) \/ Stamp(s)
    BY <1>1 DEF TypeOK, Begin, Stamp, Enter, window, Alone
  <1>2. CASE ReadForward(s) \/ ReadWrapped(s)
    BY <1>2 DEF TypeOK, ReadForward, ReadWrapped, Enter, Alone
  <1>3. CASE Match(s) \/ Acquire(s)
    BY <1>3 DEF TypeOK, Match, Acquire, Enter, window, Alone
  <1>4. CASE Forget(s)
    BY <1>4 DEF TypeOK, Forget, Alone
  <1>5. QED
    BY <1>1, <1>2, <1>3, <1>4 DEF Scan, NoNews, Refuse, Save, Fail, Stop

LEMMA OwnSound ==
  ASSUME Inv, TypeOK', NEW s \in Scans, Scan(s), edits = 0, born'[s] = tenant
  PROVE  Sound(s)'
  <1>1. TypeOK /\ Grows /\ sheet' = sheet /\ Covered(cursor.position) /\ edits' = edits
    BY ScanGrows DEF Inv
  <1>2. mark[s] \in Nat /\ cursor.position \in Nat /\ Met(s) \subseteq Responses
    BY <1>1, PlaceFacts DEF TypeOK, Cursors
  <1>3. CASE Begin(s)
    <2>1. pc'[s] = "begun" /\ mark'[s] = cursor.position
      BY <1>1, <1>3 DEF TypeOK, Begin, Enter
    <2>2. PICK n \in Int : n = cursor.position
      BY <1>2
    <2>3. Covered(mark[s])'
      <3>1. Covered(n)'
        BY <1>1, <2>2, CoveredStays
      <3>2. QED
        BY <2>1, <2>2, <3>1 DEF Covered
    <2>4. QED
      BY <2>1, <2>3 DEF Sound
  <1>4. CASE Forget(s)
    <2>1. pc'[s] = "over"
      BY <1>1, <1>4 DEF TypeOK, Forget
    <2>2. QED
      BY <2>1 DEF Sound
  <1>5. ASSUME ~ Begin(s), ~ Forget(s) PROVE born[s] = tenant /\ mark'[s] = mark[s] /\ Sound(s)
    <2>1. born' = born /\ mark' = mark /\ tenant' = tenant
      BY <1>5 DEF Scan, Stamp, ReadForward, ReadWrapped, NoNews, Refuse, Match, Acquire, Save, Fail,
                  Stop, shared
    <2>2. QED
      BY <2>1 DEF Inv
  <1>6. ASSUME Covered(mark[s]), mark'[s] = mark[s] PROVE Covered(mark[s])'
    <2>1. PICK n \in Int : n = mark[s]
      BY <1>2
    <2>2. Covered(n)'
      BY <1>1, <1>6, <2>1, CoveredStays
    <2>3. QED
      BY <1>6, <2>1, <2>2 DEF Covered
  <1>7. CASE Stamp(s)
    <2>1. pc[s] = "begun" /\ pc'[s] = "stamped"
      BY <1>1, <1>7 DEF TypeOK, Stamp, Enter
    <2>2. Sound(s) /\ mark' = mark
      BY <1>7, <2>1 DEF Inv, Stamp
    <2>3. QED
      BY <1>6, <2>1, <2>2 DEF Sound
  <1>8. CASE ReadForward(s)
    <2>1. pc[s] = "stamped" /\ pc'[s] = "read"
      BY <1>1, <1>8 DEF TypeOK, ReadForward, Enter
    <2>2. Sound(s) /\ mark' = mark /\ born' = born
      BY <1>8 DEF Inv, ReadForward
    <2>3. /\ forward'[s] = Read(First(s), Window) /\ length'[s] = Len(sheet)
          /\ First(s)' = First(s) /\ First(s) \in Nat \ {0} /\ First(s) = mark[s] + 1
      BY <1>1, <1>2, <1>8, <2>2 DEF TypeOK, ReadForward, First
    <2>4. Len(sheet) \in Nat /\ sheet \in Rows
      BY <1>1 DEF TypeOK, Rows
    <2>5. /\ Shown(Read(First(s), Window), First(s))
          /\ Read(First(s), Window) = <<>> => Len(sheet) < First(s)
      BY <2>3, <2>4, ReadFacts DEF Shown
    <2>6. Shown(forward[s], First(s))'
      BY <1>1, <2>3, <2>5 DEF Shown
    <2>7. forward'[s] = <<>> => length'[s] <= mark'[s]
      BY <1>2, <2>2, <2>3, <2>4, <2>5
    <2>8. QED
      BY <1>6, <2>1, <2>2, <2>6, <2>7 DEF Sound
  <1>9. CASE ReadWrapped(s)
    <2>1. pc[s] = "read" /\ pc'[s] = "loaded"
      BY <1>1, <1>9 DEF TypeOK, ReadWrapped, Enter
    <2>2. Sound(s) /\ mark' = mark /\ forward' = forward /\ length' = length
      BY <1>9 DEF Inv, ReadWrapped
    <2>3. Shown(forward[s], First(s))'
      BY <1>1, <2>1, <2>2 DEF Sound, Shown, First
    <2>4. wrapped'[s] = Wrapped(s) /\ Shown(Wrapped(s), 1)
      BY <1>1, <1>9, WrappedFacts DEF ReadWrapped, TypeOK
    <2>5. Shown(wrapped[s], 1)'
      BY <1>1, <2>4 DEF Shown
    <2>6. QED
      BY <1>6, <2>1, <2>2, <2>3, <2>5 DEF Sound
  <1>10. CASE Match(s)
    <2>1. pc[s] = "loaded" /\ pc'[s] = "matched"
      BY <1>1, <1>10 DEF TypeOK, Match, Enter
    <2>2. Sound(s) /\ mark' = mark /\ forward' = forward /\ wrapped' = wrapped /\ born[s] = tenant
      BY <1>10 DEF Inv, Match, window
    <2>3. Shown(forward[s], First(s))' /\ Shown(wrapped[s], 1)'
      BY <1>1, <2>1, <2>2 DEF Sound, Shown, First
    <2>4. ASSUME NEW r \in Met(s)' PROVE Known(r)' \/ r \in new'[s]
      <3>1. r \in Met(s) /\ r \in Responses
        BY <1>2, <2>2 DEF Met
      <3>2. new'[s] = Unseen(s) /\ reviews' = reviews
        BY <1>1, <1>10 DEF TypeOK, Match, Drafts, shared
      <3>3. QED
        BY <2>2, <3>1, <3>2 DEF Unseen, Status, Known
    <2>5. QED
      BY <1>6, <2>1, <2>2, <2>3, <2>4 DEF Sound
  <1>11. CASE Acquire(s)
    <2>1. pc[s] = "matched" /\ pc'[s] = "leased"
      BY <1>1, <1>11 DEF TypeOK, Acquire, Enter
    <2>2. /\ Sound(s) /\ mark' = mark /\ forward' = forward /\ wrapped' = wrapped /\ new' = new
          /\ reviews' = reviews
      BY <1>11 DEF Inv, Acquire, window
    <2>3. Shown(forward[s], First(s))' /\ Shown(wrapped[s], 1)'
      BY <1>1, <2>1, <2>2 DEF Sound, Shown, First
    <2>4. Met(s)' = Met(s) /\ \A r : Known(r)' = Known(r)
      BY <2>2 DEF Met, Known
    <2>5. QED
      BY <1>6, <2>1, <2>2, <2>3, <2>4 DEF Sound
  <1>12. QED
    BY <1>3, <1>4, <1>7, <1>8, <1>9, <1>10, <1>11 DEF Scan, NoNews, Refuse, Save, Fail, Stop

\* Everything the batch moves the cursor over is known once it has committed.
LEMMA SaveCovers ==
  ASSUME Inv, TypeOK', NEW s \in Scans, Save(s), edits = 0, born[s] = tenant
  PROVE  Covered(Checkpoint(s)) \/ \A p \in 1 .. Checkpoint(s) : p <= Len(sheet) /\ Known(sheet[p])'
  <1>1. TypeOK /\ Sound(s) /\ pc[s] = "leased" /\ sheet' = sheet
    BY DEF Inv, Save
  <1>2. /\ mark[s] \in Nat /\ Len(forward[s]) \in Nat /\ Len(wrapped[s]) \in Nat
        /\ Len(sheet) \in Nat /\ sheet \in Seq(Responses)
    BY <1>1 DEF TypeOK, Rows
  <1>3. /\ Covered(mark[s]) /\ Shown(forward[s], First(s)) /\ Shown(wrapped[s], 1)
        /\ \A r \in Met(s) : Known(r) \/ r \in new[s]
    BY <1>1 DEF Sound
  <1>4. ASSUME NEW r \in Responses, Known(r) \/ r \in new[s] PROVE Known(r)'
    <2>1. reviews'[r] = Saved(s, r)
      BY DEF Save, TypeOK
    <2>2. Saved(s, r).status # "absent"
      BY <1>4 DEF Saved, Insertable, Known
    <2>3. QED
      BY <2>1, <2>2 DEF Known
  <1>5. ASSUME NEW p \in 1 .. Checkpoint(s) PROVE p <= Len(sheet) /\ Known(sheet[p])'
    <2>1. p \in Nat \ {0} /\ Checkpoint(s) \in Nat
      BY <1>1, PlaceFacts
    <2>2. /\ p <= Len(sheet) /\ sheet[p] \in Responses
          /\ Known(sheet[p]) \/ sheet[p] \in new[s]
      <3>1. CASE p <= mark[s]
        BY <1>2, <1>3, <2>1, <3>1 DEF Covered
      <3>2. CASE p <= Len(wrapped[s])
        <4>1. p <= Len(sheet) /\ sheet[p] = wrapped[s][p]
          BY <1>2, <1>3, <2>1, <3>2 DEF Shown
        <4>2. sheet[p] \in Met(s) /\ sheet[p] \in Responses
          BY <1>2, <2>1, <3>2, <4>1 DEF Met, Content
        <4>3. QED
          BY <1>3, <4>1, <4>2
      <3>3. CASE p > mark[s] /\ ~ p <= Len(wrapped[s])
        <4>1. forward[s] # <<>> /\ p <= mark[s] + Len(forward[s])
          BY <1>2, <2>1, <3>3 DEF Checkpoint, First
        <4>2. PICK i \in 1 .. Len(forward[s]) : p = First(s) + i - 1
          <5>1. p - mark[s] \in 1 .. Len(forward[s]) /\ p = First(s) + (p - mark[s]) - 1
            BY <1>2, <2>1, <3>3, <4>1 DEF First
          <5>2. QED
            BY <5>1
        <4>3. p <= Len(sheet) /\ sheet[p] = forward[s][i]
          BY <1>3, <4>2 DEF Shown
        <4>4. sheet[p] \in Met(s) /\ sheet[p] \in Responses
          BY <1>2, <2>1, <4>3 DEF Met, Content
        <4>5. QED
          BY <1>3, <4>3, <4>4
      <3>4. QED
        BY <1>2, <2>1, <3>1, <3>2, <3>3
    <2>3. PICK r \in Responses : r = sheet[p]
      BY <2>2
    <2>4. Known(r)'
      BY <1>4, <2>2, <2>3
    <2>5. QED
      BY <1>1, <2>2, <2>3, <2>4 DEF Known
  <1>6. QED
    BY <1>5

LEMMA CursorKept ==
  ASSUME Inv, TypeOK', NEW s \in Scans, Scan(s), edits = 0
  PROVE  Covered(cursor.position)'
  <1>1. TypeOK /\ Grows /\ sheet' = sheet /\ Covered(cursor.position)
    BY ScanGrows DEF Inv
  <1>2. CASE cursor' = cursor
    <2>1. PICK n \in Int : n = cursor.position
      BY <1>1 DEF TypeOK, Cursors
    <2>2. Covered(n)'
      BY <1>1, <2>1, CoveredStays
    <2>3. QED
      BY <1>2, <2>1, <2>2 DEF Covered
  <1>3. CASE cursor' # cursor
    <2>1. Save(s) /\ born[s] = tenant /\ cursor' = SavedCursor(s)
      BY <1>3 DEF Scan, Begin, Stamp, ReadForward, ReadWrapped, NoNews, Refuse, Match, Acquire, Save,
                  Fail, Stop, shared
    <2>2. cursor'.position = Checkpoint(s)
      BY <1>3, <2>1 DEF SavedCursor
    <2>3. PICK n \in Int : n = Checkpoint(s)
      BY <1>1, PlaceFacts
    <2>4. CASE Covered(n)
      <3>1. Covered(n)'
        BY <1>1, <2>3, <2>4, CoveredStays
      <3>2. QED
        BY <2>2, <2>3, <3>1 DEF Covered
    <2>5. CASE \A p \in 1 .. n : p <= Len(sheet) /\ Known(sheet[p])'
      <3>1. n <= Len(sheet')
        <4>1. CASE n >= 1
          BY <1>1, <2>3, <2>5, <4>1
        <4>2. CASE n < 1
          BY <1>1, <2>3, <4>2 DEF TypeOK, Rows
        <4>3. QED
          BY <4>1, <4>2
      <3>2. \A p \in 1 .. n : Known(sheet[p])'
        BY <2>5
      <3>3. QED
        BY <2>2, <2>3, <3>1, <3>2 DEF Covered
    <2>6. QED
      BY <2>1, <2>3, <2>4, <2>5, SaveCovers DEF Covered
  <1>4. QED
    BY <1>2, <1>3

LEMMA HeldKept ==
  ASSUME Inv, TypeOK', NEW s \in Scans, Scan(s)
  PROVE  /\ \A o \in Scans : Held(o)' /\ born'[o] <= tenant'
         /\ NoFormerTenant'
  <1>1. TypeOK /\ tenant' = tenant /\ Alone(s) /\ tenant \in Nat
    BY ScanGrows, ScanAlone DEF Inv, TypeOK, Tenants
  <1>2. \A o \in Scans : Held(o) /\ born[o] <= tenant
    BY DEF Inv
  <1>3. \A o \in Scans : born'[o] <= tenant'
    <2>1. born'[s] = born[s] \/ born'[s] = tenant \/ born'[s] = 0
      BY <1>1 DEF Scan, Begin, Stamp, ReadForward, ReadWrapped, NoNews, Refuse, Match, Acquire, Save,
                  Fail, Stop, shared, Forget, TypeOK
    <2>2. QED
      BY <1>1, <1>2, <2>1 DEF Alone
  <1>4. CASE Acquire(s)
    <2>1. /\ lease'.by = s /\ born[s] = tenant /\ born' = born
          /\ overrun' = (overrun \/ \E o \in Scans : pc[o] = "leased")
      BY <1>4 DEF Acquire, Leasable
    <2>2. \A o \in Scans : Held(o)'
      BY <1>1, <2>1 DEF Held, Alone
    <2>3. NoFormerTenant'
      BY <1>4, <2>1 DEF Inv, NoFormerTenant, Acquire
    <2>4. QED
      BY <1>3, <2>2, <2>3
  <1>5. CASE Save(s) \/ Fail(s)
    <2>1. pc'[s] = "over" /\ overrun' = overrun /\ (lease' = lease \/ Release(s)) /\ pc[s] = "leased"
      BY <1>1, <1>5 DEF Save, Fail, Forget, TypeOK
    <2>2. \A o \in Scans \ {s} : pc[o] = "leased" /\ ~ overrun => lease'.by = o
      BY <1>2, <2>1 DEF Held, Release
    <2>3. \A o \in Scans : Held(o)'
      BY <1>1, <1>2, <2>1, <2>2 DEF Held, Alone
    <2>4. strays' = strays \/ overrun
      BY <1>2, <1>5, <2>1 DEF Held, Save, Fail
    <2>5. NoFormerTenant'
      BY <2>1, <2>4 DEF Inv, NoFormerTenant
    <2>6. QED
      BY <1>3, <2>3, <2>5
  <1>6. CASE ~ Acquire(s) /\ ~ Save(s) /\ ~ Fail(s)
    <2>1. lease' = lease /\ overrun' = overrun /\ strays' = strays
      BY <1>6 DEF Scan, Begin, Stamp, ReadForward, ReadWrapped, NoNews, Refuse, Match, Stop, shared
    <2>2. pc'[s] # "leased"
      BY <1>1, <1>6 DEF Scan, Begin, Stamp, ReadForward, ReadWrapped, NoNews, Refuse, Match, Stop,
                        Forget, Enter, TypeOK
    <2>3. \A o \in Scans : Held(o)'
      BY <1>1, <1>2, <2>1, <2>2 DEF Held, Alone
    <2>4. QED
      BY <1>3, <2>1, <2>3 DEF Inv, NoFormerTenant
  <1>7. QED
    BY <1>4, <1>5, <1>6

\* Forgetting empties a batch, the match keeps real responses out of it, and no
\* other step touches one.
LEMMA GateStep == ASSUME TypeOK, GateHolds, [Next]_vars PROVE GateHolds'
  <1>1. CASE new' = new
    BY <1>1 DEF GateHolds
  <1>2. ASSUME NEW s \in Scans, Forget(s) PROVE GateHolds'
    BY <1>2 DEF Forget, GateHolds, TypeOK
  <1>3. ASSUME NEW s \in Scans, Match(s) PROVE GateHolds'
    BY <1>3 DEF Match, Blocked, GateHolds, TypeOK
  <1>4. ASSUME NEW s \in Scans, Scan(s), ~ Forget(s), ~ Match(s) PROVE new' = new
    BY <1>4 DEF Scan, Begin, Stamp, ReadForward, ReadWrapped, NoNews, Refuse, Acquire, Save, Fail, Stop
  <1>5. CASE UNCHANGED vars
    BY <1>1, <1>5 DEF vars, scan
  <1>6. CASE Edit \/ (\E r \in Responses : Decide(r)) \/ LeaseRunsOut \/ ResetTenant
    BY <1>1, <1>6 DEF Edit, Submit, Insert, Delete, Decide, LeaseRunsOut, ResetTenant, scan
  <1>7. QED
    BY <1>1, <1>2, <1>3, <1>4, <1>5, <1>6 DEF Next

LEMMA ScanKeeps ==
  ASSUME Inv, TypeOK', GateHolds', NEW s \in Scans, Scan(s)
  PROVE  Inv'
  <1>1. TypeOK /\ Grows /\ sheet' = sheet /\ edits' = edits /\ tenant' = tenant /\ Alone(s)
    BY ScanGrows, ScanAlone DEF Inv
  <1>2. edits' = 0 => Covered(cursor.position)'
    BY <1>1, CursorKept
  <1>3. ASSUME NEW o \in Scans, edits' = 0, born'[o] = tenant' PROVE Sound(o)'
    <2>1. CASE o = s
      BY <1>1, <1>3, <2>1, OwnSound
    <2>2. CASE o # s
      <3>1. Sound(o)
        BY <1>1, <1>3, <2>2 DEF Inv, Alone
      <3>2. QED
        BY <1>1, <2>2, <3>1, SoundStays DEF Alone
    <2>3. QED
      BY <2>1, <2>2
  <1>4. QED
    BY <1>2, <1>3, HeldKept DEF Inv

-----------------------------------------------------------------------------
(* Steps of the others *)

\* A step that no scan takes, under which the Sheet grows and known stays known.
LEMMA GrowthKeeps ==
  ASSUME Inv, TypeOK', GateHolds', Grows, UNCHANGED <<edits, cursor, tenant, overrun, strays, scan>>, lease'.by = lease.by
  PROVE  Inv'
  <1>1. /\ TypeOK
        /\ edits' = edits /\ cursor' = cursor /\ tenant' = tenant /\ overrun' = overrun /\ strays' = strays
        /\ pc' = pc /\ born' = born /\ mark' = mark /\ forward' = forward /\ wrapped' = wrapped
        /\ length' = length /\ new' = new
    BY DEF Inv, scan, window
  <1>2. edits' = 0 => Covered(cursor.position)'
    <2>1. PICK n \in Int : n = cursor.position
      BY <1>1 DEF TypeOK, Cursors
    <2>2. edits = 0 => Covered(n)'
      BY <1>1, <2>1, CoveredStays DEF Inv
    <2>3. QED
      BY <1>1, <2>1, <2>2 DEF Covered
  <1>3. \A o \in Scans : edits' = 0 /\ born'[o] = tenant' => Sound(o)'
    BY <1>1, SoundStays DEF Inv
  <1>4. \A o \in Scans : Held(o)' /\ born'[o] <= tenant'
    BY <1>1 DEF Inv, Held
  <1>5. NoFormerTenant'
    BY <1>1 DEF Inv, NoFormerTenant
  <1>6. QED
    BY <1>2, <1>3, <1>4, <1>5 DEF Inv

LEMMA SubmitKeeps == ASSUME Inv, TypeOK', GateHolds', NEW r \in Responses, Submit(r) PROVE Inv'
  <1>1. sheet \in Seq(Responses) /\ Len(sheet) \in Nat
    BY DEF Inv, TypeOK, Rows
  <1>2. Len(sheet) <= Len(sheet') /\ \A p \in 1 .. Len(sheet) : sheet'[p] = sheet[p]
    BY <1>1 DEF Submit
  <1>3. reviews' = reviews
    BY DEF Submit
  <1>4. Grows
    BY <1>2, <1>3 DEF Grows, Known
  <1>5. QED
    BY <1>4, GrowthKeeps DEF Submit

LEMMA DecideKeeps == ASSUME Inv, TypeOK', GateHolds', NEW r \in Responses, Decide(r) PROVE Inv'
  <1>1. sheet' = sheet /\ Len(sheet) \in Nat
    BY DEF Decide, Inv, TypeOK, Rows
  <1>2. reviews' = [reviews EXCEPT ![r] = [NoReview EXCEPT !.status = "decided"]]
    BY DEF Decide
  <1>3. \A q \in Responses : Known(q) => Known(q)'
    BY <1>2 DEF Known, NoReview, Inv, TypeOK
  <1>4. Grows
    BY <1>1, <1>3 DEF Grows
  <1>5. QED
    BY <1>4, GrowthKeeps DEF Decide

LEMMA LeaseKeeps == ASSUME Inv, TypeOK', GateHolds', LeaseRunsOut PROVE Inv'
  <1>1. Len(sheet) \in Nat /\ sheet' = sheet /\ reviews' = reviews
    BY DEF LeaseRunsOut, Inv, TypeOK, Rows
  <1>2. Grows
    BY <1>1 DEF Grows, Known
  <1>3. QED
    BY <1>2, GrowthKeeps DEF LeaseRunsOut

\* Once a row was deleted or inserted nothing is promised of rows.
LEMMA DisturbanceKeeps ==
  ASSUME Inv, TypeOK', GateHolds', edits' # 0, UNCHANGED <<tenant, lease, overrun, strays, scan>>
  PROVE  Inv'
  <1>1. tenant' = tenant /\ lease' = lease /\ overrun' = overrun /\ strays' = strays
    OBVIOUS
  <1>2. pc' = pc /\ born' = born
    BY DEF scan
  <1>3. \A o \in Scans : Held(o)' /\ born'[o] <= tenant'
    BY <1>1, <1>2 DEF Inv, Held
  <1>4. NoFormerTenant'
    BY <1>1 DEF Inv, NoFormerTenant
  <1>5. QED
    BY <1>3, <1>4 DEF Inv

LEMMA EditKeeps == ASSUME Inv, TypeOK', GateHolds', Edit PROVE Inv'
  <1>1. edits \in Nat
    BY DEF Inv, TypeOK
  <1>2. ASSUME NEW r \in Responses, Submit(r) PROVE Inv'
    BY <1>2, SubmitKeeps
  <1>3. ASSUME NEW r \in Responses, NEW p \in 1 .. Len(sheet), Insert(r, p) PROVE Inv'
    BY <1>1, <1>3, DisturbanceKeeps DEF Insert
  <1>4. ASSUME NEW p \in 1 .. Len(sheet), Delete(p) PROVE Inv'
    BY <1>1, <1>4, DisturbanceKeeps DEF Delete
  <1>5. QED
    BY <1>2, <1>3, <1>4 DEF Edit

\* The reset leaves no scan of its own tenant behind: those that go on are of an
\* earlier one, and one that holds a lease holds it no longer.
LEMMA ResetKeeps == ASSUME Inv, TypeOK', GateHolds', ResetTenant PROVE Inv'
  <1>1. /\ tenant \in Nat /\ tenant' = tenant + 1 /\ born' = born /\ pc' = pc
        /\ lease' = lease /\ lease.by = Nobody /\ overrun' = overrun /\ strays' = {}
        /\ cursor' = NoCursor
    BY DEF ResetTenant, scan, Inv, TypeOK, Tenants
  <1>2. \A o \in Scans : born[o] \in Nat /\ born[o] <= tenant /\ Held(o)
    BY DEF Inv, TypeOK, Tenants
  <1>3. \A o \in Scans : born'[o] # tenant' /\ born'[o] <= tenant'
    BY <1>1, <1>2
  <1>4. \A o \in Scans : Held(o)'
    BY <1>1, <1>2 DEF Held
  <1>5. Covered(cursor.position)'
    BY <1>1 DEF Covered, NoCursor, TypeOK, Rows
  <1>6. NoFormerTenant'
    BY <1>1 DEF NoFormerTenant
  <1>7. QED
    BY <1>3, <1>4, <1>5, <1>6 DEF Inv

LEMMA InvInit == Init => Inv
  <1> SUFFICES ASSUME Init PROVE Inv
    OBVIOUS
  <1>1. TypeOK
    BY TypeInit
  <1>2. /\ Len(sheet) \in Nat /\ cursor.position = 0 /\ tenant = 0 /\ strays = {}
        /\ \A s \in Scans : pc[s] = "idle" /\ born[s] = 0
    BY <1>1 DEF Init, NoCursor, TypeOK, Rows
  <1>3. Covered(cursor.position)
    BY <1>2 DEF Covered
  <1>4. \A s \in Scans : Sound(s) /\ Held(s) /\ born[s] <= tenant
    BY <1>2 DEF Sound, Held
  <1>5. GateHolds
    BY DEF Init, GateHolds
  <1>6. QED
    BY <1>1, <1>2, <1>3, <1>4, <1>5 DEF Inv, NoFormerTenant

LEMMA InvStep == Inv /\ [Next]_vars => Inv'
  <1> SUFFICES ASSUME Inv, [Next]_vars PROVE Inv'
    OBVIOUS
  <1>1. TypeOK' /\ GateHolds'
    BY TypeStep, GateStep DEF Inv
  <1>2. CASE UNCHANGED vars
    <2>1. lease' = lease /\ sheet' = sheet /\ reviews' = reviews /\ Len(sheet) \in Nat
      BY <1>2 DEF vars, shared, Inv, TypeOK, Rows
    <2>2. Grows
      BY <2>1 DEF Grows, Known
    <2>3. QED
      BY <1>1, <1>2, <2>1, <2>2, GrowthKeeps DEF vars, shared
  <1>3. ASSUME NEW s \in Scans, Scan(s) PROVE Inv'
    BY <1>1, <1>3, ScanKeeps
  <1>4. CASE Edit
    BY <1>1, <1>4, EditKeeps
  <1>5. ASSUME NEW r \in Responses, Decide(r) PROVE Inv'
    BY <1>1, <1>5, DecideKeeps
  <1>6. CASE LeaseRunsOut
    BY <1>1, <1>6, LeaseKeeps
  <1>7. CASE ResetTenant
    BY <1>1, <1>7, ResetKeeps
  <1>8. QED
    BY <1>2, <1>3, <1>4, <1>5, <1>6, <1>7 DEF Next

-----------------------------------------------------------------------------
(* What is proved of the intake *)

\* The inductive invariant of the intake holds always.
THEOREM Invariance == Spec => []Inv
  <1>1. QED
    BY InvInit, InvStep, PTL DEF Spec

\* While the Sheet only grows, no response up to the cursor is missing from the
\* queue, for any window and any number of overlapping scans.
THEOREM NothingIsSkipped == Spec => []NothingSkipped
  <1>1. Inv => NothingSkipped
    BY DEF Inv, NothingSkipped, Covered
  <1>2. QED
    BY <1>1, Invariance, PTL

\* Nothing that a scan of a former tenant read is written after the reset, unless
\* its lease was taken over.
THEOREM FormerTenantsStayAway == Spec => []NoFormerTenant
  <1>1. Inv => NoFormerTenant
    BY DEF Inv
  <1>2. QED
    BY <1>1, Invariance, PTL

\* The answer that there are no new responses is true of everything that was in
\* the Sheet when the scan began to read it.
THEOREM SilenceMeansNothingNew == Spec => SilenceIsTrue
  <1>1. Inv /\ [Next]_vars => [SilentStep]_vars
    <2> SUFFICES ASSUME Inv, NEW s \in Scans, NoNews(s), born[s] = tenant, edits = 0
                 PROVE  \A p \in 1 .. length[s] : Known(sheet[p])
      BY DEF SilentStep
    <2>1. TypeOK /\ pc[s] = "loaded" /\ Sound(s) /\ Checkpoint(s) = mark[s]
      BY DEF Inv, NoNews, Quiet
    <2>2. /\ mark[s] \in Nat /\ Len(wrapped[s]) \in Nat /\ Len(forward[s]) \in Nat
          /\ length[s] \in Nat /\ Covered(mark[s]) /\ forward[s] \in Seq(Responses)
          /\ (forward[s] = <<>> => length[s] <= mark[s])
      BY <2>1 DEF TypeOK, Rows, Sound
    <2>3. forward[s] = <<>>
      <3>1. forward[s] # <<>> => Len(forward[s]) > 0
        BY <2>2
      <3>2. QED
        BY <2>1, <2>2, <3>1 DEF Checkpoint, First
    <2>4. QED
      BY <2>2, <2>3 DEF Covered
  <1>2. QED
    BY <1>1, Invariance, PTL DEF Spec, SilenceIsTrue

\* Neither a scan that started from the present cursor moves it back, nor an older
\* observation that is saved last.
THEOREM CursorMovesForward == Spec => CursorAdvances
  <1>1. Inv /\ [Next]_vars => [CursorStep]_vars
    <2> SUFFICES ASSUME Inv, NEW s \in Scans, Save(s), born[s] = tenant,
                        mark[s] = cursor.position \/ at[s] <= cursor.updated
                 PROVE  cursor'.position >= cursor.position
      BY DEF CursorStep
    <2>1. TypeOK /\ cursor' = SavedCursor(s)
      BY DEF Inv, Save
    <2>2. Checkpoint(s) \in 0 .. MaxRows /\ Checkpoint(s) >= mark[s] /\ mark[s] \in 0 .. MaxRows
      BY <2>1, PlaceFacts DEF TypeOK
    <2>3. CASE mark[s] = cursor.position
      <3>1. cursor' = cursor \/ cursor'.position = Checkpoint(s)
        BY <2>1 DEF SavedCursor
      <3>2. QED
        BY <2>1, <2>2, <2>3, <3>1 DEF TypeOK, Cursors
    \* The time fence: an older observation writes the cursor only when it is the first.
    <2>4. CASE at[s] <= cursor.updated
      <3>1. \/ cursor' = cursor
            \/ cursor.position = 0 /\ cursor'.position = Checkpoint(s)
        BY <2>1, <2>4 DEF SavedCursor, TypeOK, Cursors, Times
      <3>2. QED
        BY <2>1, <2>2, <3>1 DEF TypeOK, Cursors
    <2>5. QED
      BY <2>3, <2>4
  <1>2. QED
    BY <1>1, Invariance, PTL DEF Spec, CursorAdvances

-----------------------------------------------------------------------------
(* The refinement of Intake *)

LEMMA InitMaps == Init => Intake!Init
  BY DEF Init, Intake!Init, Intake!Nothing, NoReview, NoCursor

\* The batch is put up at once: what it inserts was absent, is not real and,
\* while the Sheet only grows, is in it; what it moves the cursor over is known.
LEMMA SaveMaps ==
  ASSUME Inv, Inv', NEW s \in Scans, Save(s), born[s] = tenant
  PROVE  \E batch \in SUBSET Responses : Intake!PutUp(batch)
  <1> DEFINE queue == [r \in Responses |-> reviews[r].status]
  <1>1. /\ TypeOK /\ TypeOK' /\ pc[s] = "leased" /\ sheet' = sheet /\ edits' = edits /\ tenant' = tenant
        /\ reviews' = [r \in Responses |-> Saved(s, r)]
    BY DEF Inv, Save
  <1>2. new[s] \subseteq Responses /\ new[s] \subseteq Met(s) /\ new[s] \cap Real = {}
    BY <1>1 DEF TypeOK, Fits, Inv, GateHolds
  <1>3. PICK batch \in SUBSET Responses : batch = {r \in new[s] : reviews[r].status = "absent"}
    BY <1>2
  <1>4. ASSUME edits = 0, NEW r \in batch PROVE Intake!InSheet(r)
    <2>1. /\ Shown(forward[s], First(s)) /\ Shown(wrapped[s], 1) /\ r \in Met(s)
      BY <1>1, <1>2, <1>3, <1>4 DEF Inv, Sound
    <2>2. mark[s] \in Nat /\ Len(forward[s]) \in Nat /\ Len(wrapped[s]) \in Nat /\ Len(sheet) \in Nat
      BY <1>1 DEF TypeOK, Rows
    <2>3. CASE r \in Content(forward[s])
      <3>1. PICK i \in 1 .. Len(forward[s]) : forward[s][i] = r
        BY <2>3 DEF Content
      <3>2. First(s) + i - 1 \in 1 .. Len(sheet) /\ sheet[First(s) + i - 1] = r
        BY <2>1, <2>2, <3>1 DEF Shown, First
      <3>3. QED
        BY <3>2 DEF Intake!InSheet
    <2>4. CASE r \in Content(wrapped[s])
      <3>1. PICK i \in 1 .. Len(wrapped[s]) : wrapped[s][i] = r
        BY <2>4 DEF Content
      <3>2. i \in 1 .. Len(sheet) /\ sheet[i] = r
        BY <2>1, <2>2, <3>1 DEF Shown
      <3>3. QED
        BY <3>2 DEF Intake!InSheet
    <2>5. QED
      BY <2>1, <2>3, <2>4 DEF Met
  <1>5. ASSUME NEW r \in Responses
        PROVE  Saved(s, r).status = IF r \in batch THEN "needs-review" ELSE reviews[r].status
    BY <1>2, <1>3 DEF Saved, Insertable
  <1>6. queue' = [r \in Responses |-> IF r \in batch THEN "needs-review" ELSE queue[r]]
    BY <1>1, <1>5
  <1>7. \A r \in batch : r \notin Real /\ queue[r] = "absent"
    BY <1>2, <1>3
  <1>8. cursor'.position \in Nat
    BY <1>1 DEF TypeOK, Cursors
  <1>9. ASSUME edits = 0
        PROVE  /\ cursor'.position <= Len(sheet)
               /\ \A p \in 1 .. cursor'.position : queue'[sheet[p]] # "absent"
    <2>1. Covered(cursor.position)'
      BY <1>1, <1>9 DEF Inv
    <2>2. cursor'.position <= Len(sheet)
      BY <1>1, <2>1 DEF Covered
    <2>3. ASSUME NEW p \in 1 .. cursor'.position PROVE queue'[sheet[p]] # "absent"
      <3>1. sheet[p] \in Responses
        BY <1>1, <1>8, <2>2 DEF TypeOK, Rows
      <3>2. reviews'[sheet[p]].status # "absent"
        BY <1>1, <2>1 DEF Covered, Known
      <3>3. QED
        BY <3>1, <3>2
    <2>4. QED
      BY <2>2, <2>3
  <1>10. Intake!PutUp(batch)
    BY <1>1, <1>4, <1>6, <1>7, <1>8, <1>9 DEF Intake!PutUp
  <1>11. QED
    BY <1>10

\* Of all the steps of a scan only the batch shows.
LEMMA ScanMaps ==
  ASSUME Inv, Inv', NEW s \in Scans, Scan(s)
  PROVE  [Intake!Next]_Intake!vars
  <1>1. CASE Save(s) /\ born[s] = tenant
    BY <1>1, SaveMaps DEF Intake!Next
  <1>2. CASE ~ (Save(s) /\ born[s] = tenant)
    <2>1. UNCHANGED <<sheet, edits, reviews, cursor, tenant>>
      BY <1>2 DEF Scan, Begin, Stamp, ReadForward, ReadWrapped, NoNews, Refuse, Match, Acquire, Save,
                  Fail, Stop, shared
    <2>2. QED
      BY <2>1 DEF Intake!vars
  <1>3. QED
    BY <1>1, <1>2

LEMMA DecideMaps == ASSUME Inv, NEW r \in Responses, Decide(r) PROVE Intake!Decide(r)
  <1> DEFINE queue == [q \in Responses |-> reviews[q].status]
  <1>1. reviews \in [Responses -> Reviews]
    BY DEF Inv, TypeOK
  <1>2. queue' = [queue EXCEPT ![r] = "decided"]
    BY <1>1 DEF Decide, NoReview
  <1>3. queue[r] = "needs-review" /\ UNCHANGED <<sheet, edits, cursor, tenant>>
    BY DEF Decide
  <1>4. QED
    BY <1>2, <1>3 DEF Intake!Decide

LEMMA EditMaps == ASSUME Inv, Inv', Edit PROVE Intake!Next
  <1>1. /\ sheet \in Seq(Responses) /\ sheet' \in Seq(Responses) /\ Len(sheet) \in Nat
        /\ edits \in Nat /\ UNCHANGED <<reviews, cursor, tenant>>
    <2>1. /\ sheet \in Seq(Responses) /\ sheet' \in Seq(Responses) /\ Len(sheet) \in Nat
          /\ edits \in Nat
      BY DEF Inv, TypeOK, Rows
    <2>2. UNCHANGED <<reviews, cursor, tenant>>
      BY DEF Edit, Submit, Insert, Delete
    <2>3. QED
      BY <2>1, <2>2
  <1>2. ASSUME NEW r \in Responses, Submit(r) PROVE Intake!Next
    <2>1. ~ Intake!InSheet(r)
      BY <1>2 DEF Submit, Content, Intake!InSheet
    <2>2. Intake!Submit(r)
      BY <1>1, <1>2, <2>1 DEF Submit, Intake!Submit
    <2>3. QED
      BY <2>2 DEF Intake!Next
  <1>3. CASE edits' = edits + 1
    <2>1. Intake!Rewrite
      BY <1>1, <1>3 DEF Intake!Rewrite
    <2>2. QED
      BY <2>1 DEF Intake!Next
  <1>4. QED
    BY <1>2, <1>3 DEF Edit, Insert, Delete

LEMMA ResetMaps == ASSUME ResetTenant PROVE Intake!Next
  <1>1. Intake!Reset
    BY DEF ResetTenant, Intake!Reset, Intake!Nothing, NoReview, NoCursor
  <1>2. QED
    BY <1>1 DEF Intake!Next

\* Overlapping scans under leases that run out keep the promise of Intake: one
\* batch at a time, of responses nobody has seen, with nothing left behind, and
\* decisions for good.
THEOREM IntakeKeepsItsPromise == Spec => ImplementsIntake
  <1>1. Inv /\ Inv' /\ [Next]_vars => [Intake!Next]_Intake!vars
    <2> SUFFICES ASSUME Inv, Inv', [Next]_vars PROVE [Intake!Next]_Intake!vars
      OBVIOUS
    <2>1. CASE UNCHANGED vars
      BY <2>1 DEF vars, shared, Intake!vars
    <2>2. ASSUME NEW s \in Scans, Scan(s) PROVE [Intake!Next]_Intake!vars
      BY <2>2, ScanMaps
    <2>3. CASE Edit
      BY <2>3, EditMaps
    <2>4. ASSUME NEW r \in Responses, Decide(r) PROVE [Intake!Next]_Intake!vars
      BY <2>4, DecideMaps DEF Intake!Next
    <2>5. CASE LeaseRunsOut
      BY <2>5 DEF LeaseRunsOut, Intake!vars
    <2>6. CASE ResetTenant
      BY <2>6, ResetMaps
    <2>7. QED
      BY <2>1, <2>2, <2>3, <2>4, <2>5, <2>6 DEF Next
  <1>2. QED
    BY <1>1, InitMaps, Invariance, PTL DEF Spec, ImplementsIntake, Intake!Spec

=============================================================================
