---------------------------- MODULE FolderRename -----------------------------
(***************************************************************************)
(* The names of the managed Drive folders, kept twice: by Google Drive and *)
(* by the versioned workspace blueprint.  A person renames a folder in     *)
(* both (app/api/v1/integrations/google/drive/folders/rename/route.ts),    *)
(* settles a drift by renaming it in Drive as the blueprint says (the same *)
(* route, mode reconcile-drive-name) or by adopting Drive's name into the  *)
(* blueprint (.../setup/blueprint/route.ts).  No transaction spans the two *)
(* stores: a lease per folder keeps renames apart, a version keeps         *)
(* blueprint writes apart, and a rename that cannot be saved is undone.    *)
(* The folders here are no siblings: their names do not exclude each other.*)
(***************************************************************************)
EXTENDS Naturals

CONSTANTS
  Requests,
  Folders,      \* the managed ones
  Names,
  Given,        \* the name every folder has at first
  Adoption,     \* the lease all adoptions share
  MaxSaves,     \* bound: blueprint edits by other hands
  Nothing

ASSUME NamesAssumption == Given \in Names
ASSUME AdoptionAssumption == Adoption \notin Folders
ASSUME MaxSavesAssumption == MaxSaves \in Nat
ASSUME NothingAssumption ==
  Nothing \notin Requests \cup Folders \cup Names \cup [Folders -> Names]

VARIABLES
  drive,        \* name of each folder in Google Drive
  blueprint,    \* the stored blueprint: version and names
  lease,        \* holder of each setup lease
  req,          \* requests
  edits,        \* blueprint edits by other hands so far
  alone,        \* history: requests that nobody has crossed on their folder
  disturbed     \* history: folders whose two names something has set apart

folderVars == <<drive, blueprint, lease, req, edits, alone, disturbed>>
history == <<alone, disturbed>>

Fresh == [pc |-> "idle", mode |-> Nothing, key |-> Nothing, name |-> Nothing, actual |-> Nothing,
          version |-> 0, names |-> Nothing, was |-> Nothing, found |-> Nothing, answer |-> Nothing]

FoldersInit ==
  /\ drive = [k \in Folders |-> Given]
  /\ blueprint = [version |-> 0, names |-> [k \in Folders |-> Given]]
  /\ lease = [l \in Folders \cup {Adoption} |-> Nothing]
  /\ req = [r \in Requests |-> Fresh]
  /\ edits = 0
  /\ alone = {}
  /\ disturbed = {}

-----------------------------------------------------------------------------
Key(r) == req[r].key

\* Between taking its folder in hand and its answer.
Live(r) == req[r].pc \in {"leased", "verified", "found", "renamed", "compensating", "ending",
                          "checked", "holding"}

Touching(k) == {r \in Requests : Live(r) /\ Key(r) = k}

To(r, fields) == req' = [req EXCEPT ![r] = fields]

\* The request is answered, and what it knew is gone.
Leave(r) == To(r, [Fresh EXCEPT !.pc = "done"])

Ending(r, answer) ==
  To(r, [Fresh EXCEPT !.pc = "ending", !.key = Key(r), !.name = req[r].name, !.was = req[r].was,
                      !.answer = answer])

Undoing(r, answer) == To(r, [req[r] EXCEPT !.pc = "compensating", !.answer = answer])

\* Requests that cross each other on one folder answer for nothing.
Enter(r, crossed) ==
  IF crossed = {}
    THEN alone' = alone \cup {r} /\ UNCHANGED disturbed
    ELSE alone' = alone \ Touching(Key(r)) /\ disturbed' = disturbed \cup {Key(r)}

\* The request itself leaves the two names apart, and does not know it.
Lose(r) == alone' = alone \ {r} /\ disturbed' = disturbed \cup {Key(r)}

\* It leaves them apart and will say so.
Admit(r) == disturbed' = disturbed \cup {Key(r)} /\ UNCHANGED alone

\* Somebody else may set those of the folders K apart.
Meddle(K) ==
  /\ alone' = alone \ UNION {Touching(k) : k \in K}
  /\ disturbed' = disturbed \cup K

-----------------------------------------------------------------------------
(* All three begin with the setup, before any lease. *)

Begin(r, mode, k, name, actual) ==
  /\ req[r].pc = "idle"
  /\ To(r, [Fresh EXCEPT !.pc = "read", !.mode = mode, !.key = k, !.name = name,
                         !.actual = actual, !.version = blueprint.version,
                         !.names = blueprint.names])
  /\ UNCHANGED <<drive, blueprint, lease, edits, history>>

Rename(r, k, n) == n # blueprint.names[k] /\ Begin(r, "rename", k, n, Nothing)

\* A review of this version of the blueprint, with the Drive name it showed.
Reconcile(r, k, n) == Begin(r, "reconcile", k, blueprint.names[k], n)

Adopt(r, k, n) == Begin(r, "adopt", k, n, n)

\* Mutant: the lease is taken whoever has it.
FaultyFree(l) == TRUE

Free(l) == lease[l] = Nothing

\* A lease is refused to all but one, and to a connection that has changed.
\* Who holds the folder's lease keeps it, so that whom this crosses has lost it.
Acquire(r) ==
  /\ req[r].pc = "read" /\ req[r].mode \in {"rename", "reconcile"}
  /\ \/ /\ Free(Key(r))
        /\ lease' = [lease EXCEPT ![Key(r)] = r]
        /\ To(r, [req[r] EXCEPT !.pc = "leased", !.was = drive[Key(r)]])
        /\ Enter(r, {o \in Touching(Key(r)) : lease[Key(r)] # o})
     \/ Leave(r) /\ UNCHANGED <<lease, history>>
  /\ UNCHANGED <<drive, blueprint, edits>>

\* assertReviewedBlueprintCurrent, the last time before the rename.
Verify(r) ==
  /\ req[r].pc = "leased" /\ req[r].mode = "reconcile"
  /\ IF blueprint.version = req[r].version
       THEN To(r, [req[r] EXCEPT !.pc = "verified"])
       ELSE Ending(r, "conflict")
  /\ UNCHANGED <<drive, blueprint, lease, edits, history>>

\* renameFolder reads the folder; a reconciliation expects its name.
Look(r) ==
  /\ \/ req[r].pc = "leased" /\ req[r].mode = "rename"
     \/ req[r].pc = "verified"
  /\ IF req[r].mode = "reconcile" /\ drive[Key(r)] # req[r].actual
       THEN Ending(r, "stale")
       ELSE To(r, [req[r] EXCEPT !.pc = "found", !.found = drive[Key(r)]])
  /\ UNCHANGED <<drive, blueprint, lease, edits, history>>

Put(r, n) == drive' = [drive EXCEPT ![Key(r)] = n]

\* ... and writes the name.  Without an answer the route takes it for not done.
Patch(r) ==
  /\ req[r].pc = "found"
  /\ \/ Put(r, req[r].name) /\ To(r, [req[r] EXCEPT !.pc = "renamed"]) /\ UNCHANGED history
     \/ Put(r, req[r].name) /\ Ending(r, "error") /\ Lose(r)
     \/ Ending(r, "error") /\ UNCHANGED <<drive, history>>
  /\ UNCHANGED <<blueprint, lease, edits>>

\* Mutant: the statement without its version.
FaultyStored(r) ==
  blueprint' = [version |-> blueprint.version + 1, names |-> [req[r].names EXCEPT ![Key(r)] = req[r].name]]

\* saveWorkspaceBlueprint: the whole blueprint as it was read, one name changed.
Stored(r) ==
  /\ blueprint.version = req[r].version
  /\ blueprint' = [version |-> req[r].version + 1, names |-> [req[r].names EXCEPT ![Key(r)] = req[r].name]]

\* Mutant: a refused save is answered and Drive keeps the new name.
FaultyRefused(r) ==
  /\ blueprint.version # req[r].version
  /\ Ending(r, "conflict")

Refused(r) ==
  /\ blueprint.version # req[r].version
  /\ Undoing(r, "conflict")

Save(r) ==
  /\ req[r].pc = "renamed" /\ req[r].mode = "rename"
  /\ \/ Stored(r) /\ Ending(r, "renamed") /\ UNCHANGED history
     \/ Stored(r) /\ Undoing(r, "error") /\ Lose(r)
     \/ Refused(r) /\ UNCHANGED <<blueprint, history>>
     \/ Undoing(r, "error") /\ UNCHANGED <<blueprint, history>>
  /\ UNCHANGED <<drive, lease, edits>>

\* The reviewed blueprint once more, then the event of the rename.
Confirm(r) ==
  /\ req[r].pc = "renamed" /\ req[r].mode = "reconcile"
  /\ \/ blueprint.version = req[r].version /\ Ending(r, "renamed")
     \/ Refused(r)
     \/ Undoing(r, "error")
  /\ UNCHANGED <<drive, blueprint, lease, edits, history>>

\* Mutant: back to the name the blueprint had when the request began.
FaultyRestored(r) == Put(r, req[r].names[Key(r)])

Restored(r) == Put(r, req[r].found)

\* compensateDriveName asks nothing of the name it overwrites.
Compensate(r) ==
  /\ req[r].pc = "compensating"
  /\ \/ Restored(r) /\ Ending(r, req[r].answer) /\ UNCHANGED history
     \/ Ending(r, "unrestored") /\ Admit(r) /\ (UNCHANGED drive \/ Restored(r))
  /\ UNCHANGED <<blueprint, lease, edits>>

\* assertLiveReconcileReview, before the lease of adoptions.
Check(r) ==
  /\ req[r].pc = "read" /\ req[r].mode = "adopt"
  /\ IF drive[Key(r)] = req[r].actual
       THEN /\ To(r, [req[r] EXCEPT !.pc = "checked", !.was = drive[Key(r)]])
            /\ Enter(r, Touching(Key(r)))
       ELSE Leave(r) /\ UNCHANGED history
  /\ UNCHANGED <<drive, blueprint, lease, edits>>

AcquireAdoption(r) ==
  /\ req[r].pc = "checked"
  /\ \/ /\ Free(Adoption)
        /\ lease' = [lease EXCEPT ![Adoption] = r]
        /\ To(r, [req[r] EXCEPT !.pc = "holding"])
     \/ Ending(r, "stale") /\ UNCHANGED lease
  /\ UNCHANGED <<drive, blueprint, edits, history>>

SaveAdoption(r) ==
  /\ req[r].pc = "holding"
  /\ \/ Stored(r) /\ Ending(r, "adopted")
     \/ Stored(r) /\ Ending(r, "error")
     \/ blueprint.version # req[r].version /\ Ending(r, "conflict") /\ UNCHANGED blueprint
     \/ Ending(r, "error") /\ UNCHANGED blueprint
  /\ UNCHANGED <<drive, lease, edits, history>>

\* complete- and failWorkspaceSetupLease go by the holder's own expiry.
Release(r) == lease' = [l \in DOMAIN lease |-> IF lease[l] = r THEN Nothing ELSE lease[l]]

Succeeded(r) == req[r].answer \in {"renamed", "adopted"}

\* A success that nobody crossed has brought the two names together.
Finish(r) ==
  /\ req[r].pc = "ending"
  /\ Leave(r)
  /\ Release(r) \/ UNCHANGED lease
  /\ alone' = alone \ {r}
  /\ disturbed' = IF r \in alone /\ Succeeded(r) THEN disturbed \ {Key(r)} ELSE disturbed
  /\ UNCHANGED <<drive, blueprint, edits>>

\* All is done, but for the lease: the failure to release it is the answer.
FailToComplete(r) ==
  /\ req[r].pc = "ending" /\ Succeeded(r)
  /\ Ending(r, "error")
  /\ UNCHANGED <<drive, blueprint, lease, edits, history>>

\* The isolate is gone: no undoing, and the lease stays until it runs out.
Die(r) ==
  /\ Live(r)
  /\ Leave(r)
  /\ IF req[r].pc \in {"renamed", "compensating"} THEN Lose(r) ELSE alone' = alone \ {r} /\ UNCHANGED disturbed
  /\ UNCHANGED <<drive, blueprint, lease, edits>>

\* Five minutes, whether its holder is done or not.
FolderLeaseRunsOut(l) ==
  /\ lease[l] # Nothing
  /\ lease' = [lease EXCEPT ![l] = Nothing]
  /\ UNCHANGED <<drive, blueprint, req, edits, history>>

\* PUT of a whole submitted blueprint, with any number of new names or none: it
\* asks for the version alone.
EditBlueprint(names) ==
  /\ edits < MaxSaves
  /\ edits' = edits + 1
  /\ blueprint' = [version |-> blueprint.version + 1, names |-> names]
  /\ Meddle({k \in Folders : names[k] # blueprint.names[k]})
  /\ UNCHANGED <<drive, lease, req>>

RenameInDrive(k, n) ==
  /\ n # drive[k]
  /\ drive' = [drive EXCEPT ![k] = n]
  /\ Meddle({k})
  /\ UNCHANGED <<blueprint, lease, req, edits>>

Act(r) ==
  \/ \E k \in Folders, n \in Names : Rename(r, k, n) \/ Reconcile(r, k, n) \/ Adopt(r, k, n)
  \/ Acquire(r) \/ Verify(r) \/ Look(r) \/ Patch(r) \/ Save(r) \/ Confirm(r) \/ Compensate(r)
  \/ Check(r) \/ AcquireAdoption(r) \/ SaveAdoption(r)
  \/ Finish(r) \/ FailToComplete(r) \/ Die(r)

FoldersNext ==
  \/ \E r \in Requests : Act(r)
  \/ \E l \in Folders \cup {Adoption} : FolderLeaseRunsOut(l)
  \/ \E names \in [Folders -> Names] : EditBlueprint(names)
  \/ \E k \in Folders, n \in Names : RenameInDrive(k, n)

FoldersSpec == FoldersInit /\ [][FoldersNext]_folderVars

-----------------------------------------------------------------------------
(* Properties. *)

Maybe(S) == S \cup {Nothing}

Stages == {"idle", "read", "leased", "verified", "found", "renamed", "compensating", "ending",
           "checked", "holding", "done"}

Answers == {"conflict", "stale", "error", "unrestored", "renamed", "adopted"}

Orders ==
  [pc : Stages, mode : Maybe({"rename", "reconcile", "adopt"}), key : Maybe(Folders),
   name : Maybe(Names), actual : Maybe(Names), version : Nat, names : Maybe([Folders -> Names]),
   was : Maybe(Names), found : Maybe(Names), answer : Maybe(Answers)]

FoldersTypeOK ==
  /\ drive \in [Folders -> Names]
  /\ blueprint \in [version : Nat, names : [Folders -> Names]]
  /\ lease \in [Folders \cup {Adoption} -> Maybe(Requests)]
  /\ req \in [Requests -> Orders]
  /\ edits \in 0..MaxSaves
  /\ alone \subseteq Requests
  /\ disturbed \subseteq Folders

InOrder(k) ==
  \/ drive[k] = blueprint.names[k]
  \/ \E r \in Touching(k) : req[r].pc \in {"renamed", "compensating"}

\* While nothing has set them apart, Drive and the blueprint agree on a
\* folder's name, except between the two writes of a rename: refused saves and
\* stale snapshots of other renames leave no drift behind.
DriftIsExplained == \A k \in Folders \ disturbed : InOrder(k)

\* What a request has read of the blueprint is the blueprint of that version,
\* and it keeps to the kind of request it is.
Snapshot(r) ==
  /\ Key(r) \in Folders /\ req[r].name \in Names /\ req[r].names \in [Folders -> Names]
  /\ req[r].version <= blueprint.version
  /\ req[r].version = blueprint.version => req[r].names = blueprint.names
  /\ req[r].mode = "reconcile" => req[r].name = req[r].names[Key(r)]
  /\ req[r].mode = "adopt" => req[r].name = req[r].actual
  /\ req[r].pc \in {"found", "renamed", "compensating"} => req[r].found \in Names
  /\ req[r].pc = "compensating" => req[r].answer \in {"conflict", "error"}

SnapshotsAreExact ==
  \A r \in Requests :
    /\ req[r].pc \notin {"idle", "done", "ending"} => Snapshot(r)
    /\ req[r].pc = "ending" => Key(r) \in Folders

\* Alone: at work, with nobody else at work on the folder.
AloneMeansAlone == \A r \in alone : Live(r) /\ Touching(Key(r)) = {r}

\* Whoever has not lost a folder that is in order has it to itself.
OrderIsKeptAlone == \A r \in Requests : Live(r) /\ Key(r) \notin disturbed => r \in alone

Together(r) == drive[Key(r)] = req[r].name /\ blueprint.names[Key(r)] = req[r].name

AsItWas(r) == drive[Key(r)] = req[r].was

\* The undoing failed, with or without its effect.
Unrestored(r) == drive[Key(r)] \in {req[r].was, req[r].name}

\* What an answer says of the two names.
Truth(r, answer) ==
  \/ Together(r) /\ answer \in {"renamed", "adopted", "error"}
  \/ AsItWas(r) /\ answer \in {"conflict", "stale", "error"}
  \/ Unrestored(r) /\ answer = "unrestored"

\* How far a request that nobody crossed has come with the two names.
Standing(r) ==
  /\ req[r].pc \in {"leased", "verified", "found", "checked", "holding"} => AsItWas(r)
  /\ req[r].pc \in {"checked", "holding"} => drive[Key(r)] = req[r].name
  /\ req[r].pc \in {"found", "renamed", "compensating"} => req[r].found = req[r].was
  /\ req[r].pc \in {"renamed", "compensating"} =>
       /\ drive[Key(r)] = req[r].name
       /\ Key(r) \notin disturbed => blueprint.names[Key(r)] = req[r].found
  /\ req[r].pc = "ending" => Truth(r, req[r].answer)

FoldersInv ==
  /\ FoldersTypeOK
  /\ DriftIsExplained
  /\ SnapshotsAreExact
  /\ AloneMeansAlone
  /\ OrderIsKeptAlone
  /\ \A r \in alone : Standing(r)

\* A request that nobody crossed on its folder, and that lost no answer of its
\* own, tells the truth: renamed or adopted, both stores have the name; refused,
\* Drive has the name it had; failed, one of these two.  Where the rename could
\* not be undone it says so, and Drive has no third name.
AnswersAreTrue ==
  [][\A r \in Requests : req[r].pc = "ending" /\ req'[r].pc = "done" /\ r \in alone
         => Truth(r, req[r].answer)]_folderVars

\* A rename or an adoption saves a whole blueprint as it read it, one name changed.
\* What others have saved meanwhile, in a whole blueprint or for a folder of their
\* own, is never written back, and the name replaced is the one the request knew.
OneNameAtATime ==
  [][blueprint' # blueprint => \A r \in Requests :
       req[r].pc \in {"renamed", "holding"} /\ req'[r] # req[r] =>
         /\ blueprint.names[Key(r)] = req[r].names[Key(r)]
         /\ \A k \in Folders \ {Key(r)} : blueprint'.names[k] = blueprint.names[k]]_folderVars
=============================================================================
