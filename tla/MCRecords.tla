----------------------------- MODULE MCRecords -------------------------------
(* A small instance of Records for TLC: a record of each kind to begin
   with, creations that meet on a key, a name, a parent or a review, and edits
   that meet on a row or a name. *)
EXTENDS Records, TLC

CONSTANTS
  client, contact, project, lead, task, keyA, keyB, keyC, keyD, keyE, review, old, new, more

Row(kind) == [kind |-> kind, version |-> 1, cols |-> [c \in Cols |-> IF c = "name" THEN old ELSE Blank]]

MCSeeds == {client, contact, project, lead, task}
MCSeedRows ==
  (client :> Row("client")) @@ (contact :> Row("contact")) @@ (project :> Row("project"))
  @@ (lead :> Row("lead")) @@ (task :> Row("task"))

Wanted(key, kind, name, target) == [key |-> key, kind |-> kind, name |-> name, target |-> target]

MCIntents == {
  Wanted(keyA, "client", new, Nothing), Wanted(keyA, "client", old, Nothing),
  Wanted(keyB, "lead", more, review), Wanted(keyC, "lead", more, review),
  Wanted(keyD, "project", new, client), Wanted(keyE, "meeting", new, client)}

Change(op, target, patch, versioned) == [op |-> op, target |-> target, patch |-> patch, versioned |-> versioned]

MCEdits == {
  Change("UpdateClient", client, "name" :> new, TRUE),
  Change("UpdateClient", client, "details" :> more, TRUE),
  Change("UpdateProject", project, "details" :> more, TRUE),
  Change("AssignManager", project, "manager" :> more, FALSE),
  Change("RecordInstallationDates", project, "installation" :> more, TRUE),
  Change("RecordFollowUpResult", project, "followUp" :> more, FALSE),
  Change("UpdateContact", contact, "details" :> more, TRUE),
  Change("UpdateTask", task, "details" :> more, FALSE),
  Change("UpdateLead", lead, "name" :> new, FALSE),
  Change("UpdateLead", lead, "details" :> more, FALSE)}

MCSymmetry == Permutations(Procs)
=============================================================================
