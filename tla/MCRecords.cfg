CONSTANTS
  Procs = {t1, t2, t3}
  client = client
  contact = contact
  project = project
  lead = lead
  task = task
  keyA = keyA
  keyB = keyB
  keyC = keyC
  keyD = keyD
  keyE = keyE
  review = review
  old = old
  new = new
  more = more
  Blank = Blank
  Nothing = Nothing
  Keys = {keyA, keyB, keyC, keyD, keyE}
  Values = {old, new, more, Blank}
  Reviews = {review}
  Seeds <- MCSeeds
  SeedRows <- MCSeedRows
  Intents <- MCIntents
  Edits <- MCEdits
SYMMETRY MCSymmetry
SPECIFICATION Spec
INVARIANTS Inv
PROPERTIES EditsKeepTheRest ImplementsOncePerKey
CHECK_DEADLOCK FALSE
