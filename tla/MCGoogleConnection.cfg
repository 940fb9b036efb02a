CONSTANTS
  a1 = a1
  a2 = a2
  Accounts = {a1, a2}
  Domain <- TwoDomains
  Attempts = {t1, t2}
  Disconnects = {d1, d2}
  Actions = {w1}
  Refreshes = {x1}
  Workspace = Workspace
  None = None
SYMMETRY MCSymmetry
SPECIFICATION Spec
INVARIANTS WorkKeepsItsCredential SeveranceHolds CompletionIsTrue Inv
PROPERTIES ImplementsTenancy
CHECK_DEADLOCK FALSE
