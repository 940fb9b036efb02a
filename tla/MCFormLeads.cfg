CONSTANTS
  Responses = {r1, r2, r3}
  Real = {r3}
  Scans = {s1, s2, s3}
  Window = 1
  MaxRows = 2
  MaxTime = 2
  MaxTenant = 1
  MaxEdits = 1
  Nobody = Nobody
SYMMETRY MCSymmetry
SPECIFICATION Spec
INVARIANTS Inv NothingSkipped
PROPERTIES SilenceIsTrue CursorAdvances ImplementsIntake
CHECK_DEADLOCK FALSE
