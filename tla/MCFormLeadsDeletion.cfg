CONSTANTS
  Responses = {r1, r2, r3}
  Real = {}
  Scans = {s1, s2, s3}
  Window = 1
  MaxRows = 2
  MaxTime = 1
  MaxTenant = 0
  MaxEdits = 1
  Nobody = Nobody
SYMMETRY MCSymmetry
SPECIFICATION Spec
PROPERTIES DeletionSkipsNothing
CHECK_DEADLOCK FALSE
