CONSTANTS
  Messages = {m1}
  Sweeps = {s1, s2}
  MaxAttempts = 2
  MaxCatalog = 2
  Nobody = Nobody
SYMMETRY MCSymmetry
SPECIFICATION Spec
INVARIANTS Inv FiledLeavesTheQueue SpendingIsBounded
PROPERTIES AnalysesAreKept ImplementsTriage
CHECK_DEADLOCK FALSE
