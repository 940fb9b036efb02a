CONSTANTS
  Events = {e1, e2}
  Workers = {w1, w2, w3}
  Composed = {w1, w2}
  MaxAttempts = 2
  MaxBatches = 2
  NoClaim = NoClaim
SPECIFICATION Spec
INVARIANTS
  Inv
PROPERTIES
  LiveLeaseEndedByItsClaimant
  ImplementsDelivery
