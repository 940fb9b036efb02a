CONSTANTS
  People = {a, b, c}
  Founders = {a}
  Projects = {p}
  Sessions = {s1, s2}
  Invitations = {i1}
  Requests = {r1, r2}
  SessionLife = 1
  InvitationLife = 1
  Delay = 1
  MaxTime = 1
  MaxVersion = 3
  Nobody = Nobody
SYMMETRY MCSymmetry
SPECIFICATION Spec
INVARIANTS SessionCarriesItsAccess Inv
PROPERTIES CommandsAreFenced NoStaleWrite ImplementsAccess
CHECK_DEADLOCK FALSE
