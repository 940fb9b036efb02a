CONSTANTS
  Requests = {r1, r2, r3}
  Projects = {p1, p2}
  FileCount = 2
  NoRequest = NoRequest
  NoProject = NoProject
SYMMETRY MCSymmetry
SPECIFICATION Spec
INVARIANTS JournalMatches DuplicatesNeedOverrun Inv
PROPERTIES ArchiveIsKept ImplementsFiling
CHECK_DEADLOCK FALSE
