CONSTANTS
  u1 = u1
  x1 = x1
  x2 = x2
  Urls = {u1}
  Readers = {x1, x2}
  ReaderUrl <- OneUrl
  Slots = {s1, s2}
  LifecycleReaders = {}
  MaxVersion = 1
  Nothing = Nothing
  NoBody = NoBody
  Denied = Denied
  Failed = Failed
SYMMETRY OneUrlSymmetry
SPECIFICATION Spec
INVARIANTS NothingOlderThanTheInvalidation NobodyWaitsInVain
PROPERTIES ImplementsReplica
