CONSTANTS
  u1 = u1
  x1 = x1
  x2 = x2
  Urls = {u1}
  Readers = {x1, x2}
  ReaderUrl <- OneUrl
  Slots = {s1}
  LifecycleReaders = {}
  MaxVersion = 1
  Nothing = Nothing
  NoBody = NoBody
  Denied = Denied
  Failed = Failed
SPECIFICATION Spec
PROPERTIES TimeoutsNeverPoison
