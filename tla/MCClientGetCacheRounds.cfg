CONSTANTS
  u1 = u1
  x1 = x1
  x2 = x2
  Urls = {u1}
  Readers = {x1, x2}
  ReaderUrl <- OneUrl
  Slots = {s1}
  LifecycleReaders = {p}
  MaxVersion = 0
  Nothing = Nothing
  NoBody = NoBody
  Denied = Denied
  Failed = Failed
SPECIFICATION FairSpec
PROPERTIES TriggersAreAnswered EveryTriggerLands
