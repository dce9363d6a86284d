SPECIFICATION FairSpec
CONSTANTS
  o1 = o1
  o2 = o2
  v1 = v1
  v2 = v2
  Objects = {o1, o2}
  Versions = {v1, v2}
  Absent = Absent
  MaxChanges = 4
  MaxBreaks = 2
CHECK_DEADLOCK FALSE
INVARIANTS
  TypeOK
  QueueMatchesItems
  SyncedWhenHandled
  StoreUpToDate
PROPERTIES
  KeepsPromise
  EventuallyCaughtUp
