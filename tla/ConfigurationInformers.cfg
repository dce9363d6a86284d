SPECIFICATION Spec
CONSTANTS
  u1 = u1
  u2 = u2
  c1 = c1
  Users = {u1, u2}
  Objects = {c1}
  Absent = Absent
  MaxWrites = 2
  MaxBreaks = 1
CHECK_DEADLOCK FALSE
INVARIANTS
  TypeOK
  
  SyncedStays
PROPERTIES
  
  WaitEnds
