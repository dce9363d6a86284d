SPECIFICATION FairSpec
CONSTANTS
  nginx1 = nginx1
  nginx2 = nginx2
  successor = successor
  backend = backend
  Pods = {nginx1, nginx2, successor, backend}
  Nginx = {nginx1, nginx2, successor}
  IP <- MCIP
  Protos = {"tcp", "udp"}
  PortNumbers = {80, 81}
  Capacity = 3
  Environments <- MCEnvironments
  NoStore = NoStore
  Absent = Absent
CHECK_DEADLOCK FALSE
INVARIANTS
  TypeOK
  
  OnlyConfigured
  
  FreshStartSynced
  CacheComplete
PROPERTIES
  EventuallySettled
