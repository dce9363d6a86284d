SPECIFICATION StartFairSpec
CONSTANTS
  podInformer = podInformer
  cmInformer = cmInformer
  w1 = w1
  w2 = w2
  Handlers = {podInformer, cmInformer}
  Workers = {w1, w2}
  Capacity = 3
  Stores <- MCStores
  StoreOf <- MCStoreOf
  First = "plbdata"
  NoStore = NoStore
  Free = Free
  Main = Main
  SyncOrder <- MCSyncOrder
  ListFails = FALSE
  MaxCalls = 3
CHECK_DEADLOCK FALSE
PROPERTIES
  WaitReturns
