SPECIFICATION FairSpec
CONSTANTS
  podInformer = podInformer
  cmInformer = cmInformer
  w1 = w1
  w2 = w2
  w3 = w3
  Handlers = {podInformer, cmInformer}
  Workers = {w1, w2, w3}
  Capacity = 3
  Stores <- MCStores
  StoreOf <- MCStoreOf
  First = "plbdata"
  NoStore = NoStore
  Free = Free
INVARIANTS
  TypeOK
  MutualExclusion
  NeverBlockedInside
  NoLostStore
  NoForgottenHandler
PROPERTIES
  ImplementsChannel
  QueueServed
  HandlersProgress
