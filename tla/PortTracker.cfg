SPECIFICATION Spec
CONSTANTS
  tcp = tcp
  udp = udp
  Protos = {tcp, udp}
  Keys <- MCKeys
  Values = {"a"}
  Capacity = 3
SYMMETRY ProtoSymmetry
INVARIANTS
  TypeOK
  NwEmptyOrEx
  DeltaAgreesWithEx
  KernelFollowsCache
PROPERTIES
  NoMissedAddition
  
