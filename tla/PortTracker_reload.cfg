SPECIFICATION Spec
CONSTANTS
  tcp = tcp
  udp = udp
  Protos = {tcp}
  Keys = {80, 443}
  Values = {"a"}
  Capacity = 3
INVARIANTS
  HotReload
