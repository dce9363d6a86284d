SPECIFICATION Spec
CONSTANTS
  node1 = node1
  node2 = node2
  Addrs = {node1, node2}
  PortNumbers = {80}
  Marks = {0, 1}
  Marked = TRUE
  Faults = FALSE
INVARIANTS
  DelRemovesRoute
