\* Every graph of three nodes, four-node flows, every kind of malformed flow.
SPECIFICATION FairSpec
CONSTANTS
  a = a
  b = b
  c = c
  x = x
  Node = {a, b, c, x}
  Flows <- AllFlows
INVARIANTS
  AcceptedIffValid
PROPERTIES
  ValidationEnds
\* A validation ends with its verdict.
CHECK_DEADLOCK FALSE
