\* A flow whose only fallback node is switched off.
SPECIFICATION Spec
CONSTANTS
  a = a
  b = b
  c = c
  x = x
  Node = {a, b, c, x}
  Flows <- Malformed
INVARIANTS
  AcceptedHasActiveFallback
\* A validation ends with its verdict.
CHECK_DEADLOCK FALSE
