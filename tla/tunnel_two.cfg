CONSTANTS
  Connectors = {c1, c2}
  Streams = {s1, s2, s3}
  Bootstrap = s0
  None = none
  MaxInbound = 0
  MaxQueue = 1
  MaxRemovals = 0
SPECIFICATION Spec
SYMMETRY Symmetry
INVARIANTS
  OnePerEndpoint
CHECK_DEADLOCK FALSE
