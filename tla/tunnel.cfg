CONSTANTS
  Connectors = {c1, c2}
  Streams = {s1, s2}
  Bootstrap = s0
  None = none
  MaxInbound = 1
  MaxQueue = 1
  MaxRemovals = 1
SPECIFICATION Spec
SYMMETRY Symmetry
INVARIANTS
  TypeOK
  StreamsAgree
  NoGhostStreams
  NoneForgotten
  Recycled
CHECK_DEADLOCK FALSE
