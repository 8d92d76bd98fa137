CONSTANTS
  Connectors = {c1, c2}
  Streams = {s1, s2}
  Bootstrap = s0
  None = none
  MaxInbound = 0
  MaxQueue = 1
  MaxRemovals = 0
SPECIFICATION FairSpec
PROPERTIES
  OpenIsServed
CHECK_DEADLOCK FALSE
