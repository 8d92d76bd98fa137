CONSTANTS
  DataShards = 3
  ParityShards = 1
  RxLimit = 3
  PawsLimit = 8
  Lengths = {1, 2}
  MaxPackets = 7
  MaxFlight = 2
SPECIFICATION Spec
CONSTRAINT MCFewLong
INVARIANTS
  Genuine
  GroupsAligned
  RxTidy
  TypeOK
  NothingWithheld
CHECK_DEADLOCK FALSE
