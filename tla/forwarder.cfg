CONSTANTS
  Addrs = {a1, a2}
  None = none
  MaxStarts = 3
  MaxStops = 2
  MaxMessages = 2
  MaxWaiting = 2
SPECIFICATION FairSpec
INVARIANTS
  TypeOK
  UpIsServed
  NoOrphanSession
  Released
  DeliversFirst
PROPERTIES
  EndIsReported
CHECK_DEADLOCK FALSE
