CONSTANTS
  A = a
  B = b
  Mss = 3
  MaxFrag = 2
  StreamMode = TRUE
  SndWnd = 2
  RcvWnd = 1
  WndMod = 8
  InitRmtWnd = 2
  NoCwnd = TRUE
  Lengths = {2}
  MaxWritten <- MCMaxWritten
  MaxFlight <- MCMaxFlight
  WrittenByA = 4
  WrittenByB = 0
  FlightToA = 2
  FlightToB = 2
SPECIFICATION FairSpec
INVARIANTS
  StreamIntact
PROPERTIES
  AllRead
