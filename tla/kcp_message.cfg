CONSTANTS
  A = a
  B = b
  Mss = 1
  MaxFrag = 2
  StreamMode = FALSE
  SndWnd = 3
  RcvWnd = 2
  WndMod = 8
  InitRmtWnd = 3
  NoCwnd = TRUE
  Lengths = {1, 2}
  MaxWritten <- MCMaxWritten
  MaxFlight <- MCMaxFlight
  WrittenByA = 3
  WrittenByB = 0
  FlightToA = 2
  FlightToB = 1
SPECIFICATION Spec
INVARIANTS
  TypeOK
  InOrder
  AckedIsReceived
  PathIsTruthful
  WindowsHold
  NoStall
  NeverWedged
  MessagesIntact
PROPERTIES
  ChannelSpec
