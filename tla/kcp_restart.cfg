CONSTANTS
  A = a
  B = b
  Mss = 1
  MaxFrag = 1
  StreamMode = FALSE
  SndWnd = 2
  RcvWnd = 2
  WndMod = 8
  InitRmtWnd = 2
  NoCwnd = TRUE
  Lengths = {1}
  MaxWritten <- MCMaxWritten
  MaxFlight <- MCMaxFlight
  WrittenByA = 2
  WrittenByB = 0
  FlightToA = 2
  FlightToB = 2
SPECIFICATION RestartSpec
PROPERTIES
  SelfHeals
