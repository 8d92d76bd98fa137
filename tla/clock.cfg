CONSTANTS
  Mod = 32
  Interval = 2
  Slap = 5
  RtoDef = 5
  RtoMin = 3
  RtoMax = 6
  ProbeInit = 2
  ProbeLimit = 4
  Mss = 16
  SndWnd = 2
  FastResend = 1
  NoDelay = TRUE
  NoCwnd = TRUE
  RcvWndDef = 2
  Boots = {12, 31}
  Times <- MCTimes
  Latency = 1
  Suspensions = {6}
  Rtts = {2}
  Wnds = {0, 2}
  MaxSegments = 2
  RtoCap = 7
  None = None
SPECIFICATION Spec
INVARIANTS
  TypeOK
  AcksLeave
  TimersServed
  TimersFit
  CwndIsIncr
CHECK_DEADLOCK FALSE
