SPECIFICATION Spec
CONSTANTS
  kbd = kbd
  None = None
  NoCache = NoCache
  TIMER_REFRESH = TIMER_REFRESH
  TimerId = {TIMER_REFRESH}
  Keyboard <- MCKeyboard
  Fd <- MCFd
  Connections = 2
  Screen <- MCScreen
  Desktop <- MCDesktop
  Rects <- MCRects
  WireSize = 1
  KernelQueue = 1
  Word = 22133
  fullEvery256th = 512
  reconnecting = TRUE
  Unsolicited = TRUE
  FailingInput = TRUE
  FailingPeer = TRUE
CHECK_DEADLOCK FALSE
INVARIANTS
  TypeOK
  NoInternalError
  EndsOnlyForCause
  TimerMatchesDamage
  StaleCovered
  PanelCurrent
