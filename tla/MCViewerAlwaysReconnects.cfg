SPECIFICATION Spec
CONSTANTS
  kbd = kbd
  None = None
  NoCache = NoCache
  TIMER_REFRESH = TIMER_REFRESH
  TimerId = {TIMER_REFRESH}
  Keyboard <- MCKeyboard
  Fd <- MCFd
  Connections = 2
  Screen <- MCScreen
  Desktop <- MCDesktop
  Rects <- MCTwoRects
  WireSize = 1
  KernelQueue = 1
  Word = 22133
  fullEvery256th = 0
  reconnecting = TRUE
  Unsolicited = TRUE
  FailingInput = FALSE
  FailingPeer = TRUE
CHECK_DEADLOCK FALSE
INVARIANTS
  AlwaysReconnects
