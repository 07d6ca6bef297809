SPECIFICATION FairSpec
CONSTANTS
  kbd = kbd
  None = None
  NoCache = NoCache
  TIMER_REFRESH = TIMER_REFRESH
  TimerId = {TIMER_REFRESH}
  Keyboard <- MCKeyboard
  Fd <- MCFd
  Connections = 1
  Screen <- MCScreen
  Desktop <- MCDesktop
  Rects <- MCTwoRects
  WireSize = 2
  KernelQueue = 1
  Word = 22133
  fullEvery256th = 0
  reconnecting = FALSE
  Unsolicited = TRUE
  FailingInput = FALSE
  FailingPeer = FALSE
CHECK_DEADLOCK FALSE
PROPERTIES
  UpdatesTaken
