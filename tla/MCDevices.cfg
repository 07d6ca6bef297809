SPECIFICATION DevicesSpec
CHECK_DEADLOCK FALSE
CONSTANTS
  q = q
  w = w
  enter = enter
  fwpress = fwpress
  space = space
  menu = menu
  KEY_Return = KEY_Return
  KEY_Space = KEY_Space
  SHIFT = SHIFT
  SYM = SYM
  HOME = HOME
  Letter = {q, w}
  Plain = {enter, fwpress, space}
  Mute = {menu}
  Symbol = {KEY_Return, KEY_Space}
  SymbolOf <- MCSymbolOf
  Kinds <- AllKinds
  LastMarker = 3
  Updates = 7
  W = 3
  H = 2
  Uses <- MCUses
  Channel = {0, 100, 255}
  Writes = 2
  Lengths <- MCLengths
  Offsets <- MCOffsets
  Sizes   <- MCSizes
  Buffers <- MCBuffers
  Sources <- MCSources
  Rects   <- MCRects
  Milli = 2
  Thousand = 2
  Delays = {0, 2, 3}
  MaxTimers = 3
  Start = 4
  Horizon = 12
  Fd = {Sock}
  TimerId = {Refresh, Poller}
  NoCache = NoCache
  Sock = Sock
  Refresh = Refresh
  Poller = Poller
  Waiting = 2
INVARIANTS
  NothingStuck
  PlainNeverStuck
  HeldIsDown
  PreviousDone
  OneAtATime
  PixelsKept
  ClipSound
  RefreshSound
  TimersExact
  SleepFits
  OnePoller
PROPERTIES
  Returns
