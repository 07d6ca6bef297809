SPECIFICATION KeysSpec
CONSTANTS
  q = q
  w = w
  enter = enter
  fwpress = fwpress
  space = space
  menu = menu
  KEY_Return = KEY_Return
  KEY_Space = KEY_Space
  SHIFT = SHIFT
  SYM = SYM
  HOME = HOME
  Letter = {q, w}
  Plain = {enter, fwpress, space}
  Mute = {menu}
  Symbol = {KEY_Return, KEY_Space}
  SymbolOf <- MCSymbolOf
CHECK_DEADLOCK FALSE
INVARIANTS
  ReleasesReachServer
