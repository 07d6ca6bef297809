SPECIFICATION HuffSpec
CHECK_DEADLOCK FALSE
CONSTANTS
  Freqs = {}
  Bits = {}
  CodedPictures = {}
  Cuts = {0}
  Words = {64}
INVARIANTS
  WordHolds
