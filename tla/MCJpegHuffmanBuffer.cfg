SPECIFICATION HuffSpec
CHECK_DEADLOCK FALSE
CONSTANTS
  Freqs = {}
  Bits = {}
  CodedPictures <- MCCodedPictures
  Cuts = {0}
  Words = {}
INVARIANTS
  NeverPastBuffer
