SPECIFICATION DecodingSpec
CHECK_DEADLOCK FALSE
CONSTANTS
  Rows = 2
  Cols = 2
  Files <- MCFiles
  MostImages = 2
  DctSizes    <- MCDctSizes
  Frequencies <- MCFrequencies
  Amplitudes  <- MCAmplitudes
  DcValues    <- MCDcValues
  Steps       <- MCSteps
  Patterns    <- MCPatterns
  Frames   <- MCFrames
  Sessions <- MCSessions
  Specs    <- MCSpecs
  Pictures <- MCPictures
  Requests <- MCRequests
INVARIANTS
  DecodedRight
  ArithmeticRight
  TransformRight
  RowsInOrder
PROPERTIES
  StepsJustified
  CallReturns
