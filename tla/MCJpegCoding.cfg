SPECIFICATION CodingSpec
CHECK_DEADLOCK FALSE
CONSTANTS
  Pictures <- MCPictures
  Lines <- MCLines
  Refusals <- MCRefusals
  PhuffSize2 = 6
  LowEnd = 2
  ScanChoices <- MCScanChoices
  MaxScans = 3
  Cases <- MCCases
  Cuttable <- MCCuttable
  Suspensions = 1
  Freqs <- MCFreqs
  Bits <- MCBits
  CodedPictures <- MCCodedPictures
  Cuts = {0, 1, 2}
  Words = {32}
  ALIGN_SIZE = 2
  MAX_ALLOC_CHUNK = 24
  MIN_SLOP = 2
  first_pool_slop <- MCFirst
  extra_pool_slop <- MCExtra
  Header = 3
  Manager = 7
  Pointer = 1
  Limits = {6, 60}
  ObjectSizes = {1, 4}
  Widths = {3}
  Heights = {8}
  MostChunks = 2
  MostDrift = 2
  Array = {ar}
  Value <- MCValue
  zero = zero
  junk = junk
  Shapes <- MCShapes
  Available = {0, 2, 3, 6}
  RowAlign = 2
  ChunkSpace = 4
  Threads = {t1, t2}
  Archs <- ArchsMC
  Functions <- FunctionsMC
  Spaces <- SpacesMC
INVARIANTS
  EncodedRight
  TablesFit
  ScansArrive
  ScriptsAgree
  CodesWork
  StreamArrives
  ObjectsFit
  PoolsBalance
  
  DispatchSound
PROPERTIES
  RowsKept
