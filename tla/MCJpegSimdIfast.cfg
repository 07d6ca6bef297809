SPECIFICATION SimdSpec
CONSTANTS
  Threads = {t1}
  Archs <- ArchsMC
  Functions = {"fdct_ifast"}
  Spaces <- SpacesMC
INVARIANTS RoutineFits
