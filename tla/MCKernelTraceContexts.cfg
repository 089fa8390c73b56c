SPECIFICATION Spec
CONSTANTS
  Threads = {t1}
  Contexts = {c1, c2}
  NoContext = NoContext
  Kernels = {k1, k2}
  Whitelist = {k1}
  Preprocessor = FALSE
  Frequency = 1
  BlockDim = 1
  IntValues = 8
  Capacity = 2
  MaxGrid = 1
  MaxRecords = 1
INVARIANTS BuffersPerContext
CHECK_DEADLOCK FALSE
