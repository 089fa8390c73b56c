SPECIFICATION FairSpec
CONSTANTS
  Threads = {t1, t2}
  Contexts = {c1}
  NoContext = NoContext
  Kernels = {k1, k2}
  Whitelist = {k1}
  Preprocessor = FALSE
  Frequency = 2
  BlockDim = 2
  IntValues = 16
  Capacity = 2
  MaxGrid = 4
  MaxRecords = 3
INVARIANTS TypeOK TraceIntact CompleteAtEnd QuietBetweenLaunches
PROPERTIES LaunchReturns
CHECK_DEADLOCK FALSE
