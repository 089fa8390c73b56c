SPECIFICATION Spec
CONSTANTS
  Threads = {t1, t2}
  Contexts = {c1, c2}
  NullContext = NullContext
  Entries = {e1, e2, e3}
  NoThread = NoThread
  NoEntry = NoEntry
  MaxDepth = 2
SYMMETRY Symmetric
INVARIANTS LockInv NoOrphanLock
PROPERTIES EntriesStay
CHECK_DEADLOCK FALSE
