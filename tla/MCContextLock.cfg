SPECIFICATION FairSpec
CONSTANTS
  Threads = {t1, t2}
  Contexts = {c1, c2}
  NullContext = NullContext
  Entries = {e1, e2, e3}
  NoThread = NoThread
  NoEntry = NoEntry
  MaxDepth = 1
INVARIANTS TypeOK ApiExclusive OwnerIsInside OneStream
PROPERTIES ImplementsCalls SomeThreadEnters
