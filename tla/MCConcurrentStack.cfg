SPECIFICATION FairSpec
CONSTANTS
  Threads = {t1, t2, t3}
  Removers = {t3}
  Elements = {e1, e2, e3}
  Null = Null
INVARIANTS OnePlace WalkSeesStack
PROPERTIES ImplementsLifo PushLockFree
CHECK_DEADLOCK FALSE
