SPECIFICATION FairSpec
CONSTANTS
  k1 = k1
  k2 = k2
  Threads = {t1, t2}
  Contexts = {c1, c2}
  Kernels = {k1, k2}
  Environments <- MCEnvironments
  NoId = NoId
  NoContext = NoContext
  MaxThreadIds = 3
  MaxOps = 2
  Unset = Unset
INVARIANTS CallKeepsContext LaunchEndsAsBegun FreshIds SamplingFollowsList
PROPERTIES OpsInContextOrder CallsReturn
CHECK_DEADLOCK FALSE
