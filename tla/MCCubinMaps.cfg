SPECIFICATION Spec
CONSTANTS
  m1 = m1
  m2 = m2
  m3 = m3
  Threads = {t1, t2}
  Modules = {m1, m2, m3}
  Ids <- MCIds
  IdOf <- MCIdOf
  Cubins <- MCCubins
  Slots = 2
  None = None
  NoModule = NoModule
  NullVector = NullVector
  PastEnd = PastEnd
INVARIANTS HashFound FunctionsRegistered PatchedModulesKnown
PROPERTIES LookupRight
SYMMETRY Symmetry
CHECK_DEADLOCK FALSE
