SPECIFICATION Spec
CONSTANTS
  Threads = {t1, t2}
  Contexts = {c1, c2}
  Null = Null
  MaxLaunches = 4
INVARIANTS SetUpOnce CachedComplete HandlesMatch
SYMMETRY Symmetry
