SPECIFICATION Spec
CONSTANTS
  Keys <- MCKeys
  Values = {a, b}
  Nodes = {n1, n2, n3, n4, n5}
  Null = Null
  Dummy = Dummy
  None = None
SYMMETRY Symmetry
INVARIANTS SearchTree
PROPERTIES ImplementsMap
