SPECIFICATION Spec
CONSTANTS
  Listener = {l1, l2}
  Ifc = {i1}
  Name = {n1, n2}
  Address = {a1, a2}
  VNI = {v1}
  Handlers = {h1, h2}
  Quit = quit
  None = none
SYMMETRY SymmetryTwo
INVARIANTS
  UniqueListeners
CHECK_DEADLOCK FALSE
