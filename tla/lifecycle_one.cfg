SPECIFICATION Spec
CONSTANTS
  Listener = {l1}
  Ifc = {i1, i2}
  Name = {n1}
  Address = {a1}
  VNI = {v1, v2}
  Handlers = {h1, h2}
  Quit = quit
  None = none
SYMMETRY Symmetry
INVARIANTS
  TypeOK
  ClosedHasCloser
  QuietAfterWait
  NoDeadlock
PROPERTIES
  StableWhileHandling
  StuckForever
  ImplementsRegistry
CHECK_DEADLOCK FALSE
