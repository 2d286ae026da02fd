SPECIFICATION FairSpec
CONSTANTS
  Listener = {l1}
  Ifc = {i1}
  Name = {n1}
  Address = {a1}
  VNI = {v1}
  Handlers = {h1, h2}
  Quit = quit
  None = none
PROPERTIES
  OperationEndsUnlessStuck
  FailedIfcIsRemoved
CHECK_DEADLOCK FALSE
