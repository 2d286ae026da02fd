SPECIFICATION FairSpec
CONSTANTS
  Listener = {l1, l2}
  Ifc = {i1, i2}
  Address = {a1}
  Name = {n1, n2}
  VNI = {v1}
  Device = {d1, d2}
  Row <- MCRow
  Heard <- MCHeard
  Files <- MCFiles
  Reloads = {r1}
  MaxEvents = 2
  None = none
  a1 = a1
  n1 = n1
  n2 = n2
  v1 = v1
  d1 = d1
  d2 = d2
PROPERTIES
  ApplyEndsUnlessLockLeft
CHECK_DEADLOCK FALSE
