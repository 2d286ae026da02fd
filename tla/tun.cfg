SPECIFICATION SmallFairSpec
CONSTANTS
  Size = {1, 2, 6}
  Overhead = 4
  EventCap = 1
  MaxChanges = 2
INVARIANTS
  TypeOK
  FaultsNamed
  SizeInUse
PROPERTIES
  CloseEnds
CHECK_DEADLOCK FALSE
