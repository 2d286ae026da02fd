SPECIFICATION SmallFairSpec
CONSTANTS
  Proc = {p1, p2}
  Cli = cli
  None = none
  MaxVersion = 3
  MaxEvents = 2
ACTION_CONSTRAINT
  SameName
INVARIANTS
  TypeOK
  ProgramKept
  HandedOver
PROPERTIES
  UpdateEnds
CHECK_DEADLOCK FALSE
