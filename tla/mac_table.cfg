SPECIFICATION Spec
CONSTANTS
  Walkers = {save}
  Row <- MCRow
  MaxRows = 2
INVARIANTS
  ListingExact
CHECK_DEADLOCK FALSE
