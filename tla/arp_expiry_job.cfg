SPECIFICATION Spec
CONSTANTS
  Addr = {a1}
  Mac = {m1}
  NoAddr = none
  Reader = reader
  Updaters = {u1}
  TTL = 1
  Grace = 1
  MaxTries = 3
  MaxTime = 3
PROPERTIES
  ExpiryJobKeepsUnexpired
CHECK_DEADLOCK FALSE
