SPECIFICATION Spec
CONSTANTS
  Addr = {a1, a2}
  Mac = {m1, m2}
  NoAddr = none
  Reader = reader
  Updaters = {u1}
  TTL = 1
  Grace = 1
  MaxTries = 1
  MaxTime = 3
SYMMETRY Symmetry
INVARIANTS
  TypeOK
  OneEntryPerAddress
  ChannelsMatchWaiters
  NotifiesOnlyListeners
PROPERTIES
  ReplyWakesAll
  WedgedForever
  ImplementsResolver
CHECK_DEADLOCK FALSE
