SPECIFICATION FairSpec
CONSTANTS
  Handlers = {h1, h2}
  Mac = {m1, m2}
  Route <- MCRoute
  Address = {a1}
  MaxRoutes = 3
INVARIANTS
  TypeOK
  KernelRoutesListed
PROPERTIES
  StableWhileAnswering
  CrossedForever
  EndsUnlessCrossed
CHECK_DEADLOCK FALSE
