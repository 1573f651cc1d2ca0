SPECIFICATION FairSpec
CONSTANTS
  Urls = {u1, u2}
  Capacities = {2}
  Bodies = {b1, b2, b3}
  FatalBodies = {b2}
  Jobs = {j1, j2}
  NoBody = NoBody
  NoJob = NoJob
  Times = {0, 1}
INVARIANTS
  TypeOK
  CidsResolve
  IndexedInOrder
  AckedIsKept
PROPERTIES
  UsesDen
  EveryJobEnds
CHECK_DEADLOCK FALSE
