SPECIFICATION Spec
CONSTANTS
  Urls = {u1, u2, u3, u4}
  Contents = {x1}
  Times = {0, 1}
  Capacities = {1, 2, 3}
SYMMETRY Symmetry
INVARIANTS
  TypeOK
  OnePerUrl
PROPERTIES
  PinsKept
  GrowsWithinCapacity
  EvictsTheStalest
CHECK_DEADLOCK FALSE
