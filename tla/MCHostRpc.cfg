SPECIFICATION FairSpec
CONSTANTS
  Calls = {f1, f2, f3}
  Conns = {c1, c2}
  Bodies = {b1}
  NoConn = NoConn
  NoReply = NoReply
INVARIANTS
  TypeOK
  NoLeak
  SenderHeld
  NeverBoth
  OneDelivery
PROPERTIES
  KeepsPromise
  EveryFetchEnds
