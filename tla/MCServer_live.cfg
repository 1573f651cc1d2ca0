SPECIFICATION FairSpec
CONSTANTS
  Calls = {h1}
  Conns = {c1, c2}
  NoConn = NoConn
  NoReply = NoReply
  JunkShapes = {"plain", "split"}
  AnswerKinds = {"ok"}
  Fatal = {h1}
  MaxInbound = 1
PROPERTIES
  UsesHostRpc
  EveryRequestEnds
CHECK_DEADLOCK FALSE
