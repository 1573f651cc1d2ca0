SPECIFICATION Spec
CONSTANTS
  Calls = {h1, h2}
  Conns = {c1, c2}
  NoConn = NoConn
  NoReply = NoReply
  JunkShapes = {}
  AnswerKinds = {"ok"}
  Fatal = {}
  MaxInbound = 1
PROPERTY SecondClientWins
CHECK_DEADLOCK FALSE
