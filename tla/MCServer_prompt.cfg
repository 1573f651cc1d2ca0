SPECIFICATION PromptSpec
CONSTANTS
  Calls = {h1, h2}
  Conns = {c1, c2}
  NoConn = NoConn
  NoReply = NoReply
  JunkShapes = {}
  AnswerKinds = {"ok"}
  Fatal = {}
  MaxInbound = 2
PROPERTY ServedWithoutTimers
CHECK_DEADLOCK FALSE
