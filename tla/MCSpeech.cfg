SPECIFICATION SpeechSpec
CONSTANTS
  Calls <- MCCalls
  Tokens <- MCTokens
  Stops <- MCStops
  MaxTokens = 5
  Digits <- MCDigits
  Fits <- MCFits
  Pieces <- MCPieces
INVARIANTS
  CutAtFirstStop
  CallReadAsMeant
  AnswerSurfaces
CHECK_DEADLOCK FALSE
