SPECIFICATION Spec
CONSTANTS
  Chars <- MCChars
  Pages <- MCPages
  Window = 5
  MinDescription = 1
  MinParagraph = 2
  MaxText = 5
  MaxSummary = 4
INVARIANTS
  OnlyNoiseIsLost
  PlainPagesAreRead
CHECK_DEADLOCK FALSE
