SPECIFICATION Spec
CONSTANTS
  Scans = {s1, s2, s3}
  Nobody = Nobody
  Pages <- MCPages
  Tokens <- MCTokens
  Pad = "pad"
  MaxLength = 2
  Verdict <- MCVerdict
INVARIANTS
  TypeOK
  ScanIsPure
  WorseScoresNoHigher
CHECK_DEADLOCK FALSE
