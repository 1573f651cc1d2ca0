SPECIFICATION Spec
CONSTANTS
  Lines <- MCLines
  MaxLines = 4
  MaxIdx = 3
INVARIANTS
  TypeOK
  RefsPointBack
  FailuresSpreadByReference
  EveryStepAccounted
CHECK_DEADLOCK FALSE
