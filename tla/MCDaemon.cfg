SPECIFICATION FairSpec
CONSTANTS
  Tasks = {t1, t2, t3}
  NoTask = NoTask
  Names = {"search", "content", "other"}
INVARIANTS
  TypeOK
  SeenIsCurrent
  EngineSound
PROPERTIES
  NoStarvation
CHECK_DEADLOCK FALSE
