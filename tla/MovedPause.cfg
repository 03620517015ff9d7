SPECIFICATION Spec
CONSTANTS
  Threads = {t1}
  MaxUpdates = 1
  Limited = FALSE
  Movable = {t1}
  Viewable = {}
INVARIANTS
  PausedReleased
CHECK_DEADLOCK FALSE
