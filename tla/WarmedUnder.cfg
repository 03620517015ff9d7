SPECIFICATION Spec
CONSTANTS
  Threads = {t1}
  MaxUpdates = 1
  Limited = FALSE
  Movable = {}
  Viewable = {t1}
INVARIANTS
  AllReleased
