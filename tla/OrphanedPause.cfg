SPECIFICATION Spec
CONSTANTS
  Threads = {t1}
  MaxUpdates = 2
  Limited = FALSE
  Movable = {}
  Viewable = {}
INVARIANTS
  EachGoesOn
