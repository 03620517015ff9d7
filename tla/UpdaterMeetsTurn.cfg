SPECIFICATION Spec
CONSTANTS
  Threads = {t1, t2}
  MaxUpdates = 1
  Limited = TRUE
  Movable = {}
  Viewable = {}
INVARIANTS
  UpdaterAlone
\* For the pause sent too late, put instead:
\* PROPERTIES NoPauseAfterLimit
