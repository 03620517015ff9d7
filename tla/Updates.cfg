SPECIFICATION FairSpec
CONSTANTS
  Threads = {t1, t2}
  MaxUpdates = 2
  Limited = TRUE
  Movable = {t1}
  Viewable = {t2}
INVARIANTS
  NoMissedAdvance
  NoneLeftPaused
PROPERTIES
  PausedGoesOn
