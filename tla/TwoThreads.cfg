CONSTANTS
  a = a
  b = b
  Threads = {a, b}
  Turns = {1, 2}
  Home <- HomePair
  Kinds = {"prompt", "background"}
  Archivable = {}
  Gateable = {}
  NoTurn = 0
SPECIFICATION FairSpec
CHECK_DEADLOCK FALSE
INVARIANTS HandoffCarries
PROPERTIES HandoffReachesExit
