CONSTANTS
  a = a
  b = b
  Threads = {a}
  Turns = {1, 2, 3}
  Home <- HomeOne
  Kinds = {"prompt"}
  Archivable = {}
  Gateable = {a}
  NoTurn = 0
SPECIFICATION Spec
CHECK_DEADLOCK FALSE
INVARIANTS OneContinuation
PROPERTIES ImplementsLedger
