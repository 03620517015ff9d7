\* A Stop, then the core dies before the settlement: the next one carries on.
SPECIFICATION Spec
CONSTANTS
  MaxStreak = 1
  MaxTurns = 3
  MaxWindow = 1
  MaxCores = 2
  MaxActs = 1
  Ops = {"user"}
  Outcomes = {"done", "error"}
  Handoffs = FALSE
INVARIANT StoppedStaysStopped
CHECK_DEADLOCK FALSE
