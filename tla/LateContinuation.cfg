SPECIFICATION Spec
CONSTANTS
  MaxStreak = 1
  MaxTurns = 3
  MaxWindow = 1
  MaxCores = 3
  MaxActs = 1
  Ops = {"user"}
  Outcomes = {"done", "error"}
  Handoffs = TRUE
INVARIANT ContinuesLast
CHECK_DEADLOCK FALSE
