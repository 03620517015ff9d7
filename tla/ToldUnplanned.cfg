SPECIFICATION Spec
CONSTANTS
  MaxStreak = 1
  MaxTurns = 3
  MaxWindow = 1
  MaxCores = 3
  MaxActs = 1
  Ops = {"user"}
  Outcomes = {"done", "error"}
  Handoffs = FALSE
INVARIANT ToldIsPlanned
CHECK_DEADLOCK FALSE
\* For the row a core's death lengthens, put instead INVARIANT InARow.
