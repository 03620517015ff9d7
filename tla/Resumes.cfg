\* One conversation over two cores: every way a turn ends, every way it goes on.
SPECIFICATION Spec
CONSTANTS
  MaxStreak = 1
  MaxTurns = 3
  MaxWindow = 2
  MaxCores = 2
  MaxActs = 1
  Ops = {"user", "ping"}
  Outcomes = {"done", "error", "limit"}
  Handoffs = TRUE
INVARIANTS ResumedOnce
PROPERTIES CancelledStaysCancelled PlanResolves
CHECK_DEADLOCK FALSE
