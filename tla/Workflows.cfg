SPECIFICATION Spec
CONSTANTS
  a = a  b = b
  Steps = {a, b}
  Execs = {1, 2, 3}
  StepOf <- PlanStepOf
  After <- PlanAfter
  Openings = {"running", "skipped", "failed"}
  Shaped = {b}
  Worktrees = {a}
  Limit = 2
  Acts = {"pause", "resume", "stop", "retry", "team", "stopstep", "sendstep", "rootturn", "rest", "refuse", "handoff", "crash"}
  MaxActs = 3
  MaxCores = 3
INVARIANTS StepWorks ResultsCarried StopReaches
PROPERTIES RunEnds
CHECK_DEADLOCK FALSE
