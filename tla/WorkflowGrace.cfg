SPECIFICATION Safe
CONSTANTS
  a = a  b = b
  Steps = {a, b}
  Execs = {1, 2, 3}
  StepOf <- PlanStepOf
  After <- PlanAfter
  Openings = {"running", "skipped", "failed"}
  Shaped = {b}
  Worktrees = {a}
  Limit = 2
  Acts = {"handoff"}
  MaxActs = 1
  MaxCores = 3
PROPERTIES HandoffFailsNone
CHECK_DEADLOCK FALSE
\* For the step its owner stopped and the next core runs again, put instead
\* Acts = {"handoff", "stopstep"}, MaxActs = 2 and: PROPERTIES OwnerStopStands
\* For the retry that meets a closing turn, put instead
\* Acts = {"stop", "retry"}, MaxActs = 2 and: PROPERTIES RetryRuns
\* For the kill inside a Stop, put instead
\* Acts = {"rest", "stop", "retry", "crash"}, MaxActs = 4 and:
\* INVARIANTS EveryStepWorks
