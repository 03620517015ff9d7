SPECIFICATION Safe
CONSTANTS
  Core = {1, 2, 3}
  Device = {}
  Founder = 1
  Members = {1, 2, 3}
  Out = {}
  Acts = {"invite", "remove"}
  MaxEvents = 4
  MaxRounds = 1
PROPERTIES LeavesForCause
\* For the farewell of an earlier membership, put instead
\* Acts = {"invite", "remove", "leave"} and MaxEvents = 3.
CHECK_DEADLOCK FALSE
