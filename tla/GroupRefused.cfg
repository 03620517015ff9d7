SPECIFICATION Safe
CONSTANTS
  Core = {1, 2, 3, 4}
  Device = {11}
  Founder = 1
  Members = {1, 2, 3}
  Out = {2}
  Acts = {"invite", "admit"}
  MaxEvents = 2
  MaxRounds = 1
INVARIANTS NoneRefused
CHECK_DEADLOCK FALSE
