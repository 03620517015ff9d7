SPECIFICATION Spec
CONSTANTS
  Core = {1, 2, 3}
  Device = {11}
  Founder = 1
  Members = {1, 2, 3}
  Out = {2}
  Acts = {"invite", "remove", "leave", "home", "republish", "admit", "revoke", "lose", "crash"}
  MaxEvents = 2
  MaxRounds = 1
PROPERTIES RemovalStands Grounded RemovalsSettle
CHECK_DEADLOCK FALSE
