SPECIFICATION Safe
CONSTANTS
  Core = {1, 2, 3}
  Device = {}
  Founder = 1
  Members = {1, 2, 3}
  Out = {}
  Acts = {"invite", "home", "leave"}
  MaxEvents = 3
  MaxRounds = 1
PROPERTIES HomeGoneForGood
CHECK_DEADLOCK FALSE
