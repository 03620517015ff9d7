SPECIFICATION Spec
CONSTANTS
  Requests = {q1}
  Acts = {"sender"}
  MaxCalls = 1
  MaxEvents = 1
CHECK_DEADLOCK FALSE
PROPERTIES
  RejectedStays
