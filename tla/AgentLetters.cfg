SPECIFICATION Spec
CONSTANTS
  Requests = {q1}
  Acts = {"again", "sender", "recipient", "stop", "message", "decline", "fault", "senderDies", "recipientDies"}
  MaxCalls = 2
  MaxEvents = 2
CHECK_DEADLOCK FALSE
INVARIANTS
  ReadOnce
PROPERTIES
  HeldBack
  NoneForgotten
  FateTold
