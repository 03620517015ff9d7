CONSTANTS
  a = a
  b = b
  Threads = {a}
  Turns = {1, 2}
  Home <- HomeSmall
  Kinds = {"prompt", "wake", "outbox", "background"}
  Archivable = {a}
  Gateable = {a}
  NoTurn = 0
SPECIFICATION Spec
CHECK_DEADLOCK FALSE
INVARIANTS StatusFollowsTurns RunningHasRunner NoMissedPump QueuedHasCarrier
PROPERTIES AcceptedPromptSurvives
