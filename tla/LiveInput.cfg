CONSTANTS
  Answers = {"a1", "a2"}
  Notices = {"n1"}
  MaxTurns = 3
  MaxEvents = 1
SPECIFICATION Spec
CHECK_DEADLOCK FALSE
INVARIANTS OnceEach NoneLost
PROPERTIES AnswersMove
