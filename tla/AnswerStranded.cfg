CONSTANTS
  Answers = {"a1"}
  Notices = {"n1"}
  MaxTurns = 3
  MaxEvents = 1
SPECIFICATION Spec
CHECK_DEADLOCK FALSE
PROPERTY AnswersResume
\* For the answer replayed, put instead: INVARIANT NotReplayed
\* For the answer told but not shown, put instead: INVARIANT ToldIsNoted
