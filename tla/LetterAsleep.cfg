SPECIFICATION Spec
CONSTANTS
  Requests = {q1}
  Acts = {"message", "recipientDies"}
  MaxCalls = 1
  MaxEvents = 2
CHECK_DEADLOCK FALSE
PROPERTIES
  LetterWakes
\* For the letter kept with coordination off, put instead
\* Acts = {"recipient", "message"} and: INVARIANTS NoneWaitsOff
\* For the letter read after its expiry, put instead Acts = {},
\* MaxEvents = 0 and: INVARIANTS ExpiredUnread
