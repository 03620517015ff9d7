SPECIFICATION Spec
CONSTANTS
  Modes = {ask, full}
  FirstMode = ask
  Setters = {FALSE}
  Protections = {TRUE}
  Tries = 1
  MaxChanges = 1
  MaxUpdates = 1
INVARIANTS
  StopIsHeard
\* For the mark an attempt leaves, put instead Protections = {FALSE} and:
\* PROPERTIES PausedWasAsked
