SPECIFICATION FairSpec
CONSTANTS
  Modes = {ask, full}
  FirstMode = ask
  Setters = {TRUE, FALSE}
  Protections = {TRUE, FALSE}
  Tries = 1
  MaxChanges = 2
  MaxUpdates = 2
INVARIANTS
  StopDecides
  ModeFollows
PROPERTIES
  ImplementsRun
  StopEndsRun
