SPECIFICATION FairSpec
CONSTANTS
  Modes = {ask, full}
  FirstMode = ask
  Setters = {FALSE}
  Protections = {TRUE}
  Tries = 1
  MaxChanges = 1
  MaxUpdates = 0
PROPERTIES
  EveryStopEndsRun
