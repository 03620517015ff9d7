CONSTANTS
  a = a
  b = b
  Threads = {a}
  Turns = {1, 2}
  Home <- HomeSmall
  Kinds = {"prompt"}
  Archivable = {}
  Gateable = {}
  NoTurn = 0
SPECIFICATION Spec
CHECK_DEADLOCK FALSE
INVARIANTS UserStopIsFinal
\* For the ended turn a handoff waits for, put instead INVARIANTS PendingStillRuns.
\* For the queued turn no scheduler has, put instead
\* Gateable = {a} and INVARIANTS QueuedIsScheduled.
\* For the turn started on an archived thread, put instead
\* Archivable = {a} and PROPERTIES ArchivedNeverStarts.
