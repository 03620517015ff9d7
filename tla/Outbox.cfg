CONSTANTS
  d1 = d1  d2 = d2  i1 = i1  i2 = i2
  Devices = {d1, d2}
  Items = {i1, i2}
  Author <- AuthorEach
  Direct = {i1}
  MaxEvents = 1
SPECIFICATION QueueSpec
CHECK_DEADLOCK FALSE
INVARIANTS HandedOnce NothingIsLost
PROPERTIES QueueMoves
