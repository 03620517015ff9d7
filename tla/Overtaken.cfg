CONSTANTS
  d1 = d1  d2 = d2  i1 = i1  i2 = i2
  Devices = {d1}
  Items = {i1, i2}
  Author <- AuthorOne
  Direct = {i1}
  MaxEvents = 2
SPECIFICATION QueueSpec
CHECK_DEADLOCK FALSE
PROPERTIES UncertainStaysHeld
