SPECIFICATION Spec
CONSTANTS
  Procs = {p1, p2, p3}
  Inodes = {i1, i2, i3}
  p1 = p1
  p2 = p2
  p3 = p3
  i1 = i1
  i2 = i2
  i3 = i3
INVARIANTS IInv Exclusive
PROPERTIES ImplementsLock
CHECK_DEADLOCK FALSE
