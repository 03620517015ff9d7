SPECIFICATION ServerSpec
CONSTANTS
  Hands = {"hand"}
  Disks = {"one", "two", "two deaf"}
  Acts = {"cut", "kill", "fault", "hand", "owner"}
  MaxEvents = 2
INVARIANTS RunsInPlace Restorable OldOpensOld
PROPERTIES ServiceReturns
CHECK_DEADLOCK FALSE
