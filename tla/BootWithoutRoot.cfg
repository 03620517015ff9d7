SPECIFICATION ServerSpec
CONSTANTS
  Hands = {"hand"}
  Disks = {"one", "two", "two deaf"}
  Acts = {"cut"}
  MaxEvents = 1
INVARIANT BootHasRoot
\* For a snapshot torn under its name, one whose name is lost while the record
\* stands, and a cut that takes the installation back and leaves the data:
\* INVARIANT NeverTorn
\* INVARIANT BootFinishes
\* INVARIANT OpensOld
\* For the rejected version that finishes the restore, put instead
\* Acts = {"owner"} and: INVARIANT OpensOld
\* For the snapshot of a live directory, put instead Acts = {"hand"} and:
\* INVARIANT QuietCopy
CHECK_DEADLOCK FALSE
