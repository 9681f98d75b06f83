\* Writes to the FATs themselves, one of them in front of the first FAT.
SPECIFICATION Spec
CONSTANTS
  None = None
  Packets = 3
  Requests <- FATWrites
  MaxRequests = 1
  MaxFragments = 1
  Undisturbed = TRUE
CHECK_DEADLOCK FALSE
INVARIANTS
  HeldOnce
