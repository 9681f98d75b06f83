\* Two requests of all kinds and memory for one that is split in two, or for
\* one fragment and a page-in.  A thread that is gone does nothing more.
SPECIFICATION FairSpec
CONSTANTS
  None = None
  Packets = 3
  Requests <- MCRequests
  MaxRequests = 2
  MaxFragments = 2
  Undisturbed = TRUE
CHECK_DEADLOCK FALSE
INVARIANTS
  HeldOnce
  CountsParts
  NothingLost
  ToldOnce
PROPERTIES
  RequestsEnd
