\* Three packets and two drives.
SPECIFICATION FairSpec
CONSTANTS
  None = None
  whole = whole
  part = part
  other = other
  Port = {0, 1}
  Disk = {whole, part, other}
  Packet = {1, 2, 3}
  DiskPort <- MCDiskPort
  BlockOffset <- MCBlockOffset
  Blocks <- MCBlocks
  BlockSize <- MCBlockSize
  Calls <- MCCalls
  Moody = {0}
CHECK_DEADLOCK FALSE
INVARIANTS
  OneCommandEach
  CompletionsNoticed
  BlocksInOrder
  ReportsWhatMoved
  StaysOnDisk
PROPERTIES
  ImplementsElevator
  EveryPacketEnds
