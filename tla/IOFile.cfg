\* A file of any mode, read, decoded, written or erased, on a disk which may fail.
SPECIFICATION FairSpec
CONSTANTS
  FileSize = 2
  Sizes = {0, 1, 2}
  MaxCalls = 3
CHECK_DEADLOCK FALSE
INVARIANTS QueueingIsExact ReadInOrder
PROPERTIES EveryReadAnswered EveryWriteFlushed
