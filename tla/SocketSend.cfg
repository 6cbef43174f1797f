\* A thread which writes is as good as several, for write() keeps its mutex to its
\* end; two threads of the pool, a buffer of two bytes.
SPECIFICATION FairSpec
CONSTANTS
  Writers = {w1}
  Flushers = {f1, f2}
  None = None
  MaxRoom = 2
  MaxSize = 2
  MaxWrites = 3
  MaxTasks = 2
INVARIANTS SentInOrder QueueingIsExact
PROPERTIES EveryWriteFlushed
CHECK_DEADLOCK FALSE
