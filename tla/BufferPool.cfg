\* Four addresses, the cleaner at any time.
SPECIFICATION FairSpec
CONSTANTS
  Buffers = {b1, b2, b3, b4}
  Null = Null
INVARIANTS MemoryIsOwned
PROPERTIES IdlePoolEmpties
