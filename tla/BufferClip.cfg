\* A chunk of the smallest size, of 16 bytes as in the code, clipped and given back.
INIT BufferInit
NEXT BufferNext
CONSTANTS
  MinCapacity = 16 MaxSize = 16 MaxWrites = 1
CHECK_DEADLOCK FALSE
INVARIANTS PoolTakesAllocated
