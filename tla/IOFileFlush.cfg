\* Two overlapping writes.
SPECIFICATION Spec
CONSTANTS
  FileSize = 0
  Sizes = {1}
  MaxCalls = 2
CHECK_DEADLOCK FALSE
INVARIANTS EndOfWriteSignalled
