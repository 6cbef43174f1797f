\* Two pools of two threads, which stop after two idle minutes and start again.
SPECIFICATION FairIOBehaviour
CONSTANTS
  Wrap = 3
  Files = {f1, f2}
  Calls = 2
  Reads = 1
  IOSize = 2
  DecSize = 2
INVARIANTS OneThreadPerFile
PROPERTIES JoinWaitsForAll JoinReturns
