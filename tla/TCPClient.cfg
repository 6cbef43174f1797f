SPECIFICATION FairSpec
CONSTANTS
  MaxSockets = 2
  Streams <- MCStreams
CHECK_DEADLOCK FALSE
INVARIANTS WeakIsAlive StreamIsWhole OneDisconnection
PROPERTIES EveryByteReceived EndIsSignalled
