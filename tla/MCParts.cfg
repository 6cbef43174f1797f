\* Each part alone, from its initial states.
SPECIFICATION Spec
CONSTANTS
  w1 = w1 w2 = w2
  MinCapacity = 2 MaxSize = 5 MaxWrites = 2
  Packets = {p, q} MaxBuffers = 2 NoMemory = NoMemory User = User Static = Static
  Objects = {params1, params2} Keys = {"k", "l", "m"} Values = {1, 2} Ranges = {{"k", "l"}}
  Others = {"console"} Rotations = {0, 1, 2, 3} SizeByFile = 1 MaxLines = 8 MaxCrashes = 2
CHECK_DEADLOCK FALSE
INVARIANTS LogsKept CalendarIsExact BufferIsSequence PacketsHold ObserversFollow EventsAreExact
PROPERTIES LastChangeAnnounced EveryPacketSent EveryConnectionAccepted
