\* Producers against flushes, a last flush and resets; three waiters, two of them with a
\* timeout, on either kind of signal.
SPECIFICATION ThreadsSpec
CONSTANTS
  r1 = r1
  r2 = r2
  r3 = r3
  r4 = r4
  Producers = {p1, p2}
  Runners <- MCRunners
  Chained <- MCChained
  None = None
  Waiters = {w1, w2, w3}
  Timed = {w1, w2}
INVARIANTS RunInOrder
PROPERTIES EveryResultRuns ImplementsSignalSpec SetWakesUp
