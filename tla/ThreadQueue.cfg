\* Two queuers, a stopper, and a task which may raise an exception.
SPECIFICATION FairSpec
CONSTANTS
  Queuers = {q1, q2}
  Stoppers = {s1}
  Runners = {r1, r2, r3}
  Throwing = {r1}
  None = None
CHECK_DEADLOCK FALSE
INVARIANTS NoStranded Drained
PROPERTIES ImplementsRunQueue EveryTaskRuns StopReturns
