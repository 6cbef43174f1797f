\* Three timers, and callbacks which set any timer.
SPECIFICATION Spec
CONSTANTS
  Timers = {t1, t2, t3}
  Timeouts = {0, 1, 2}
  MaxTime = 4
CHECK_DEADLOCK FALSE
INVARIANTS Indexed
PROPERTIES WaitIsExact
