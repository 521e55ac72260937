CONSTANTS
  Callers = {c1}
  Events = {e1, e2}
  Delays = {0, 1}
  MaxTime = 2
  MaxId = 2
SPECIFICATION Spec
INVARIANT TimeoutFindsEvent
CHECK_DEADLOCK FALSE
