CONSTANTS
  Callers = {c1, c2}
  Events = {e1, e2, e3}
  Delays = {0, 1}
  MaxTime = 1
  MaxId = 2
SPECIFICATION Spec
INVARIANTS
  NeverEarly
  NeverOversleeps
  StopIsExact
PROPERTIES
  EventuallyDispatched
CHECK_DEADLOCK FALSE
