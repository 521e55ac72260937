CONSTANTS
  Protocols = {p1, p2, p3}
  None = None
  MaxSendAlls = 1
SPECIFICATION Spec
INVARIANTS
  ControlIsSound
  AutosendRuns
PROPERTIES
  ClosedIsReleased
CHECK_DEADLOCK FALSE
