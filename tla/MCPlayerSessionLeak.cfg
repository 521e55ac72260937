CONSTANTS
  Protocols = {p1, p2}
  None = None
  MaxSendAlls = 2
SPECIFICATION Spec
INVARIANTS
  NoLeak
CHECK_DEADLOCK FALSE
