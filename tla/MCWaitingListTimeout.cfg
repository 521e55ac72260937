CONSTANTS
  Players = {a, b}
  Premium = {a}
  Privileged = {}
  Diligent = {}
  MaxPlayers = 1
  MaxDrift = 5
SPECIFICATION Spec
INVARIANTS
  TimeoutAfterRetry
CHECK_DEADLOCK FALSE
