CONSTANTS
  Players = {a, b, c, d}
  Premium = {a, b}
  Privileged = {d}
  Diligent = {a, c}
  MaxPlayers = 1
  MaxDrift = 5
  orc = orc
  Nobody = Nobody
  Vanished = Vanished
  w1 = w1
  w2 = w2
  LastCell = 3
  Wishes = {w1, w2}
  Target <- Ends
  Moves = {w2}
  MaxAsked = 2
SPECIFICATION MCSpec
INVARIANTS
  PlaceIsKept
  FightsAreSound
  WalksAreSound
  CreaturesAreSound
PROPERTIES
  FairAdmission
  PremiumGetsIn
CHECK_DEADLOCK FALSE
