CONSTANTS
  ann = ann
  bob = bob
  Players = {x, y, z}
  Parties = {P, Q}
  None = None
  Levels = {1, 2}
  Areas <- Places
  InitialLevel <- SameLevel
  InitialArea <- Together
  MaxChanged = 1
  Nobody = Nobody
  guild = guild
  Talkers = {ann, bob}
  Premium = {ann}
  News = {news}
  Barred = {ann}
  PrivateNumbers = {1}
  Brotherhoods = {guild}
  Troops = {troop}
  Merchants = {"merchant"}
  Spot <- OnALine
  Whisper = 1
  Hearing = 2
  Shout = 3
  Novices = {bob}
  Immune = {bob}
  MaxBuffer = 2
  MuteUnit = 5
  Exhaustion = 2
  MaxMutes = 2
  r1 = r1
  r2 = r2
  r3 = r3
  r4 = r4
  Blocks = {1, 2}
  Brood = {1, 2, 3, 4}
  Rate = 1
  Loads <- LoadedTwice
  Length <- Lengths
  Repeated = {r1, r3}
  MaxChains = 2
  h1 = h1
  h2 = h2
  bed1 = bed1
  Tenants = {ann, bob}
  Orders = {guild}
  Estates = {h1, h2}
  Bunks = {bed1}
  StandsIn <- InTheFirst
  Walls <- ByTheWall
  Outdoors = Outdoors
  Writings <- GuildOrNobody
  Landlords <- OneEach
  Sworn <- Brother
  Recruits = {bob}
  bag = bag
  box = box
  Viewers = {ann, bob}
  Boxes = {bag, box}
  Floor = {1, 2, 3}
  Corner = 1
  Panes = {0, 1}
  LastPane = 1
  Stowed <- BoxInBag
  MaxFields = 1
  MaxShifts = 1
SYMMETRY Symmetry
SPECIFICATION MCSpec
CHECK_DEADLOCK FALSE
INVARIANTS
  PartiesHold
  ChannelsAreSound
  WildlifeIsSound
  HousesAreSound
  WindowsAreSound
