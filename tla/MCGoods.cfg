CONSTANTS
  ann = ann
  bob = bob
  bag = bag
  g1 = g1
  g2 = g2
  g3 = g3
  Players = {ann, bob, cid}
  Items = {bag, g1, g2, g3}
  Containers = {bag}
  Stackable = {g1, g2, g3}
  Ground = Ground
  Void = Void
  Nobody = Nobody
  Slots = 1
  Capacity = 2
  StackSize = 2
  InitialWorlds <- AllOnGround
  Traders = {ann, bob}
  Prices = {1}
  Endowment <- Endowed
  Fee = 1
  MaxAmount = 2
  MaxOffers = 1
  MaxPerPlayer = 2
  MaxQueries = 1
  MaxMishaps = 1
  i1 = i1
  i2 = i2
  i3 = i3
  rat = rat
  grass = grass
  blood = blood
  chest = chest
  statue = statue
  fire = fire
  pat = pat
  tom = tom
  sword = sword
  bow = bow
  s1 = s1
  s2 = s2
SPECIFICATION MCSpec
INVARIANTS
  TradesAreSound
  ItemsAreSound
  SavesAreSound
PROPERTIES
  OfferIsFrozen
  BothOrNeither
  LedgerBalances
