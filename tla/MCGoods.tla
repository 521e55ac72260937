-------------------------------- MODULE MCGoods -------------------------------
(***************************************************************************)
(* What players own and where it lies, in one run: trades, the market,     *)
(* tiles, what players wear and carry, and what the database keeps.  The   *)
(* components share no state, so that each behaviour is one of a single    *)
(* component, the one that part names; the others stay as they began.      *)
(***************************************************************************)
EXTENDS Trade, TLC

CONSTANTS ann, bob, bag, g1, g2, g3, Traders, Prices, Endowment, Fee,
          MaxAmount, MaxOffers, MaxPerPlayer, MaxQueries, MaxMishaps, i1,
          i2, i3, rat, grass, blood, chest, statue, fire, pat, tom, sword,
          bow, s1, s2

VARIABLES
  part,
  online, mem, stored, opened, inMarket, offers, nextId, queries, fees,
  mishaps,
  ground, down, top, creatures, invisible, kind, flags, browse, parent,
  client, behind, turned,
  worn, classic, skilled, made, changes,
  item, decayItems, lastBucket, toDecayItems, toReleaseItems, stream, hasty,
  deedsDone,
  around, alive, shopOwner, calls, listed, shopWindow, shoppers,
  callbackRefs, purse, goods, saleList, onTheGround, paid, taken, tangled,
  failures,
  contents, ingame, visited, deed, disk, transaction, statements, job,
  tries, kept, crossed, ignored, moves, accidents

(* Everything lies on the ground: a bag, a full stack and a single coin;    *)
(* g3 is the object that a split creates.                                  *)
AllOnGround ==
  {[parent |-> [i \in Items |-> IF i = g3 THEN Void ELSE Ground],
    count |-> [i \in Items |-> CASE i = g1 -> 2 [] i = g3 -> 0 [] OTHER -> 1]]}

Endowed == ann :> [bank |-> 1, chest |-> 2, inbox |-> 0]
        @@ bob :> [bank |-> 2, chest |-> 0, inbox |-> 0]
Mk == INSTANCE Market WITH
  Players <- Traders

ThreeItems == {i1, i2, i3}
OneCreature == {rat}
AllKinds == {grass, blood, chest, statue, fire}
Layers == [k \in AllKinds |->
  CASE k = grass -> "ground" [] k = blood -> "top" [] OTHER -> "down"]
Orders == [k \in AllKinds |-> IF k = blood THEN 2 ELSE 0]
Types == [k \in AllKinds |-> IF k = fire THEN 1 ELSE 0]
Blocking == {chest, statue}
Portable == {chest}
OnlyFire == {fire}
OnlyBlood == {blood}
NoneOfThem == {}
TwoThings == 2
Ti == INSTANCE Tiles WITH
  Items <- ThreeItems, Creatures <- OneCreature, Kinds <- AllKinds,
  Layer <- Layers, Order <- Orders, Type <- Types, Solid <- Blocking,
  Moveable <- Portable, Special <- OnlyFire, Splashes <- OnlyBlood,
  Fields <- OnlyFire, Unreplaceable <- NoneOfThem, MaxShown <- TwoThings,
  None <- Nobody

(* A sword that demands a level, a bow for both hands, a bag and spears.    *)
Made(slots, weapon, two, stack, bonus, weight, demanding) ==
  [slots |-> slots, weapon |-> weapon, two |-> two, stack |-> stack, bonus |-> bonus,
   weight |-> weight, demanding |-> demanding]
InHand == {"left", "right"}
Belongings ==
  sword :> Made(InHand, "sword", FALSE, FALSE, 1, 1, TRUE)
  @@ bow :> Made(InHand, "distance", TRUE, FALSE, 2, 2, FALSE)
  @@ bag :> Made(InHand \union {"back"}, "none", FALSE, FALSE, 0, 1, FALSE)
  @@ s1 :> Made(InHand \union {"ammo"}, "distance", FALSE, TRUE, 8, 1, FALSE)
  @@ s2 :> Made(InHand \union {"ammo"}, "distance", FALSE, TRUE, 8, 1, FALSE)
Objects == {sword, bow, bag, s1, s2}
KindsOfThem == {Belongings[i] : i \in Objects}
AtFirst == [i \in Objects |->
  CASE i = bag -> "back" [] i = s2 -> "void" [] OTHER -> "ground"]
FiveUnits == 5
Once == 1
In == INSTANCE Inventory WITH
  Items <- Objects, Bag <- bag, Kinds <- KindsOfThem, Kind <- Belongings,
  BagRoom <- TwoThings, StackSize <- TwoThings, MaxLoad <- FiveUnits,
  Stored <- AtFirst, MaxChanges <- Once, None <- Nobody, world <- worn

(* A torch that is lit or put out, the ashes of it, and bones, which are    *)
(* another object when they have turned to ash.                            *)
Decaying(time, to, stop, form, moveable) ==
  [decayTime |-> time, decayTo |-> to, stop |-> stop, form |-> form, moveable |-> moveable]
KindsThatDecay == {"lit", "out", "ash", "bone"}
Decays ==
  [lit |-> Decaying(6, "ash", FALSE, "burnt", TRUE),
   out |-> Decaying(0, "never", TRUE, "burnt", TRUE),
   ash |-> Decaying(3, "nothing", FALSE, "burnt", FALSE),
   bone |-> Decaying(5, "ash", FALSE, "bony", FALSE)]
Widths == [action |-> 2, duration |-> 4, decaying |-> 1]
De == INSTANCE Decay WITH
  Objects <- ThreeItems, Kinds <- KindsThatDecay, DecayKind <- Decays,
  Tag <- Widths, MaxDeeds <- TwoThings, deeds <- deedsDone

OneBuyer == {pat}
Merchants == {tom, bob}
Stack(u, c) == [unit |-> u, count |-> c]
TwoPurses == {[x \in OneBuyer |-> <<Stack(3, 1), Stack(1, 2), Stack(3, 2)>>],
              [x \in OneBuyer |-> <<Stack(9, 1), Stack(1, 2)>>]}
ShopPrices == [buy |-> 4, sell |-> 2]
OneOrTwo == {1, 2}
Three == 3
Eleven == 11
Sh == INSTANCE Shops WITH
  Players <- OneBuyer, Npcs <- Merchants, Purses <- TwoPurses,
  Wealth <- Eleven, Ratio <- Three, Places <- Three, Prices <- ShopPrices,
  Amounts <- OneOrTwo, MaxReopens <- Once, MaxFailures <- Once,
  None <- Nobody, refs <- callbackRefs, window <- shopWindow,
  online <- around, owner <- shopOwner, ground <- onTheGround,
  shown <- saleList

ThreeThings == {bag, g1, g2}
OneBag == {bag}
AllPlaces == {"slot", "depot", "inbox", "tile", bag}
FullBag == [q \in AllPlaces |->
  CASE q = "slot" -> <<bag>> [] q = bag -> <<g1, g2>> [] OTHER -> <<>>]
Sa == INSTANCE Saving WITH
  Things <- ThreeThings, Bags <- OneBag, Places <- AllPlaces,
  FirstContents <- FullBag, FirstSid <- TwoThings, MaxMoves <- TwoThings,
  online <- ingame, opened <- visited, mishaps <- accidents

marketVars == <<online, mem, stored, opened, inMarket, offers, nextId,
                queries, fees, mishaps>>
tileVars == <<ground, down, top, creatures, invisible, kind, flags, browse,
              parent, client, behind, turned>>
inventoryVars == <<worn, classic, skilled, made, changes>>
decayVars == <<item, decayItems, lastBucket, toDecayItems, toReleaseItems,
               stream, hasty, deedsDone>>
shopsVars == <<around, alive, shopOwner, calls, listed, shopWindow,
               shoppers, callbackRefs, purse, goods, saleList, onTheGround,
               paid, taken, tangled, failures>>
savingVars == <<contents, ingame, visited, deed, disk, transaction,
                statements, job, tries, kept, crossed, ignored, moves,
                accidents>>
allVars == <<part, vars, marketVars, tileVars, inventoryVars, decayVars,
             shopsVars, savingVars>>

MCInit ==
  /\ Init /\ Mk!Init /\ Ti!Init /\ In!Init /\ De!Init /\ Sh!Init /\ Sa!Init
  /\ part \in {"trade", "market", "tile", "inventory", "decay", "shops",
               "saving"}
  /\ part # "inventory" => classic /\ skilled
  /\ part # "shops" => purse[pat] = <<Stack(9, 1), Stack(1, 2)>>

TradeNext ==
  /\ part = "trade" /\ Next
  /\ UNCHANGED <<part, marketVars, tileVars, inventoryVars, decayVars,
                 shopsVars, savingVars>>
MarketNext ==
  /\ part = "market" /\ Mk!Next
  /\ UNCHANGED <<part, vars, tileVars, inventoryVars, decayVars, shopsVars,
                 savingVars>>
TileNext ==
  /\ part = "tile" /\ Ti!Next
  /\ UNCHANGED <<part, vars, marketVars, inventoryVars, decayVars,
                 shopsVars, savingVars>>
InventoryNext ==
  /\ part = "inventory" /\ In!Next
  /\ UNCHANGED <<part, vars, marketVars, tileVars, decayVars, shopsVars,
                 savingVars>>
DecayNext ==
  /\ part = "decay" /\ De!Next
  /\ UNCHANGED <<part, vars, marketVars, tileVars, inventoryVars, shopsVars,
                 savingVars>>
ShopsNext ==
  /\ part = "shops" /\ Sh!Next
  /\ UNCHANGED <<part, vars, marketVars, tileVars, inventoryVars, decayVars,
                 savingVars>>
SavingNext ==
  /\ part = "saving" /\ Sa!Next
  /\ UNCHANGED <<part, vars, marketVars, tileVars, inventoryVars, decayVars,
                 shopsVars>>

MCNext ==
  \/ TradeNext \/ MarketNext \/ TileNext \/ InventoryNext
  \/ DecayNext \/ ShopsNext \/ SavingNext

(* The market has finitely many players; what they own, and what the bounds *)
(* are, are numbers.                                                       *)
ASSUME MarketAssumption ==
  /\ IsFiniteSet(Traders) /\ Endowment \in [Traders -> Mk!Purse]
  /\ Prices \subseteq Nat
  /\ {Fee, MaxAmount, MaxOffers, MaxPerPlayer, MaxQueries, MaxMishaps} \subseteq Nat

MCSpec == MCInit /\ [][MCNext]_allVars
-----------------------------------------------------------------------------
(* Invariant: see MutualTrade, OffersAreApart and NothingOverfull in       *)
(* Trade.                                                                  *)
TradesAreSound ==
  part = "trade" => /\ TypeOK /\ MutualTrade /\ OffersAreApart
                    /\ NothingOverfull(world)

(* Invariant: where items are; what players wear and carry and what time   *)
(* does to it (see InventoryIsSound in Inventory, DecayIsSound in Decay),  *)
(* what shops took and gave (ShopsAreSound in Shops), and what a tile      *)
(* shows of the things on it (TilesAreSound in Tiles).                     *)
ItemsAreSound ==
  /\ part = "inventory" => In!InventoryIsSound
  /\ part = "decay" => De!TypeOK /\ De!DecayIsSound
  /\ part = "shops" => Sh!TypeOK /\ Sh!ShopsAreSound
  /\ part = "tile" => Ti!TypeOK /\ Ti!TilesAreSound

(* Action property: see LedgerBalances in Market.                          *)
LedgerBalances == [][part = "market" => Mk!TypeOK /\ Mk!Balanced]_allVars

(* Invariants: see those of the same names in the components, each of      *)
(* which comes with the types of its variables.                            *)
SavesAreSound == part = "saving" => Sa!SavesAreSound
===============================================================================
