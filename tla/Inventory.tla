------------------------------ MODULE Inventory ------------------------------
(***************************************************************************)
(* What a player wears and carries: the slots of the body, a backpack and  *)
(* the tile that the player stands on (Player::queryAdd, addThing,         *)
(* postAddNotification and so on, Container's operations of the same       *)
(* names, Game::internalMoveItem, internalAddItem, internalRemoveItem,     *)
(* MoveEvent::EquipItem).  A move may first exchange what lies in its way; *)
(* weights are kept in two caches, and the abilities of what is worn are   *)
(* added and subtracted as it comes and goes.                              *)
(***************************************************************************)
EXTENDS Integers, FiniteSets, FiniteSetsExt

CONSTANTS
  Items, Bag,      (* the Item objects, and the one that is a container    *)
  Kinds, Kind,     (* the items' types: Kind[i] is a member of Kinds, which *)
                   (* are records [slots, weapon, two, stack, bonus,       *)
                   (* weight, demanding]                                   *)
  BagRoom, StackSize, MaxLoad,     (* 20, 100 and the player's capacity    *)
  Stored,          (* where what was saved of the player lies              *)
  MaxChanges,      (* bound on what scripts add and remove                 *)
  None

VARIABLES
  world,           (* [place, count, held, total, enabled, bonus, squeezed]: *)
                   (* where each item is and how many it counts;           *)
                   (* inventoryWeight and the bag's totalWeight;           *)
                   (* inventoryAbilities and the sum of those in force; an *)
                   (* exchange has put something into the full bag         *)
  classic,         (* classicEquipmentSlots                                *)
  skilled,         (* the player meets the demands of what demands         *)
  made,            (* how many units of each kind there should be          *)
  changes

inventoryVars == <<world, classic, skilled, made, changes>>

Hands == {"left", "right"}
BodySlots == Hands \union {"back", "ammo"}
Cylinders == BodySlots \union {"bag", "ground"}
TypeOf(i) == Kind[i]

In(w, c) == {i \in Items : w.place[i] = c}
Exists(w, i) == w.place[i] # "void"
Carried(w, i) ==
  \/ w.place[i] \in BodySlots
  \/ w.place[i] = "bag" /\ w.place[Bag] \in BodySlots
Equals(i, j) == i # j /\ Kind[i] = Kind[j] /\ Kind[i].stack
RoomOn(w, j) == StackSize - w.count[j]

(* Item::getWeight                                                         *)
Weight(w, i) == TypeOf(i).weight * w.count[i] + (IF i = Bag THEN w.total ELSE 0)
LoadOf(w, i, n) == IF i = Bag THEN Weight(w, i) ELSE TypeOf(i).weight * n
HasCapacity(w, i, n) == Carried(w, i) \/ LoadOf(w, i, n) <= MaxLoad - w.held
-----------------------------------------------------------------------------
(* Player::queryAdd for a slot: the hands first.                           *)
OneOfThem(i, j) ==
  /\ ~(TypeOf(i).weapon = "shield" /\ TypeOf(j).weapon = "shield")
  /\ {TypeOf(i).weapon, TypeOf(j).weapon} \intersect {"none", "shield", "ammo"} # {}
ClassicHand(w, i, n, others) ==
  \A j \in others :
    IF TypeOf(i).two THEN i = j
    ELSE ~TypeOf(j).two /\ ((i = j /\ n = w.count[i]) \/ OneOfThem(i, j))
ModernHand(i, hand, others) ==
  IF hand = "right" THEN
    /\ TypeOf(i).weapon = "shield"
    /\ others # {} => ~TypeOf(i).two /\ \A j \in others : ~TypeOf(j).two
  ELSE /\ TypeOf(i).weapon \notin {"none", "shield"}
       /\ TypeOf(i).two => others = {}
HandAllows(w, i, hand, n) ==
  LET others == In(w, IF hand = "left" THEN "right" ELSE "left")
  IN  IF classic THEN ClassicHand(w, i, n, others) ELSE ModernHand(i, hand, others)

Fits(w, i, slot, n) ==
  /\ slot \in TypeOf(i).slots \/ (slot = "ammo" /\ classic)
  /\ slot \in Hands => HandAllows(w, i, slot, n)

InTheWay(w, i, slot) == {j \in In(w, slot) : ~(Kind[j].stack /\ Kind[j] = Kind[i])}
NeedsExchange(w, i, slot, n) == Fits(w, i, slot, n) /\ InTheWay(w, i, slot) # {}
(* EquipItem as a check: what is enabled is not asked for again.           *)
MayEquip(w, i, slot) == w.enabled[slot] \/ skilled \/ ~TypeOf(i).demanding
SlotTakes(w, i, slot, n) ==
  /\ Fits(w, i, slot, n) /\ InTheWay(w, i, slot) = {}
  /\ HasCapacity(w, i, n) /\ MayEquip(w, i, slot)

(* Container::queryAdd; anywhere: no index is given.                       *)
Size(w) == Cardinality(In(w, "bag"))
BagTakes(w, i, n, anywhere) ==
  /\ i # Bag /\ (anywhere => Size(w) < BagRoom)
  /\ w.place[Bag] \in BodySlots => HasCapacity(w, i, n)

Takes(w, i, c, n, anywhere) ==
  CASE c = "ground" -> TRUE
    [] c = "bag" -> BagTakes(w, i, n, anywhere)
    [] OTHER -> SlotTakes(w, i, c, n)

(* queryMaxCount; j is what lies at the index, None if none was given.     *)
Free(w) == IF Size(w) < BagRoom THEN BagRoom - Size(w) ELSE 0
BagStacks(w, i) == {j \in In(w, "bag") : Equals(i, j) /\ RoomOn(w, j) > 0}
RoomOnStacks(w, js) == MapThenSumSet(LAMBDA j : RoomOn(w, j), js)
BagCount(w, i, j) ==
  IF ~TypeOf(i).stack THEN Free(w)
  ELSE Free(w) * StackSize
       + RoomOnStacks(w, {k \in BagStacks(w, i) : j \in {None, k} /\ BagTakes(w, i, RoomOn(w, k), FALSE)})
Unit(i) == IF TypeOf(i).stack THEN StackSize ELSE 1
MaxCount(w, i, n, c, j) ==
  CASE c = "ground" -> n
    [] c = "bag" -> BagCount(w, i, j)
    [] OTHER -> IF j = None THEN Unit(i) ELSE IF Equals(i, j) THEN RoomOn(w, j) ELSE 0
-----------------------------------------------------------------------------
(* What is done to the world.  The weight is counted anew when the player  *)
(* is notified, and what is worn takes effect then.                        *)
Contents(w) == MapThenSumSet(LAMBDA i : TypeOf(i).weight * w.count[i], In(w, "bag"))
Worn(w) == {i \in Items : w.place[i] \in BodySlots}
Weighed(w) == [w EXCEPT !.held = MapThenSumSet(LAMBDA i : Weight(w, i), Worn(w))]

EquipItem(w, i, slot) ==
  IF w.enabled[slot] \/ (TypeOf(i).demanding /\ ~skilled) THEN w
  ELSE [w EXCEPT !.enabled[slot] = TRUE, !.bonus = @ + TypeOf(i).bonus]
TakenOffTwice(w, i, slot) ==
  [w EXCEPT !.enabled[slot] = FALSE, !.bonus = @ - TypeOf(i).bonus]
DeEquipItem(w, i, slot) ==
  IF ~w.enabled[slot] THEN w
  ELSE [w EXCEPT !.enabled[slot] = FALSE, !.bonus = @ - TypeOf(i).bonus]

PostAdd(w, i, c) ==
  CASE c \in BodySlots -> Weighed(EquipItem(w, i, c))
    [] c = "bag" /\ w.place[Bag] \in BodySlots -> Weighed(w)
    [] OTHER -> w
PostRemove(w, i, c) ==
  CASE c \in BodySlots -> Weighed(DeEquipItem(w, i, c))
    [] c = "bag" /\ w.place[Bag] \in BodySlots -> Weighed(w)
    [] OTHER -> w

Heavier(w, c, units) == IF c = "bag" THEN [w EXCEPT !.total = @ + units] ELSE w
RemoveThing(w, i, n) ==
  LET v == Heavier(w, w.place[i], -(TypeOf(i).weight * n))
  IN  IF n = w.count[i] THEN [v EXCEPT !.place[i] = "void", !.count[i] = 0]
      ELSE [v EXCEPT !.count[i] = @ - n]
(* A slot holds one pointer: what it pointed to is gone.                   *)
AddThing(w, i, n, c) ==
  Heavier([w EXCEPT
             !.place = [x \in Items |-> CASE x = i -> c
                                          [] x # i /\ c \in BodySlots /\ w.place[x] = c -> "void"
                                          [] OTHER -> w.place[x]],
             !.count = [x \in Items |-> CASE x = i -> n
                                          [] x # i /\ c \in BodySlots /\ w.place[x] = c -> 0
                                          [] OTHER -> w.count[x]]],
          c, TypeOf(i).weight * n)
UpdateThing(w, j, n) ==
  [Heavier(w, w.place[j], TypeOf(j).weight * n) EXCEPT !.count[j] = @ + n]

(* i leaves its place for c, all of it.                                    *)
Swapped(w, i, c) ==
  LET from == w.place[i]
  IN  PostAdd(PostRemove(AddThing(RemoveThing(w, i, w.count[i]), i, w.count[i], c), i, from),
              i, c)

Least(x, y) == IF x < y THEN x ELSE y

(* m of i go onto the stack j, if it is one, and the rest to c as k.       *)
Put(w, i, m, c, j, k) ==
  LET from == w.place[i]
      onto == IF j # None /\ Equals(i, j) THEN Least(RoomOn(w, j), m) ELSE 0
      gone == RemoveThing(w, i, m)
      merged == IF onto > 0 THEN UpdateThing(gone, j, onto) ELSE gone
      added == IF m > onto THEN AddThing(merged, k, m - onto, c) ELSE merged
      left == PostRemove(added, i, from)
      there == IF m > onto THEN PostAdd(left, k, c) ELSE left
  IN  IF j # None /\ Equals(i, j) THEN PostAdd(there, j, c) ELSE there

(* queryDestination: a slot that holds the bag stands for the bag.         *)
Goal(w, c) == IF c \in BodySlots /\ w.place[Bag] = c THEN "bag" ELSE c
Targets(w, i, c) ==
  IF c # "bag" THEN IF In(w, c) = {} THEN {None} ELSE In(w, c)
  ELSE IF TypeOf(i).stack /\ w.place[i] # "bag" /\ BagStacks(w, i) # {} THEN BagStacks(w, i)
  ELSE In(w, c) \union {None}

(* What the move does when what is in the way has been dealt with.         *)
Clones(w, i, m) ==
  IF m = w.count[i] THEN {i} ELSE {k \in Items : ~Exists(w, k) /\ Kind[k] = Kind[i]}
MoveResults(w, i, n, c, j) ==
  LET most == MaxCount(w, i, n, c, j)
      m == IF TypeOf(i).stack THEN Least(n, most) ELSE w.count[i]
  IN  IF ~Takes(w, i, c, n, j = None) \/ most = 0 THEN {w}
      ELSE {Put(w, i, m, c, j, k) : k \in Clones(w, i, m)}

(* May what is in the way of i take its place?  A slot with i in it is not *)
(* free for it.                                                            *)
CanSwap(w, i, j) ==
  /\ w.place[i] \in {"bag", "ground"} /\ Takes(w, j, w.place[i], w.count[j], FALSE)
  /\ MaxCount(w, j, w.count[j], w.place[i], None) > 0

(* A stack may swap with a thing in a full bag if other stacks have room,  *)
(* but is put beside them; the thing may then turn out not to be moved.    *)
Exchanged(w, i, j) ==
  LET v == Swapped(w, j, w.place[i])
  IN  IF Size(v) > BagRoom THEN [v EXCEPT !.squeezed = TRUE] ELSE v

(* Game::internalMoveItem                                                  *)
InternalMoveItem(w, i, n, c, j) ==
  IF j # None /\ c \in BodySlots /\ NeedsExchange(w, i, c, n)
  THEN IF CanSwap(w, i, j) THEN MoveResults(Exchanged(w, i, j), i, n, c, None) ELSE {w}
  ELSE MoveResults(w, i, n, c, j)
-----------------------------------------------------------------------------
(* Player::queryDestination without a slot: a stack or an empty slot comes *)
(* before any container; which of them comes first is left open.           *)
SlotPlaces(w, i) ==
  {d \in [c : BodySlots, j : Items \union {None}] :
     /\ SlotTakes(w, i, d.c, w.count[i])
     /\ IF d.j = None THEN In(w, d.c) = {}
        ELSE d.j \in In(w, d.c) /\ Equals(i, d.j) /\ RoomOn(w, d.j) > 0}
BagPlaces(w, i) ==
  IF w.place[Bag] \notin BodySlots THEN {}
  ELSE IF BagStacks(w, i) # {} THEN [c : {"bag"}, j : BagStacks(w, i)]
  ELSE IF Size(w) < BagRoom THEN {[c |-> "bag", j |-> None]} ELSE {}
Places(w, i, slot) ==
  IF slot # "any" THEN [c : {Goal(w, slot)},
                        j : IF In(w, slot) = {} \/ Goal(w, slot) = "bag" THEN {None} ELSE In(w, slot)]
  ELSE IF SlotPlaces(w, i) # {} THEN SlotPlaces(w, i) ELSE BagPlaces(w, i)

(* Player::queryMaxCount of everything.                                    *)
InSlot(w, i, slot) ==
  IF w.place[Bag] = slot THEN BagCount(w, i, None)
  ELSE IF In(w, slot) = {} THEN IF SlotTakes(w, i, slot, w.count[i]) THEN Unit(i) ELSE 0
  ELSE RoomOnStacks(w, {j \in In(w, slot) : Equals(i, j) /\ SlotTakes(w, i, slot, RoomOn(w, j))})
HasRoom(w, i) == MapThenSumSet(LAMBDA s : InSlot(w, i, s), BodySlots) >= w.count[i]

Addable(w, i, d) ==
  Takes(w, i, d.c, w.count[i], d.j = None) /\ HasRoom(w, i)

(* The new item i goes to d; what remains of it, if it was put on a stack, *)
(* goes the same way.  A full stack in the slot is overwritten.            *)
Destroyed(w, i) == [w EXCEPT !.count[i] = 0]
Added(w, i, d) ==
  IF d.j # None /\ Equals(i, d.j) /\ RoomOn(w, d.j) > 0
  THEN LET onto == Least(RoomOn(w, d.j), w.count[i])
           v == UpdateThing(w, d.j, onto)
       IN  IF onto = w.count[i] THEN PostAdd(Destroyed(v, i), d.j, d.c)
           ELSE [v EXCEPT !.count[i] = @ - onto]
  ELSE PostAdd(AddThing(w, i, w.count[i], d.c), i, d.c)

InternalAddItem(w, i, slot) ==
  LET ds == {d \in Places(w, i, slot) : Addable(w, i, d)}
  IN  {Added(w, i, d) : d \in ds}
(* internalPlayerAddItem: what finds no room is dropped.                   *)
Dropped(w, i) == AddThing(w, i, w.count[i], "ground")
InternalPlayerAddItem(w, i, slot) ==
  IF InternalAddItem(w, i, slot) = {} THEN {Dropped(w, i)}
  ELSE UNION {IF v.count[i] = 0 \/ v.place[i] # "void" THEN {v}
              ELSE IF InternalAddItem(v, i, "any") = {} THEN {Dropped(v, i)}
              ELSE InternalAddItem(v, i, "any") : v \in InternalAddItem(w, i, slot)}

InternalRemoveItem(w, i, n) == PostRemove(RemoveThing(w, i, n), i, w.place[i])

(* What is worn when the player comes into the game.                       *)
Bare(w) == [w EXCEPT !.enabled = [s \in BodySlots |-> FALSE], !.bonus = 0]
Dressed(w) == FoldSet(LAMBDA i, v : EquipItem(v, i, w.place[i]), Bare(w), Worn(w))

Units(w, kind) == MapThenSumSet(LAMBDA i : w.count[i], {i \in Items : Kind[i] = kind})

Init ==
  /\ classic \in BOOLEAN /\ skilled \in BOOLEAN /\ changes = 0
  /\ LET w == [place |-> Stored,
               count |-> [i \in Items |-> IF Stored[i] = "void" THEN 0 ELSE Unit(i)],
               held |-> 0, total |-> 0, enabled |-> [s \in BodySlots |-> FALSE], bonus |-> 0,
               squeezed |-> FALSE]
     IN  /\ world = Weighed(Dressed([w EXCEPT !.total = Contents(w)]))
         /\ made = [k \in Kinds |-> Units(w, k)]
-----------------------------------------------------------------------------
(* playerMoveItem: to a slot, the bag or the tile, some or all of a stack. *)
Move ==
  \E i \in Items, c \in Cylinders :
    /\ Exists(world, i)
    /\ \E n \in 1..world.count[i], j \in Targets(world, i, Goal(world, c)) \ {i} :
         \E w \in InternalMoveItem(world, i, n, Goal(world, c), j) : world' = w
    /\ UNCHANGED <<classic, skilled, made, changes>>

Script == changes < MaxChanges /\ changes' = changes + 1 /\ UNCHANGED <<classic, skilled>>

(* A script adds an item, which may overwrite the full stack in the slot.  *)
Overwritten(w, i, slot) ==
  IF slot = "any" \/ Goal(w, slot) = "bag" THEN 0
  ELSE LET full == {j \in In(w, slot) : Equals(i, j) /\ RoomOn(w, j) = 0}
       IN  IF InternalAddItem(w, i, slot) = {} THEN 0 ELSE MapThenSumSet(LAMBDA j : w.count[j], full)
AddItem ==
  \E i \in Items, slot \in BodySlots \union {"any"} :
    /\ Script /\ ~Exists(world, i)
    /\ \E n \in 1..Unit(i) :
         LET v == [world EXCEPT !.count[i] = n]
         IN  /\ \E w \in InternalPlayerAddItem(v, i, slot) : world' = w
             /\ made' = [made EXCEPT ![Kind[i]] = @ + n - Overwritten(v, i, slot)]

(* removeItemOfType: nothing, or as many as were asked for.                *)
Searched(w, kind, ignoreEquipped) ==
  {i \in Items : Kind[i] = kind /\ Carried(w, i) /\ (ignoreEquipped => w.place[i] \notin BodySlots)}
RemoveItemOfType ==
  \E kind \in Kinds, amount \in 1..StackSize, ignoreEquipped \in BOOLEAN :
    LET found == Searched(world, kind, ignoreEquipped)
        first == {i \in found : world.place[i] \in BodySlots}
        some == IF first # {} THEN first ELSE found
    IN  /\ Script /\ kind # Kind[Bag]
        /\ MapThenSumSet(LAMBDA i : world.count[i], found) >= amount
        /\ \E i \in some :
             LET n == Least(world.count[i], amount)
                 v == InternalRemoveItem(world, i, n)
             IN  IF n = amount THEN world' = v
                 ELSE \E k \in found \ {i} :
                        world' = InternalRemoveItem(v, k, Least(v.count[k], amount - n))
        /\ made' = [made EXCEPT ![kind] = @ - amount]

(* The level falls below what is demanded, or rises to it again.           *)
ChangeLevel ==
  /\ changes < MaxChanges /\ changes' = changes + 1
  /\ skilled' = ~skilled /\ UNCHANGED <<world, classic, made>>

(* The player leaves, and comes back with what was saved.                  *)
Relog ==
  /\ changes < MaxChanges /\ changes' = changes + 1
  /\ world' = Weighed(Dressed(world)) /\ UNCHANGED <<classic, skilled, made>>

Next == Move \/ AddItem \/ RemoveItemOfType \/ ChangeLevel \/ Relog
-----------------------------------------------------------------------------
TypeOK ==
  /\ world.place \in [Items -> Cylinders \union {"void"}]
  /\ world.count \in [Items -> 0..StackSize]
  /\ world.enabled \in [BodySlots -> BOOLEAN] /\ world.held \in Nat /\ world.total \in Nat
  /\ changes \in 0..MaxChanges /\ classic \in BOOLEAN /\ skilled \in BOOLEAN

(* One thing to a slot, nothing where it does not belong; a weapon for two *)
(* hands has both, and two shields or two weapons are never in the hands.  *)
BodyIsSound ==
  /\ \A s \in BodySlots : Cardinality(In(world, s)) <= 1
  /\ \A i \in Worn(world) : LET s == world.place[i] IN
       /\ s \in TypeOf(i).slots \/ (s = "ammo" /\ classic)
       /\ s \in Hands /\ ~classic => ((s = "right") <=> (TypeOf(i).weapon = "shield"))
  /\ \A i, j \in In(world, "left") \union In(world, "right") :
       i # j => ~TypeOf(i).two /\ OneOfThem(i, j)

(* Nothing is lost, doubled or split wrongly, and the bag overflows by an  *)
(* exchange only.                                                          *)
NothingIsLost ==
  /\ \A k \in Kinds : Units(world, k) = made[k]
  /\ \A i \in Items : Exists(world, i) <=> world.count[i] > 0
  /\ Size(world) <= BagRoom \/ world.squeezed

(* The caches are right, and nobody carries too much.                      *)
WeightIsCurrent ==
  /\ world.total = Contents(world)
  /\ world.held = MapThenSumSet(LAMBDA i : Weight(world, i), Worn(world))
  /\ world.held <= MaxLoad

(* The abilities in force are those of what is worn.                       *)
AbilitiesAreWorn ==
  /\ \A s \in BodySlots : world.enabled[s] => In(world, s) # {}
  /\ world.bonus = MapThenSumSet(LAMBDA i : TypeOf(i).bonus,
                                 {i \in Worn(world) : world.enabled[world.place[i]]})

(* Invariant: all of these, whatever is moved, exchanged, split, added and *)
(* removed, in any order.                                                  *)
InventoryIsSound ==
  TypeOK /\ BodyIsSound /\ NothingIsLost /\ WeightIsCurrent /\ AbilitiesAreWorn
=============================================================================
