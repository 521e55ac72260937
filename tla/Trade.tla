-------------------------------- MODULE Trade ---------------------------------
(***************************************************************************)
(* The trade between two players (game.cpp, player.cpp) while they and     *)
(* others move items about.  Everything here runs on the dispatcher        *)
(* thread, one handler at a time; the hard part is that an offered item is *)
(* only pointed at, and that every change of it has to close the trade.    *)
(*                                                                         *)
(* Position is abstracted: a request, an accept or a move may be refused   *)
(* for it at any time, and a player may go out of range at any time.       *)
(*                                                                         *)
(* First come items and the cylinders that hold them (cylinder.h,          *)
(* container.cpp): who holds what, where there is room, and what a move    *)
(* or a removal does.  A world is a record: the parent of every Item       *)
(* object and how many units it counts; an object that counts none does    *)
(* not exist.  Weight, slot types and the scripts that may forbid a move   *)
(* are left to the actions, which may always fail for them; room is        *)
(* modelled.  All stackable items are of one type, and the tile everybody  *)
(* stands at is Ground.                                                    *)
(***************************************************************************)
EXTENDS Naturals, FiniteSets, FiniteSetsExt

CONSTANTS
  Players,
  Items,           (* the Item objects                                     *)
  Containers,      (* those that are Container objects                     *)
  Stackable,       (* those that are stackable                             *)
  Ground,
  Void,            (* the parent of an object that does not exist          *)
  Nobody,          (* nullptr                                              *)
  Slots,           (* how many things a player holds itself                *)
  Capacity,        (* ... and a container                                  *)
  StackSize        (* units of a stack, 100 in the code                    *)

ASSUME ItemsAssumption ==
  /\ Containers \subseteq Items /\ Stackable \subseteq Items \ Containers
  /\ Players \cap Items = {}
  /\ {Ground, Void, Nobody} \cap (Players \union Items) = {}
  /\ Cardinality({Ground, Void, Nobody}) = 3
  /\ Slots \in Nat /\ Capacity \in Nat /\ StackSize \in Nat \ {0}
  /\ IsFiniteSet(Items)

(* Bound: of the containers one may hold the other, and no deeper.         *)
ASSUME NestingAssumption ==
  \A a, b, c \in Containers : a = b \/ b = c \/ a = c

Cylinders == Players \union Containers \union {Ground}

Worlds == [parent : [Items -> Cylinders \union {Void}],
           count : [Items -> 0..StackSize]]

Exists(w, i) == w.count[i] > 0
Content(w, c) == {i \in Items : Exists(w, i) /\ w.parent[i] = c}

(* Container::isHoldingItem: x is in the container c, however deep.        *)
IsHolding(w, c, x) ==
  \/ w.parent[x] = c
  \/ w.parent[x] \in Containers /\ w.parent[w.parent[x]] = c

(* Cylinder::getTopParent                                                  *)
TopParent(w, x) ==
  CHOOSE top \in Cylinders \ Containers :
    \/ w.parent[x] = top
    \/ \E c \in Containers : IsHolding(w, c, x) /\ w.parent[c] = top

HeldContainers(w, p) ==
  {c \in Containers : Exists(w, c) /\ TopParent(w, c) = p}

Room(c) == IF c \in Players THEN Slots ELSE Capacity

FreeSlots(w, c) ==
  LET size == Cardinality(Content(w, c))
  IN  IF size < Room(c) THEN Room(c) - size ELSE 0

HasRoom(w, c) == c = Ground \/ FreeSlots(w, c) > 0
-----------------------------------------------------------------------------
(* Stacks *)

Equals(i, j) == i \in Stackable /\ j \in Stackable /\ i # j

(* The stacks of a cylinder that i can be put on.                          *)
StacksFor(w, c, i) ==
  {j \in Content(w, c) : Equals(i, j) /\ w.count[j] < StackSize}

(* Of m units the stack j takes so many.                                   *)
Merged(w, j, m) ==
  IF m < StackSize - w.count[j] THEN m ELSE StackSize - w.count[j]

(* m units of i leave; the stack j, if any, takes what it can, and the     *)
(* rest is in c, as a clone k if only some of i was moved.  The code clones *)
(* a stack that is moved whole too and releases the original: the clone is *)
(* the object i here, and whether a trade still points at the original is  *)
(* for the trade to say.                                                   *)
Moved(w, i, m, c, j, k) ==
  LET onto == IF j = Nobody THEN 0 ELSE Merged(w, j, m)
      rest == m - onto
      count == [x \in Items |->
                  w.count[x] - (IF x = i THEN m ELSE 0)
                             + (IF x = j THEN onto ELSE 0)
                             + (IF x = k THEN rest ELSE 0)]
  IN  [parent |-> [x \in Items |->
                     IF count[x] = 0 THEN Void
                     ELSE IF x = k /\ rest > 0 THEN c ELSE w.parent[x]],
       count |-> count]

(* The object the rest becomes.                                            *)
Clones(w, i, m) ==
  IF m = w.count[i] THEN {i} ELSE {k \in Stackable : ~Exists(w, k)}
-----------------------------------------------------------------------------
(* Player::queryDestination with no slot given: where i would go, as pairs *)
(* of a cylinder and the stack it is put on.  A slot comes before any      *)
(* container; which of them is first is left open.  offer is the item the  *)
(* player has in a trade, which is passed over except when it is in a      *)
(* container and nothing is to be stacked.                                 *)

AutoStacks(i, autoStack) == autoStack /\ i \in Stackable

SlotDestinations(w, p, i, offer, autoStack) ==
  (IF HasRoom(w, p) THEN {<<p, Nobody>>} ELSE {})
    \union (IF AutoStacks(i, autoStack)
            THEN {<<p, j>> : j \in StacksFor(w, p, i) \ {offer}} ELSE {})

ContainerDestinations(w, p, i, offer, autoStack) ==
  LET searched == {c \in HeldContainers(w, p) \ {i} :
                     /\ ~IsHolding(w, i, c)
                     /\ c = offer \/ IsHolding(w, offer, c) =>
                          w.parent[offer] # p /\ ~AutoStacks(i, autoStack)}
  IN  {<<c, Nobody>> : c \in {d \in searched : HasRoom(w, d)}}
        \union UNION {{<<c, j>> : j \in IF AutoStacks(i, autoStack)
                                        THEN StacksFor(w, c, i) \ {offer}
                                        ELSE {}} : c \in searched}

Destinations(w, p, i, offer, autoStack) ==
  LET slots == SlotDestinations(w, p, i, offer, autoStack)
  IN  IF slots # {} THEN slots
      ELSE ContainerDestinations(w, p, i, offer, autoStack)

(* Player::queryMaxCount: room for so many units of i, all in all.         *)
MaxCount(w, p, i) ==
  LET all == HeldContainers(w, p) \union {p}
      free == MapThenSumSet(LAMBDA c : FreeSlots(w, c), all)
  IN  IF i \in Stackable
      THEN StackSize * free
             + MapThenSumSet(LAMBDA j : StackSize - w.count[j],
                             UNION {StacksFor(w, c, i) : c \in all})
      ELSE free

(* internalAddItem(p, i, INDEX_WHEREEVER, 0, test = true)                  *)
CanAdd(w, p, i, offer) ==
  /\ Destinations(w, p, i, offer, TRUE) # {}
  /\ MaxCount(w, p, i) >= w.count[i]

(* internalMoveItem(p, INDEX_WHEREEVER, i, all of it, FLAG_IGNOREAUTOSTACK)*)
(* A container that was found is asked again, without the flag, and puts i *)
(* on a stack of its own if it has one.                                    *)
MoveDestinations(w, p, i, offer) ==
  UNION {IF d[1] \in Containers /\ StacksFor(w, d[1], i) # {}
         THEN {<<d[1], j>> : j \in StacksFor(w, d[1], i)} ELSE {d} :
           d \in Destinations(w, p, i, offer, FALSE)}
-----------------------------------------------------------------------------
(* Trades *)

CONSTANT InitialWorlds    (* what is where when the players meet           *)

(* What is in a container that exists exists, no container is in itself,   *)
(* and only what is stackable counts more than one.                        *)
WellFormed(w) ==
  /\ w \in Worlds
  /\ \A x \in Items : Exists(w, x) <=> w.parent[x] # Void
  /\ \A x \in Items : w.parent[x] \in Containers => Exists(w, w.parent[x])
  /\ \A c \in Containers : ~IsHolding(w, c, c)
  /\ \A x \in Items \ Stackable : w.count[x] <= 1

(* Nothing holds more than it has room for.                                *)
NothingOverfull(w) ==
  \A c \in Players \union Containers : Cardinality(Content(w, c)) <= Room(c)

ASSUME WorldsAssumption ==
  \A w \in InitialWorlds : WellFormed(w) /\ NothingOverfull(w)

VARIABLES
  world,
  tradeState,      (* Player::tradeState                                   *)
  tradePartner,    (* Player::tradePartner                                 *)
  tradeItem,       (* Player::tradeItem                                    *)
  tradeItems       (* Game::tradeItems, from Item to Player                *)

trades == <<tradeState, tradePartner, tradeItem, tradeItems>>
vars == <<world, trades>>

States == {"NONE", "INITIATED", "ACCEPT", "ACKNOWLEDGE"}

TypeOK ==
  /\ world \in Worlds
  /\ tradeState \in [Players -> States]
  /\ tradePartner \in [Players -> Players \union {Nobody}]
  /\ tradeItem \in [Players -> Items \union {Nobody}]
  /\ tradeItems \in [Items -> Players \union {Nobody}]

Init ==
  /\ world \in InitialWorlds
  /\ tradeState = [p \in Players |-> "NONE"]
  /\ tradePartner = [p \in Players |-> Nobody]
  /\ tradeItem = [p \in Players |-> Nobody]
  /\ tradeItems = [i \in Items |-> Nobody]
-----------------------------------------------------------------------------
(* The tests of these functions, some of them preceded by a fault that a   *)
(* careless edit could bring in; no specification uses the faults.         *)

(* internalGetThing: in the hands of p, or before its feet.                *)
InReach(p, i) == Exists(world, i) /\ TopParent(world, i) \in {p, Ground}

(* i is offered already, or in, or around, an item that is: t.             *)
Conflicts(i, t) ==
  i = t \/ IsHolding(world, i, t) \/ IsHolding(world, t, i)

AlreadyTraded(i) == \E t \in Items : tradeItems[t] # Nobody /\ Conflicts(i, t)

MayOffer(p, q) ==
  \/ tradeState[p] = "NONE"
  \/ tradeState[p] = "ACKNOWLEDGE" /\ tradePartner[p] = q

AnyPartner(p, q) == TRUE
MayBeAsked(p, q) == tradeState[q] = "NONE" \/ tradePartner[q] = p

ReceiverCanAdd(p, q) == CanAdd(world, q, tradeItem[p], tradeItem[q])
(* Both tests of playerAcceptTrade, on the world before either move.       *)
BothCanAdd(p, q) ==
  /\ CanAdd(world, q, tradeItem[p], tradeItem[q])
  /\ CanAdd(world, p, tradeItem[q], tradeItem[p])

TouchedObject(i, m, c, j, t) == t = i \/ t = j
(* The notifications of a move of m units of i to c, or onto its stack j,  *)
(* concern the offer t: checkTradeState for the item removed, updated or   *)
(* added, and the container that carries the offer away.                   *)
Touched(i, m, c, j, t) ==
  \/ t = i
  \/ IsHolding(world, t, i)
  \/ m = world.count[i] /\ IsHolding(world, i, t)
  \/ j # Nobody /\ (t = j \/ IsHolding(world, t, j))
  \/ c \in Containers /\ (t = c \/ IsHolding(world, t, c))
-----------------------------------------------------------------------------
(* internalCloseTrade of every player of a set, each with its partner.     *)
Ended(closing) ==
  closing \union {q \in Players : \E p \in closing : tradePartner[p] = q}

CloseTrades(closing) ==
  LET ended == Ended(closing)
  IN  /\ tradeState' = [p \in Players |-> IF p \in ended THEN "NONE"
                                                         ELSE tradeState[p]]
      /\ tradePartner' = [p \in Players |-> IF p \in ended THEN Nobody
                                                       ELSE tradePartner[p]]
      /\ tradeItem' = [p \in Players |-> IF p \in ended THEN Nobody
                                                        ELSE tradeItem[p]]
      /\ tradeItems' = [i \in Items |-> IF \E p \in ended : tradeItem[p] = i
                                        THEN Nobody ELSE tradeItems[i]]

(* playerRequestTrade and internalStartTrade                               *)
RequestTrade(p, q, i) ==
  /\ p # q
  /\ InReach(p, i)
  /\ ~AlreadyTraded(i)
  /\ MayOffer(p, q)
  /\ MayBeAsked(p, q)
  /\ tradePartner' = IF tradeState[q] = "NONE"
                     THEN [tradePartner EXCEPT ![p] = q, ![q] = p]
                     ELSE [tradePartner EXCEPT ![p] = q]
  /\ tradeState' = IF tradeState[q] = "NONE"
                   THEN [tradeState EXCEPT ![p] = "INITIATED",
                                           ![q] = "ACKNOWLEDGE"]
                   ELSE [tradeState EXCEPT ![p] = "INITIATED"]
  /\ tradeItem' = [tradeItem EXCEPT ![p] = i]
  /\ tradeItems' = [tradeItems EXCEPT ![i] = p]
  /\ UNCHANGED world

(* playerAcceptTrade of the first of the two: an offer is not needed.      *)
AcceptFirst(p) ==
  /\ tradeState[p] \in {"ACKNOWLEDGE", "INITIATED"}
  /\ tradeState[tradePartner[p]] # "ACCEPT"
  /\ tradeState' = [tradeState EXCEPT ![p] = "ACCEPT"]
  /\ UNCHANGED <<world, tradePartner, tradeItem, tradeItems>>

IsLastToAccept(p) ==
  /\ tradeState[p] \in {"ACKNOWLEDGE", "INITIATED"}
  /\ tradeState[tradePartner[p]] = "ACCEPT"

(* playerAcceptTrade of the last: a missing offer, a script, the weight or *)
(* the room of either of them refuse the exchange.                         *)
ExchangeFails(p) ==
  /\ IsLastToAccept(p)
  /\ CloseTrades({p})
  /\ UNCHANGED world

(* internalMoveItem of m units of i to the destination d.                  *)
Handed(w, i, m, d) ==
  {Moved(w, i, m, d[1], d[2], k) : k \in Clones(w, i, m)}

(* ... or the items change hands.  The first move may still fail, inside   *)
(* the offer of the partner or without the room that stacking would have   *)
(* found; nobody looks at the result of the second.                        *)
Exchange(p) ==
  LET q == tradePartner[p]
      mine == tradeItem[p]
      theirs == tradeItem[q]
  IN  /\ IsLastToAccept(p)
      /\ mine # Nobody /\ theirs # Nobody
      /\ BothCanAdd(p, q)
      /\ \E d \in MoveDestinations(world, q, mine, theirs) :
           /\ d[1] \in Containers =>
                d[1] # theirs /\ ~IsHolding(world, theirs, d[1])
           /\ \E w \in Handed(world, mine, world.count[mine], d) :
                LET second == MoveDestinations(w, p, theirs, mine)
                IN  IF second = {} THEN world' = w
                    ELSE \E e \in second :
                           world' \in Handed(w, theirs, world.count[theirs], e)
      /\ CloseTrades({p})

CloseTrade(p) ==
  /\ CloseTrades({p})
  /\ UNCHANGED world

(* A player walks out of range of its offer or of its partner, or leaves   *)
(* the game.                                                               *)
GoAway(p) ==
  /\ tradePartner[p] # Nobody
  /\ CloseTrades({p})
  /\ UNCHANGED world
-----------------------------------------------------------------------------
(* internalMoveItem, for a player p that moves m units of i.               *)
TradesTouched(i, m, c, j) ==
  {p \in Players : tradeItem[p] # Nobody /\ Touched(i, m, c, j, tradeItem[p])}

Holdable(p, i, c) ==
  /\ c # i /\ ~(i \in Containers /\ c \in Containers /\ IsHolding(world, i, c))
  /\ c \in Containers => InReach(p, c)
  /\ i \in Containers /\ c \in Containers => world.parent[c] \notin Containers

MoveItem(p, i, m, c) ==
  /\ InReach(p, i)
  /\ m \in 1..world.count[i]
  /\ c \in {p, Ground} \union Containers
  /\ Holdable(p, i, c)
  /\ \E j \in StacksFor(world, c, i) \union {Nobody}, k \in Clones(world, i, m) :
       /\ j = Nobody => /\ HasRoom(world, c)
                        /\ world.parent[i] # c
                        /\ c \in Containers => StacksFor(world, c, i) = {}
       /\ j # Nobody /\ Merged(world, j, m) < m => c # p /\ HasRoom(world, c)
       /\ world' = Moved(world, i, m, c, j, k)
       /\ CloseTrades(TradesTouched(i, m, c, j))

(* The slot is taken: the item in it changes places with i.                *)
ExchangeItems(p, i, j) ==
  LET from == world.parent[i]
      emptied == Moved(world, j, world.count[j], from, Nobody, j)
      m == world.count[i]
  IN  /\ InReach(p, i) /\ Exists(world, j)
      /\ world.parent[j] = p /\ j \notin Containers /\ ~Equals(i, j)
      /\ from # p /\ HasRoom(world, from)
      /\ world' = Moved(emptied, i, m, p, Nobody, i)
      /\ CloseTrades(TradesTouched(i, m, p, Nobody)
                       \union TradesTouched(j, world.count[j], from, Nobody))
-----------------------------------------------------------------------------
Next ==
  \E p \in Players :
    \/ \E q \in Players, i \in Items : RequestTrade(p, q, i)
    \/ AcceptFirst(p) \/ ExchangeFails(p) \/ Exchange(p)
    \/ CloseTrade(p) \/ GoAway(p)
    \/ \E i \in Items, m \in 1..StackSize, c \in Cylinders :
         MoveItem(p, i, m, c)
    \/ \E i, j \in Items : ExchangeItems(p, i, j)

Spec == Init /\ [][Next]_vars
-----------------------------------------------------------------------------
(* A trade is between two: each is the partner of the other, one of them   *)
(* at least has made an offer, and Game::tradeItems holds the offers of    *)
(* the players and nothing else.                                           *)
MutualTrade ==
  /\ \A p \in Players :
       /\ tradePartner[p] # Nobody => /\ tradePartner[tradePartner[p]] = p
                                      /\ tradePartner[p] # p
       /\ tradeState[p] = "NONE" <=> tradePartner[p] = Nobody
       /\ tradeItem[p] # Nobody => tradeState[p] \in {"INITIATED", "ACCEPT"}
       /\ tradeState[p] = "INITIATED" => tradeItem[p] # Nobody
  /\ \A p \in Players : tradePartner[p] # Nobody =>
       tradeItem[p] # Nobody \/ tradeItem[tradePartner[p]] # Nobody
  /\ \A p \in Players, i \in Items : tradeItems[i] = p <=> tradeItem[p] = i

(* An item with its contents.                                              *)
Parts(w, i) == {x \in Items : Exists(w, x) /\ (x = i \/ IsHolding(w, i, x))}

(* No item is offered twice, nor inside another offer, however the things  *)
(* around the offers are moved; and what is offered is not in the hands of *)
(* anybody else.                                                           *)
OffersAreApart ==
  \A p \in Players : tradeItem[p] # Nobody =>
    /\ InReach(p, tradeItem[p])
    /\ \A q \in Players \ {p} : tradeItem[q] # Nobody =>
         Parts(world, tradeItem[p]) \intersect Parts(world, tradeItem[q]) = {}

(* What is accepted is what was shown: as long as an offer stands, it is   *)
(* the same object in the same place, with the same units and contents.    *)
OfferIsFrozen ==
  [][\A p \in Players, i \in Items :
       tradeItem[p] = i /\ tradeItem'[p] = i =>
         \A x \in {y \in Items : y = i \/ IsHolding(world, i, y)
                                       \/ IsHolding(world', i, y)} :
           /\ world'.parent[x] = world.parent[x]
           /\ world'.count[x] = world.count[x]]_vars

(* What a player holds, and how much there is of it: a stack of n is the n *)
(* pairs of it with the numbers from 1 to n.                               *)
Held(w, p) == {i \in Items : Exists(w, i) /\ TopParent(w, i) = p}
Goods(things) == things \ Stackable
Units(w, things) ==
  Cardinality({u \in (things \intersect Stackable) \X (1..StackSize) :
                 u[2] <= w.count[u[1]]})

(* q got the item i from somebody else and gave away j, if it held j.      *)
Swapped(q, i, j) ==
  LET kept == Held(world, q) \ Parts(world, j)
  IN  /\ Goods(Held(world', q)) = Goods(kept \union Parts(world, i))
      /\ Units(world', Held(world', q)) =
           Units(world, kept) + Units(world, Parts(world, i) \ kept)

(* An exchange gives each of the two what the other offered, or changes    *)
(* nothing.  The one exception is the flag that forbids stacking in the    *)
(* moves but not in the test before them: the last to accept, whose offer  *)
(* lies on the ground and whose slots are all taken, may get nothing for   *)
(* it where only a stack of its own had room.                              *)
OnlyByStacking(p, q) ==
  /\ tradeItem[q] \in Stackable
  /\ TopParent(world, tradeItem[p]) = Ground
  /\ \A c \in HeldContainers(world, p) \union {p} : ~HasRoom(world, c)

BothOrNeither ==
  [][\A p \in Players :
       LET q == tradePartner[p]
       IN  IsLastToAccept(p) /\ Exchange(p) /\ ~OnlyByStacking(p, q)
             => /\ Swapped(p, tradeItem[q], tradeItem[p])
                /\ Swapped(q, tradeItem[p], tradeItem[q])]_vars
=============================================================================
