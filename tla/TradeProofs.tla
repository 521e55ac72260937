----------------------------- MODULE TradeProofs ------------------------------
(***************************************************************************)
(* What holds of trades for any number of players and items, whatever the  *)
(* items do.                                                               *)
(*                                                                         *)
(* The bookkeeping: MutualTrade is inductive once the types of the four    *)
(* variables are known.  The lemma it rests on is that internalCloseTrade  *)
(* always ends both sides of a trade.                                      *)
(*                                                                         *)
(* The offers themselves: WInv adds that the world is well formed and that *)
(* offers stand apart, each in the hands of its owner or at its feet.  The *)
(* lemma it rests on is MovedUndisturbed: the notifications of a move, of  *)
(* which checkTradeState makes CloseTrades, reach every offer that the     *)
(* move changes, carries away, fills or empties.                           *)
(*                                                                         *)
(* The exchange: units are counted as the elements of a finite set, so     *)
(* that they add up over disjoint things, and the two moves are accounted  *)
(* for one by one (Taken, Given).  That the second of them finds a place   *)
(* needs NothingOverfull: what leaves a place leaves room there only if it *)
(* did not hold too much.  As the other components of the run leave trades *)
(* as they are, Trades_are_sound gives all this for MCSpec.                *)
(*                                                                         *)
(* The ledger of the market: MarketInv gives the types, says that a depot  *)
(* that was not opened is as it was stored, and that an offer keeps its    *)
(* owner, its kind and its price while an old answer speaks of it.  Every  *)
(* step is then accounted for as what two players, the offers and the fees *)
(* gain (Balances), and the gains cancel.  The sums are those of the       *)
(* library, over finite sets; the lemmas about them come first.            *)
(***************************************************************************)
EXTENDS MCGoods, FiniteSetTheorems, FunctionTheorems, SequenceTheorems,
        WellFoundedInduction, TLAPS

TradeTypes ==
  /\ tradeState \in [Players -> States]
  /\ tradePartner \in [Players -> Players \union {Nobody}]
  /\ tradeItem \in [Players -> Items \union {Nobody}]
  /\ tradeItems \in [Items -> Players \union {Nobody}]

(* The three parts of MutualTrade.                                         *)
Pairs ==
  \A p \in Players :
    /\ tradePartner[p] # Nobody => /\ tradePartner[tradePartner[p]] = p
                                   /\ tradePartner[p] # p
    /\ tradeState[p] = "NONE" <=> tradePartner[p] = Nobody
    /\ tradeItem[p] # Nobody => tradeState[p] \in {"INITIATED", "ACCEPT"}
    /\ tradeState[p] = "INITIATED" => tradeItem[p] # Nobody

SomethingOffered ==
  \A p \in Players : tradePartner[p] # Nobody =>
    tradeItem[p] # Nobody \/ tradeItem[tradePartner[p]] # Nobody

Registered ==
  \A p \in Players, i \in Items : tradeItems[i] = p <=> tradeItem[p] = i

IInv == TradeTypes /\ Pairs /\ SomethingOffered /\ Registered

LEMMA NobodyIsNoPlayer == Nobody \notin Players /\ Nobody \notin Items
  BY ItemsAssumption

(* internalCloseTrade leaves no half of a trade behind.                    *)
LEMMA EndedIsClosed ==
  ASSUME IInv, NEW closing \in SUBSET Players
  PROVE  /\ Ended(closing) \subseteq Players
         /\ \A p \in Players : tradePartner[p] \in Players =>
              (p \in Ended(closing) <=> tradePartner[p] \in Ended(closing))
  BY NobodyIsNoPlayer DEF IInv, TradeTypes, Pairs, Ended

LEMMA CloseTradesKeepsIInv ==
  ASSUME IInv, NEW closing \in SUBSET Players, CloseTrades(closing)
  PROVE  IInv'
<1> DEFINE ended == Ended(closing)
<1>1. /\ ended \subseteq Players
      /\ \A p \in Players : tradePartner[p] \in Players =>
           (p \in ended <=> tradePartner[p] \in ended)
  BY EndedIsClosed
<1>2. /\ tradeState' = [p \in Players |-> IF p \in ended THEN "NONE"
                                                         ELSE tradeState[p]]
      /\ tradePartner' = [p \in Players |-> IF p \in ended THEN Nobody
                                                       ELSE tradePartner[p]]
      /\ tradeItem' = [p \in Players |-> IF p \in ended THEN Nobody
                                                        ELSE tradeItem[p]]
      /\ tradeItems' = [i \in Items |-> IF \E p \in ended : tradeItem[p] = i
                                        THEN Nobody ELSE tradeItems[i]]
  BY DEF CloseTrades
<1> HIDE DEF ended
<1>3. TradeTypes'
  BY <1>2 DEF IInv, TradeTypes, States
<1>4. Pairs'
  BY <1>1, <1>2, NobodyIsNoPlayer DEF IInv, TradeTypes, Pairs
<1>5. SomethingOffered'
  BY <1>1, <1>2, NobodyIsNoPlayer DEF IInv, TradeTypes, Pairs, SomethingOffered
<1>6. Registered'
  BY <1>1, <1>2, NobodyIsNoPlayer DEF IInv, TradeTypes, Registered
<1> QED BY <1>3, <1>4, <1>5, <1>6 DEF IInv

LEMMA RequestTradeKeepsIInv ==
  ASSUME IInv, NEW p \in Players, NEW q \in Players, NEW i \in Items,
         RequestTrade(p, q, i)
  PROVE  IInv'
<1>1. p # q /\ tradeItems[i] = Nobody /\ tradeItem[p] = Nobody
  BY NobodyIsNoPlayer
  DEF RequestTrade, AlreadyTraded, Conflicts, MayOffer, IInv, TradeTypes, Pairs
<1>2. \/ /\ tradeState[p] = "NONE" /\ tradeState[q] = "NONE"
         /\ tradePartner' = [tradePartner EXCEPT ![p] = q, ![q] = p]
         /\ tradeState' = [tradeState EXCEPT ![p] = "INITIATED",
                                             ![q] = "ACKNOWLEDGE"]
      \/ /\ tradePartner[p] = q /\ tradePartner[q] = p
         /\ tradePartner' = tradePartner
         /\ tradeState[q] # "NONE"
         /\ tradeState' = [tradeState EXCEPT ![p] = "INITIATED"]
  BY NobodyIsNoPlayer
  DEF RequestTrade, MayOffer, MayBeAsked, IInv, TradeTypes, Pairs
<1>3. /\ tradeItem' = [tradeItem EXCEPT ![p] = i]
      /\ tradeItems' = [tradeItems EXCEPT ![i] = p]
  BY DEF RequestTrade
<1>4. TradeTypes'
  BY <1>2, <1>3 DEF IInv, TradeTypes, States
<1>5. Pairs'
  BY <1>1, <1>2, <1>3, NobodyIsNoPlayer DEF IInv, TradeTypes, Pairs
<1>6. SomethingOffered'
  BY <1>1, <1>2, <1>3, NobodyIsNoPlayer
  DEF IInv, TradeTypes, Pairs, SomethingOffered
<1>7. Registered'
  BY <1>1, <1>3, NobodyIsNoPlayer DEF IInv, TradeTypes, Registered
<1> QED BY <1>4, <1>5, <1>6, <1>7 DEF IInv

LEMMA AcceptKeepsIInv ==
  ASSUME IInv, NEW p \in Players, AcceptFirst(p)
  PROVE  IInv'
<1> USE DEF IInv, TradeTypes
<1>1. TradeTypes'
  BY DEF AcceptFirst, States
<1>2. Pairs'
  BY NobodyIsNoPlayer DEF AcceptFirst, Pairs
<1>3. SomethingOffered' /\ Registered'
  BY DEF AcceptFirst, SomethingOffered, Registered
<1> QED BY <1>1, <1>2, <1>3

LEMMA Inductive == Spec => []IInv
<1>1. Init => IInv
  BY NobodyIsNoPlayer
  DEF Init, IInv, TradeTypes, States, Pairs, SomethingOffered, Registered
<1>2. ASSUME IInv, [Next]_vars PROVE IInv'
  <2>1. CASE UNCHANGED vars
    BY <1>2, <2>1
    DEF vars, trades, IInv, TradeTypes, Pairs, SomethingOffered, Registered
  <2>2. ASSUME NEW p \in Players, NEW q \in Players, NEW i \in Items,
               RequestTrade(p, q, i)
        PROVE  IInv'
    BY <1>2, <2>2, RequestTradeKeepsIInv
  <2>3. ASSUME NEW p \in Players, AcceptFirst(p) PROVE IInv'
    BY <1>2, <2>3, AcceptKeepsIInv
  <2>4. ASSUME NEW p \in Players,
               ExchangeFails(p) \/ Exchange(p) \/ CloseTrade(p) \/ GoAway(p)
        PROVE  IInv'
    <3>1. CloseTrades({p})
      BY <2>4 DEF ExchangeFails, Exchange, CloseTrade, GoAway
    <3> QED BY <1>2, <3>1, CloseTradesKeepsIInv
  <2>5. ASSUME NEW p \in Players, NEW i \in Items, NEW m \in 1..StackSize,
               NEW c \in Cylinders, MoveItem(p, i, m, c)
        PROVE  IInv'
    <3>1. \E j \in StacksFor(world, c, i) \union {Nobody} :
            CloseTrades(TradesTouched(i, m, c, j))
      BY <2>5 DEF MoveItem
    <3>2. \A j : TradesTouched(i, m, c, j) \in SUBSET Players
      BY DEF TradesTouched
    <3> QED BY <1>2, <3>1, <3>2, CloseTradesKeepsIInv
  <2>6. ASSUME NEW p \in Players, NEW i \in Items, NEW j \in Items,
               ExchangeItems(p, i, j)
        PROVE  IInv'
    <3> DEFINE touched ==
          TradesTouched(i, world.count[i], p, Nobody) \union
          TradesTouched(j, world.count[j], world.parent[i], Nobody)
    <3>1. CloseTrades(touched)
      BY <2>6 DEF ExchangeItems
    <3>2. touched \in SUBSET Players
      BY DEF TradesTouched
    <3> QED BY <1>2, <3>1, <3>2, CloseTradesKeepsIInv
  <2> QED BY <1>2, <2>1, <2>2, <2>3, <2>4, <2>5, <2>6 DEF Next
<1> QED BY <1>1, <1>2, PTL DEF Spec

(* Whoever asks, accepts, closes, walks away or moves whatever items: each *)
(* player of a trade is the partner of its partner, and Game::tradeItems   *)
(* is exactly the set of the offers that stand.                            *)
THEOREM TradeIsMutual == Spec => []MutualTrade
<1>1. IInv => MutualTrade
  BY DEF IInv, Pairs, SomethingOffered, Registered, MutualTrade
<1> QED BY <1>1, Inductive, PTL
-----------------------------------------------------------------------------
(* Worlds: what a move leaves as it was.                                   *)

LEMMA Kinds ==
  /\ Containers \subseteq Items /\ Stackable \subseteq Items
  /\ Players \cap Items = {} /\ Containers \cap Stackable = {}
  /\ Ground \notin Items /\ Ground \notin Players /\ Ground # Void
  /\ Void \notin Items /\ Void \notin Players /\ Void \notin Cylinders
<1>1. Ground # Void
  <2>1. SUFFICES ASSUME Ground = Void PROVE FALSE
    OBVIOUS
  <2>2. {Ground, Void, Nobody} = {Ground, Nobody}
    BY <2>1
  <2>3. Cardinality({Ground, Nobody}) <= 2
    <3>1. IsFiniteSet({Ground}) /\ Cardinality({Ground}) = 1
      BY FS_Singleton
    <3>2. Cardinality({Ground} \union {Nobody}) =
            IF Nobody \in {Ground} THEN 1 ELSE 2
      BY <3>1, FS_AddElement
    <3>3. {Ground, Nobody} = {Ground} \union {Nobody}
      OBVIOUS
    <3> QED BY <3>2, <3>3
  <2> QED BY <2>2, <2>3, ItemsAssumption
<1> QED BY <1>1, ItemsAssumption DEF Cylinders

(* Up to three steps lead from an object to the cylinder it is in at last. *)
Top(w, x) ==
  LET above == w.parent[x]
  IN  IF above \notin Containers THEN above
      ELSE IF w.parent[above] \notin Containers THEN w.parent[above]
      ELSE w.parent[w.parent[above]]

(* Every object that exists is in the hands of one player, or on the       *)
(* ground.                                                                 *)
LEMMA TopParentIsTop ==
  ASSUME NEW w, WellFormed(w), NEW x \in Items, Exists(w, x)
  PROVE  TopParent(w, x) = Top(w, x) /\ Top(w, x) \in Cylinders \ Containers
<1> DEFINE IsTop(over) ==
      \/ w.parent[x] = over
      \/ \E c \in Containers : IsHolding(w, c, x) /\ w.parent[c] = over
<1>1. /\ \A y \in Items : w.parent[y] \in Cylinders \union {Void}
      /\ \A y \in Items : Exists(w, y) <=> w.parent[y] # Void
      /\ \A y \in Items : w.parent[y] \in Containers => Exists(w, w.parent[y])
      /\ \A c \in Containers : w.parent[c] # c
      /\ \A c \in Containers : w.parent[c] \in Containers => w.parent[w.parent[c]] # c
  BY DEF WellFormed, Worlds, IsHolding
<1>2. Containers \subseteq Items /\ Void \notin Cylinders
  BY Kinds
<1>3. \A c \in Containers : w.parent[c] \in Containers =>
        w.parent[w.parent[c]] \notin Containers
  BY <1>1, NestingAssumption
<1>4. Top(w, x) \in Cylinders \ Containers
  BY <1>1, <1>2, <1>3 DEF Top
<1>5. IsTop(Top(w, x))
  BY <1>1, <1>2, <1>3 DEF Top, IsHolding
<1>6. ASSUME NEW over \in Cylinders \ Containers, IsTop(over)
      PROVE  over = Top(w, x)
  BY <1>1, <1>2, <1>3, <1>6 DEF Top, IsHolding
<1>7. TopParent(w, x) = CHOOSE over \in Cylinders \ Containers : IsTop(over)
  BY DEF TopParent
<1> HIDE DEF IsTop
<1> QED BY <1>4, <1>5, <1>6, <1>7

(* m units of i can be moved to c, there on the stack j if there is one,   *)
(* with k for the rest.                                                    *)
Movable(w, i, m, c, j, k) ==
  /\ i \in Items /\ m \in 1..w.count[i]
  /\ c \in Cylinders /\ c # i
  /\ c \in Containers => Exists(w, c) /\ ~IsHolding(w, i, c)
  /\ j = Nobody \/ j \in StacksFor(w, c, i)
  /\ k \in Clones(w, i, m)

LEMMA MovedEffect ==
  ASSUME NEW w, WellFormed(w),
         NEW i, NEW m, NEW c, NEW j, NEW k, Movable(w, i, m, c, j, k),
         NEW v, v = Moved(w, i, m, c, j, k)
  PROVE  /\ v \in Worlds /\ k \in Items
         /\ \A x \in Items \ {i, j, k} : /\ v.parent[x] = w.parent[x]
                                         /\ v.count[x] = w.count[x]
         /\ \A x \in Items : Exists(v, x) <=> v.parent[x] # Void
         /\ \A x \in Items : \/ v.parent[x] \in {w.parent[x], Void}
                             \/ x = k /\ v.parent[x] = c
         /\ k = i => m = w.count[i]
         /\ k # i => /\ i \in Stackable /\ k \in Stackable /\ ~Exists(w, k)
                     /\ v.parent[i] = w.parent[i]
                     /\ v.count[i] = w.count[i] - m /\ v.count[i] > 0
         /\ j = Nobody => v.parent[k] = c /\ v.count[k] = m
         /\ j # Nobody => /\ j \in Stackable /\ i \in Stackable /\ j \notin {i, k}
                          /\ w.parent[j] = c
                          /\ v.parent[j] = w.parent[j] /\ Exists(v, j)
                         /\ w.count[j] <= v.count[j]
<1>1. /\ w.parent \in [Items -> Cylinders \union {Void}]
      /\ w.count \in [Items -> 0..StackSize]
      /\ \A x \in Items : w.count[x] > 0 <=> w.parent[x] # Void
      /\ \A x \in Items \ Stackable : w.count[x] <= 1
      /\ StackSize \in Nat \ {0}
  BY ItemsAssumption DEF WellFormed, Worlds, Exists
<1>2. /\ i \in Items /\ m \in 1..w.count[i] /\ c \in Cylinders
      /\ w.count[i] \in Nat /\ m \in Nat /\ m > 0 /\ m <= w.count[i]
      /\ w.count[i] <= StackSize
  BY <1>1 DEF Movable
<1>3. /\ k \in Items
      /\ k = i => m = w.count[i]
      /\ k # i => /\ k \in Stackable /\ w.count[k] = 0 /\ m < w.count[i]
  BY <1>1, <1>2, Kinds DEF Movable, Clones, Exists
<1>4. k # i => i \in Stackable
  BY <1>1, <1>2, <1>3
<1>5. /\ j # Nobody => /\ j \in Items /\ j \in Stackable /\ i \in Stackable
                       /\ j # i /\ w.parent[j] = c /\ w.count[j] > 0
                       /\ w.count[j] < StackSize
      /\ j # Nobody => j # k
  BY <1>1, <1>3 DEF Movable, StacksFor, Content, Equals, Exists
<1> DEFINE onto == IF j = Nobody THEN 0 ELSE Merged(w, j, m)
           rest == m - onto
           count == [x \in Items |-> w.count[x] - (IF x = i THEN m ELSE 0)
                                       + (IF x = j THEN onto ELSE 0)
                                       + (IF x = k THEN rest ELSE 0)]
<1>6. /\ onto \in Nat /\ rest \in Nat /\ onto + rest = m
      /\ j = Nobody => onto = 0
      /\ j # Nobody => onto > 0 /\ w.count[j] + onto <= StackSize
      /\ rest <= m
  BY <1>1, <1>2, <1>5 DEF Merged
<1>7. /\ v.count = count
      /\ v.parent = [x \in Items |-> IF count[x] = 0 THEN Void
                                     ELSE IF x = k /\ rest > 0 THEN c
                                     ELSE w.parent[x]]
  BY DEF Moved
<1> HIDE DEF onto, rest
<1>8. Nobody \notin Items
  BY ItemsAssumption
<1>9. /\ \A x \in Items \ {i, j, k} : count[x] = w.count[x]
      /\ k = i => count[i] = rest
      /\ k # i => count[i] = w.count[i] - m /\ count[k] = rest
      /\ j # Nobody => count[j] = w.count[j] + onto
  BY <1>1, <1>2, <1>3, <1>5, <1>6
<1> HIDE DEF count
<1>10. \A x \in Items : count[x] \in 0..StackSize
  <2> TAKE x \in Items
  <2>1. CASE x \notin {i, j, k}
    BY <1>1, <1>9, <2>1
  <2>2. CASE x = j
    BY <1>1, <1>5, <1>6, <1>8, <1>9, <2>2
  <2>3. CASE x = k
    BY <1>1, <1>2, <1>6, <1>9, <2>3
  <2>4. CASE x = i /\ x # k
    BY <1>1, <1>2, <1>3, <1>9, <2>4
  <2> QED BY <2>1, <2>2, <2>3, <2>4
<1>11. v \in Worlds
  <2>1. v = [parent |-> v.parent, count |-> v.count]
    BY DEF Moved
  <2>2. v.count \in [Items -> 0..StackSize]
    BY <1>7, <1>10 DEF count
  <2>3. v.parent \in [Items -> Cylinders \union {Void}]
    BY <1>1, <1>2, <1>7
  <2> QED BY <2>1, <2>2, <2>3 DEF Worlds
<1>12. \A x \in Items \ {i, j, k} : /\ v.parent[x] = w.parent[x]
                                    /\ v.count[x] = w.count[x]
  BY <1>1, <1>7, <1>9
<1>13. \A x \in Items : count[x] > 0 => \/ w.parent[x] # Void
                                        \/ x = k /\ rest > 0
  <2> TAKE x \in Items
  <2>1. CASE x \notin {i, j, k}
    BY <1>1, <1>9, <2>1
  <2>2. CASE x = j
    BY <1>1, <1>5, <1>8, <2>2
  <2>3. CASE x = k
    BY <1>6, <1>9, <2>3
  <2>4. CASE x = i
    BY <1>1, <1>2, <2>4
  <2> QED BY <2>1, <2>2, <2>3, <2>4
<1>14. \A x \in Items : Exists(v, x) <=> v.parent[x] # Void
  BY <1>2, <1>7, <1>10, <1>13, Kinds DEF Exists
<1>15. \A x \in Items : \/ v.parent[x] \in {w.parent[x], Void}
                        \/ x = k /\ v.parent[x] = c
  BY <1>7
<1>16. k # i => /\ v.parent[i] = w.parent[i]
                /\ v.count[i] = w.count[i] - m /\ v.count[i] > 0
  BY <1>2, <1>3, <1>7, <1>9
<1>17. j = Nobody => v.parent[k] = c /\ v.count[k] = m
  BY <1>2, <1>3, <1>6, <1>7, <1>9
<1>18. j # Nobody => /\ v.parent[j] = w.parent[j] /\ Exists(v, j)
                     /\ w.count[j] <= v.count[j]
  BY <1>1, <1>5, <1>6, <1>7, <1>9 DEF Exists
<1>19. k # i => ~Exists(w, k)
  BY <1>3 DEF Exists
<1> QED
  BY <1>3, <1>4, <1>5, <1>11, <1>12, <1>14, <1>15, <1>16, <1>17, <1>18, <1>19

(* A container that is moved stays itself.                                 *)
LEMMA MovedContainers ==
  ASSUME NEW w, WellFormed(w),
         NEW i, NEW m, NEW c, NEW j, NEW k, Movable(w, i, m, c, j, k),
         NEW v, v = Moved(w, i, m, c, j, k),
         NEW x \in Containers
  PROVE  /\ x # i => v.parent[x] = w.parent[x] /\ v.count[x] = w.count[x]
         /\ x = i => v.parent[x] = c /\ k = i /\ j = Nobody /\ m = w.count[i]
                     /\ v.count[x] = w.count[x]
<1>1. x \in Items /\ x \notin Stackable
  BY Kinds
<1>2. x # i => x \notin {i, j, k}
  BY <1>1, MovedEffect, ItemsAssumption
<1>3. x = i => k = i /\ j = Nobody
  BY <1>1, MovedEffect
<1> QED BY <1>1, <1>2, <1>3, MovedEffect

LEMMA MovedWellFormed ==
  ASSUME NEW w, WellFormed(w),
         NEW i, NEW m, NEW c, NEW j, NEW k, Movable(w, i, m, c, j, k),
         NEW v, v = Moved(w, i, m, c, j, k)
  PROVE  WellFormed(v)
<1>1. v \in Worlds /\ \A x \in Items : Exists(v, x) <=> v.parent[x] # Void
  BY MovedEffect
<1>2. \A x \in Containers : Exists(w, x) => Exists(v, x)
  BY MovedContainers DEF Exists
<1>3. \A x \in Items : v.parent[x] \in Containers =>
        \/ v.parent[x] = w.parent[x]
        \/ v.parent[x] = c
  BY MovedEffect, Kinds DEF Cylinders
<1>4. \A x \in Items : v.parent[x] \in Containers => Exists(v, v.parent[x])
  BY <1>2, <1>3 DEF WellFormed, Movable
<1>5. \A x \in Containers : ~IsHolding(v, x, x)
  BY MovedContainers DEF WellFormed, Movable, IsHolding
<1>6. \A x \in Items \ Stackable : v.count[x] <= 1
  <2> TAKE x \in Items \ Stackable
  <2>1. w.count[x] <= 1 /\ w.count[x] \in Nat
    BY DEF WellFormed, Worlds
  <2>2. CASE x # i
    <3>1. x \notin {i, j, k}
      BY <2>2, MovedEffect, ItemsAssumption
    <3> QED BY <2>1, <3>1, MovedEffect
  <2>3. CASE x = i
    BY <2>1, <2>3, MovedEffect DEF Movable
  <2> QED BY <2>2, <2>3
<1> QED BY <1>1, <1>4, <1>5, <1>6 DEF WellFormed

(* What the notifications of a move look for, in any world: see Touched.   *)
Disturbs(w, i, m, c, j, t) ==
  \/ t = i
  \/ IsHolding(w, t, i)
  \/ m = w.count[i] /\ IsHolding(w, i, t)
  \/ j # Nobody /\ (t = j \/ IsHolding(w, t, j))
  \/ c \in Containers /\ (t = c \/ IsHolding(w, t, c))

(* t, what is in it and what it is in are the same in both worlds.         *)
Undisturbed(w, v, t) ==
  /\ v.parent[t] = w.parent[t] /\ v.count[t] = w.count[t]
  /\ \A x \in Items : IsHolding(w, t, x) \/ IsHolding(v, t, x) =>
       v.parent[x] = w.parent[x] /\ v.count[x] = w.count[x]
  /\ \A c \in Containers : IsHolding(w, c, t) => v.parent[c] = w.parent[c]

(* The notifications are enough: an offer they do not concern is as it was.*)
LEMMA MovedUndisturbed ==
  ASSUME NEW w, WellFormed(w),
         NEW i, NEW m, NEW c, NEW j, NEW k, Movable(w, i, m, c, j, k),
         NEW v, v = Moved(w, i, m, c, j, k),
         NEW t \in Items, Exists(w, t), ~Disturbs(w, i, m, c, j, t)
  PROVE  Undisturbed(w, v, t)
<1>1. t # i /\ t # j /\ t # k
  BY MovedEffect, ItemsAssumption DEF Disturbs
<1>2. v.parent[t] = w.parent[t] /\ v.count[t] = w.count[t]
  BY <1>1, MovedEffect
<1>3. ASSUME NEW x \in Items, x \in {i, j, k}
      PROVE  ~IsHolding(w, t, x) /\ ~IsHolding(v, t, x)
  <2>1. \A y \in Containers : y # i => v.parent[y] = w.parent[y]
    BY MovedContainers
  <2>2. c \in Containers => v.parent[c] = w.parent[c]
    BY <2>1 DEF Movable
  <2>3. v.parent[x] \in {w.parent[x], Void, c}
    BY MovedEffect
  <2>4. Void \notin Containers /\ Void # t
    BY Kinds
  <2>5. ~IsHolding(w, t, x)
    <3>1. CASE x = i \/ x = j
      BY <3>1, ItemsAssumption DEF Disturbs
    <3>2. CASE x = k /\ k # i
      <4>1. w.parent[k] = Void
        BY <3>2, MovedEffect DEF WellFormed
      <4> QED BY <2>4, <3>2, <4>1 DEF IsHolding
    <3> QED BY <1>3, <3>1, <3>2
  <2>6. t = c => t \in Containers
    BY Kinds, MovedEffect DEF Movable, Cylinders
  <2>7. c # t /\ (c \in Containers => ~IsHolding(w, t, c))
    BY <2>6 DEF Disturbs
  <2>8. CASE v.parent[x] = t
    BY <2>3, <2>4, <2>5, <2>7, <2>8 DEF IsHolding
  <2>9. CASE v.parent[x] \in Containers /\ v.parent[v.parent[x]] = t
    <3>1. CASE v.parent[x] = c
      BY <2>2, <2>7, <2>9, <3>1 DEF IsHolding
    <3>2. CASE v.parent[x] = w.parent[x] /\ v.parent[x] # i
      BY <2>1, <2>5, <2>9, <3>2 DEF IsHolding
    <3>3. CASE v.parent[x] = i
      BY <2>7, <2>9, <3>3, MovedContainers DEF IsHolding
    <3> QED BY <2>3, <2>4, <2>9, <3>1, <3>2, <3>3
  <2> QED BY <2>5, <2>8, <2>9 DEF IsHolding
<1>4. \A x \in Items : IsHolding(w, t, x) \/ IsHolding(v, t, x) =>
        v.parent[x] = w.parent[x] /\ v.count[x] = w.count[x]
  BY <1>3, MovedEffect
<1>5. ASSUME NEW b \in Containers, IsHolding(w, b, t)
      PROVE  v.parent[b] = w.parent[b]
  <2>1. CASE b = i
    BY <1>5, <2>1, MovedContainers DEF Disturbs
  <2>2. CASE b # i
    BY <2>2, MovedContainers
  <2> QED BY <2>1, <2>2
<1> QED BY <1>2, <1>4, <1>5 DEF Undisturbed
-----------------------------------------------------------------------------
(* What follows for whoever is not disturbed.                              *)
LEMMA UndisturbedTop ==
  ASSUME NEW w, WellFormed(w), NEW v, WellFormed(v),
         NEW t \in Items, Exists(w, t), Undisturbed(w, v, t)
  PROVE  /\ Exists(v, t) /\ TopParent(v, t) = TopParent(w, t)
         /\ \A x \in Items : IsHolding(v, x, t) <=> IsHolding(w, x, t)
         /\ \A x \in Items : IsHolding(v, t, x) <=> IsHolding(w, t, x)
<1>1. Exists(v, t)
  BY DEF Undisturbed, Exists
<1>2. /\ v.parent[t] = w.parent[t]
      /\ w.parent[t] \in Containers =>
           v.parent[w.parent[t]] = w.parent[w.parent[t]]
  BY DEF Undisturbed, IsHolding
<1>3. w.parent[t] \in Containers /\ w.parent[w.parent[t]] \in Containers =>
        v.parent[w.parent[w.parent[t]]] = w.parent[w.parent[w.parent[t]]]
  BY DEF Undisturbed, IsHolding
<1>4. Top(v, t) = Top(w, t)
  BY <1>2, <1>3 DEF Top
<1>5. TopParent(v, t) = TopParent(w, t)
  BY <1>1, <1>4, TopParentIsTop
<1>6. \A x \in Items : IsHolding(v, x, t) <=> IsHolding(w, x, t)
  BY <1>2 DEF IsHolding
<1>7. ASSUME NEW x \in Items
      PROVE  IsHolding(v, t, x) <=> IsHolding(w, t, x)
  <2>1. CASE IsHolding(v, t, x)
    <3>1. v.parent[x] = w.parent[x]
      BY <2>1 DEF Undisturbed
    <3>2. CASE v.parent[x] = t
      BY <2>1, <3>1, <3>2 DEF IsHolding
    <3>3. CASE v.parent[x] \in Containers /\ v.parent[v.parent[x]] = t
      <4>1. v.parent[x] \in Items /\ IsHolding(v, t, v.parent[x])
        BY <3>3, Kinds DEF IsHolding
      <4>2. w.parent[v.parent[x]] = t
        BY <3>3, <4>1 DEF Undisturbed
      <4> QED BY <2>1, <3>1, <3>3, <4>2 DEF IsHolding
    <3> QED BY <2>1, <3>2, <3>3 DEF IsHolding
  <2>2. CASE IsHolding(w, t, x)
    <3>1. v.parent[x] = w.parent[x]
      BY <2>2 DEF Undisturbed
    <3>2. CASE w.parent[x] = t
      BY <2>2, <3>1, <3>2 DEF IsHolding
    <3>3. CASE w.parent[x] \in Containers /\ w.parent[w.parent[x]] = t
      <4>1. w.parent[x] \in Items /\ IsHolding(w, t, w.parent[x])
        BY <3>3, Kinds DEF IsHolding
      <4>2. v.parent[w.parent[x]] = t
        BY <3>3, <4>1 DEF Undisturbed
      <4> QED BY <2>2, <3>1, <3>3, <4>2 DEF IsHolding
    <3> QED BY <2>2, <3>2, <3>3 DEF IsHolding
  <2> QED BY <2>1, <2>2
<1> QED BY <1>1, <1>5, <1>6, <1>7

(* What a move or an exchange in two moves leaves alone is left alone.     *)
LEMMA UndisturbedTwice ==
  ASSUME NEW w, WellFormed(w), NEW u, WellFormed(u), NEW v, WellFormed(v),
         NEW t \in Items, Exists(w, t),
         Undisturbed(w, u, t), Undisturbed(u, v, t)
  PROVE  Undisturbed(w, v, t)
<1>1. /\ \A x \in Items : IsHolding(u, x, t) <=> IsHolding(w, x, t)
      /\ \A x \in Items : IsHolding(u, t, x) <=> IsHolding(w, t, x)
      /\ Exists(u, t)
  BY UndisturbedTop
<1>2. \A x \in Items : IsHolding(v, t, x) <=> IsHolding(u, t, x)
  BY <1>1, UndisturbedTop
<1> QED BY <1>1, <1>2, Kinds DEF Undisturbed

(* What is held by something is where its holder is.                       *)
LEMMA HeldIsWithHolder ==
  ASSUME NEW w, WellFormed(w), NEW t \in Containers, Exists(w, t),
         NEW x \in Items, Exists(w, x), IsHolding(w, t, x)
  PROVE  TopParent(w, x) = TopParent(w, t)
<1>1. \A c \in Containers : /\ w.parent[c] # c
                            /\ w.parent[c] \in Containers =>
                                 w.parent[w.parent[c]] # c
  BY DEF WellFormed, IsHolding
<1>2. \A c \in Containers : w.parent[c] \in Containers =>
        w.parent[w.parent[c]] \notin Containers
  BY <1>1, NestingAssumption
<1>3. Top(w, x) = Top(w, t)
  BY <1>2 DEF Top, IsHolding
<1> QED BY <1>3, TopParentIsTop, Kinds

LEMMA HolderIsContainer ==
  ASSUME NEW w, WellFormed(w), NEW t \in Items, NEW x \in Items,
         IsHolding(w, t, x)
  PROVE  t \in Containers /\ Exists(w, t) /\ Exists(w, x)
<1>1. w.parent \in [Items -> Cylinders \union {Void}]
  BY DEF WellFormed, Worlds
<1>2. Void \notin Containers /\ Void # t
  BY Kinds
<1>3. \A y \in Items : w.parent[y] = t => t \in Containers
  BY <1>1, <1>2, Kinds DEF Cylinders
<1> QED BY <1>2, <1>3, Kinds DEF IsHolding, WellFormed

(* Where a move of i to p may put it.                                      *)
LEMMA DestinationsAreHeld ==
  ASSUME NEW w, WellFormed(w), NEW p \in Players, NEW i \in Items,
         Exists(w, i), NEW offer, NEW d \in MoveDestinations(w, p, i, offer)
  PROVE  /\ d[2] = Nobody \/ d[2] \in StacksFor(w, d[1], i)
         /\ \/ d[1] = p
            \/ /\ d[1] \in Containers /\ Exists(w, d[1])
               /\ TopParent(w, d[1]) = p
               /\ d[1] # i /\ ~IsHolding(w, i, d[1])
<1>1. PICK e \in Destinations(w, p, i, offer, FALSE) :
        d \in IF e[1] \in Containers /\ StacksFor(w, e[1], i) # {}
              THEN {<<e[1], j>> : j \in StacksFor(w, e[1], i)} ELSE {e}
  BY DEF MoveDestinations
<1>2. e \in SlotDestinations(w, p, i, offer, FALSE)
        \union ContainerDestinations(w, p, i, offer, FALSE)
  BY DEF Destinations
<1>3. /\ e[2] = Nobody
      /\ \/ e[1] = p
         \/ /\ e[1] \in HeldContainers(w, p) /\ e[1] # i
            /\ ~IsHolding(w, i, e[1])
  <2>1. CASE e \in SlotDestinations(w, p, i, offer, FALSE)
    BY <2>1 DEF SlotDestinations, AutoStacks
  <2>2. CASE e \in ContainerDestinations(w, p, i, offer, FALSE)
    BY <2>2 DEF ContainerDestinations, AutoStacks
  <2> QED BY <1>2, <2>1, <2>2
<1>4. d[1] = e[1] /\ (d[2] = Nobody \/ d[2] \in StacksFor(w, d[1], i))
  BY <1>1, <1>3
<1> QED BY <1>3, <1>4 DEF HeldContainers

LEMMA DestinationIsMovable ==
  ASSUME NEW w, WellFormed(w), NEW p \in Players, NEW i \in Items,
         Exists(w, i), NEW offer, NEW d \in MoveDestinations(w, p, i, offer),
         NEW m \in 1..w.count[i], NEW k \in Clones(w, i, m)
  PROVE  Movable(w, i, m, d[1], d[2], k)
<1>2. d[1] \in Cylinders /\ d[1] # i
  BY DestinationsAreHeld, Kinds DEF Cylinders
<1>3. d[1] \in Containers => Exists(w, d[1]) /\ ~IsHolding(w, i, d[1])
  BY DestinationsAreHeld, Kinds
<1> QED BY <1>2, <1>3, DestinationsAreHeld DEF Movable

(* What goes into the hands of p disturbs nothing that is neither there    *)
(* nor part of what moves.                                                 *)
LEMMA GivingDisturbsOnlyThere ==
  ASSUME NEW w, WellFormed(w), NEW p \in Players, NEW i \in Items,
         Exists(w, i), NEW offer, NEW d \in MoveDestinations(w, p, i, offer),
         NEW m, NEW t \in Items, Exists(w, t), TopParent(w, t) # p,
         t # i, ~IsHolding(w, t, i), ~IsHolding(w, i, t)
  PROVE  ~Disturbs(w, i, m, d[1], d[2], t)
<1>1. d[1] \in Containers => TopParent(w, d[1]) = p
  BY DestinationsAreHeld, Kinds
<1>2. d[1] \in Containers => d[1] # t /\ ~IsHolding(w, t, d[1])
  BY <1>1, HeldIsWithHolder, HolderIsContainer, Kinds
<1>3. d[2] # Nobody =>
        /\ d[2] \in Items /\ Exists(w, d[2]) /\ w.parent[d[2]] = d[1]
        /\ TopParent(w, d[2]) = p
  <2> SUFFICES ASSUME d[2] # Nobody
               PROVE  /\ d[2] \in Items /\ Exists(w, d[2])
                      /\ w.parent[d[2]] = d[1] /\ TopParent(w, d[2]) = p
    OBVIOUS
  <2>1. d[2] \in Items /\ Exists(w, d[2]) /\ w.parent[d[2]] = d[1]
    BY DestinationsAreHeld DEF StacksFor, Content
  <2>2. CASE d[1] = p
    BY <2>1, <2>2, TopParentIsTop, Kinds DEF Top
  <2>3. CASE d[1] \in Containers
    <3>1. Exists(w, d[1]) /\ IsHolding(w, d[1], d[2])
      BY <2>1, <2>3 DEF IsHolding, WellFormed
    <3> QED BY <1>1, <2>1, <2>3, <3>1, HeldIsWithHolder
  <2> QED BY <2>1, <2>2, <2>3, DestinationsAreHeld
<1>4. d[2] # Nobody => d[2] # t /\ ~IsHolding(w, t, d[2])
  BY <1>3, HeldIsWithHolder, HolderIsContainer
<1> QED BY <1>2, <1>4 DEF Disturbs
-----------------------------------------------------------------------------
(* Offers: the second inductive invariant.  An offer is there, in the      *)
(* hands of its owner or at its feet, and no two are parts of one another. *)
Standing ==
  \A p \in Players : tradeItem[p] # Nobody =>
    /\ InReach(p, tradeItem[p])
    /\ \A q \in Players \ {p} : tradeItem[q] # Nobody =>
         ~Conflicts(tradeItem[p], tradeItem[q])

WInv == IInv /\ WellFormed(world) /\ Standing

LEMMA OffersExist ==
  ASSUME WInv, NEW p \in Players, NEW t \in Items, tradeItem[p] = t
  PROVE  /\ Exists(world, t) /\ TopParent(world, t) \in {p, Ground}
         /\ \A q \in Players \ {p} : tradeItem[q] # Nobody =>
              ~Conflicts(t, tradeItem[q])
  BY NobodyIsNoPlayer DEF WInv, Standing, InReach

LEMMA ClosedHaveNoOffer ==
  ASSUME NEW closing \in SUBSET Players, CloseTrades(closing),
         NEW p \in Players, tradeItem'[p] # Nobody
  PROVE  p \notin Ended(closing) /\ p \notin closing
  BY DEF CloseTrades, Ended

LEMMA MoveItemLeaves ==
  ASSUME WInv, NEW p \in Players, NEW i \in Items, NEW m \in 1..StackSize,
         NEW c \in Cylinders, MoveItem(p, i, m, c)
  PROVE  /\ WellFormed(world')
         /\ \A q \in Players, t \in Items :
              tradeItem[q] = t /\ tradeItem'[q] = t =>
                Undisturbed(world, world', t)
<1>1. PICK j \in StacksFor(world, c, i) \union {Nobody},
           k \in Clones(world, i, m) :
        /\ world' = Moved(world, i, m, c, j, k)
        /\ CloseTrades(TradesTouched(i, m, c, j))
  BY DEF MoveItem
<1>2. Movable(world, i, m, c, j, k)
  <2>1. c \in Containers /\ i \notin Containers => ~IsHolding(world, i, c)
    BY HolderIsContainer, Kinds DEF WInv
  <2> QED BY <2>1 DEF MoveItem, Holdable, InReach, Movable
<1>3. WellFormed(world')
  BY <1>1, <1>2, MovedWellFormed DEF WInv
<1>4. ASSUME NEW q \in Players, NEW t \in Items,
             tradeItem[q] = t, tradeItem'[q] = t
      PROVE  Undisturbed(world, world', t)
  <2>1. TradesTouched(i, m, c, j) \in SUBSET Players
    BY DEF TradesTouched
  <2>2. q \notin TradesTouched(i, m, c, j)
    BY <1>1, <1>4, <2>1, ClosedHaveNoOffer, NobodyIsNoPlayer
  <2>3. ~Disturbs(world, i, m, c, j, t)
    BY <1>4, <2>2, NobodyIsNoPlayer DEF TradesTouched, Touched, Disturbs
  <2> QED BY <1>1, <1>2, <1>4, <2>3, MovedUndisturbed, OffersExist DEF WInv
<1> QED BY <1>3, <1>4

LEMMA ExchangeItemsLeaves ==
  ASSUME WInv, NEW p \in Players, NEW i \in Items, NEW j \in Items,
         ExchangeItems(p, i, j)
  PROVE  /\ WellFormed(world')
         /\ \A q \in Players, t \in Items :
              tradeItem[q] = t /\ tradeItem'[q] = t =>
                Undisturbed(world, world', t)
<1> DEFINE from == world.parent[i]
           n == world.count[j]
           m == world.count[i]
           emptied == Moved(world, j, n, from, Nobody, j)
           touched == TradesTouched(i, m, p, Nobody)
                        \union TradesTouched(j, n, from, Nobody)
<1>1. /\ Exists(world, i) /\ Exists(world, j) /\ world.parent[j] = p
      /\ j \notin Containers /\ from # p
      /\ world' = Moved(emptied, i, m, p, Nobody, i)
      /\ CloseTrades(touched)
  BY DEF ExchangeItems, InReach
<1>2. WellFormed(world)
  BY DEF WInv
<1>3. /\ i # j /\ p \notin Containers /\ p \in Cylinders /\ p \notin Items
      /\ from \in Cylinders
      /\ from \in Containers => Exists(world, from)
      /\ m \in 1..m /\ n \in 1..n
  BY <1>1, <1>2, Kinds DEF WellFormed, Worlds, Exists, Cylinders
<1>4. Movable(world, j, n, from, Nobody, j)
  <2>1. ~IsHolding(world, j, from) \/ from \notin Containers
    BY <1>1, <1>2, HolderIsContainer, Kinds
  <2>2. from # j
    BY <1>1, <1>3, Kinds DEF Cylinders
  <2> QED BY <1>3, <2>1, <2>2 DEF Movable, Clones
<1>5. WellFormed(emptied)
  BY <1>2, <1>4, MovedWellFormed
<1>6. emptied.parent[i] = world.parent[i] /\ emptied.count[i] = m
  BY <1>2, <1>3, <1>4, MovedEffect, NobodyIsNoPlayer
<1>7. Movable(emptied, i, m, p, Nobody, i)
  BY <1>3, <1>6 DEF Movable, Clones
<1>8. WellFormed(world')
  BY <1>1, <1>5, <1>7, MovedWellFormed
<1>9. ASSUME NEW q \in Players, NEW t \in Items,
             tradeItem[q] = t, tradeItem'[q] = t
      PROVE  Undisturbed(world, world', t)
  <2>1. touched \in SUBSET Players
    BY DEF TradesTouched
  <2>2. q \notin touched
    BY <1>1, <1>9, <2>1, ClosedHaveNoOffer, NobodyIsNoPlayer
  <2>3. /\ ~Disturbs(world, j, n, from, Nobody, t)
        /\ ~Disturbs(world, i, m, p, Nobody, t)
    BY <1>3, <1>9, <2>2, NobodyIsNoPlayer DEF TradesTouched, Touched, Disturbs
  <2>4. Exists(world, t)
    BY <1>9, OffersExist
  <2>5. Undisturbed(world, emptied, t)
    BY <1>2, <1>4, <2>3, <2>4, MovedUndisturbed
  <2>6. /\ Exists(emptied, t)
        /\ \A x \in Items : IsHolding(emptied, x, t) <=> IsHolding(world, x, t)
        /\ \A x \in Items : IsHolding(emptied, t, x) <=> IsHolding(world, t, x)
    BY <1>2, <1>5, <2>4, <2>5, UndisturbedTop
  <2>7. ~Disturbs(emptied, i, m, p, Nobody, t)
    BY <1>3, <1>6, <2>3, <2>6 DEF Disturbs
  <2>8. Undisturbed(emptied, world', t)
    BY <1>1, <1>5, <1>7, <2>6, <2>7, MovedUndisturbed
  <2> QED BY <1>2, <1>5, <1>8, <2>4, <2>5, <2>8, UndisturbedTwice
<1> QED BY <1>8, <1>9

(* Both moves of an exchange concern only the two whose trade it is.       *)
LEMMA ExchangeLeaves ==
  ASSUME WInv, NEW p \in Players, Exchange(p)
  PROVE  /\ WellFormed(world')
         /\ \A r \in Players, t \in Items :
              tradeItem[r] = t /\ tradeItem'[r] = t =>
                Undisturbed(world, world', t)
<1> DEFINE q == tradePartner[p]
           mine == tradeItem[p]
           theirs == tradeItem[q]
           m == world.count[mine]
           n == world.count[theirs]
<1>1. /\ tradeState[p] # "NONE" /\ mine # Nobody /\ theirs # Nobody
      /\ CloseTrades({p})
  BY DEF Exchange, IsLastToAccept
<1>2. /\ q \in Players /\ q # p /\ mine \in Items /\ theirs \in Items
  BY <1>1, NobodyIsNoPlayer DEF WInv, IInv, TradeTypes, Pairs
<1>3. /\ WellFormed(world)
      /\ Exists(world, mine) /\ Exists(world, theirs) /\ mine # theirs
      /\ m \in 1..m /\ n > 0
  BY <1>2, OffersExist, NobodyIsNoPlayer
  DEF WInv, Conflicts, WellFormed, Worlds, Exists
<1>4. PICK d \in MoveDestinations(world, q, mine, theirs),
           k \in Clones(world, mine, m) :
        LET w == Moved(world, mine, m, d[1], d[2], k)
        IN  \/ world' = w
            \/ \E e \in MoveDestinations(w, p, theirs, mine),
                  l \in Clones(w, theirs, n) :
                 world' = Moved(w, theirs, n, e[1], e[2], l)
  <2>1. PICK d \in MoveDestinations(world, q, mine, theirs) :
          \E w \in Handed(world, mine, m, d) :
            LET second == MoveDestinations(w, p, theirs, mine)
            IN  IF second = {} THEN world' = w
                ELSE \E e \in second : world' \in Handed(w, theirs, n, e)
    BY DEF Exchange
  <2>2. PICK k \in Clones(world, mine, m) :
          LET w == Moved(world, mine, m, d[1], d[2], k)
              second == MoveDestinations(w, p, theirs, mine)
          IN  IF second = {} THEN world' = w
              ELSE \E e \in second : world' \in Handed(w, theirs, n, e)
    BY <2>1 DEF Handed
  <2> QED BY <2>2 DEF Handed
<1> DEFINE w == Moved(world, mine, m, d[1], d[2], k)
<1>5. Movable(world, mine, m, d[1], d[2], k)
  BY <1>2, <1>3, DestinationIsMovable
<1>6. WellFormed(w)
  BY <1>3, <1>5, MovedWellFormed
<1>7. k = mine
  BY DEF Clones
<1>8. Exists(w, theirs) /\ n \in 1..w.count[theirs]
  <2>1. n \in Nat /\ w.count[theirs] \in Nat
    BY <1>2, <1>3, <1>6 DEF WellFormed, Worlds
  <2>2. n <= w.count[theirs]
    <3>1. CASE theirs = d[2]
      BY <1>2, <1>3, <1>5, <3>1, MovedEffect, NobodyIsNoPlayer
    <3>2. CASE theirs # d[2]
      BY <1>2, <1>3, <1>5, <1>7, <2>1, <3>2, MovedEffect
    <3> QED BY <3>1, <3>2
  <2> QED BY <1>3, <2>1, <2>2 DEF Exists
<1>9. ASSUME NEW r \in Players, NEW t \in Items,
             tradeItem[r] = t, tradeItem'[r] = t
      PROVE  /\ r # p /\ r # q
             /\ Exists(world, t) /\ TopParent(world, t) \in {r, Ground}
             /\ ~Conflicts(t, mine) /\ ~Conflicts(t, theirs)
             /\ Undisturbed(world, w, t)
  <2>1. r # p /\ r # q
    BY <1>1, <1>2, <1>9, NobodyIsNoPlayer DEF CloseTrades, Ended
  <2>2. /\ Exists(world, t) /\ TopParent(world, t) \in {r, Ground}
        /\ ~Conflicts(t, mine) /\ ~Conflicts(t, theirs)
    BY <1>1, <1>2, <1>9, <2>1, OffersExist
  <2>3. TopParent(world, t) # q
    BY <1>2, <2>1, <2>2, Kinds
  <2>4. ~Disturbs(world, mine, m, d[1], d[2], t)
    BY <1>2, <1>3, <2>2, <2>3, GivingDisturbsOnlyThere DEF Conflicts
  <2>5. Undisturbed(world, w, t)
    BY <1>3, <1>5, <2>2, <2>4, MovedUndisturbed
  <2> QED BY <2>1, <2>2, <2>5
<1>10. CASE world' = w
  BY <1>6, <1>9, <1>10
<1>11. ASSUME NEW e \in MoveDestinations(w, p, theirs, mine),
              NEW l \in Clones(w, theirs, n),
              world' = Moved(w, theirs, n, e[1], e[2], l)
       PROVE  /\ WellFormed(world')
              /\ \A r \in Players, t \in Items :
                   tradeItem[r] = t /\ tradeItem'[r] = t =>
                     Undisturbed(world, world', t)
  <2> HIDE DEF w, m, n, mine, theirs, q
  <2>1. Movable(w, theirs, n, e[1], e[2], l)
    BY <1>2, <1>6, <1>8, DestinationIsMovable
  <2>2. WellFormed(world')
    BY <1>6, <1>11, <2>1, MovedWellFormed
  <2>3. ASSUME NEW r \in Players, NEW t \in Items,
               tradeItem[r] = t, tradeItem'[r] = t
        PROVE  Undisturbed(world, world', t)
    <3>1. /\ r # p
          /\ Exists(world, t) /\ TopParent(world, t) \in {r, Ground}
          /\ ~Conflicts(t, theirs) /\ Undisturbed(world, w, t)
      BY <1>9, <2>3
    <3>2. /\ Exists(w, t) /\ TopParent(w, t) = TopParent(world, t)
          /\ IsHolding(w, theirs, t) <=> IsHolding(world, theirs, t)
          /\ IsHolding(w, t, theirs) <=> IsHolding(world, t, theirs)
      BY <1>2, <1>3, <1>6, <3>1, UndisturbedTop
    <3>3. TopParent(w, t) # p
      BY <3>1, <3>2, Kinds
    <3>4. ~Disturbs(w, theirs, n, e[1], e[2], t)
      BY <1>2, <1>6, <1>8, <3>1, <3>2, <3>3, GivingDisturbsOnlyThere
      DEF Conflicts
    <3>5. Undisturbed(w, world', t)
      BY <1>6, <1>11, <2>1, <3>2, <3>4, MovedUndisturbed
    <3> QED BY <1>3, <1>6, <2>2, <3>1, <3>5, UndisturbedTwice
  <2> QED BY <2>2, <2>3
<1> QED BY <1>4, <1>10, <1>11

(* Whatever happens, an offer that stands before and after is undisturbed. *)
LEMMA StepLeavesOffers ==
  ASSUME WInv, [Next]_vars
  PROVE  /\ WellFormed(world')
         /\ \A q \in Players, t \in Items :
              tradeItem[q] = t /\ tradeItem'[q] = t =>
                Undisturbed(world, world', t)
<1>1. CASE world' = world
  BY <1>1 DEF WInv, Undisturbed
<1>2. ASSUME NEW p \in Players, Exchange(p)
      PROVE  /\ WellFormed(world')
             /\ \A q \in Players, t \in Items :
                  tradeItem[q] = t /\ tradeItem'[q] = t =>
                    Undisturbed(world, world', t)
  BY <1>2, ExchangeLeaves
<1>3. ASSUME NEW p \in Players, NEW i \in Items, NEW m \in 1..StackSize,
             NEW c \in Cylinders, MoveItem(p, i, m, c)
      PROVE  /\ WellFormed(world')
             /\ \A q \in Players, t \in Items :
                  tradeItem[q] = t /\ tradeItem'[q] = t =>
                    Undisturbed(world, world', t)
  BY <1>3, MoveItemLeaves
<1>4. ASSUME NEW p \in Players, NEW i \in Items, NEW j \in Items,
             ExchangeItems(p, i, j)
      PROVE  /\ WellFormed(world')
             /\ \A q \in Players, t \in Items :
                  tradeItem[q] = t /\ tradeItem'[q] = t =>
                    Undisturbed(world, world', t)
  BY <1>4, ExchangeItemsLeaves
<1> QED
  BY <1>1, <1>2, <1>3, <1>4
  DEF Next, vars, RequestTrade, AcceptFirst, ExchangeFails, CloseTrade, GoAway

(* The offers after a step: each stood before, or was made by this step    *)
(* and passed the test of playerRequestTrade.                              *)
LEMMA StepMakesOffers ==
  ASSUME WInv, [Next]_vars
  PROVE  \/ \A p \in Players : tradeItem'[p] \in {tradeItem[p], Nobody}
         \/ \E p \in Players, i \in Items :
              /\ InReach(p, i) /\ ~AlreadyTraded(i) /\ world' = world
              /\ tradeItem' = [tradeItem EXCEPT ![p] = i]
<1>1. CASE UNCHANGED tradeItem
  BY <1>1
<1>2. ASSUME NEW closing, CloseTrades(closing)
      PROVE  \A p \in Players : tradeItem'[p] \in {tradeItem[p], Nobody}
  BY <1>2 DEF CloseTrades
<1>3. ASSUME NEW p \in Players, NEW q \in Players, NEW i \in Items,
             RequestTrade(p, q, i)
      PROVE  \E r \in Players, t \in Items :
               /\ InReach(r, t) /\ ~AlreadyTraded(t) /\ world' = world
               /\ tradeItem' = [tradeItem EXCEPT ![r] = t]
  BY <1>3 DEF RequestTrade
<1>4. ASSUME NEW p \in Players,
             AcceptFirst(p) \/ ExchangeFails(p) \/ Exchange(p)
               \/ CloseTrade(p) \/ GoAway(p)
      PROVE  \A r \in Players : tradeItem'[r] \in {tradeItem[r], Nobody}
  <2>1. CASE AcceptFirst(p)
    BY <2>1 DEF AcceptFirst
  <2>2. CASE ExchangeFails(p) \/ Exchange(p) \/ CloseTrade(p) \/ GoAway(p)
    <3>1. CloseTrades({p})
      BY <2>2 DEF ExchangeFails, Exchange, CloseTrade, GoAway
    <3> QED BY <1>2, <3>1
  <2> QED BY <1>4, <2>1, <2>2
<1>5. ASSUME NEW p \in Players, NEW i \in Items, NEW m, NEW c,
             MoveItem(p, i, m, c)
      PROVE  \A r \in Players : tradeItem'[r] \in {tradeItem[r], Nobody}
  <2>1. \E j : CloseTrades(TradesTouched(i, m, c, j))
    BY <1>5 DEF MoveItem
  <2> QED BY <1>2, <2>1
<1>6. ASSUME NEW p \in Players, NEW i \in Items, NEW j \in Items,
             ExchangeItems(p, i, j)
      PROVE  \A r \in Players : tradeItem'[r] \in {tradeItem[r], Nobody}
  <2>1. \E closing : CloseTrades(closing)
    BY <1>6 DEF ExchangeItems
  <2> QED BY <1>2, <2>1
<1>7. CASE UNCHANGED vars
  BY <1>1, <1>7 DEF vars, trades
<1> QED
  BY <1>3, <1>4, <1>5, <1>6, <1>7 DEF Next

LEMMA StandingKept ==
  ASSUME WInv, [Next]_vars, WellFormed(world')
  PROVE  Standing'
<1>1. \A q \in Players, t \in Items :
        tradeItem[q] = t /\ tradeItem'[q] = t => Undisturbed(world, world', t)
  BY StepLeavesOffers
<1>2. /\ WellFormed(world) /\ WellFormed(world')
      /\ tradeItem \in [Players -> Items \union {Nobody}]
  BY DEF WInv, IInv, TradeTypes
<1>3. CASE \A p \in Players : tradeItem'[p] \in {tradeItem[p], Nobody}
  <2> SUFFICES ASSUME NEW p \in Players, tradeItem'[p] # Nobody
               PROVE  /\ InReach(p, tradeItem[p])'
                      /\ \A q \in Players \ {p} : tradeItem'[q] # Nobody =>
                           ~Conflicts(tradeItem[p], tradeItem[q])'
    BY DEF Standing
  <2> DEFINE t == tradeItem[p]
  <2>1. t \in Items /\ tradeItem'[p] = t /\ Undisturbed(world, world', t)
    BY <1>1, <1>2, <1>3
  <2>2. /\ Exists(world, t) /\ TopParent(world, t) \in {p, Ground}
        /\ \A q \in Players \ {p} : tradeItem[q] # Nobody =>
              ~Conflicts(t, tradeItem[q])
    BY <2>1, OffersExist
  <2>3. /\ Exists(world', t) /\ TopParent(world', t) = TopParent(world, t)
        /\ \A x \in Items : IsHolding(world', x, t) <=> IsHolding(world, x, t)
        /\ \A x \in Items : IsHolding(world', t, x) <=> IsHolding(world, t, x)
    BY <1>2, <2>1, <2>2, UndisturbedTop
  <2>4. InReach(p, tradeItem[p])'
    BY <2>1, <2>2, <2>3 DEF InReach
  <2>5. ASSUME NEW q \in Players \ {p}, tradeItem'[q] # Nobody
        PROVE  ~Conflicts(tradeItem[p], tradeItem[q])'
    BY <1>2, <1>3, <2>1, <2>2, <2>3, <2>5 DEF Conflicts
  <2> QED BY <2>4, <2>5
<1>4. ASSUME NEW p \in Players, NEW i \in Items,
             InReach(p, i), ~AlreadyTraded(i), world' = world,
             tradeItem' = [tradeItem EXCEPT ![p] = i]
      PROVE  Standing'
  <2>1. \A q \in Players : tradeItem[q] # Nobody => ~Conflicts(i, tradeItem[q])
    BY <1>2, <1>4, NobodyIsNoPlayer
    DEF AlreadyTraded, WInv, IInv, Registered
  <2>2. \A a, b : Conflicts(a, b) => Conflicts(b, a)
    BY DEF Conflicts
  <2>3. \A a, b : Conflicts(a, b)' <=> Conflicts(a, b)
    BY <1>4 DEF Conflicts
  <2>4. \A q \in Players : /\ q = p => tradeItem'[q] = i
                           /\ q # p => tradeItem'[q] = tradeItem[q]
    BY <1>2, <1>4
  <2> QED
    BY <1>4, <2>1, <2>2, <2>3, <2>4 DEF WInv, Standing, InReach
<1> QED BY <1>3, <1>4, StepMakesOffers

LEMMA WorldsInductive == Spec => []WInv
<1>1. Init => WellFormed(world) /\ Standing
  BY WorldsAssumption DEF Init, Standing
<1>2. WInv /\ [Next]_vars => WellFormed(world)' /\ Standing'
  BY StepLeavesOffers, StandingKept
<1> QED BY <1>1, <1>2, Inductive, PTL DEF Spec, WInv

(* The world stays one: every item is in one place, and every variable has *)
(* its type.                                                               *)
THEOREM TypeCorrect == Spec => []TypeOK
<1>1. WInv => TypeOK
  BY DEF WInv, IInv, TradeTypes, WellFormed, TypeOK
<1> QED BY <1>1, WorldsInductive, PTL

(* What is not in one another shares no part.                              *)
LEMMA OffersDisjoint ==
  ASSUME NEW w, WellFormed(w), NEW t \in Items, NEW u \in Items, t # u,
         ~IsHolding(w, t, u), ~IsHolding(w, u, t)
  PROVE  Parts(w, t) \intersect Parts(w, u) = {}
<1>1. ASSUME NEW x \in Items, x = t \/ IsHolding(w, t, x),
             x = u \/ IsHolding(w, u, x)
      PROVE  FALSE
  <2>1. Containers \subseteq Items
    BY Kinds
  <2>2. /\ \A c \in Containers : ~IsHolding(w, c, c)
        /\ IsHolding(w, t, x) => t \in Containers
        /\ IsHolding(w, u, x) => u \in Containers
    BY HolderIsContainer DEF WellFormed
  <2> QED BY <1>1, <2>1, <2>2 DEF IsHolding
<1> QED BY <1>1 DEF Parts

(* Nobody can offer an item, or a part of one, twice; an offer is never in *)
(* the hands of somebody else, whatever is moved, split, stacked, swapped  *)
(* or handed over meanwhile.                                               *)
THEOREM NothingOfferedTwice == Spec => []OffersAreApart
<1>1. ASSUME WInv PROVE OffersAreApart
  <2>1. ASSUME NEW t \in Items, NEW u \in Items, ~Conflicts(t, u)
        PROVE  Parts(world, t) \intersect Parts(world, u) = {}
    BY <1>1, <2>1, OffersDisjoint DEF WInv, Conflicts
  <2> QED BY <1>1, <2>1 DEF WInv, IInv, TradeTypes, Standing, OffersAreApart
<1> QED BY <1>1, WorldsInductive, PTL

(* What is accepted is what was shown: no step whatsoever changes the      *)
(* place, the units or the contents of an offer and leaves it standing.    *)
THEOREM ShownIsAccepted == Spec => OfferIsFrozen
<1>1. ASSUME WInv, [Next]_vars
      PROVE  [\A p \in Players, i \in Items :
                tradeItem[p] = i /\ tradeItem'[p] = i =>
                  \A x \in {y \in Items : y = i \/ IsHolding(world, i, y)
                                                \/ IsHolding(world', i, y)} :
                    /\ world'.parent[x] = world.parent[x]
                    /\ world'.count[x] = world.count[x]]_vars
  BY <1>1, StepLeavesOffers DEF Undisturbed
<1> QED BY <1>1, WorldsInductive, PTL DEF Spec, OfferIsFrozen
-----------------------------------------------------------------------------
(* The exchange.  Units are the elements of a finite set, so that they add *)
(* up over disjoint things; ...                                            *)
UnitsOf(w, things) ==
  {u \in (things \intersect Stackable) \X (1..StackSize) :
     u[2] <= w.count[u[1]]}

LEMMA UnitsAreFinite ==
  ASSUME NEW w, NEW S \in SUBSET Items
  PROVE  /\ IsFiniteSet(UnitsOf(w, S))
         /\ Units(w, S) = Cardinality(UnitsOf(w, S)) /\ Units(w, S) \in Nat
<1>1. IsFiniteSet(S \intersect Stackable)
  BY FS_Subset, ItemsAssumption
<1>2. IsFiniteSet(1..StackSize)
  BY FS_Interval, ItemsAssumption
<1>3. IsFiniteSet((S \intersect Stackable) \X (1..StackSize))
  BY <1>1, <1>2, FS_Product
<1>4. UnitsOf(w, S) \in SUBSET ((S \intersect Stackable) \X (1..StackSize))
  BY DEF UnitsOf
<1>5. IsFiniteSet(UnitsOf(w, S))
  BY <1>3, <1>4, FS_Subset
<1> QED BY <1>5, FS_CardinalityType DEF Units, UnitsOf

LEMMA UnitsAddUp ==
  ASSUME NEW w, NEW S \in SUBSET Items, NEW T \in SUBSET Items,
         S \intersect T = {}
  PROVE  Units(w, S \union T) = Units(w, S) + Units(w, T)
<1>1. UnitsOf(w, S \union T) = UnitsOf(w, S) \union UnitsOf(w, T)
  BY DEF UnitsOf
<1>2. UnitsOf(w, S) \intersect UnitsOf(w, T) = {}
  BY DEF UnitsOf
<1>3. /\ IsFiniteSet(UnitsOf(w, S)) /\ IsFiniteSet(UnitsOf(w, T))
      /\ Cardinality(UnitsOf(w, S)) \in Nat /\ Cardinality(UnitsOf(w, T)) \in Nat
  BY UnitsAreFinite
<1>4. Cardinality(UnitsOf(w, S) \union UnitsOf(w, T))
        = Cardinality(UnitsOf(w, S)) + Cardinality(UnitsOf(w, T)) - Cardinality({})
  BY <1>2, <1>3, FS_Union
<1>5. Cardinality(UnitsOf(w, S) \union UnitsOf(w, T))
        = Cardinality(UnitsOf(w, S)) + Cardinality(UnitsOf(w, T))
  BY <1>3, <1>4, FS_EmptySet
<1> QED BY <1>1, <1>5, UnitsAreFinite

LEMMA UnitsOfOne ==
  ASSUME NEW w, NEW x \in Stackable, w.count[x] \in 0..StackSize
  PROVE  Units(w, {x}) = w.count[x]
<1> DEFINE n == w.count[x]
           f == [i \in 1..n |-> <<x, i>>]
<1>1. n \in Nat /\ n <= StackSize /\ StackSize \in Nat /\ x \in Items
  BY ItemsAssumption
<1>2. UnitsOf(w, {x}) = {<<x, i>> : i \in 1..n}
  <2>1. ASSUME NEW u \in UnitsOf(w, {x})
        PROVE  u \in {<<x, i>> : i \in 1..n}
    BY <1>1, <2>1 DEF UnitsOf
  <2>2. ASSUME NEW i \in 1..n
        PROVE  <<x, i>> \in UnitsOf(w, {x})
    BY <1>1, <2>2 DEF UnitsOf
  <2> QED BY <2>1, <2>2
<1>3. f \in Bijection(1..n, UnitsOf(w, {x}))
  <2>1. f \in [1..n -> UnitsOf(w, {x})]
    BY <1>2
  <2>2. \A a, b \in 1..n : f[a] = f[b] => a = b
    OBVIOUS
  <2>3. \A u \in UnitsOf(w, {x}) : \E a \in 1..n : f[a] = u
    BY <1>2
  <2> HIDE DEF f
  <2> QED BY <2>1, <2>2, <2>3, Fun_IsBij
<1>4. ExistsBijection(1..n, UnitsOf(w, {x}))
  BY <1>3 DEF ExistsBijection
<1>5. Cardinality(UnitsOf(w, {x})) = n
  BY <1>1, <1>4, FS_CountingElements
<1> QED BY <1>1, <1>5, UnitsAreFinite

LEMMA UnitsAlike ==
  ASSUME NEW v, NEW w, NEW S \in SUBSET Items, NEW T \in SUBSET Items,
         S \intersect Stackable = T \intersect Stackable,
         \A x \in S \intersect Stackable : v.count[x] = w.count[x]
  PROVE  Units(v, S) = Units(w, T)
<1>1. UnitsOf(v, S) = UnitsOf(w, T)
  BY DEF UnitsOf
<1> QED BY <1>1, UnitsAreFinite

LEMMA UnitsUnchanged ==
  ASSUME NEW v, NEW w, NEW S \in SUBSET Items,
         \A x \in S : v.count[x] = w.count[x]
  PROVE  Units(v, S) = Units(w, S) /\ Units(w, S) \in Nat
<1>1. UnitsOf(v, S) = UnitsOf(w, S)
  BY DEF UnitsOf
<1> QED BY <1>1, UnitsAreFinite

(* ... and taking one stack out of a set takes its units.                  *)
LEMMA UnitsWithout ==
  ASSUME NEW w, NEW S \in SUBSET Items, NEW x \in S \intersect Stackable,
         w.count[x] \in 0..StackSize
  PROVE  Units(w, S) = Units(w, S \ {x}) + w.count[x]
<1>1. (S \ {x}) \union {x} = S /\ (S \ {x}) \intersect {x} = {}
  OBVIOUS
<1>2. Units(w, (S \ {x}) \union {x}) = Units(w, S \ {x}) + Units(w, {x})
  BY <1>1, UnitsAddUp
<1> QED BY <1>1, <1>2, UnitsOfOne

-----------------------------------------------------------------------------
(* The place c of a thing is in the hands of r.                            *)
InHands(w, c, r) == c = r \/ (c \in Containers /\ TopParent(w, c) = r)

(* What does not move is left with whom it was, ...                        *)
LEMMA TopKept ==
  ASSUME NEW w, WellFormed(w),
         NEW i, NEW m, NEW c, NEW j, NEW k, Movable(w, i, m, c, j, k),
         NEW v, v = Moved(w, i, m, c, j, k),
         NEW x \in Items, Exists(w, x), x # k, ~IsHolding(w, i, x)
  PROVE  Exists(v, x) /\ TopParent(v, x) = TopParent(w, x)
<1>1. v.parent[x] = w.parent[x] /\ Exists(v, x)
  <2>1. CASE x # j /\ x # i
    <3>1. v.parent[x] = w.parent[x] /\ v.count[x] = w.count[x]
      BY <2>1, MovedEffect
    <3> QED BY <3>1 DEF Exists
  <2>2. CASE x = j
    <3>1. j # Nobody
      BY <2>2, NobodyIsNoPlayer
    <3> QED BY <2>2, <3>1, MovedEffect
  <2>3. CASE x = i
    <3>1. k # i
      BY <2>3
    <3> QED BY <2>3, <3>1, MovedEffect DEF Exists
  <2> QED BY <2>1, <2>2, <2>3
<1>2. \A b \in Containers : b # i => v.parent[b] = w.parent[b]
  BY MovedContainers
<1>3. w.parent[x] # i
      /\ (w.parent[x] \in Containers => w.parent[w.parent[x]] # i)
  BY DEF IsHolding
<1>4. Top(v, x) = Top(w, x)
  BY <1>1, <1>2, <1>3 DEF Top
<1>5. WellFormed(v)
  BY MovedWellFormed
<1> QED BY <1>1, <1>4, <1>5, TopParentIsTop

(* ... and what moves comes to whose hands its place is in.                *)
LEMMA TopMoved ==
  ASSUME NEW w, WellFormed(w),
         NEW i, NEW m, NEW c, NEW j, NEW k, Movable(w, i, m, c, j, k),
         NEW v, v = Moved(w, i, m, c, j, k),
         NEW r \in Players, InHands(w, c, r),
         Exists(v, k), v.parent[k] = c
  PROVE  TopParent(v, k) = r
<1>1. WellFormed(v) /\ k \in Items
  BY MovedWellFormed, MovedEffect
<1>2. CASE c = r
  BY <1>1, <1>2, TopParentIsTop, Kinds DEF Top
<1>3. CASE c \in Containers /\ TopParent(w, c) = r
  <2>1. \A b \in Containers : b # i => v.parent[b] = w.parent[b]
    BY MovedContainers
  <2>2. Exists(w, c) /\ ~IsHolding(w, i, c) /\ c # i /\ c \in Items
    BY <1>3, Kinds DEF Movable
  <2>3. Top(w, c) = r
    BY <1>3, <2>2, TopParentIsTop
  <2>4. w.parent[c] # i /\ v.parent[c] = w.parent[c]
    BY <1>3, <2>1, <2>2 DEF IsHolding
  <2>5. w.parent[c] \in Containers => w.parent[w.parent[c]] \notin Containers
    BY <1>3, NestingAssumption DEF WellFormed, IsHolding
  <2>6. Top(v, k) = r
    BY <1>3, <2>1, <2>3, <2>4, <2>5 DEF Top
  <2> QED BY <1>1, <2>6, TopParentIsTop
<1> QED BY <1>2, <1>3 DEF InHands

(* The units of a stack that is moved.                                     *)
LEMMA StackEffect ==
  ASSUME NEW w, WellFormed(w),
         NEW i \in Stackable, NEW m, NEW c, NEW j, NEW k,
         Movable(w, i, m, c, j, k),
         NEW v, v = Moved(w, i, m, c, j, k)
  PROVE  \E onto \in 0..m :
           /\ onto = IF j = Nobody THEN 0 ELSE Merged(w, j, m)
           /\ j # Nobody => v.count[j] = w.count[j] + onto
           /\ v.count[k] = m - onto
           /\ onto < m => v.parent[k] = c
           /\ k # i => v.count[i] = w.count[i] - m /\ ~Exists(w, k)
           /\ k = i => m = w.count[i]
<1>1. /\ w.count \in [Items -> 0..StackSize] /\ StackSize \in Nat
      /\ \A x \in Items : w.count[x] \in Nat
  BY ItemsAssumption DEF WellFormed, Worlds
<1>2. /\ i \in Items /\ m \in Nat /\ m > 0 /\ m <= w.count[i] /\ k \in Items
  BY <1>1, MovedEffect DEF Movable
<1>3. /\ k = i => m = w.count[i]
      /\ k # i => ~Exists(w, k) /\ v.count[i] = w.count[i] - m
  BY MovedEffect
<1>4. j # Nobody => /\ j \in Items /\ j # i /\ j # k /\ w.count[j] < StackSize
  BY MovedEffect, Kinds DEF Movable, StacksFor, Content
<1> DEFINE onto == IF j = Nobody THEN 0 ELSE Merged(w, j, m)
           count == [x \in Items |-> w.count[x] - (IF x = i THEN m ELSE 0)
                                       + (IF x = j THEN onto ELSE 0)
                                       + (IF x = k THEN m - onto ELSE 0)]
<1>5. onto \in 0..m
  BY <1>1, <1>2, <1>4 DEF Merged
<1>6. /\ v.count = count
      /\ v.parent = [x \in Items |-> IF count[x] = 0 THEN Void
                                     ELSE IF x = k /\ m - onto > 0 THEN c
                                     ELSE w.parent[x]]
  BY DEF Moved
<1>7. j # Nobody => v.count[j] = w.count[j] + onto
  <2>1. j # Nobody => count[j] = w.count[j] - 0 + onto + 0
    BY <1>4
  <2> QED BY <1>1, <1>4, <1>5, <1>6, <2>1
<1>8. v.count[k] = m - onto
  <2>1. CASE k = i
    <3>1. count[k] = w.count[k] - m + 0 + (m - onto)
      BY <1>2, <1>4, <1>5, <2>1
    <3> QED BY <1>1, <1>2, <1>3, <1>5, <1>6, <2>1, <3>1
  <2>2. CASE k # i
    <3>1. count[k] = w.count[k] - 0 + 0 + (m - onto)
      BY <1>2, <1>4, <1>5, <2>2
    <3>2. w.count[k] = 0
      BY <1>1, <1>2, <1>3, <2>2 DEF Exists
    <3> QED BY <1>2, <1>5, <1>6, <3>1, <3>2
  <2> QED BY <2>1, <2>2
<1>9. onto < m => v.parent[k] = c
  <2> HIDE DEF onto
  <2>1. onto < m => count[k] # 0 /\ m - onto > 0
    BY <1>2, <1>5, <1>6, <1>8
  <2> QED BY <1>2, <1>6, <2>1
<1>10. onto = IF j = Nobody THEN 0 ELSE Merged(w, j, m)
  OBVIOUS
<1> HIDE DEF onto
<1> WITNESS onto \in 0..m
<1> QED BY <1>3, <1>7, <1>8, <1>9, <1>10

-----------------------------------------------------------------------------
LEMMA CountsAreNumbers ==
  ASSUME NEW w, WellFormed(w)
  PROVE  /\ \A x \in Items : w.count[x] \in 0..StackSize /\ w.count[x] \in Nat
         /\ \A s : Held(w, s) \subseteq Items
  BY ItemsAssumption DEF WellFormed, Worlds, Held

(* Who holds what after the move of a stack: but for the rest of it, the   *)
(* same as before.                                                         *)
LEMMA HeldAfterStack ==
  ASSUME NEW w, WellFormed(w),
         NEW i \in Stackable, NEW m, NEW c, NEW j, NEW k,
         Movable(w, i, m, c, j, k),
         NEW v, v = Moved(w, i, m, c, j, k),
         NEW s
  PROVE  Held(v, s) \ {k} = Held(w, s) \ {k}
<1>1. \A x \in Items : ~IsHolding(w, i, x)
  BY HolderIsContainer, Kinds
<1>2. ASSUME NEW x \in Items, x # k
      PROVE  x \in Held(v, s) <=> x \in Held(w, s)
  <2>1. Exists(w, x) => Exists(v, x) /\ TopParent(v, x) = TopParent(w, x)
    BY <1>1, <1>2, TopKept
  <2>2. Exists(v, x) => Exists(w, x)
    <3>1. CASE x \in {i, j}
      <4>1. x = j => Exists(w, x)
        BY NobodyIsNoPlayer DEF Movable, StacksFor, Content
      <4>2. x = i => Exists(w, x)
        BY CountsAreNumbers DEF Movable, Exists
      <4> QED BY <3>1, <4>1, <4>2
    <3>2. CASE x \notin {i, j}
      <4>1. v.count[x] = w.count[x]
        BY <1>2, <3>2, MovedEffect
      <4> QED BY <4>1 DEF Exists
    <3> QED BY <3>1, <3>2
  <2> QED BY <2>1, <2>2 DEF Held
<1>3. Held(v, s) \subseteq Items /\ Held(w, s) \subseteq Items
  BY DEF Held
<1> QED BY <1>2, <1>3

(* A stack that is moved to r brings its units there, ...                  *)
LEMMA StackTaken ==
  ASSUME NEW w, WellFormed(w),
         NEW i \in Stackable, NEW m, NEW c, NEW j, NEW k,
         Movable(w, i, m, c, j, k),
         NEW v, v = Moved(w, i, m, c, j, k),
         NEW r \in Players, InHands(w, c, r), TopParent(w, i) # r
  PROVE  /\ Goods(Held(v, r)) = Goods(Held(w, r))
         /\ Units(v, Held(v, r)) = Units(w, Held(w, r)) + m
<1> DEFINE R == Held(w, r)
<1>1. PICK onto \in 0..m :
           /\ j = Nobody => onto = 0
           /\ j # Nobody => v.count[j] = w.count[j] + onto
           /\ v.count[k] = m - onto
           /\ onto < m => v.parent[k] = c
           /\ k # i => v.count[i] = w.count[i] - m /\ ~Exists(w, k)
           /\ k = i => m = w.count[i]
  BY StackEffect
<1>2. /\ m \in Nat /\ i \in Items /\ k \in Stackable /\ onto \in Nat /\ onto <= m
      /\ k \in Items
  BY MovedEffect, CountsAreNumbers, Kinds DEF Movable
<1>3. i \notin R /\ k \notin R /\ Held(v, r) \ {k} = R
  BY <1>1, HeldAfterStack DEF Held
<1>4. WellFormed(v)
  BY MovedWellFormed
<1>5. /\ \A x \in Items : v.count[x] \in 0..StackSize /\ v.count[x] \in Nat
      /\ \A x \in Items : w.count[x] \in 0..StackSize /\ w.count[x] \in Nat
      /\ R \subseteq Items /\ Held(v, r) \subseteq Items
  BY <1>4, CountsAreNumbers
<1>6. Units(v, Held(v, r)) = Units(v, R) + v.count[k]
  <2>1. CASE k \in Held(v, r)
    BY <1>2, <1>3, <1>5, <2>1, UnitsWithout
  <2>2. CASE k \notin Held(v, r)
    <3>1. ~(onto < m)
      <4> SUFFICES ASSUME onto < m PROVE FALSE
        OBVIOUS
      <4>1. Exists(v, k) /\ v.parent[k] = c
        BY <1>1, <1>2 DEF Exists
      <4>2. TopParent(v, k) = r
        BY <4>1, TopMoved
      <4> QED BY <1>2, <2>2, <4>1, <4>2 DEF Held
    <3>2. v.count[k] = 0
      BY <1>1, <1>2, <3>1
    <3>4. Held(v, r) = R
      BY <1>3, <2>2
    <3>3. Units(v, R) \in Nat
      BY <1>5, UnitsAreFinite
    <3> QED BY <3>2, <3>3, <3>4
  <2> QED BY <2>1, <2>2
<1>7. \A x \in R \ {j} : v.count[x] = w.count[x]
  BY <1>3, <1>5, MovedEffect
<1>8. Units(v, R) = Units(w, R) + onto
  <2>1. CASE j = Nobody
    <3>1. \A x \in R : v.count[x] = w.count[x]
      BY <1>5, <1>7, <2>1, NobodyIsNoPlayer
    <3>2. Units(v, R) = Units(w, R) /\ Units(w, R) \in Nat
      BY <1>5, <3>1, UnitsUnchanged
    <3> QED BY <1>1, <2>1, <3>2
  <2>2. CASE j # Nobody
    <3>1. j \in Stackable /\ j \in Items /\ Exists(w, j) /\ w.parent[j] = c
      BY <2>2, Kinds DEF Movable, StacksFor, Content, Equals
    <3>2. TopParent(w, j) = r
      <4>1. CASE c = r
        BY <3>1, <4>1, TopParentIsTop, Kinds DEF Top
      <4>2. CASE c \in Containers /\ TopParent(w, c) = r
        <5>1. Exists(w, c) /\ IsHolding(w, c, j)
          BY <3>1, <4>2 DEF Movable, IsHolding
        <5> QED BY <3>1, <4>2, <5>1, HeldIsWithHolder
      <4> QED BY <4>1, <4>2 DEF InHands
    <3>3. j \in R \intersect Stackable
      BY <3>1, <3>2 DEF Held
    <3>4. Units(v, R) = Units(v, R \ {j}) + v.count[j]
      BY <1>5, <3>1, <3>3, UnitsWithout
    <3>5. Units(w, R) = Units(w, R \ {j}) + w.count[j]
      BY <1>5, <3>1, <3>3, UnitsWithout
    <3>6. Units(v, R \ {j}) = Units(w, R \ {j}) /\ Units(w, R \ {j}) \in Nat
      <4>1. R \ {j} \in SUBSET Items
        BY <1>5
      <4> HIDE DEF R
      <4> QED BY <1>7, <4>1, UnitsUnchanged
    <3> QED BY <1>1, <1>2, <1>5, <2>2, <3>1, <3>4, <3>5, <3>6
  <2> QED BY <2>1, <2>2
<1>9. Units(w, R) \in Nat
  BY <1>5, UnitsAreFinite
<1>10. Units(v, Held(v, r)) = Units(w, R) + m
  BY <1>1, <1>2, <1>6, <1>8, <1>9
<1>11. Goods(Held(v, r)) = Goods(R)
  BY <1>2, <1>3 DEF Goods
<1> QED BY <1>10, <1>11

(* ... and takes them from whoever held it.                                *)
LEMMA StackGiven ==
  ASSUME NEW w, WellFormed(w),
         NEW i \in Stackable, NEW m, NEW c, NEW j, NEW k,
         Movable(w, i, m, c, j, k),
         NEW v, v = Moved(w, i, m, c, j, k),
         NEW r \in Players, InHands(w, c, r), NEW s \in Players \ {r}
  PROVE  /\ Goods(Held(v, s)) = Goods(Held(w, s))
         /\ Units(v, Held(v, s)) =
              Units(w, Held(w, s)) - (IF i \in Held(w, s) THEN m ELSE 0)
<1> DEFINE S == Held(w, s)
<1>1. PICK onto \in 0..m :
           /\ v.count[k] = m - onto
           /\ onto < m => v.parent[k] = c
           /\ k # i => v.count[i] = w.count[i] - m /\ ~Exists(w, k)
           /\ k = i => m = w.count[i]
  BY StackEffect
<1>2. /\ m \in Nat /\ i \in Items /\ k \in Stackable /\ onto \in Nat /\ onto <= m
      /\ k \in Items /\ m <= w.count[i]
  BY MovedEffect, CountsAreNumbers, Kinds DEF Movable
<1>3. Held(v, s) \ {k} = S \ {k}
  BY HeldAfterStack
<1>4. WellFormed(v)
  BY MovedWellFormed
<1>5. /\ \A x \in Items : v.count[x] \in 0..StackSize /\ v.count[x] \in Nat
      /\ \A x \in Items : w.count[x] \in 0..StackSize /\ w.count[x] \in Nat
      /\ S \subseteq Items /\ Held(v, s) \subseteq Items
  BY <1>4, CountsAreNumbers
<1>6. k \notin Held(v, s)
  <2> SUFFICES ASSUME Exists(v, k), TopParent(v, k) = s PROVE FALSE
    BY DEF Held
  <2>1. onto < m
    BY <1>1, <1>2 DEF Exists
  <2>2. TopParent(v, k) = r
    BY <1>1, <2>1, TopMoved
  <2> QED BY <2>2
<1>7. j \notin S
  <2> SUFFICES ASSUME j \in S PROVE FALSE
    OBVIOUS
  <2>1. j \in Items /\ Exists(w, j) /\ TopParent(w, j) = s /\ j # Nobody
    BY NobodyIsNoPlayer DEF Held
  <2>2. w.parent[j] = c
    BY <2>1 DEF Movable, StacksFor, Content
  <2>3. CASE c = r
    BY <2>1, <2>2, <2>3, TopParentIsTop, Kinds DEF Top
  <2>4. CASE c \in Containers /\ TopParent(w, c) = r
    <3>1. Exists(w, c) /\ IsHolding(w, c, j)
      BY <2>2, <2>4 DEF Movable, IsHolding
    <3> QED BY <2>1, <2>4, <3>1, HeldIsWithHolder
  <2> QED BY <2>3, <2>4 DEF InHands
<1>8. \A x \in S \ {i, k} : v.count[x] = w.count[x]
  BY <1>5, <1>7, MovedEffect
<1>9. Goods(Held(v, s)) = Goods(S)
  BY <1>2, <1>3, <1>6 DEF Goods
<1>10. CASE i \notin S
  <2>1. k \notin S
    BY <1>1, <1>10 DEF Held
  <2>2. Held(v, s) = S /\ \A x \in S : v.count[x] = w.count[x]
    BY <1>3, <1>6, <1>8, <1>10, <2>1
  <2>3. Units(v, S) = Units(w, S) /\ Units(w, S) \in Nat
    BY <1>5, <2>2, UnitsUnchanged
  <2> QED BY <1>9, <1>10, <2>2, <2>3
<1>11. CASE i \in S
  <2>1. Units(w, S) = Units(w, S \ {i}) + w.count[i]
    BY <1>2, <1>5, <1>11, UnitsWithout
  <2>2. \A x \in S \ {i} : x # k => v.count[x] = w.count[x]
    BY <1>8
  <2>3. S \ {i} \in SUBSET Items
    BY <1>5
  <2>4. CASE k = i
    <3>1. Held(v, s) = S \ {i}
      BY <1>3, <1>6, <2>4
    <3>2. \A x \in S \ {i} : v.count[x] = w.count[x]
      BY <2>2, <2>4
    <3>3. Units(v, S \ {i}) = Units(w, S \ {i}) /\ Units(w, S \ {i}) \in Nat
      BY <2>3, <3>2, UnitsUnchanged
    <3>4. w.count[i] = m
      BY <1>1, <2>4
    <3> HIDE DEF S
    <3>5. Units(v, S \ {i}) = Units(w, S) - m
      BY <1>2, <2>1, <3>3, <3>4
    <3> QED BY <1>9, <1>11, <3>1, <3>5 DEF S
  <2>5. CASE k # i
    <3>1. k \notin S
      BY <1>1, <2>5 DEF Held
    <3>2. Held(v, s) = S
      BY <1>3, <1>6, <3>1
    <3>3. \A x \in S \ {i} : v.count[x] = w.count[x]
      BY <2>2, <3>1
    <3>4. Units(v, S \ {i}) = Units(w, S \ {i}) /\ Units(w, S \ {i}) \in Nat
      BY <2>3, <3>3, UnitsUnchanged
    <3>5. Units(v, S) = Units(v, S \ {i}) + v.count[i]
      BY <1>2, <1>5, <1>11, UnitsWithout
    <3>6. w.count[i] \in Nat /\ v.count[i] = w.count[i] - m
      BY <1>1, <1>2, <1>5, <2>5
    <3> HIDE DEF S
    <3>7. Units(v, S) = Units(w, S) - m
      BY <1>2, <2>1, <3>4, <3>5, <3>6
    <3> QED BY <1>9, <1>11, <3>2, <3>7 DEF S
  <2> QED BY <2>4, <2>5
<1> QED BY <1>10, <1>11

-----------------------------------------------------------------------------
LEMMA PartsTogether ==
  ASSUME NEW w, WellFormed(w), NEW i \in Items, Exists(w, i),
         NEW x \in Parts(w, i)
  PROVE  x \in Items /\ Exists(w, x) /\ TopParent(w, x) = TopParent(w, i)
<1>1. x \in Items /\ Exists(w, x) /\ (x = i \/ IsHolding(w, i, x))
  BY DEF Parts
<1> QED BY <1>1, HeldIsWithHolder, HolderIsContainer

(* Who holds what after the move of anything else: it goes with all it     *)
(* holds.                                                                  *)
LEMMA HeldAfterThing ==
  ASSUME NEW w, WellFormed(w),
         NEW i \in Items \ Stackable, NEW m, NEW c, NEW j, NEW k,
         Movable(w, i, m, c, j, k),
         NEW v, v = Moved(w, i, m, c, j, k),
         NEW r \in Players, InHands(w, c, r)
  PROVE  /\ \A x \in Items : v.count[x] = w.count[x]
         /\ Held(v, r) = Held(w, r) \union Parts(w, i)
         /\ \A s \in Players \ {r} : Held(v, s) = Held(w, s) \ Parts(w, i)
<1>1. /\ w.count[i] = 1 /\ m = 1 /\ k = i /\ j = Nobody
  <2>1. w.count[i] <= 1 /\ w.count[i] \in Nat
    BY CountsAreNumbers DEF WellFormed
  <2>2. w.count[i] = 1 /\ m = 1
    BY <2>1 DEF Movable
  <2> QED BY <2>2 DEF Movable, Clones, StacksFor, Equals
<1>2. \A x \in Items : v.count[x] = w.count[x]
  <2>1. \A x \in Items : x # i => v.count[x] = w.count[x]
    BY <1>1, MovedEffect, NobodyIsNoPlayer
  <2>2. v.count[i] = w.count[i]
    BY <1>1, MovedEffect
  <2> QED BY <2>1, <2>2
<1>3. /\ v.parent[i] = c /\ WellFormed(v)
      /\ \A x \in Items : x # i => v.parent[x] = w.parent[x]
  BY <1>1, MovedEffect, MovedWellFormed, NobodyIsNoPlayer
<1>4. Exists(w, i) /\ Exists(v, i) /\ TopParent(v, i) = r
  <2>1. Exists(w, i) /\ Exists(v, i)
    BY <1>1, <1>2 DEF Exists
  <2> QED BY <1>1, <1>3, <2>1, TopMoved
<1>5. ASSUME NEW x \in Parts(w, i)
      PROVE  Exists(v, x) /\ TopParent(v, x) = r
  <2>1. x \in Items /\ Exists(w, x) /\ Exists(v, x) /\ (x = i \/ IsHolding(w, i, x))
    BY <1>2 DEF Parts, Exists
  <2>2. CASE x = i
    BY <1>4, <2>2
  <2>3. CASE x # i
    <3>1. i \in Containers /\ IsHolding(w, i, x)
      BY <2>1, <2>3, HolderIsContainer
    <3>2. IsHolding(v, i, x)
      <4>1. \A b \in Containers : w.parent[b] = i => b # i
        BY <3>1 DEF WellFormed, IsHolding
      <4> QED BY <1>3, <2>1, <2>3, <3>1, <4>1, Kinds DEF IsHolding
    <3> QED BY <1>3, <1>4, <2>1, <3>1, <3>2, HeldIsWithHolder
  <2> QED BY <2>2, <2>3
<1>6. ASSUME NEW x \in Items, x \notin Parts(w, i)
      PROVE  /\ Exists(v, x) <=> Exists(w, x)
             /\ Exists(w, x) => TopParent(v, x) = TopParent(w, x)
  <2>1. Exists(v, x) <=> Exists(w, x)
    BY <1>2 DEF Exists
  <2>2. Exists(w, x) => x # i /\ ~IsHolding(w, i, x)
    BY <1>6 DEF Parts
  <2> QED BY <1>1, <2>1, <2>2, TopKept
<1>7. Held(v, r) = Held(w, r) \union Parts(w, i)
  BY <1>5, <1>6 DEF Held, Parts
<1>8. ASSUME NEW s \in Players \ {r}
      PROVE  Held(v, s) = Held(w, s) \ Parts(w, i)
  BY <1>5, <1>6 DEF Held, Parts
<1> QED BY <1>2, <1>7, <1>8

(* What a move of m units of i brings or takes.                            *)
Amount(w, i, m) == IF i \in Stackable THEN m ELSE Units(w, Parts(w, i))

LEMMA AmountIsNumber ==
  ASSUME NEW w, NEW i, NEW m \in Nat
  PROVE  Amount(w, i, m) \in Nat
<1>1. Parts(w, i) \in SUBSET Items
  BY DEF Parts
<1> QED BY <1>1, UnitsAreFinite DEF Amount

LEMMA StackIsItsPart ==
  ASSUME NEW w, WellFormed(w), NEW i \in Stackable, Exists(w, i)
  PROVE  Parts(w, i) = {i}
  BY HolderIsContainer, Kinds DEF Parts

(* Whoever gets a thing has it and what is in it, ...                      *)
LEMMA Taken ==
  ASSUME NEW w, WellFormed(w),
         NEW i, NEW m, NEW c, NEW j, NEW k, Movable(w, i, m, c, j, k),
         NEW v, v = Moved(w, i, m, c, j, k),
         NEW r \in Players, InHands(w, c, r), TopParent(w, i) # r
  PROVE  /\ Goods(Held(v, r)) = Goods(Held(w, r) \union Parts(w, i))
         /\ Units(v, Held(v, r)) = Units(w, Held(w, r)) + Amount(w, i, m)
<1>1. i \in Items /\ Exists(w, i)
  BY CountsAreNumbers DEF Movable, Exists
<1>2. CASE i \in Stackable
  <2>1. /\ Goods(Held(v, r)) = Goods(Held(w, r))
        /\ Units(v, Held(v, r)) = Units(w, Held(w, r)) + m
    BY <1>2, StackTaken
  <2>2. Parts(w, i) = {i}
    BY <1>1, <1>2, StackIsItsPart
  <2>3. Goods(Held(w, r) \union Parts(w, i)) = Goods(Held(w, r))
    BY <1>2, <2>2 DEF Goods
  <2> QED BY <1>2, <2>1, <2>3 DEF Amount
<1>3. CASE i \notin Stackable
  <2>1. /\ \A x \in Items : v.count[x] = w.count[x]
        /\ Held(v, r) = Held(w, r) \union Parts(w, i)
    BY <1>1, <1>3, HeldAfterThing
  <2>2. Held(w, r) \in SUBSET Items /\ Parts(w, i) \in SUBSET Items
    BY DEF Held, Parts
  <2>3. Held(w, r) \intersect Parts(w, i) = {}
    BY <1>1, PartsTogether DEF Held
  <2>4. Units(w, Held(w, r) \union Parts(w, i))
          = Units(w, Held(w, r)) + Units(w, Parts(w, i))
    BY <2>2, <2>3, UnitsAddUp
  <2>5. Units(v, Held(w, r) \union Parts(w, i))
          = Units(w, Held(w, r) \union Parts(w, i))
    BY <2>1, <2>2, UnitsUnchanged
  <2> QED BY <1>3, <2>1, <2>4, <2>5 DEF Amount
<1> QED BY <1>2, <1>3

(* ... and whoever had it has not.                                         *)
LEMMA Given ==
  ASSUME NEW w, WellFormed(w),
         NEW i, NEW m, NEW c, NEW j, NEW k, Movable(w, i, m, c, j, k),
         NEW v, v = Moved(w, i, m, c, j, k),
         NEW r \in Players, InHands(w, c, r), NEW s \in Players \ {r}
  PROVE  /\ Goods(Held(v, s)) = Goods(Held(w, s) \ Parts(w, i))
         /\ TopParent(w, i) = s =>
              Units(v, Held(v, s)) = Units(w, Held(w, s)) - Amount(w, i, m)
         /\ TopParent(w, i) # s => Units(v, Held(v, s)) = Units(w, Held(w, s))
<1>1. i \in Items /\ Exists(w, i)
  BY CountsAreNumbers DEF Movable, Exists
<1>2. i \in Held(w, s) <=> TopParent(w, i) = s
  BY <1>1 DEF Held
<1>3. Held(w, s) \in SUBSET Items /\ Parts(w, i) \in SUBSET Items
  BY DEF Held, Parts
<1>4. Units(w, Held(w, s)) \in Nat
  BY <1>3, UnitsAreFinite
<1>5. CASE i \in Stackable
  <2>1. /\ Goods(Held(v, s)) = Goods(Held(w, s))
        /\ Units(v, Held(v, s)) =
             Units(w, Held(w, s)) - (IF i \in Held(w, s) THEN m ELSE 0)
    BY <1>5, StackGiven
  <2>2. Goods(Held(w, s) \ Parts(w, i)) = Goods(Held(w, s))
    BY <1>1, <1>5, StackIsItsPart DEF Goods
  <2> QED BY <1>2, <1>4, <1>5, <2>1, <2>2 DEF Amount
<1>6. CASE i \notin Stackable
  <2>1. /\ \A x \in Items : v.count[x] = w.count[x]
        /\ Held(v, s) = Held(w, s) \ Parts(w, i)
    BY <1>1, <1>6, HeldAfterThing
  <2>2. Units(v, Held(v, s)) = Units(w, Held(w, s) \ Parts(w, i))
    BY <1>3, <2>1, UnitsUnchanged
  <2>3. CASE TopParent(w, i) = s
    <3>1. Parts(w, i) \subseteq Held(w, s)
      BY <1>1, <2>3, PartsTogether DEF Held
    <3>2. /\ (Held(w, s) \ Parts(w, i)) \union Parts(w, i) = Held(w, s)
          /\ (Held(w, s) \ Parts(w, i)) \intersect Parts(w, i) = {}
          /\ Held(w, s) \ Parts(w, i) \in SUBSET Items
      BY <1>3, <3>1
    <3>3. Units(w, Held(w, s))
            = Units(w, Held(w, s) \ Parts(w, i)) + Units(w, Parts(w, i))
      BY <1>3, <3>2, UnitsAddUp
    <3>4. Units(w, Held(w, s) \ Parts(w, i)) \in Nat /\ Units(w, Parts(w, i)) \in Nat
      BY <1>3, <3>2, UnitsAreFinite
    <3>5. Units(v, Held(v, s)) = Units(w, Held(w, s)) - Units(w, Parts(w, i))
      BY <2>2, <3>3, <3>4
    <3> QED BY <1>6, <2>1, <2>3, <3>5 DEF Amount
  <2>4. CASE TopParent(w, i) # s
    <3>1. Held(w, s) \ Parts(w, i) = Held(w, s)
      BY <1>1, <2>4, PartsTogether DEF Held
    <3> QED BY <2>1, <2>2, <2>4, <3>1
  <2> QED BY <2>3, <2>4
<1> QED BY <1>5, <1>6

-----------------------------------------------------------------------------
LEMMA AmountOfAll ==
  ASSUME NEW w, WellFormed(w), NEW i \in Items, Exists(w, i)
  PROVE  Amount(w, i, w.count[i]) = Units(w, Parts(w, i))
<1>1. CASE i \in Stackable
  BY <1>1, StackIsItsPart, UnitsOfOne, CountsAreNumbers DEF Amount
<1>2. CASE i \notin Stackable
  BY <1>2 DEF Amount
<1> QED BY <1>1, <1>2

(* What s keeps when j is taken from it, if it has j.                      *)
LEMMA Remains ==
  ASSUME NEW w, WellFormed(w), NEW s, NEW j \in Items, Exists(w, j)
  PROVE  /\ TopParent(w, j) = s =>
              Units(w, Held(w, s)) =
                Units(w, Held(w, s) \ Parts(w, j)) + Units(w, Parts(w, j))
         /\ TopParent(w, j) # s =>
              /\ Held(w, s) \ Parts(w, j) = Held(w, s)
              /\ Parts(w, j) \ Held(w, s) = Parts(w, j)
<1> DEFINE S == Held(w, s)
           P == Parts(w, j)
<1>1. S \subseteq Items /\ P \subseteq Items
  BY DEF Held, Parts
<1>2. CASE TopParent(w, j) = s
  <2>1. P \subseteq S
    BY <1>2, PartsTogether DEF Held
  <2> HIDE DEF S, P
  <2>2. S = (S \ P) \union P /\ (S \ P) \intersect P = {}
    BY <2>1
  <2>3. Units(w, S) = Units(w, S \ P) + Units(w, P)
    BY <1>1, <2>2, UnitsAddUp
  <2> QED BY <1>2, <2>3 DEF S, P
<1>3. CASE TopParent(w, j) # s
  <2>1. P \intersect S = {}
    BY <1>3, PartsTogether DEF Held
  <2> QED BY <1>3, <2>1
<1> QED BY <1>2, <1>3

(* The offer of the other is there as it was when mine has gone over, only *)
(* that mine may have been put on it.                                      *)
LEMMA OtherStays ==
  ASSUME NEW w, WellFormed(w), NEW p \in Players, NEW q \in Players, p # q,
         NEW mine \in Items, NEW theirs \in Items,
         Exists(w, mine), Exists(w, theirs), mine # theirs,
         ~IsHolding(w, mine, theirs), ~IsHolding(w, theirs, mine),
         NEW d \in MoveDestinations(w, q, mine, theirs),
         d[1] \in Containers => d[1] # theirs /\ ~IsHolding(w, theirs, d[1]),
         NEW v, v = Moved(w, mine, w.count[mine], d[1], d[2], mine)
  PROVE  /\ Movable(w, mine, w.count[mine], d[1], d[2], mine)
         /\ WellFormed(v)
         /\ Exists(v, theirs) /\ TopParent(v, theirs) = TopParent(w, theirs)
         /\ w.count[theirs] \in 1..v.count[theirs]
         /\ Goods(Parts(v, theirs)) = Goods(Parts(w, theirs))
         /\ Amount(v, theirs, w.count[theirs]) = Units(w, Parts(w, theirs))
         /\ theirs \notin Stackable => Undisturbed(w, v, theirs)
<1> DEFINE m == w.count[mine]
           n == w.count[theirs]
<1>1. m \in 1..m /\ n \in Nat /\ n > 0
  BY CountsAreNumbers DEF Exists
<1>2. Movable(w, mine, m, d[1], d[2], mine)
  BY <1>1, DestinationIsMovable DEF Clones
<1>3. WellFormed(v)
  BY <1>2, MovedWellFormed
<1>4. Exists(v, theirs) /\ TopParent(v, theirs) = TopParent(w, theirs)
  BY <1>2, TopKept
<1>5. n <= v.count[theirs] /\ v.count[theirs] \in Nat
  <2>1. CASE theirs = d[2]
    BY <1>2, <1>3, <2>1, MovedEffect, NobodyIsNoPlayer, CountsAreNumbers
  <2>2. CASE theirs # d[2]
    BY <1>1, <1>2, <2>2, MovedEffect
  <2> QED BY <2>1, <2>2
<1>6. CASE theirs \in Stackable
  <2>1. Parts(v, theirs) = {theirs} /\ Parts(w, theirs) = {theirs}
    BY <1>3, <1>4, <1>6, StackIsItsPart
  <2>2. Amount(v, theirs, n) = Amount(w, theirs, n)
    BY <1>6 DEF Amount
  <2> QED BY <1>1, <1>2, <1>3, <1>4, <1>5, <1>6, <2>1, <2>2, AmountOfAll
<1>7. CASE theirs \notin Stackable
  <2>1. d[2] # Nobody => d[2] # theirs /\ ~IsHolding(w, theirs, d[2])
    <3> SUFFICES ASSUME d[2] # Nobody
                 PROVE  d[2] # theirs /\ ~IsHolding(w, theirs, d[2])
      OBVIOUS
    <3>1. d[2] \in Stackable /\ w.parent[d[2]] = d[1] /\ d[2] \in Items
      BY <1>2, Kinds DEF Movable, StacksFor, Content, Equals
    <3>2. IsHolding(w, theirs, d[2]) => theirs \in Containers
      BY <3>1, HolderIsContainer
    <3> QED BY <1>7, <3>1, <3>2 DEF IsHolding
  <2>2. ~Disturbs(w, mine, m, d[1], d[2], theirs)
    BY <2>1 DEF Disturbs
  <2>3. Undisturbed(w, v, theirs)
    BY <1>2, <2>2, MovedUndisturbed
  <2>4. \A x \in Items : IsHolding(v, theirs, x) <=> IsHolding(w, theirs, x)
    BY <1>3, <2>3, UndisturbedTop
  <2>5. \A x \in Items : x = theirs \/ IsHolding(w, theirs, x) =>
          v.count[x] = w.count[x]
    BY <2>3 DEF Undisturbed
  <2>6. Parts(v, theirs) = Parts(w, theirs) /\ Parts(w, theirs) \in SUBSET Items
    BY <2>4, <2>5 DEF Parts, Exists
  <2>7. \A x \in Parts(w, theirs) : v.count[x] = w.count[x]
    BY <2>5 DEF Parts
  <2>8. Units(v, Parts(w, theirs)) = Units(w, Parts(w, theirs))
    BY <2>6, <2>7, UnitsUnchanged
  <2> QED
    BY <1>1, <1>2, <1>3, <1>4, <1>5, <1>7, <2>3, <2>6, <2>8 DEF Amount
<1> QED BY <1>6, <1>7

Apart(w, p, q, mine, theirs) ==
  /\ TopParent(w, mine) \in {p, Ground} /\ TopParent(w, theirs) \in {q, Ground}
  /\ Parts(w, mine) \intersect Parts(w, theirs) = {}

Balanced(w, x, r, i, j) ==
  LET stays == Held(w, r) \ Parts(w, j)
  IN  /\ Goods(Held(x, r)) = Goods(stays \union Parts(w, i))
      /\ Units(x, Held(x, r)) =
           Units(w, stays) + Units(w, Parts(w, i) \ stays)

(* Both moves together.                                                    *)
LEMMA BothMoves ==
  ASSUME NEW w, WellFormed(w), NEW p \in Players, NEW q \in Players, p # q,
         NEW mine \in Items, NEW theirs \in Items,
         Exists(w, mine), Exists(w, theirs), mine # theirs,
         ~IsHolding(w, mine, theirs), ~IsHolding(w, theirs, mine),
         Apart(w, p, q, mine, theirs),
         NEW d \in MoveDestinations(w, q, mine, theirs),
         d[1] \in Containers => d[1] # theirs /\ ~IsHolding(w, theirs, d[1]),
         NEW v, v = Moved(w, mine, w.count[mine], d[1], d[2], mine),
         NEW e \in MoveDestinations(v, p, theirs, mine),
         NEW k \in Clones(v, theirs, w.count[theirs]),
         NEW x, x = Moved(v, theirs, w.count[theirs], e[1], e[2], k)
  PROVE  Balanced(w, x, p, theirs, mine) /\ Balanced(w, x, q, mine, theirs)
<1> DEFINE m == w.count[mine]
           n == w.count[theirs]
<1>1. /\ Movable(w, mine, m, d[1], d[2], mine)
      /\ WellFormed(v)
      /\ Exists(v, theirs) /\ TopParent(v, theirs) = TopParent(w, theirs)
      /\ n \in 1..v.count[theirs]
      /\ Goods(Parts(v, theirs)) = Goods(Parts(w, theirs))
      /\ Amount(v, theirs, n) = Units(w, Parts(w, theirs))
  BY OtherStays
<1>2. Movable(v, theirs, n, e[1], e[2], k)
  BY <1>1, DestinationIsMovable
<1>3. InHands(w, d[1], q) /\ InHands(v, e[1], p)
  BY <1>1, DestinationsAreHeld DEF InHands
<1>4. Ground \notin Players /\ TopParent(w, mine) # q /\ TopParent(w, theirs) # p
  BY Kinds DEF Apart
<1>5. Amount(w, mine, m) = Units(w, Parts(w, mine))
  BY AmountOfAll
<1>6. /\ Goods(Held(v, q)) = Goods(Held(w, q) \union Parts(w, mine))
      /\ Units(v, Held(v, q)) = Units(w, Held(w, q)) + Units(w, Parts(w, mine))
  <2>1. /\ Goods(Held(v, q)) = Goods(Held(w, q) \union Parts(w, mine))
        /\ Units(v, Held(v, q)) = Units(w, Held(w, q)) + Amount(w, mine, m)
    BY <1>1, <1>3, <1>4, Taken
  <2> QED BY <1>5, <2>1
<1>7. /\ Goods(Held(v, p)) = Goods(Held(w, p) \ Parts(w, mine))
      /\ TopParent(w, mine) = p =>
           Units(v, Held(v, p)) = Units(w, Held(w, p)) - Units(w, Parts(w, mine))
      /\ TopParent(w, mine) # p => Units(v, Held(v, p)) = Units(w, Held(w, p))
  <2>1. /\ Goods(Held(v, p)) = Goods(Held(w, p) \ Parts(w, mine))
        /\ TopParent(w, mine) = p =>
             Units(v, Held(v, p)) = Units(w, Held(w, p)) - Amount(w, mine, m)
        /\ TopParent(w, mine) # p => Units(v, Held(v, p)) = Units(w, Held(w, p))
    BY <1>1, <1>3, Given
  <2> QED BY <1>5, <2>1
<1>8. /\ Goods(Held(x, p)) = Goods(Held(v, p) \union Parts(v, theirs))
      /\ Units(x, Held(x, p)) = Units(v, Held(v, p)) + Units(w, Parts(w, theirs))
  <2>1. /\ Goods(Held(x, p)) = Goods(Held(v, p) \union Parts(v, theirs))
        /\ Units(x, Held(x, p)) = Units(v, Held(v, p)) + Amount(v, theirs, n)
    BY <1>1, <1>2, <1>3, <1>4, Taken
  <2> QED BY <1>1, <2>1
<1>9. /\ Goods(Held(x, q)) = Goods(Held(v, q) \ Parts(v, theirs))
      /\ TopParent(w, theirs) = q =>
           Units(x, Held(x, q)) = Units(v, Held(v, q)) - Units(w, Parts(w, theirs))
      /\ TopParent(w, theirs) # q => Units(x, Held(x, q)) = Units(v, Held(v, q))
  <2>1. /\ Goods(Held(x, q)) = Goods(Held(v, q) \ Parts(v, theirs))
        /\ TopParent(v, theirs) = q =>
             Units(x, Held(x, q)) = Units(v, Held(v, q)) - Amount(v, theirs, n)
        /\ TopParent(v, theirs) # q => Units(x, Held(x, q)) = Units(v, Held(v, q))
    BY <1>1, <1>2, <1>3, Given
  <2> QED BY <1>1, <2>1
<1>10. /\ \A s, j : Units(w, Held(w, s) \ Parts(w, j)) \in Nat
       /\ \A s : Units(w, Held(w, s)) \in Nat
       /\ \A j : Units(w, Parts(w, j)) \in Nat
  <2>1. /\ \A s, j : Held(w, s) \ Parts(w, j) \in SUBSET Items
        /\ \A s : Held(w, s) \in SUBSET Items
        /\ \A j : Parts(w, j) \in SUBSET Items
    BY DEF Held, Parts
  <2> QED BY <2>1, UnitsAreFinite
<1>11. /\ Parts(w, mine) \ Held(w, q) = Parts(w, mine)
       /\ Parts(w, theirs) \ Held(w, p) = Parts(w, theirs)
  BY <1>4, Remains
<1>12. Parts(w, mine) \intersect Parts(w, theirs) = {}
  BY DEF Apart
<1>13. Balanced(w, x, p, theirs, mine)
  <2> DEFINE stays == Held(w, p) \ Parts(w, mine)
  <2>1. Goods(Held(x, p)) = Goods(stays \union Parts(w, theirs))
    BY <1>1, <1>7, <1>8 DEF Goods
  <2>2. Parts(w, theirs) \ stays = Parts(w, theirs)
    BY <1>11
  <2>3. Units(v, Held(v, p)) = Units(w, stays)
    <3>1. CASE TopParent(w, mine) = p
      <4>1. Units(w, Held(w, p)) = Units(w, stays) + Units(w, Parts(w, mine))
        BY <3>1, Remains
      <4>2. Units(w, stays) \in Nat
        BY <1>10
      <4> HIDE DEF stays
      <4> QED BY <1>7, <1>10, <3>1, <4>1, <4>2
    <3>2. CASE TopParent(w, mine) # p
      BY <1>7, <3>2, Remains
    <3> QED BY <3>1, <3>2
  <2> QED BY <1>8, <2>1, <2>2, <2>3 DEF Balanced
<1>14. Balanced(w, x, q, mine, theirs)
  <2> DEFINE stays == Held(w, q) \ Parts(w, theirs)
  <2>1. Goods(Held(x, q)) = Goods(stays \union Parts(w, mine))
    BY <1>1, <1>6, <1>9, <1>12 DEF Goods
  <2>2. Parts(w, mine) \ stays = Parts(w, mine)
    BY <1>11
  <2>3. Units(x, Held(x, q)) = Units(w, stays) + Units(w, Parts(w, mine))
    <3>1. CASE TopParent(w, theirs) = q
      <4>1. Units(w, Held(w, q)) = Units(w, stays) + Units(w, Parts(w, theirs))
        BY <3>1, Remains
      <4> HIDE DEF stays
      <4>2. Units(w, stays) \in Nat
        BY <1>10 DEF stays
      <4> QED BY <1>6, <1>9, <1>10, <3>1, <4>1, <4>2
    <3>2. CASE TopParent(w, theirs) # q
      BY <1>6, <1>9, <3>2, Remains
    <3> QED BY <3>1, <3>2
  <2> QED BY <2>1, <2>2, <2>3 DEF Balanced
<1> QED BY <1>13, <1>14

-----------------------------------------------------------------------------
LEMMA ContentIsFinite ==
  ASSUME NEW w, NEW c
  PROVE  /\ Content(w, c) \subseteq Items /\ IsFiniteSet(Content(w, c))
         /\ Cardinality(Content(w, c)) \in Nat /\ Room(c) \in Nat
         /\ c # Ground => (HasRoom(w, c) <=> Cardinality(Content(w, c)) < Room(c))
<1>1. Content(w, c) \subseteq Items
  BY DEF Content
<1>2. IsFiniteSet(Content(w, c))
  BY <1>1, FS_Subset, ItemsAssumption
<1>3. Cardinality(Content(w, c)) \in Nat /\ Room(c) \in Nat
  BY <1>2, FS_CardinalityType, ItemsAssumption DEF Room
<1>4. c # Ground => (HasRoom(w, c) <=> Cardinality(Content(w, c)) < Room(c))
  BY <1>3 DEF HasRoom, FreeSlots
<1> QED BY <1>1, <1>2, <1>3, <1>4

(* Only the place a thing is moved to gets more; the one it left gets less.*)
LEMMA ContentMoved ==
  ASSUME NEW w, WellFormed(w),
         NEW i, NEW m, NEW c, NEW j, NEW k, Movable(w, i, m, c, j, k),
         NEW v, v = Moved(w, i, m, c, j, k),
         NEW b \in Players \union Containers
  PROVE  /\ Content(v, b) \subseteq Content(w, b) \union {k}
         /\ b # c \/ ~Exists(v, k) => Content(v, b) \subseteq Content(w, b)
         /\ b # c /\ k = i => i \notin Content(v, b)
<1>1. b # Void
  BY Kinds
<1>2. ASSUME NEW y \in Content(v, b)
      PROVE  /\ (y = k /\ v.parent[y] = c) \/ y \in Content(w, b)
             /\ y \in Items /\ Exists(v, y) /\ v.parent[y] = b
  <2>1. y \in Items /\ Exists(v, y) /\ v.parent[y] = b
    BY DEF Content
  <2>2. (y = k /\ v.parent[y] = c) \/ v.parent[y] = w.parent[y]
    BY <1>1, <2>1, MovedEffect
  <2> QED BY <1>1, <2>1, <2>2 DEF Content, WellFormed
<1>3. b # c /\ k = i => i \notin Content(v, b)
  <2>1. SUFFICES ASSUME b # c, k = i, i \in Content(v, b) PROVE FALSE
    OBVIOUS
  <2>2. j # Nobody => i \in Stackable
    BY MovedEffect
  <2>3. CASE j = Nobody
    BY <1>2, <2>1, <2>3, MovedEffect
  <2>4. CASE i \in Stackable
    <3>1. PICK onto \in 0..m : /\ v.count[i] = m - onto
                               /\ onto < m => v.parent[i] = c
      BY <2>1, <2>4, StackEffect
    <3>2. m \in Nat
      BY CountsAreNumbers DEF Movable
    <3> QED BY <1>2, <2>1, <3>1, <3>2 DEF Exists
  <2> QED BY <2>2, <2>3, <2>4
<1> QED BY <1>2, <1>3

(* A move to where there is room fills nothing more than full.             *)
LEMMA MovedFits ==
  ASSUME NEW w, WellFormed(w), NothingOverfull(w),
         NEW i, NEW m, NEW c, NEW j, NEW k, Movable(w, i, m, c, j, k),
         NEW v, v = Moved(w, i, m, c, j, k),
         HasRoom(w, c) \/ ~Exists(v, k)
  PROVE  NothingOverfull(v)
<1> SUFFICES ASSUME NEW b \in Players \union Containers
             PROVE  Cardinality(Content(v, b)) <= Room(b)
  BY DEF NothingOverfull
<1>1. Cardinality(Content(w, b)) <= Room(b)
  BY DEF NothingOverfull
<1>2. /\ IsFiniteSet(Content(w, b)) /\ Cardinality(Content(w, b)) \in Nat
      /\ Cardinality(Content(v, b)) \in Nat /\ Room(b) \in Nat
      /\ b # Ground
  BY ContentIsFinite, Kinds
<1>3. CASE Content(v, b) \subseteq Content(w, b)
  <2>1. Cardinality(Content(v, b)) <= Cardinality(Content(w, b))
    BY <1>2, <1>3, FS_Subset
  <2> QED BY <1>1, <1>2, <2>1
<1>4. CASE b = c /\ HasRoom(w, c)
  <2>1. Cardinality(Content(w, b)) < Room(b)
    BY <1>2, <1>4, ContentIsFinite
  <2>2. /\ IsFiniteSet(Content(w, b) \union {k})
        /\ Cardinality(Content(w, b) \union {k}) <= Cardinality(Content(w, b)) + 1
        /\ Cardinality(Content(w, b) \union {k}) \in Nat
    <3>1. /\ IsFiniteSet(Content(w, b) \union {k})
          /\ \/ Cardinality(Content(w, b) \union {k}) = Cardinality(Content(w, b))
             \/ Cardinality(Content(w, b) \union {k}) =
                  Cardinality(Content(w, b)) + 1
      BY <1>2, FS_AddElement
    <3> QED BY <1>2, <3>1
  <2>3. Cardinality(Content(v, b)) <= Cardinality(Content(w, b) \union {k})
    BY <2>2, ContentMoved, FS_Subset
  <2> QED BY <1>2, <2>1, <2>2, <2>3
<1> QED BY <1>3, <1>4, ContentMoved

(* What left a place left room there.                                      *)
LEMMA LeavingLeavesRoom ==
  ASSUME NEW w, NothingOverfull(w), NEW v, NEW b \in Players \union Containers,
         NEW i \in Content(w, b), Content(v, b) \subseteq Content(w, b) \ {i}
  PROVE  HasRoom(v, b)
<1>1. /\ IsFiniteSet(Content(w, b)) /\ Cardinality(Content(w, b)) \in Nat
      /\ Cardinality(Content(v, b)) \in Nat /\ Room(b) \in Nat
      /\ b # Ground
  BY ContentIsFinite, Kinds
<1>2. /\ Cardinality(Content(w, b) \ {i}) = Cardinality(Content(w, b)) - 1
      /\ IsFiniteSet(Content(w, b) \ {i})
  BY <1>1, FS_RemoveElement
<1>3. Cardinality(Content(v, b)) <= Cardinality(Content(w, b) \ {i})
  BY <1>2, FS_Subset
<1>4. Cardinality(Content(w, b)) <= Room(b)
  BY DEF NothingOverfull
<1>5. Cardinality(Content(v, b)) < Room(b)
  BY <1>1, <1>2, <1>3, <1>4
<1> QED BY <1>1, <1>5, ContentIsFinite

LEMMA RoomIsKept ==
  ASSUME NEW w, NEW v, NEW b \in Players \union Containers, HasRoom(w, b),
         Content(v, b) \subseteq Content(w, b)
  PROVE  HasRoom(v, b)
<1>1. /\ IsFiniteSet(Content(w, b)) /\ Cardinality(Content(w, b)) \in Nat
      /\ Cardinality(Content(v, b)) \in Nat /\ Room(b) \in Nat
      /\ b # Ground /\ Cardinality(Content(w, b)) < Room(b)
  BY ContentIsFinite, Kinds
<1>2. Cardinality(Content(v, b)) <= Cardinality(Content(w, b))
  BY <1>1, FS_Subset
<1>3. Cardinality(Content(v, b)) < Room(b)
  BY <1>1, <1>2
<1> QED BY <1>1, <1>3, ContentIsFinite

-----------------------------------------------------------------------------
(* Where p has room for the other offer: in a place of its own that has    *)
(* room, or that mine has just left.                                       *)
LEMMA RoomFor ==
  ASSUME NEW w, WellFormed(w), NothingOverfull(w),
         NEW p \in Players, NEW q \in Players, p # q,
         NEW mine \in Items, NEW theirs \in Items,
         Exists(w, mine), Exists(w, theirs), mine # theirs,
         ~IsHolding(w, mine, theirs), ~IsHolding(w, theirs, mine),
         Apart(w, p, q, mine, theirs),
         NEW d \in MoveDestinations(w, q, mine, theirs),
         d[1] \in Containers => d[1] # theirs /\ ~IsHolding(w, theirs, d[1]),
         NEW v, v = Moved(w, mine, w.count[mine], d[1], d[2], mine),
         NEW c \in HeldContainers(w, p) \union {p},
         c # p => c # mine /\ ~IsHolding(w, mine, c),
         HasRoom(w, c) \/ w.parent[mine] = c
  PROVE  MoveDestinations(v, p, theirs, mine) # {}
<1> DEFINE m == w.count[mine]
<1>1. /\ Movable(w, mine, m, d[1], d[2], mine) /\ WellFormed(v)
      /\ Exists(v, theirs) /\ TopParent(v, theirs) = TopParent(w, theirs)
  BY OtherStays
<1>2. c \in Players \union Containers /\ Ground \notin Players
  BY Kinds DEF HeldContainers
<1>3. d[1] # c
  BY DestinationsAreHeld, Kinds DEF HeldContainers
<1>4. /\ Content(v, c) \subseteq Content(w, c)
      /\ mine \notin Content(v, c)
  BY <1>1, <1>2, <1>3, ContentMoved
<1>5. HasRoom(v, c)
  <2>1. CASE HasRoom(w, c)
    BY <1>2, <1>4, <2>1, RoomIsKept
  <2>2. CASE w.parent[mine] = c
    <3>1. mine \in Content(w, c)
      BY <2>2 DEF Content
    <3> QED BY <1>2, <1>4, <3>1, LeavingLeavesRoom
  <2> QED BY <2>1, <2>2
<1>6. <<c, Nobody>> \in Destinations(v, p, theirs, mine, FALSE)
        \/ Destinations(v, p, theirs, mine, FALSE) # {}
  <2>1. CASE HasRoom(v, p)
    <3>1. <<p, Nobody>> \in SlotDestinations(v, p, theirs, mine, FALSE)
      BY <2>1 DEF SlotDestinations
    <3> QED BY <3>1 DEF Destinations
  <2>2. CASE ~HasRoom(v, p)
    <3>1. /\ c \in Containers /\ Exists(w, c) /\ TopParent(w, c) = p
          /\ c \in Items /\ c # mine /\ ~IsHolding(w, mine, c)
      BY <1>5, <2>2, Kinds DEF HeldContainers
    <3>2. Exists(v, c) /\ TopParent(v, c) = p
      BY <1>1, <3>1, TopKept
    <3>3. c # theirs /\ ~IsHolding(v, theirs, c)
      <4>1. TopParent(w, theirs) # p
        BY <1>2 DEF Apart
      <4>2. c # theirs
        BY <3>1, <4>1
      <4>3. IsHolding(v, theirs, c) => theirs \in Containers
        BY <1>1, <3>1, HolderIsContainer
      <4> QED BY <1>1, <3>1, <3>2, <4>1, <4>2, <4>3, HeldIsWithHolder
    <3>4. ~IsHolding(v, mine, c)
      <4>1. SUFFICES ASSUME IsHolding(v, mine, c) PROVE FALSE
        OBVIOUS
      <4>2. mine \in Containers /\ Exists(v, mine)
        BY <1>1, <3>1, <4>1, HolderIsContainer
      <4>3. v.parent[mine] = d[1]
        BY <1>1, <4>2, MovedContainers
      <4>4. TopParent(v, mine) = q
        BY <1>1, <4>2, <4>3, TopMoved, DestinationsAreHeld DEF InHands
      <4> QED BY <1>1, <3>1, <3>2, <4>1, <4>2, <4>4, HeldIsWithHolder
    <3>5. /\ c \in HeldContainers(v, p) \ {theirs}
          /\ ~IsHolding(v, theirs, c) /\ ~(c = mine \/ IsHolding(v, mine, c))
      BY <3>1, <3>2, <3>3, <3>4 DEF HeldContainers
    <3>6. <<c, Nobody>> \in ContainerDestinations(v, p, theirs, mine, FALSE)
      BY <1>5, <3>5 DEF ContainerDestinations
    <3>7. SlotDestinations(v, p, theirs, mine, FALSE) = {}
      BY <2>2 DEF SlotDestinations, AutoStacks
    <3> QED BY <3>6, <3>7 DEF Destinations
  <2> QED BY <2>1, <2>2
<1>7. PICK e \in Destinations(v, p, theirs, mine, FALSE) : TRUE
  BY <1>6
<1> DEFINE on(s) == IF s[1] \in Containers /\ StacksFor(v, s[1], theirs) # {}
                    THEN {<<s[1], j>> : j \in StacksFor(v, s[1], theirs)}
                    ELSE {s}
<1>8. \E x : x \in on(e)
  <2>1. CASE e[1] \in Containers /\ StacksFor(v, e[1], theirs) # {}
    <3>1. PICK j : j \in StacksFor(v, e[1], theirs)
      BY <2>1
    <3>2. <<e[1], j>> \in {<<e[1], k>> : k \in StacksFor(v, e[1], theirs)}
      BY <3>1
    <3> QED BY <2>1, <3>2
  <2>2. CASE ~(e[1] \in Containers /\ StacksFor(v, e[1], theirs) # {})
    BY <2>2
  <2> QED BY <2>1, <2>2
<1>9. MoveDestinations(v, p, theirs, mine)
        = UNION {on(s) : s \in Destinations(v, p, theirs, mine, FALSE)}
  BY DEF MoveDestinations
<1> HIDE DEF on
<1> QED BY <1>7, <1>8, <1>9

(* After the tests of playerAcceptTrade the second move finds a place,     *)
(* unless it was to be found by stacking alone.                            *)
LEMMA SecondFindsPlace ==
  ASSUME NEW w, WellFormed(w), NothingOverfull(w),
         NEW p \in Players, NEW q \in Players, p # q,
         NEW mine \in Items, NEW theirs \in Items,
         Exists(w, mine), Exists(w, theirs), mine # theirs,
         ~IsHolding(w, mine, theirs), ~IsHolding(w, theirs, mine),
         Apart(w, p, q, mine, theirs),
         CanAdd(w, p, theirs, mine),
         ~(/\ theirs \in Stackable /\ TopParent(w, mine) = Ground
           /\ \A c \in HeldContainers(w, p) \union {p} : ~HasRoom(w, c)),
         NEW d \in MoveDestinations(w, q, mine, theirs),
         d[1] \in Containers => d[1] # theirs /\ ~IsHolding(w, theirs, d[1]),
         NEW v, v = Moved(w, mine, w.count[mine], d[1], d[2], mine)
  PROVE  MoveDestinations(v, p, theirs, mine) # {}
<1>1. CASE TopParent(w, mine) = p
  <2> DEFINE c == w.parent[mine]
  <2>1. c = p \/ c \in Containers
    BY <1>1, TopParentIsTop DEF Top
  <2>2. CASE c = p
    BY <2>2, RoomFor
  <2>3. CASE c \in Containers
    <3>1. Exists(w, c) /\ IsHolding(w, c, mine) /\ c \in Items
      BY <2>3, Kinds DEF WellFormed, IsHolding
    <3>2. TopParent(w, c) = p
      BY <1>1, <2>3, <3>1, HeldIsWithHolder
    <3>3. c # mine /\ ~IsHolding(w, mine, c)
      BY <2>3, <3>1, HolderIsContainer, NestingAssumption
      DEF WellFormed, IsHolding
    <3> QED BY <2>3, <3>1, <3>2, <3>3, RoomFor DEF HeldContainers
  <2> QED BY <2>1, <2>2, <2>3
<1>2. CASE TopParent(w, mine) = Ground
  <2>1. ASSUME NEW c \in HeldContainers(w, p) \union {p}, HasRoom(w, c)
        PROVE  MoveDestinations(v, p, theirs, mine) # {}
    <3>1. c # p => /\ c \in Containers /\ Exists(w, c) /\ c \in Items
                   /\ TopParent(w, c) = p
      BY Kinds DEF HeldContainers
    <3>2. c # p => c # mine /\ ~IsHolding(w, mine, c)
      BY <1>2, <3>1, HolderIsContainer, HeldIsWithHolder, Kinds
    <3> QED BY <2>1, <3>2, RoomFor
  <2>2. CASE theirs \notin Stackable
    <3>1. PICK e : e \in Destinations(w, p, theirs, mine, TRUE)
      BY DEF CanAdd
    <3>2. e \in SlotDestinations(w, p, theirs, mine, TRUE)
            \union ContainerDestinations(w, p, theirs, mine, TRUE)
      BY <3>1 DEF Destinations
    <3>3. \E c \in HeldContainers(w, p) \union {p} : HasRoom(w, c)
      <4>1. CASE e \in SlotDestinations(w, p, theirs, mine, TRUE)
        BY <2>2, <4>1 DEF SlotDestinations, AutoStacks
      <4>2. CASE e \in ContainerDestinations(w, p, theirs, mine, TRUE)
        BY <2>2, <4>2 DEF ContainerDestinations, AutoStacks
      <4> QED BY <3>2, <4>1, <4>2
    <3> QED BY <2>1, <3>3
  <2> QED BY <1>2, <2>1, <2>2
<1> QED BY <1>1, <1>2 DEF Apart

-----------------------------------------------------------------------------
LEMMA DestinationHasRoom ==
  ASSUME NEW w, NEW p, NEW i, NEW offer,
         NEW d \in MoveDestinations(w, p, i, offer)
  PROVE  HasRoom(w, d[1])
<1>1. PICK e \in Destinations(w, p, i, offer, FALSE) :
        d \in IF e[1] \in Containers /\ StacksFor(w, e[1], i) # {}
              THEN {<<e[1], j>> : j \in StacksFor(w, e[1], i)} ELSE {e}
  BY DEF MoveDestinations
<1>2. d[1] = e[1]
  BY <1>1
<1>3. e \in SlotDestinations(w, p, i, offer, FALSE)
        \union ContainerDestinations(w, p, i, offer, FALSE)
  BY DEF Destinations
<1>4. HasRoom(w, e[1])
  <2>1. CASE e \in SlotDestinations(w, p, i, offer, FALSE)
    BY <2>1 DEF SlotDestinations, AutoStacks
  <2>2. CASE e \in ContainerDestinations(w, p, i, offer, FALSE)
    BY <2>2 DEF ContainerDestinations, AutoStacks
  <2> QED BY <1>3, <2>1, <2>2
<1> QED BY <1>2, <1>4

(* An exchange is one move of mine, and one of theirs if there is a place. *)
LEMMA ExchangeMoves ==
  ASSUME WInv, NEW p \in Players, NEW q, q = tradePartner[p], Exchange(p),
         NEW mine, mine = tradeItem[p], NEW theirs, theirs = tradeItem[q]
  PROVE  /\ q \in Players /\ p # q /\ mine \in Items /\ theirs \in Items
         /\ Exists(world, mine) /\ Exists(world, theirs) /\ mine # theirs
         /\ ~IsHolding(world, mine, theirs) /\ ~IsHolding(world, theirs, mine)
         /\ TopParent(world, mine) \in {p, Ground}
         /\ TopParent(world, theirs) \in {q, Ground}
         /\ CanAdd(world, p, theirs, mine)
         /\ \E d \in MoveDestinations(world, q, mine, theirs) :
              LET v == Moved(world, mine, world.count[mine], d[1], d[2], mine)
              IN  /\ d[1] \in Containers =>
                       d[1] # theirs /\ ~IsHolding(world, theirs, d[1])
                  /\ \/ MoveDestinations(v, p, theirs, mine) = {} /\ world' = v
                     \/ \E e \in MoveDestinations(v, p, theirs, mine),
                           k \in Clones(v, theirs, world.count[theirs]) :
                          world' = Moved(v, theirs, world.count[theirs],
                                         e[1], e[2], k)
<1>1. tradeState[p] # "NONE" /\ mine # Nobody /\ theirs # Nobody
  BY DEF Exchange, IsLastToAccept
<1>2. q \in Players /\ p # q /\ mine \in Items /\ theirs \in Items
  BY <1>1, NobodyIsNoPlayer DEF WInv, IInv, TradeTypes, Pairs
<1>3. /\ Exists(world, mine) /\ TopParent(world, mine) \in {p, Ground}
      /\ Exists(world, theirs) /\ TopParent(world, theirs) \in {q, Ground}
      /\ ~Conflicts(mine, theirs)
  BY <1>2, OffersExist, NobodyIsNoPlayer
<1>4. CanAdd(world, p, theirs, mine)
  BY DEF Exchange, BothCanAdd
<1>5. PICK d \in MoveDestinations(world, q, mine, theirs) :
        /\ d[1] \in Containers =>
             d[1] # theirs /\ ~IsHolding(world, theirs, d[1])
        /\ \E v \in Handed(world, mine, world.count[mine], d) :
             LET second == MoveDestinations(v, p, theirs, mine)
             IN  IF second = {} THEN world' = v
                 ELSE \E e \in second :
                        world' \in Handed(v, theirs, world.count[theirs], e)
  BY DEF Exchange
<1> DEFINE v == Moved(world, mine, world.count[mine], d[1], d[2], mine)
<1>6. LET second == MoveDestinations(v, p, theirs, mine)
      IN  IF second = {} THEN world' = v
          ELSE \E e \in second :
                 world' \in Handed(v, theirs, world.count[theirs], e)
  <2>1. Handed(world, mine, world.count[mine], d) = {v}
    BY DEF Handed, Clones
  <2> QED BY <1>5, <2>1
<1>7. \/ MoveDestinations(v, p, theirs, mine) = {} /\ world' = v
      \/ \E e \in MoveDestinations(v, p, theirs, mine),
            k \in Clones(v, theirs, world.count[theirs]) :
           world' = Moved(v, theirs, world.count[theirs], e[1], e[2], k)
  BY <1>6 DEF Handed
<1> QED BY <1>2, <1>3, <1>4, <1>5, <1>7 DEF Conflicts

LEMMA ExchangeFits ==
  ASSUME WInv, NothingOverfull(world), NEW p \in Players, Exchange(p)
  PROVE  NothingOverfull(world')
<1> DEFINE q == tradePartner[p]
           mine == tradeItem[p]
           theirs == tradeItem[q]
           n == world.count[theirs]
<1>1. /\ q \in Players /\ p # q /\ mine \in Items /\ theirs \in Items
      /\ Exists(world, mine) /\ Exists(world, theirs) /\ mine # theirs
      /\ ~IsHolding(world, mine, theirs) /\ ~IsHolding(world, theirs, mine)
  BY ExchangeMoves
<1>2. PICK d \in MoveDestinations(world, q, mine, theirs) :
        LET v == Moved(world, mine, world.count[mine], d[1], d[2], mine)
        IN  /\ d[1] \in Containers =>
                 d[1] # theirs /\ ~IsHolding(world, theirs, d[1])
            /\ \/ MoveDestinations(v, p, theirs, mine) = {} /\ world' = v
               \/ \E e \in MoveDestinations(v, p, theirs, mine),
                     k \in Clones(v, theirs, n) :
                    world' = Moved(v, theirs, n, e[1], e[2], k)
  BY ExchangeMoves
<1> DEFINE v == Moved(world, mine, world.count[mine], d[1], d[2], mine)
<1>3. WellFormed(world)
  BY DEF WInv
<1> HIDE DEF q, mine, theirs
<1>4. /\ Movable(world, mine, world.count[mine], d[1], d[2], mine)
      /\ WellFormed(v)
      /\ Exists(v, theirs) /\ n \in 1..v.count[theirs]
  BY <1>1, <1>2, <1>3, OtherStays
<1>5. NothingOverfull(v)
  BY <1>1, <1>2, <1>3, <1>4, DestinationHasRoom, MovedFits
<1>6. ASSUME NEW e \in MoveDestinations(v, p, theirs, mine),
             NEW k \in Clones(v, theirs, n),
             world' = Moved(v, theirs, n, e[1], e[2], k)
      PROVE  NothingOverfull(world')
  <2> HIDE DEF v
  <2>1. Movable(v, theirs, n, e[1], e[2], k)
    BY <1>1, <1>4, DestinationIsMovable
  <2>2. HasRoom(v, e[1])
    BY DestinationHasRoom
  <2> QED BY <1>4, <1>5, <1>6, <2>1, <2>2, MovedFits
<1> QED BY <1>2, <1>5, <1>6

LEMMA MoveItemFits ==
  ASSUME WInv, NothingOverfull(world),
         NEW p \in Players, NEW i \in Items, NEW m \in 1..StackSize,
         NEW c \in Cylinders, MoveItem(p, i, m, c)
  PROVE  NothingOverfull(world')
<1>1. PICK j \in StacksFor(world, c, i) \union {Nobody},
           k \in Clones(world, i, m) :
        /\ j = Nobody => HasRoom(world, c)
        /\ j # Nobody /\ Merged(world, j, m) < m => HasRoom(world, c)
        /\ world' = Moved(world, i, m, c, j, k)
  BY DEF MoveItem
<1>2. WellFormed(world)
  BY DEF WInv
<1>3. Movable(world, i, m, c, j, k)
  <2>1. c \in Containers /\ i \notin Containers => ~IsHolding(world, i, c)
    BY <1>2, HolderIsContainer, Kinds
  <2> QED BY <2>1 DEF MoveItem, Holdable, InReach, Movable
<1>4. HasRoom(world, c) \/ ~Exists(world', k)
  <2>1. SUFFICES ASSUME j # Nobody, ~(Merged(world, j, m) < m)
                 PROVE  ~Exists(world', k)
    BY <1>1
  <2>2. i \in Stackable
    BY <1>2, <1>3, <2>1, MovedEffect
  <2>3. PICK onto \in 0..m : /\ onto = Merged(world, j, m)
                             /\ world'.count[k] = m - onto
    BY <1>1, <1>2, <1>3, <2>1, <2>2, StackEffect
  <2>4. m \in Nat
    BY ItemsAssumption
  <2>5. world'.count[k] = 0
    BY <2>1, <2>3, <2>4
  <2> QED BY <2>5 DEF Exists
<1> QED BY <1>1, <1>2, <1>3, <1>4, MovedFits

LEMMA ExchangeItemsFits ==
  ASSUME WInv, NothingOverfull(world),
         NEW p \in Players, NEW i \in Items, NEW j \in Items,
         ExchangeItems(p, i, j)
  PROVE  NothingOverfull(world')
<1> DEFINE from == world.parent[i]
           n == world.count[j]
           m == world.count[i]
           emptied == Moved(world, j, n, from, Nobody, j)
<1>1. /\ Exists(world, i) /\ Exists(world, j) /\ world.parent[j] = p
      /\ j \notin Containers /\ from # p /\ HasRoom(world, from)
      /\ world' = Moved(emptied, i, m, p, Nobody, i)
  BY DEF ExchangeItems, InReach
<1>2. WellFormed(world)
  BY DEF WInv
<1>3. /\ i # j /\ p \notin Containers /\ p \in Cylinders /\ p \notin Items
      /\ from \in Cylinders
      /\ from \in Containers => Exists(world, from)
      /\ m \in 1..m /\ n \in 1..n
  BY <1>1, <1>2, Kinds DEF WellFormed, Worlds, Exists, Cylinders
<1>4. Movable(world, j, n, from, Nobody, j)
  <2>1. ~IsHolding(world, j, from) \/ from \notin Containers
    BY <1>1, <1>2, HolderIsContainer, Kinds
  <2>2. from # j
    BY <1>1, <1>3, Kinds DEF Cylinders
  <2> QED BY <1>3, <2>1, <2>2 DEF Movable, Clones
<1>5. WellFormed(emptied)
  BY <1>2, <1>4, MovedWellFormed
<1>6. emptied.parent[i] = world.parent[i] /\ emptied.count[i] = m
  BY <1>2, <1>3, <1>4, MovedEffect, NobodyIsNoPlayer
<1>7. Movable(emptied, i, m, p, Nobody, i)
  BY <1>3, <1>6 DEF Movable, Clones
<1>8. NothingOverfull(emptied)
  BY <1>1, <1>2, <1>4, MovedFits
<1>9. HasRoom(emptied, p)
  <2>1. j \in Content(world, p)
    BY <1>1 DEF Content
  <2>2. Content(emptied, p) \subseteq Content(world, p) \ {j}
    BY <1>1, <1>2, <1>4, ContentMoved
  <2> HIDE DEF emptied
  <2> QED BY <2>1, <2>2, LeavingLeavesRoom
<1> HIDE DEF emptied
<1> QED BY <1>1, <1>5, <1>7, <1>8, <1>9, MovedFits

(* However things are moved, swapped and handed over, no player and no     *)
(* container comes to hold more than it has room for.                      *)
THEOREM NothingIsOverfull == Spec => []NothingOverfull(world)
<1>1. Init => NothingOverfull(world)
  BY WorldsAssumption DEF Init
<1>2. ASSUME WInv, NothingOverfull(world), [Next]_vars
      PROVE  NothingOverfull(world)'
  <2>1. CASE world' = world
    BY <1>2, <2>1
  <2>2. ASSUME NEW p \in Players, Exchange(p) PROVE NothingOverfull(world)'
    BY <1>2, <2>2, ExchangeFits
  <2>3. ASSUME NEW p \in Players, NEW i \in Items, NEW m \in 1..StackSize,
               NEW c \in Cylinders, MoveItem(p, i, m, c)
        PROVE  NothingOverfull(world)'
    BY <1>2, <2>3, MoveItemFits
  <2>4. ASSUME NEW p \in Players, NEW i \in Items, NEW j \in Items,
               ExchangeItems(p, i, j)
        PROVE  NothingOverfull(world)'
    BY <1>2, <2>4, ExchangeItemsFits
  <2> QED
    BY <1>2, <2>1, <2>2, <2>3, <2>4
    DEF Next, vars, RequestTrade, AcceptFirst, ExchangeFails, CloseTrade, GoAway
<1> QED BY <1>1, <1>2, WorldsInductive, PTL DEF Spec

(* So whatever else goes on, trades are between two, no item is offered    *)
(* twice, and nothing is overfull (Game::playerRequestTrade,               *)
(* Game::playerAcceptTrade, Player::checkTradeState).                      *)
THEOREM Trades_are_sound == MCSpec => []TradesAreSound
<1>1. MCInit => Init
  BY DEF MCInit
<1>2. [MCNext]_allVars => [Next]_vars
  BY DEF MCNext, TradeNext, MarketNext, TileNext, InventoryNext, DecayNext, ShopsNext,
         SavingNext, allVars
<1>3. MCSpec => Spec
  BY <1>1, <1>2, PTL DEF MCSpec, Spec
<1>4. TypeOK /\ MutualTrade /\ OffersAreApart /\ NothingOverfull(world) => TradesAreSound
  BY DEF TradesAreSound
<1> QED BY <1>3, <1>4, TypeCorrect, TradeIsMutual, NothingOfferedTwice, NothingIsOverfull, PTL

(* An exchange gives each of the two what the other offered, whole, and    *)
(* takes nothing else from either, or does not take place.                 *)
THEOREM BothSidesOrNone == Spec => BothOrNeither
<1>1. ASSUME WInv, NothingOverfull(world), [Next]_vars
      PROVE  [\A p \in Players :
                LET q == tradePartner[p]
                IN  IsLastToAccept(p) /\ Exchange(p) /\ ~OnlyByStacking(p, q)
                      => /\ Swapped(p, tradeItem[q], tradeItem[p])
                         /\ Swapped(q, tradeItem[p], tradeItem[q])]_vars
  <2>1. ASSUME NEW p \in Players, Exchange(p),
               ~OnlyByStacking(p, tradePartner[p])
        PROVE  /\ Swapped(p, tradeItem[tradePartner[p]], tradeItem[p])
               /\ Swapped(tradePartner[p], tradeItem[p],
                          tradeItem[tradePartner[p]])
    <3> DEFINE q == tradePartner[p]
               mine == tradeItem[p]
               theirs == tradeItem[q]
               n == world.count[theirs]
    <3>1. /\ q \in Players /\ p # q /\ mine \in Items /\ theirs \in Items
          /\ Exists(world, mine) /\ Exists(world, theirs) /\ mine # theirs
          /\ ~IsHolding(world, mine, theirs) /\ ~IsHolding(world, theirs, mine)
          /\ TopParent(world, mine) \in {p, Ground}
          /\ TopParent(world, theirs) \in {q, Ground}
          /\ CanAdd(world, p, theirs, mine)
      BY <1>1, <2>1, ExchangeMoves
    <3>2. PICK d \in MoveDestinations(world, q, mine, theirs) :
            LET v == Moved(world, mine, world.count[mine], d[1], d[2], mine)
            IN  /\ d[1] \in Containers =>
                     d[1] # theirs /\ ~IsHolding(world, theirs, d[1])
                /\ \/ MoveDestinations(v, p, theirs, mine) = {} /\ world' = v
                   \/ \E e \in MoveDestinations(v, p, theirs, mine),
                         k \in Clones(v, theirs, n) :
                        world' = Moved(v, theirs, n, e[1], e[2], k)
      BY <1>1, <2>1, ExchangeMoves
    <3> DEFINE v == Moved(world, mine, world.count[mine], d[1], d[2], mine)
    <3>3. ~(/\ theirs \in Stackable /\ TopParent(world, mine) = Ground
            /\ \A c \in HeldContainers(world, p) \union {p} : ~HasRoom(world, c))
      BY <2>1 DEF OnlyByStacking
    <3> SUFFICES Swapped(p, theirs, mine) /\ Swapped(q, mine, theirs)
      OBVIOUS
    <3> HIDE DEF q, mine, theirs
    <3>4. WellFormed(world)
      BY <1>1 DEF WInv
    <3>5. Apart(world, p, q, mine, theirs)
      BY <3>1, <3>4, OffersDisjoint DEF Apart
    <3>6. MoveDestinations(v, p, theirs, mine) # {}
      BY <1>1, <3>1, <3>2, <3>3, <3>4, <3>5, SecondFindsPlace
    <3>7. PICK e \in MoveDestinations(v, p, theirs, mine),
               k \in Clones(v, theirs, n) :
            world' = Moved(v, theirs, n, e[1], e[2], k)
      BY <3>2, <3>6
    <3>8. Balanced(world, world', p, theirs, mine)
            /\ Balanced(world, world', q, mine, theirs)
      BY <3>1, <3>2, <3>4, <3>5, <3>7, BothMoves
    <3> QED BY <3>8 DEF Balanced, Swapped
  <2> QED BY <2>1
<1> QED BY <1>1, WorldsInductive, NothingIsOverfull, PTL DEF Spec, BothOrNeither

-----------------------------------------------------------------------------
(* Sums over finite sets.  Induction over a set needs no operator here:    *)
(* the numbers, or the subsets, for which a claim fails form a set, and a  *)
(* least one of them is refuted.                                           *)
LEMMA LeastOf ==
  ASSUME NEW S, S \subseteq Nat, S # {}
  PROVE  \E n \in S : \A m \in S : n <= m
<1> DEFINE R == OpToRel(<, Nat)
<1>1. \A x, y \in S : <<y, x>> \in R <=> y < x
  BY DEF OpToRel
<1>0. IsWellFoundedOn(R, Nat)
  BY NatLessThanWellFounded
<1> HIDE DEF R
<1>2. PICK x \in S : \A y \in S : ~(<<y, x>> \in R)
  BY <1>0, WFMin
<1>3. \A y \in S : ~(y < x)
  BY <1>1, <1>2
<1> QED BY <1>3

LEMMA LeastSet ==
  ASSUME NEW S, IsFiniteSet(S), NEW U, U \subseteq SUBSET S, U # {}
  PROVE  \E s \in U : \A t \in U : t \subseteq s => t = s
<1>0. FiniteSubsetsOf(S) = SUBSET S BY FS_FiniteSubsetsOfFinite
<1>1. \E x \in U : \A y \in U : ~(<<y, x>> \in StrictSubsetOrdering(S))
  BY <1>0, FS_StrictSubsetOrderingWellFounded, WFMin
<1> QED BY <1>1, <1>0 DEF StrictSubsetOrdering

(* What the library sums: the element it picks first, and one step of its  *)
(* fold, in which g stands for the sums over smaller sets.                 *)
Some(s) == CHOOSE x \in s : TRUE
Adds(f, g, s) == IF s = {} THEN 0 ELSE f[Some(s)] + g[s \ {Some(s)}]

LEMMA SomeIs == ASSUME NEW s, s # {} PROVE Some(s) \in s
  BY DEF Some

LEMMA SumDef ==
  ASSUME NEW f, NEW S
  PROVE  SumFunctionOnSet(f, S) = (CHOOSE g : g = [s \in SUBSET S |-> Adds(f, g, s)])[S]
  BY DEF SumFunctionOnSet, FoldFunctionOnSet, MapThenFoldSet, Adds, Some

(* The library chooses a function that unfolds itself; there is one, built *)
(* up by the size of the sets.                                             *)
LEMMA SumExists ==
  ASSUME NEW S, IsFiniteSet(S), NEW f
  PROVE  \E g : g = [s \in SUBSET S |-> Adds(f, g, s)]
<1> DEFINE D(n) == {s \in SUBSET S : Cardinality(s) <= n}
           Has(n) == \E g : g = [s \in D(n) |-> Adds(f, g, s)]
           Lacks == {n \in Nat : ~Has(n)}
<1>0. \A s \in SUBSET S : IsFiniteSet(s) /\ Cardinality(s) \in Nat /\ (Cardinality(s) = 0 <=> s = {})
                          /\ (s # {} => Some(s) \in s /\ Cardinality(s \ {Some(s)}) = Cardinality(s) - 1
                                         /\ s \ {Some(s)} \in SUBSET S)
  BY FS_Subset, FS_CardinalityType, FS_EmptySet, FS_RemoveElement, SomeIs
<1>1. Has(0)
  <2>1. \A s : s \in D(0) <=> s = {}
    <3>1. ASSUME NEW s \in SUBSET S, Cardinality(s) <= 0 PROVE s = {}
      <4>1. Cardinality(s) \in Nat /\ (Cardinality(s) = 0 <=> s = {})
        BY <1>0
      <4> QED BY <3>1, <4>1
    <3>2. Cardinality({}) = 0 /\ {} \in SUBSET S
      BY <1>0
    <3> QED BY <3>1, <3>2
  <2> DEFINE g == [s \in D(0) |-> 0]
  <2>2. g = [s \in D(0) |-> Adds(f, g, s)]
    BY <2>1 DEF Adds
  <2> QED BY <2>2
<1>2. ASSUME NEW n \in Nat, Has(n) PROVE Has(n + 1)
  <2>1. PICK g : g = [s \in D(n) |-> Adds(f, g, s)]
    BY <1>2
  <2> DEFINE h == [s \in D(n + 1) |-> IF s \in D(n) THEN g[s] ELSE Adds(f, g, s)]
  <2>2. ASSUME NEW s \in D(n + 1) PROVE h[s] = Adds(f, h, s)
    <3>1. CASE s = {}
      <4>1. s \in D(n)
        <5>1. Cardinality({}) = 0 /\ {} \in SUBSET S
          BY <1>0
        <5> QED BY <3>1, <5>1
      <4> QED BY <2>1, <3>1, <4>1 DEF Adds
    <3>2. CASE s # {}
      <4> DEFINE r == s \ {Some(s)}
      <4>1. r \in D(n) /\ r \in D(n + 1)
        <5>1. s \in SUBSET S /\ Cardinality(s) <= n + 1
          BY <2>2
        <5>2. r \in SUBSET S /\ Cardinality(r) = Cardinality(s) - 1 /\ Cardinality(s) \in Nat
          BY <1>0, <3>2, <5>1
        <5> HIDE DEF r
        <5>3. Cardinality(r) <= n /\ Cardinality(r) <= n + 1
          BY <5>1, <5>2
        <5> QED BY <5>2, <5>3
      <4>2. h[r] = g[r]
        BY <4>1
      <4>3. h[s] = Adds(f, g, s)
        BY <2>1, <2>2
      <4> QED BY <3>2, <4>2, <4>3 DEF Adds
    <3> QED BY <3>1, <3>2
  <2>3. h = [s \in D(n + 1) |-> Adds(f, h, s)]
    BY <2>2
  <2> QED BY <2>3
<1> HIDE DEF Has
<1>3. Lacks = {}
  <2>1. SUFFICES ASSUME Lacks # {} PROVE FALSE
    OBVIOUS
  <2>2. PICK n \in Lacks : \A m \in Lacks : n <= m
    BY <2>1, LeastOf
  <2>3. n # 0 /\ n \in Nat
    BY <1>1, <2>2
  <2>4. n - 1 \in Nat /\ n - 1 \notin Lacks
    BY <2>2, <2>3
  <2> QED BY <1>2, <2>2, <2>4
<1>4. Has(Cardinality(S))
  BY <1>0, <1>3
<1>5. D(Cardinality(S)) = SUBSET S
  BY FS_Subset
<1> QED BY <1>4, <1>5 DEF Has

LEMMA SumUnfolds ==
  ASSUME NEW S, IsFiniteSet(S), NEW f
  PROVE  \A s \in SUBSET S : SumFunctionOnSet(f, s) = (CHOOSE g : g = [r \in SUBSET S |-> Adds(f, g, r)])[s]
<1> DEFINE G(T) == CHOOSE g : g = [r \in SUBSET T |-> Adds(f, g, r)]
<1>1. \A T \in SUBSET S : G(T) = [r \in SUBSET T |-> Adds(f, G(T), r)]
  BY SumExists, FS_Subset
<1> HIDE DEF G
<1>2. ASSUME NEW T \in SUBSET S PROVE G(S)[T] = G(T)[T]
  <2> DEFINE U == {s \in SUBSET T : G(S)[s] # G(T)[s]}
  <2>1. SUFFICES U = {}
    OBVIOUS
  <2>2. SUFFICES ASSUME U # {} PROVE FALSE
    OBVIOUS
  <2>3. PICK s \in U : \A t \in U : t \subseteq s => t = s
    <3>1. U \subseteq SUBSET T /\ IsFiniteSet(T)
      BY FS_Subset
    <3> HIDE DEF U
    <3> QED BY <2>2, <3>1, LeastSet
  <2>4. G(S)[s] = Adds(f, G(S), s) /\ G(T)[s] = Adds(f, G(T), s)
    <3>1. s \in SUBSET T /\ s \in SUBSET S
      BY <2>3
    <3>2. G(S) = [r \in SUBSET S |-> Adds(f, G(S), r)] /\ G(T) = [r \in SUBSET T |-> Adds(f, G(T), r)]
      BY <1>1
    <3> QED BY <3>1, <3>2
  <2>5. s # {} => s \ {Some(s)} \notin U /\ s \ {Some(s)} \in SUBSET T
    BY <2>3, SomeIs
  <2>6. Adds(f, G(S), s) = Adds(f, G(T), s)
    BY <2>5 DEF Adds
  <2> QED BY <2>3, <2>4, <2>6
<1> QED BY <1>2, SumDef DEF G

LEMMA SumStep ==
  ASSUME NEW S, IsFiniteSet(S), NEW f
  PROVE  /\ SumFunctionOnSet(f, {}) = 0
         /\ S # {} => Some(S) \in S /\ SumFunctionOnSet(f, S) = f[Some(S)] + SumFunctionOnSet(f, S \ {Some(S)})
<1> DEFINE G == CHOOSE g : g = [r \in SUBSET S |-> Adds(f, g, r)]
<1>1. G = [r \in SUBSET S |-> Adds(f, G, r)]
  BY SumExists
<1>2. \A s \in SUBSET S : SumFunctionOnSet(f, s) = G[s]
  BY SumUnfolds
<1> HIDE DEF G
<1>3. \A s \in SUBSET S : SumFunctionOnSet(f, s) = Adds(f, G, s)
  BY <1>1, <1>2
<1> QED BY <1>2, <1>3, SomeIs DEF Adds

(* What holds of {} and, if of a set, of the set with one element more,    *)
(* holds of every finite set.                                              *)
LEMMA SetInduct ==
  ASSUME NEW S, IsFiniteSet(S), NEW U, {} \in U,
         \A s \in SUBSET S : \A x \in S \ s : s \in U => s \union {x} \in U
  PROVE  S \in U
<1> DEFINE V == (SUBSET S) \ U
<1>1. V \subseteq SUBSET S
  OBVIOUS
<1> HIDE DEF V
<1>2. ASSUME V # {} PROVE FALSE
  <2>1. PICK s \in V : \A t \in V : t \subseteq s => t = s
    BY <1>1, <1>2, LeastSet
  <2>2. s \in SUBSET S /\ s \notin U /\ s # {}
    BY <2>1 DEF V
  <2>3. PICK x : x \in s
    BY <2>2
  <2>4. s \ {x} \in U
    BY <2>1, <2>2, <2>3 DEF V
  <2>5. (s \ {x}) \union {x} = s /\ x \in S \ (s \ {x}) /\ s \ {x} \in SUBSET S
    BY <2>2, <2>3
  <2> QED BY <2>2, <2>4, <2>5
<1> QED BY <1>2 DEF V

LEMMA SumTyped ==
  ASSUME NEW S, IsFiniteSet(S), NEW f, \A x \in S : f[x] \in Int
  PROVE  SumFunctionOnSet(f, S) \in Int
<1> DEFINE V == {s \in SUBSET S : SumFunctionOnSet(f, s) \notin Int}
<1>1. V \subseteq SUBSET S
  OBVIOUS
<1>2. \A s \in SUBSET S : IsFiniteSet(s)
  BY FS_Subset
<1> HIDE DEF V
<1>3. ASSUME V # {} PROVE FALSE
  <2>1. PICK s \in V : \A t \in V : t \subseteq s => t = s
    BY <1>1, <1>3, LeastSet
  <2>2. s \in SUBSET S /\ SumFunctionOnSet(f, s) \notin Int
    BY <2>1 DEF V
  <2>3. /\ s # {} /\ Some(s) \in s
        /\ SumFunctionOnSet(f, s) = f[Some(s)] + SumFunctionOnSet(f, s \ {Some(s)})
    <3>1. IsFiniteSet(s)
      BY <1>2, <2>2
    <3>2. /\ SumFunctionOnSet(f, {}) = 0
          /\ s # {} => /\ Some(s) \in s
                       /\ SumFunctionOnSet(f, s)
                            = f[Some(s)] + SumFunctionOnSet(f, s \ {Some(s)})
      BY <3>1, SumStep
    <3>3. ASSUME s = {} PROVE FALSE
      <4>1. SumFunctionOnSet(f, s) = 0
        BY Zenon, <3>2, <3>3
      <4>2. 0 \in Int
        OBVIOUS
      <4> QED BY Zenon, <2>2, <4>1, <4>2
    <3> QED BY <3>2, <3>3
  <2>4. SumFunctionOnSet(f, s \ {Some(s)}) \in Int
    BY <2>1, <2>2, <2>3 DEF V
  <2> QED BY <2>2, <2>3, <2>4
<1> QED BY <1>3 DEF V

(* A sum does not depend on the order in which it is taken.                *)
LEMMA SumRemove ==
  ASSUME NEW S, IsFiniteSet(S), NEW f, \A x \in S : f[x] \in Int, NEW y \in S
  PROVE  SumFunctionOnSet(f, S) = f[y] + SumFunctionOnSet(f, S \ {y})
<1> DEFINE V == {s \in SUBSET S :
                  \E x \in s : SumFunctionOnSet(f, s) # f[x] + SumFunctionOnSet(f, s \ {x})}
<1>1. V \subseteq SUBSET S
  OBVIOUS
<1>2. \A s \in SUBSET S : IsFiniteSet(s) /\ SumFunctionOnSet(f, s) \in Int
  <2>1. ASSUME NEW s \in SUBSET S PROVE IsFiniteSet(s)
    BY FS_Subset
  <2>2. ASSUME NEW s \in SUBSET S PROVE SumFunctionOnSet(f, s) \in Int
    BY <2>1, SumTyped
  <2> QED BY <2>1, <2>2
<1>3. ASSUME NEW s \in SUBSET S, s \notin V, NEW x \in s
      PROVE  SumFunctionOnSet(f, s) = f[x] + SumFunctionOnSet(f, s \ {x})
  BY <1>3
<1>4. ASSUME NEW s \in V
      PROVE  \E x \in s : SumFunctionOnSet(f, s) # f[x] + SumFunctionOnSet(f, s \ {x})
  OBVIOUS
<1> HIDE DEF V
<1>5. ASSUME V # {} PROVE FALSE
  <2>1. PICK s \in V : \A t \in V : t \subseteq s => t = s
    BY <1>1, <1>5, LeastSet
  <2>2. PICK x \in s : SumFunctionOnSet(f, s) # f[x] + SumFunctionOnSet(f, s \ {x})
    BY <1>4
  <2> DEFINE c == Some(s)
  <2>3. s \in SUBSET S /\ IsFiniteSet(s) /\ s # {} /\ x \in S
    BY <1>1, <1>2, <2>1, <2>2
  <2>4. c \in s /\ SumFunctionOnSet(f, s) = f[c] + SumFunctionOnSet(f, s \ {c})
    BY <2>3, SumStep
  <2> HIDE DEF c
  <2>5. x # c
    BY <2>2, <2>4
  <2>6. /\ s \ {c} \in SUBSET S /\ s \ {c} \notin V /\ x \in s \ {c}
        /\ s \ {x} \in SUBSET S /\ s \ {x} \notin V /\ c \in s \ {x}
        /\ (s \ {c}) \ {x} = s \ {c, x} /\ (s \ {x}) \ {c} = s \ {c, x}
        /\ s \ {c, x} \in SUBSET S
    BY <2>1, <2>2, <2>3, <2>4, <2>5
  <2>7. /\ SumFunctionOnSet(f, s \ {c}) = f[x] + SumFunctionOnSet(f, s \ {c, x})
        /\ SumFunctionOnSet(f, s \ {x}) = f[c] + SumFunctionOnSet(f, s \ {c, x})
    <3>1. SumFunctionOnSet(f, s \ {c}) = f[x] + SumFunctionOnSet(f, (s \ {c}) \ {x})
      BY <1>3, <2>6
    <3>2. SumFunctionOnSet(f, s \ {x}) = f[c] + SumFunctionOnSet(f, (s \ {x}) \ {c})
      BY <1>3, <2>6
    <3> QED BY <2>6, <3>1, <3>2
  <2>8. /\ f[x] \in Int /\ f[c] \in Int /\ SumFunctionOnSet(f, s \ {c, x}) \in Int
    BY <1>2, <2>3, <2>4, <2>6
  <2> QED BY <2>2, <2>4, <2>7, <2>8
<1>6. S \in SUBSET S
  OBVIOUS
<1> QED BY <1>3, <1>5, <1>6

(* A sum takes one more element in, whichever element it is.               *)
LEMMA SumAdd ==
  ASSUME NEW S, IsFiniteSet(S), NEW f, NEW y, y \notin S,
         \A x \in S \union {y} : f[x] \in Int
  PROVE  SumFunctionOnSet(f, S \union {y}) = f[y] + SumFunctionOnSet(f, S)
<1>1. IsFiniteSet(S \union {y}) /\ (S \union {y}) \ {y} = S
  BY FS_AddElement
<1> QED BY <1>1, SumRemove

LEMMA SumEmpty ==
  ASSUME NEW f PROVE SumFunctionOnSet(f, {}) = 0
BY FS_EmptySet, SumStep

LEMMA SumNatural ==
  ASSUME NEW S, IsFiniteSet(S), NEW f, \A x \in S : f[x] \in Nat
  PROVE  SumFunctionOnSet(f, S) \in Nat
<1> DEFINE U == {s \in SUBSET S : SumFunctionOnSet(f, s) \in Nat}
<1>1. {} \in U
  BY SumEmpty
<1>2. ASSUME NEW s \in SUBSET S, NEW x \in S \ s, s \in U
      PROVE  s \union {x} \in U
  <2>1. IsFiniteSet(s) /\ \A z \in s \union {x} : f[z] \in Int
    BY FS_Subset
  <2>2. SumFunctionOnSet(f, s \union {x}) = f[x] + SumFunctionOnSet(f, s)
    BY <2>1, SumAdd
  <2> QED BY <1>2, <2>2
<1>3. S \in U
  <2> HIDE DEF U
  <2> QED BY <1>1, <1>2, SetInduct
<1> QED BY <1>3

LEMMA SumEqual ==
  ASSUME NEW S, IsFiniteSet(S), NEW f, NEW g,
         \A x \in S : f[x] \in Int /\ g[x] = f[x]
  PROVE  SumFunctionOnSet(g, S) = SumFunctionOnSet(f, S)
<1> DEFINE U == {s \in SUBSET S : SumFunctionOnSet(g, s) = SumFunctionOnSet(f, s)}
<1>1. {} \in U
  BY SumEmpty
<1>2. ASSUME NEW s \in SUBSET S, NEW x \in S \ s, s \in U
      PROVE  s \union {x} \in U
  <2>1. IsFiniteSet(s) /\ \A z \in s \union {x} : f[z] \in Int /\ g[z] \in Int
    BY FS_Subset
  <2>2. SumFunctionOnSet(f, s \union {x}) = f[x] + SumFunctionOnSet(f, s)
    BY <2>1, SumAdd
  <2>3. SumFunctionOnSet(g, s \union {x}) = g[x] + SumFunctionOnSet(g, s)
    BY <2>1, SumAdd
  <2> QED BY <1>2, <2>2, <2>3
<1>3. S \in U
  <2> HIDE DEF U
  <2> QED BY <1>1, <1>2, SetInduct
<1> QED BY <1>3

(* Sums add up term by term, change with one term, and split over the      *)
(* parts of a set.                                                         *)
LEMMA SumPlus ==
  ASSUME NEW S, IsFiniteSet(S), NEW f, NEW g, NEW h,
         \A x \in S : f[x] \in Int /\ g[x] \in Int /\ h[x] = f[x] + g[x]
  PROVE  SumFunctionOnSet(h, S) = SumFunctionOnSet(f, S) + SumFunctionOnSet(g, S)
<1> DEFINE U == {s \in SUBSET S : SumFunctionOnSet(h, s)
                                    = SumFunctionOnSet(f, s) + SumFunctionOnSet(g, s)}
<1>1. {} \in U
  BY SumEmpty
<1>2. ASSUME NEW s \in SUBSET S, NEW x \in S \ s, s \in U
      PROVE  s \union {x} \in U
  <2>1. IsFiniteSet(s) /\ \A z \in s \union {x} : f[z] \in Int /\ g[z] \in Int /\ h[z] \in Int
    BY FS_Subset
  <2>2. SumFunctionOnSet(f, s \union {x}) = f[x] + SumFunctionOnSet(f, s)
    BY <2>1, SumAdd
  <2>3. SumFunctionOnSet(g, s \union {x}) = g[x] + SumFunctionOnSet(g, s)
    BY <2>1, SumAdd
  <2>4. SumFunctionOnSet(h, s \union {x}) = h[x] + SumFunctionOnSet(h, s)
    BY <2>1, SumAdd
  <2>5. SumFunctionOnSet(f, s) \in Int /\ SumFunctionOnSet(g, s) \in Int
    BY <2>1, SumTyped
  <2>6. f[x] \in Int /\ g[x] \in Int /\ h[x] = f[x] + g[x]
    OBVIOUS
  <2> QED BY <1>2, <2>2, <2>3, <2>4, <2>5, <2>6
<1>3. S \in U
  <2> HIDE DEF U
  <2> QED BY <1>1, <1>2, SetInduct
<1> QED BY <1>3

LEMMA SumChange ==
  ASSUME NEW S, IsFiniteSet(S), NEW f, NEW g, NEW y \in S,
         f[y] \in Int, g[y] \in Int, \A x \in S \ {y} : f[x] \in Int /\ g[x] = f[x]
  PROVE  SumFunctionOnSet(g, S) = SumFunctionOnSet(f, S) + (g[y] - f[y])
<1>1. IsFiniteSet(S \ {y}) /\ (\A x \in S : f[x] \in Int) /\ (\A x \in S : g[x] \in Int)
  BY FS_Subset
<1>2. SumFunctionOnSet(f, S) = f[y] + SumFunctionOnSet(f, S \ {y})
  BY <1>1, SumRemove
<1>3. SumFunctionOnSet(g, S) = g[y] + SumFunctionOnSet(g, S \ {y})
  BY <1>1, SumRemove
<1>4. SumFunctionOnSet(g, S \ {y}) = SumFunctionOnSet(f, S \ {y})
  BY <1>1, SumEqual
<1>5. SumFunctionOnSet(f, S \ {y}) \in Int
  BY <1>1, SumTyped
<1> QED BY <1>2, <1>3, <1>4, <1>5

LEMMA SumSplit ==
  ASSUME NEW S, IsFiniteSet(S), NEW T \in SUBSET S, NEW f, \A x \in S : f[x] \in Int
  PROVE  SumFunctionOnSet(f, S) = SumFunctionOnSet(f, T) + SumFunctionOnSet(f, S \ T)
<1> DEFINE U == {s \in SUBSET T : SumFunctionOnSet(f, S)
                                    = SumFunctionOnSet(f, s) + SumFunctionOnSet(f, S \ s)}
<1>0. IsFiniteSet(T) /\ SumFunctionOnSet(f, S) \in Int
  BY FS_Subset, SumTyped
<1>1. {} \in U
  <2>1. S \ {} = S
    OBVIOUS
  <2> QED BY <1>0, <2>1, SumEmpty
<1>2. ASSUME NEW s \in SUBSET T, NEW x \in T \ s, s \in U
      PROVE  s \union {x} \in U
  <2>1. /\ IsFiniteSet(s) /\ \A z \in s \union {x} : f[z] \in Int
        /\ IsFiniteSet(S \ s) /\ IsFiniteSet(S \ (s \union {x}))
    BY FS_Subset
  <2>2. SumFunctionOnSet(f, s \union {x}) = f[x] + SumFunctionOnSet(f, s)
    BY <2>1, SumAdd
  <2>3. SumFunctionOnSet(f, S \ s) = f[x] + SumFunctionOnSet(f, S \ (s \union {x}))
    <3>1. (S \ s) \ {x} = S \ (s \union {x}) /\ x \in S \ s
      OBVIOUS
    <3> QED BY <2>1, <3>1, SumRemove
  <2>4. /\ SumFunctionOnSet(f, s) \in Int /\ f[x] \in Int
        /\ SumFunctionOnSet(f, S \ (s \union {x})) \in Int
    BY <2>1, SumTyped
  <2> QED BY <1>2, <2>2, <2>3, <2>4
<1>3. T \in U
  <2> HIDE DEF U
  <2> QED BY <1>0, <1>1, <1>2, SetInduct
<1> QED BY <1>3

(* The members of S fall into groups, one for each member of P.             *)
Grouping(S, P, f, o, G, r) ==
  /\ \A x \in S : o[x] \in P
  /\ \A p \in P : /\ G[p] \subseteq S /\ \A x \in S : x \in G[p] <=> o[x] = p
                  /\ r[p] = SumFunctionOnSet(f, G[p])

(* The sum over all is the sum over the groups of the sums over each.      *)
LEMMA SumGrouped ==
  ASSUME NEW S, IsFiniteSet(S), NEW P, IsFiniteSet(P), NEW f, \A x \in S : f[x] \in Int,
         NEW o, NEW G, NEW r, Grouping(S, P, f, o, G, r)
  PROVE  SumFunctionOnSet(r, P) = SumFunctionOnSet(f, S)
<1>00. /\ \A x \in S : o[x] \in P
      /\ \A p \in P : /\ G[p] \subseteq S /\ \A x \in S : x \in G[p] <=> o[x] = p
                      /\ r[p] = SumFunctionOnSet(f, G[p])
  BY DEF Grouping
<1> DEFINE Of(Q) == {x \in S : o[x] \in Q}
           U == {Q \in SUBSET P : SumFunctionOnSet(r, Q) = SumFunctionOnSet(f, Of(Q))}
<1>0. \A T \in SUBSET S : IsFiniteSet(T) /\ SumFunctionOnSet(f, T) \in Int
  <2>1. ASSUME NEW T \in SUBSET S PROVE IsFiniteSet(T)
    BY FS_Subset
  <2> QED BY <2>1, SumTyped
<1>1. {} \in U
  <2>1. Of({}) = {}
    OBVIOUS
  <2> QED BY <2>1, SumEmpty
<1>2. ASSUME NEW Q \in SUBSET P, NEW p \in P \ Q, Q \in U
      PROVE  Q \union {p} \in U
  <2> DEFINE A == Of(Q \union {p})
             B == Of(Q)
             C == G[p]
  <2>1. IsFiniteSet(Q) /\ \A z \in Q \union {p} : r[z] \in Int
    BY <1>0, <1>00, FS_Subset
  <2>2. SumFunctionOnSet(r, Q \union {p}) = r[p] + SumFunctionOnSet(r, Q)
    BY <2>1, SumAdd
  <2>3. A \ C = B /\ C \in SUBSET A /\ A \in SUBSET S /\ B \in SUBSET S
    BY <1>00
  <2>4. SumFunctionOnSet(r, Q) = SumFunctionOnSet(f, B) /\ r[p] = SumFunctionOnSet(f, C)
    BY <1>00, <1>2
  <2> HIDE DEF A, B, C
  <2>5. SumFunctionOnSet(f, A) = SumFunctionOnSet(f, C) + SumFunctionOnSet(f, A \ C)
    BY <1>0, <2>3, SumSplit
  <2>6. SumFunctionOnSet(r, Q \union {p}) = SumFunctionOnSet(f, A)
    BY <2>2, <2>3, <2>4, <2>5
  <2> QED BY <2>6 DEF A
<1>3. P \in U
  <2> HIDE DEF U
  <2> QED BY <1>1, <1>2, SetInduct
<1>4. Of(P) = S
  BY <1>00
<1> QED BY <1>3, <1>4

-----------------------------------------------------------------------------
(* What a search for expired offers may be, and a table of offers.         *)
OfferTables == UNION {[I -> Mk!Offer] : I \in SUBSET Mk!Ids}
Searches == [answered : {FALSE}] \union [answered : {TRUE}, rows : OfferTables]

MarketTypes ==
  /\ online \subseteq Traders /\ opened \subseteq online /\ inMarket \subseteq opened
  /\ mem \in [Traders -> Mk!Purse] /\ stored \in [Traders -> Mk!Purse]
  /\ DOMAIN offers \subseteq Mk!Ids /\ \A i \in DOMAIN offers : offers[i] \in Mk!Offer
  /\ nextId \in 1 .. MaxOffers + 1 /\ queries \in Seq(Searches)
  /\ fees \in Nat /\ mishaps \in 0 .. MaxMishaps

(* A chest that has not been opened is as it was stored.                   *)
ChestUntouched == \A p \in online \ opened : mem[p].chest = stored[p].chest

(* The ids of offers have been given out, and an offer keeps its owner,    *)
(* its kind and its price while an old answer speaks of it.                *)
RowsAgree(rows, table, next) ==
  \A i \in DOMAIN rows :
    /\ i < next
    /\ i \in DOMAIN table => /\ table[i].owner = rows[i].owner
                             /\ table[i].sale = rows[i].sale
                             /\ table[i].price = rows[i].price
AnswersAgree ==
  /\ \A i \in DOMAIN offers : i < nextId
  /\ \A n \in 1 .. Len(queries) : queries[n].answered => RowsAgree(queries[n].rows, offers, nextId)

MarketInv == MarketTypes /\ ChestUntouched /\ AnswersAgree

LEMMA MarketTypesHold == MarketTypes => Mk!TypeOK
  <1> SUFFICES ASSUME MarketTypes PROVE Mk!TypeOK
    OBVIOUS
  <1>1. ASSUME NEW n \in 1 .. Len(queries)
        PROVE  \/ queries[n].answered = FALSE
               \/ /\ DOMAIN queries[n].rows \subseteq Mk!Ids
                  /\ \A i \in DOMAIN queries[n].rows : queries[n].rows[i] \in Mk!Offer
    <2>1. queries[n] \in Searches
      BY <1>1 DEF MarketTypes
    <2>2. CASE queries[n] \in [answered : {FALSE}]
      BY <2>2
    <2>3. CASE queries[n] \in [answered : {TRUE}, rows : OfferTables]
      <3>1. queries[n].rows \in OfferTables
        BY <2>3
      <3> QED BY <3>1 DEF OfferTables
    <2> QED BY <2>1, <2>2, <2>3 DEF Searches
  <1> QED BY <1>1 DEF MarketTypes, Mk!TypeOK, Mk!Live

(* What an offer holds.                                                    *)
Holding(t, sale) ==
  [i \in Mk!Ids |-> IF i \in DOMAIN t /\ t[i].sale = sale
                    THEN IF sale THEN t[i].amount ELSE t[i].amount * t[i].price ELSE 0]
(* What a player owns outside the offers; a table is what the offers are,  *)
(* then and now.                                                           *)
Pieces == [p \in Traders |-> Mk!Owned(p).chest + Mk!Owned(p).inbox]
Coins == [p \in Traders |-> Mk!Owned(p).bank]
IsTable(t) == DOMAIN t \subseteq Mk!Ids /\ \A i \in DOMAIN t : t[i] \in Mk!Offer

LEMMA BoundsAreNumbers ==
  /\ Prices \subseteq Nat /\ Fee \in Nat /\ MaxAmount \in Nat /\ MaxOffers \in Nat
  /\ MaxMishaps \in Nat /\ IsFiniteSet(Traders)
<1>1. {Fee, MaxAmount, MaxOffers, MaxPerPlayer, MaxQueries, MaxMishaps} \subseteq Nat
  BY MarketAssumption
<1>2. Fee \in Nat /\ MaxAmount \in Nat /\ MaxOffers \in Nat /\ MaxMishaps \in Nat
  BY <1>1
<1> QED BY <1>2, MarketAssumption

LEMMA IdsAreFinite == IsFiniteSet(Mk!Ids) /\ Mk!Ids = 1 .. MaxOffers /\ MaxOffers \in Nat
  BY BoundsAreNumbers, FS_Interval DEF Mk!Ids

(* Market has the library as an instance of its own; its sum is this one.  *)
LEMMA MarketSum ==
  ASSUME NEW f, NEW S
  PROVE  Mk!SumFunctionOnSet(f, S) = SumFunctionOnSet(f, S)
  BY DEF Mk!SumFunctionOnSet, SumFunctionOnSet, Mk!FoldFunctionOnSet, FoldFunctionOnSet,
         Mk!MapThenFoldSet, MapThenFoldSet

(* A sum of nothings is nothing; one and two terms may gain.               *)
LEMMA SumZero ==
  ASSUME NEW S, IsFiniteSet(S), NEW f, \A x \in S : f[x] = 0
  PROVE  SumFunctionOnSet(f, S) = 0
<1> DEFINE U == {s \in SUBSET S : SumFunctionOnSet(f, s) = 0}
<1>1. {} \in U
  BY SumEmpty
<1>2. ASSUME NEW s \in SUBSET S, NEW x \in S \ s, s \in U
      PROVE  s \union {x} \in U
  <2>1. IsFiniteSet(s) /\ \A z \in s \union {x} : f[z] \in Int
    BY FS_Subset
  <2>2. SumFunctionOnSet(f, s \union {x}) = f[x] + SumFunctionOnSet(f, s)
    BY <2>1, SumAdd
  <2> QED BY <1>2, <2>2
<1>3. S \in U
  <2> HIDE DEF U
  <2> QED BY <1>1, <1>2, SetInduct
<1> QED BY <1>3

(* A sum over some is a sum over all, where the others count for nothing.  *)
LEMMA SumPadded ==
  ASSUME NEW S, IsFiniteSet(S), NEW T \in SUBSET S, NEW f, \A x \in T : f[x] \in Int,
         NEW g, \A x \in S : g[x] = IF x \in T THEN f[x] ELSE 0
  PROVE  SumFunctionOnSet(f, T) = SumFunctionOnSet(g, S)
<1>1. IsFiniteSet(T) /\ IsFiniteSet(S \ T) /\ \A x \in S : g[x] \in Int
  BY FS_Subset
<1>2. SumFunctionOnSet(g, S) = SumFunctionOnSet(g, T) + SumFunctionOnSet(g, S \ T)
  BY <1>1, SumSplit
<1>3. SumFunctionOnSet(g, T) = SumFunctionOnSet(f, T)
  BY <1>1, SumEqual
<1>4. SumFunctionOnSet(g, S \ T) = 0
  BY <1>1, SumZero
<1>5. SumFunctionOnSet(f, T) \in Int
  BY <1>1, SumTyped
<1> QED BY <1>2, <1>3, <1>4, <1>5

(* One gains x and then one gains y, who may be the same.                   *)
Gains(S, f, g, p, x, q, y) ==
  \A r \in S : g[r] = f[r] + (IF r = p THEN x ELSE 0) + (IF r = q THEN y ELSE 0)

LEMMA SumGain ==
  ASSUME NEW S, IsFiniteSet(S), NEW f, \A r \in S : f[r] \in Int, NEW p \in S, NEW x \in Int,
         NEW g, g[p] = f[p] + x, \A r \in S \ {p} : g[r] = f[r]
  PROVE  SumFunctionOnSet(g, S) = SumFunctionOnSet(f, S) + x
<1>1. IsFiniteSet(S \ {p}) /\ f[p] \in Int /\ \A r \in S : g[r] \in Int
  BY FS_Subset
<1>2. SumFunctionOnSet(f, S) = f[p] + SumFunctionOnSet(f, S \ {p})
  BY SumRemove
<1>3. SumFunctionOnSet(g, S) = g[p] + SumFunctionOnSet(g, S \ {p})
  BY <1>1, SumRemove
<1>4. SumFunctionOnSet(g, S \ {p}) = SumFunctionOnSet(f, S \ {p})
  BY <1>1, SumEqual
<1>5. SumFunctionOnSet(f, S \ {p}) \in Int
  BY <1>1, SumTyped
<1> QED BY <1>1, <1>2, <1>3, <1>4, <1>5

LEMMA SumGains ==
  ASSUME NEW S, IsFiniteSet(S), NEW f, \A r \in S : f[r] \in Int, NEW p \in S, NEW q \in S,
         NEW x \in Int, NEW y \in Int, NEW g, Gains(S, f, g, p, x, q, y)
  PROVE  SumFunctionOnSet(g, S) = SumFunctionOnSet(f, S) + x + y
<1> DEFINE h == [r \in S |-> IF r = p THEN f[r] + x ELSE f[r]]
<1>1. /\ \A r \in S : h[r] \in Int
      /\ h[p] = f[p] + x /\ \A r \in S \ {p} : h[r] = f[r]
  OBVIOUS
<1>2. g[q] = h[q] + y /\ \A r \in S \ {q} : g[r] = h[r]
  BY DEF Gains
<1> HIDE DEF h
<1>3. SumFunctionOnSet(h, S) = SumFunctionOnSet(f, S) + x
  BY <1>1, SumGain
<1>4. SumFunctionOnSet(g, S) = SumFunctionOnSet(h, S) + y
  BY <1>1, <1>2, SumGain
<1> QED BY <1>3, <1>4

LEMMA HeldTyped ==
  ASSUME NEW t, IsTable(t), NEW sale \in BOOLEAN, NEW i \in Mk!Ids
  PROVE  Holding(t, sale)[i] \in Nat
<1>1. CASE i \in DOMAIN t
  <2>1. t[i].amount \in Nat /\ t[i].price \in Nat
    <3>1. t[i] \in Mk!Offer
      BY <1>1 DEF IsTable
    <3>2. t[i].amount \in 1 .. MaxAmount /\ t[i].price \in Prices
      BY <3>1 DEF Mk!Offer, Mk!Amounts
    <3>3. Prices \subseteq Nat /\ MaxAmount \in Nat
      BY BoundsAreNumbers
    <3>4. t[i].amount \in Nat
      BY <3>2, <3>3
    <3>5. t[i].price \in Nat
      BY <3>2, <3>3
    <3> QED BY <3>4, <3>5
  <2>2. t[i].amount * t[i].price \in Nat
    BY <2>1
  <2> QED BY <2>1, <2>2 DEF Holding
<1>2. CASE i \notin DOMAIN t
  BY <1>2 DEF Holding
<1> QED BY <1>1, <1>2

(* A total over a table of offers is a total over all ids, of what each    *)
(* holds.                                                                  *)
LEMMA TableSum ==
  ASSUME NEW t, IsTable(t), NEW sale \in BOOLEAN
  PROVE  SumFunctionOnSet(Mk!Worth(t, sale), {i \in DOMAIN t : t[i].sale = sale})
           = SumFunctionOnSet(Holding(t, sale), Mk!Ids)
<1> DEFINE T == {i \in DOMAIN t : t[i].sale = sale}
           f == Mk!Worth(t, sale)
           g == Holding(t, sale)
<1>1. T \in SUBSET Mk!Ids
  BY DEF IsTable
<1>2. \A i \in Mk!Ids : g[i] = IF i \in T THEN f[i] ELSE 0
  BY DEF Holding, Mk!Worth
<1>3. \A i \in T : f[i] \in Int
  BY <1>1, <1>2, HeldTyped
<1> HIDE DEF f, g, T
<1>4. IsFiniteSet(Mk!Ids)
  BY IdsAreFinite
<1> DEFINE S == Mk!Ids
<1> HIDE DEF S
<1>5. SumFunctionOnSet(f, T) = SumFunctionOnSet(g, S)
  BY <1>1, <1>2, <1>3, <1>4, SumPadded DEF S
<1> QED BY <1>5 DEF f, g, T, S

LEMMA GoodsAre ==
  ASSUME MarketTypes
  PROVE  Mk!Goods = SumFunctionOnSet(Pieces, Traders)
                      + SumFunctionOnSet(Holding(offers, TRUE), Mk!Ids)
<1>1. DOMAIN Pieces = Traders /\ IsTable(offers)
  BY DEF Pieces, MarketTypes, IsTable
<1>2. Mk!InOffers(TRUE) = SumFunctionOnSet(Holding(offers, TRUE), Mk!Ids)
  BY <1>1, MarketSum, TableSum DEF Mk!InOffers, Mk!Live
<1>3. Mk!SumFunction(Pieces) = SumFunctionOnSet(Pieces, Traders)
  BY <1>1, MarketSum DEF Mk!SumFunction
<1> QED BY <1>2, <1>3 DEF Mk!Goods, Pieces

LEMMA MoneyIs ==
  ASSUME MarketTypes
  PROVE  Mk!Money = SumFunctionOnSet(Coins, Traders) + fees
                      + SumFunctionOnSet(Holding(offers, FALSE), Mk!Ids)
<1>1. DOMAIN Coins = Traders /\ IsTable(offers)
  BY DEF Coins, MarketTypes, IsTable
<1>2. Mk!InOffers(FALSE) = SumFunctionOnSet(Holding(offers, FALSE), Mk!Ids)
  BY <1>1, MarketSum, TableSum DEF Mk!InOffers, Mk!Live
<1>3. Mk!SumFunction(Coins) = SumFunctionOnSet(Coins, Traders)
  BY <1>1, MarketSum DEF Mk!SumFunction
<1> QED BY <1>2, <1>3 DEF Mk!Money, Coins

LEMMA GoodsWillBe ==
  ASSUME MarketTypes'
  PROVE  Mk!Goods' = SumFunctionOnSet(Pieces', Traders)
                       + SumFunctionOnSet(Holding(offers', TRUE), Mk!Ids)
<1>1. DOMAIN Pieces' = Traders /\ IsTable(offers')
  BY DEF Pieces, MarketTypes, IsTable
<1>2. Mk!InOffers(TRUE)' = SumFunctionOnSet(Holding(offers', TRUE), Mk!Ids)
  BY <1>1, MarketSum, TableSum DEF Mk!InOffers, Mk!Live
<1>3. Mk!SumFunction(Pieces') = SumFunctionOnSet(Pieces', Traders)
  BY <1>1, MarketSum DEF Mk!SumFunction
<1> QED BY <1>2, <1>3 DEF Mk!Goods, Pieces

LEMMA MoneyWillBe ==
  ASSUME MarketTypes'
  PROVE  Mk!Money' = SumFunctionOnSet(Coins', Traders) + fees'
                       + SumFunctionOnSet(Holding(offers', FALSE), Mk!Ids)
<1>1. DOMAIN Coins' = Traders /\ IsTable(offers')
  BY DEF Coins, MarketTypes, IsTable
<1>2. Mk!InOffers(FALSE)' = SumFunctionOnSet(Holding(offers', FALSE), Mk!Ids)
  BY <1>1, MarketSum, TableSum DEF Mk!InOffers, Mk!Live
<1>3. Mk!SumFunction(Coins') = SumFunctionOnSet(Coins', Traders)
  BY <1>1, MarketSum DEF Mk!SumFunction
<1> QED BY <1>2, <1>3 DEF Mk!Money, Coins

LEMMA OwnedTyped ==
  ASSUME MarketTypes, NEW p \in Traders
  PROVE  /\ Mk!Owned(p) \in Mk!Purse /\ Pieces[p] \in Int /\ Coins[p] \in Int
         /\ Pieces[p] = Mk!Owned(p).chest + Mk!Owned(p).inbox /\ Coins[p] = Mk!Owned(p).bank
<1>1. Mk!Owned(p) \in Mk!Purse
  BY DEF MarketTypes, Mk!Owned
<1> QED BY <1>1 DEF Pieces, Coins, Mk!Purse

(* What a piece of an offer is worth to the ledger of goods or of money.   *)
Value(o, sale, amount) ==
  IF o.sale = sale THEN IF sale THEN amount ELSE amount * o.price ELSE 0

(* How the total of a table moves when one offer is reduced, withdrawn or  *)
(* created.                                                                *)
LEMMA HeldChanges ==
  ASSUME NEW t, IsTable(t), NEW u, IsTable(u), NEW sale \in BOOLEAN, NEW i \in Mk!Ids,
         NEW d \in Int, Holding(u, sale)[i] = Holding(t, sale)[i] + d,
         \A j \in Mk!Ids \ {i} : Holding(u, sale)[j] = Holding(t, sale)[j]
  PROVE  SumFunctionOnSet(Holding(u, sale), Mk!Ids) = SumFunctionOnSet(Holding(t, sale), Mk!Ids) + d
<1> DEFINE f == Holding(t, sale)
           g == Holding(u, sale)
           S == Mk!Ids
<1>1. \A j \in S : f[j] \in Int
  BY HeldTyped
<1>2. IsFiniteSet(S)
  BY IdsAreFinite
<1>3. i \in S /\ g[i] = f[i] + d /\ \A j \in S \ {i} : g[j] = f[j]
  OBVIOUS
<1> HIDE DEF f, g, S
<1>4. SumFunctionOnSet(g, S) = SumFunctionOnSet(f, S) + d
  BY <1>1, <1>2, <1>3, SumGain
<1> QED BY <1>4 DEF f, g, S

LEMMA HeldSumTyped ==
  ASSUME NEW t, IsTable(t), NEW sale \in BOOLEAN
  PROVE  SumFunctionOnSet(Holding(t, sale), Mk!Ids) \in Int
<1>1. \A i \in Mk!Ids : Holding(t, sale)[i] \in Int
  BY HeldTyped
<1>2. IsFiniteSet(Mk!Ids)
  BY IdsAreFinite
<1> QED BY <1>1, <1>2, SumTyped

LEMMA OfferTyped ==
  ASSUME NEW o \in Mk!Offer
  PROVE  /\ o.amount \in Nat /\ o.amount >= 1 /\ o.amount <= MaxAmount /\ o.price \in Nat
         /\ o.owner \in Traders /\ o.sale \in BOOLEAN
<1>1. o.amount \in 1 .. MaxAmount /\ o.price \in Prices /\ o.owner \in Traders /\ o.sale \in BOOLEAN
  BY DEF Mk!Offer, Mk!Amounts
<1>2. Prices \subseteq Nat /\ MaxAmount \in Nat
  BY BoundsAreNumbers
<1>3. o.amount \in Nat /\ o.amount >= 1 /\ o.amount <= MaxAmount
  BY <1>1, <1>2
<1>4. o.price \in Nat
  BY <1>1, <1>2
<1> QED BY <1>1, <1>3, <1>4

LEMMA HeldWithout ==
  ASSUME NEW t, IsTable(t), NEW i \in DOMAIN t, NEW sale \in BOOLEAN
  PROVE  /\ IsTable(Mk!Without(t, i))
         /\ SumFunctionOnSet(Holding(Mk!Without(t, i), sale), Mk!Ids)
              = SumFunctionOnSet(Holding(t, sale), Mk!Ids) - Value(t[i], sale, t[i].amount)
         /\ Value(t[i], sale, t[i].amount) \in Int
<1> DEFINE u == Mk!Without(t, i)
           d == Value(t[i], sale, t[i].amount)
<1>1. DOMAIN u = DOMAIN t \ {i} /\ \A j \in DOMAIN t \ {i} : u[j] = t[j]
  BY DEF Mk!Without
<1>2. i \in Mk!Ids /\ IsTable(u)
  BY <1>1 DEF IsTable
<1>3. d \in Int /\ d = Holding(t, sale)[i]
  BY <1>2, HeldTyped DEF Holding, Value
<1>4. Holding(u, sale)[i] = 0 /\ \A j \in Mk!Ids \ {i} : Holding(u, sale)[j] = Holding(t, sale)[j]
  BY <1>1, <1>2 DEF Holding
<1>5. Holding(u, sale)[i] = Holding(t, sale)[i] + (-d) /\ -d \in Int
  BY <1>3, <1>4
<1> HIDE DEF u, d
<1>6. SumFunctionOnSet(Holding(u, sale), Mk!Ids) = SumFunctionOnSet(Holding(t, sale), Mk!Ids) + (-d)
  BY <1>2, <1>4, <1>5, HeldChanges
<1>7. SumFunctionOnSet(Holding(t, sale), Mk!Ids) \in Int
  BY HeldTyped, IdsAreFinite, SumTyped
<1>8. SumFunctionOnSet(Holding(u, sale), Mk!Ids) = SumFunctionOnSet(Holding(t, sale), Mk!Ids) - d
  BY <1>3, <1>6, <1>7
<1> QED BY <1>2, <1>3, <1>8 DEF u, d

LEMMA HeldReduced ==
  ASSUME NEW i \in DOMAIN offers, IsTable(offers), NEW amount \in Nat, amount >= 1,
         amount <= offers[i].amount, NEW sale \in BOOLEAN
  PROVE  /\ IsTable(Mk!Reduced(i, amount))
         /\ SumFunctionOnSet(Holding(Mk!Reduced(i, amount), sale), Mk!Ids)
              = SumFunctionOnSet(Holding(offers, sale), Mk!Ids) - Value(offers[i], sale, amount)
         /\ Value(offers[i], sale, amount) \in Int
<1>1. CASE offers[i].amount = amount
  <2>1. Mk!Reduced(i, amount) = Mk!Without(offers, i)
    BY <1>1 DEF Mk!Reduced
  <2> QED BY <1>1, <2>1, HeldWithout
<1>2. CASE offers[i].amount # amount
  <2> DEFINE u == [offers EXCEPT ![i].amount = @ - amount]
             d == Value(offers[i], sale, amount)
             o == offers[i]
  <2>1. Mk!Reduced(i, amount) = u
    BY <1>2 DEF Mk!Reduced
  <2>2. o \in Mk!Offer /\ i \in Mk!Ids
    BY DEF IsTable
  <2>3. /\ o.amount \in Nat /\ o.price \in Nat /\ o.sale \in BOOLEAN /\ o.amount <= MaxAmount
        /\ MaxAmount \in Nat
    BY <2>2, OfferTyped, BoundsAreNumbers
  <2>4. DOMAIN u = DOMAIN offers /\ \A j \in DOMAIN offers \ {i} : u[j] = offers[j]
    OBVIOUS
  <2>5. u[i] = [o EXCEPT !.amount = @ - amount]
    OBVIOUS
  <2>6. o.amount - amount \in 1 .. MaxAmount
    BY <1>2, <2>3
  <2>7. u[i] \in Mk!Offer
    BY <2>2, <2>5, <2>6 DEF Mk!Offer, Mk!Amounts
  <2>8. IsTable(u)
    BY <2>4, <2>7 DEF IsTable
  <2>9. /\ u[i].amount = o.amount - amount /\ u[i].sale = o.sale /\ u[i].price = o.price
    BY <2>2, <2>5 DEF Mk!Offer
  <2>10. amount * o.price \in Int /\ o.amount * o.price \in Int
         /\ (o.amount - amount) * o.price = o.amount * o.price - amount * o.price
    BY <2>3
  <2>11. d \in Int
    BY <2>10 DEF Value
  <2>12. \A j \in Mk!Ids \ {i} : Holding(u, sale)[j] = Holding(offers, sale)[j]
    BY <2>4 DEF Holding
  <2>13. Holding(u, sale)[i] = Holding(offers, sale)[i] + (-d)
    <3>1. Holding(u, sale)[i] = Value(o, sale, o.amount - amount)
      BY <2>2, <2>4, <2>9 DEF Holding, Value
    <3>2. Holding(offers, sale)[i] = Value(o, sale, o.amount)
      BY <2>2 DEF Holding, Value
    <3> HIDE DEF u, o
    <3>3. Value(o, sale, o.amount - amount) = Value(o, sale, o.amount) + (-Value(o, sale, amount))
      <4>1. CASE o.sale = sale /\ sale
        BY <2>3, <4>1 DEF Value
      <4>2. CASE o.sale = sale /\ ~sale
        BY <2>3, <2>10, <4>2 DEF Value
      <4>3. CASE o.sale # sale
        BY <4>3 DEF Value
      <4> QED BY <4>1, <4>2, <4>3
    <3> QED BY <3>1, <3>2, <3>3 DEF o
  <2> HIDE DEF u, d
  <2>14. -d \in Int
    BY <2>11
  <2>15. SumFunctionOnSet(Holding(u, sale), Mk!Ids) = SumFunctionOnSet(Holding(offers, sale), Mk!Ids) + (-d)
    BY <2>2, <2>8, <2>12, <2>13, <2>14, HeldChanges
  <2>16. SumFunctionOnSet(Holding(offers, sale), Mk!Ids) \in Int
    BY HeldTyped, IdsAreFinite, SumTyped
  <2>17. SumFunctionOnSet(Holding(u, sale), Mk!Ids) = SumFunctionOnSet(Holding(offers, sale), Mk!Ids) - d
    BY <2>11, <2>15, <2>16
  <2> QED BY <2>1, <2>8, <2>11, <2>17 DEF d
<1> QED BY <1>1, <1>2

(* The table with a new offer in it.                                       *)
Extended(o) ==
  [i \in Mk!Live \union {nextId} |-> IF i = nextId THEN o ELSE offers[i]]
LEMMA HeldPut ==
  ASSUME IsTable(offers), NEW o \in Mk!Offer, nextId \in Mk!Ids, nextId \notin DOMAIN offers,
         NEW sale \in BOOLEAN
  PROVE  /\ IsTable(Extended(o))
         /\ SumFunctionOnSet(Holding(Extended(o), sale), Mk!Ids)
              = SumFunctionOnSet(Holding(offers, sale), Mk!Ids) + Value(o, sale, o.amount)
         /\ Value(o, sale, o.amount) \in Int
<1> DEFINE u == Extended(o)
           d == Value(o, sale, o.amount)
           i == nextId
<1>1. /\ DOMAIN u = DOMAIN offers \union {i} /\ u[i] = o
      /\ \A j \in DOMAIN offers : u[j] = offers[j]
  BY DEF Extended, Mk!Live
<1>2. IsTable(u)
  BY <1>1 DEF IsTable
<1>3. d \in Int
  <2>1. o.amount \in Nat /\ o.price \in Nat
    BY OfferTyped
  <2>2. o.amount * o.price \in Int
    BY <2>1
  <2> QED BY <2>1, <2>2 DEF Value
<1>4. Holding(offers, sale)[i] = 0 /\ \A j \in Mk!Ids \ {i} : Holding(u, sale)[j] = Holding(offers, sale)[j]
  BY <1>1 DEF Holding
<1>5. Holding(u, sale)[i] = d
  BY <1>1 DEF Holding, Value
<1>6. Holding(u, sale)[i] = Holding(offers, sale)[i] + d
  BY <1>3, <1>4, <1>5
<1> HIDE DEF u, d
<1>7. SumFunctionOnSet(Holding(u, sale), Mk!Ids) = SumFunctionOnSet(Holding(offers, sale), Mk!Ids) + d
  BY <1>2, <1>3, <1>4, <1>6, HeldChanges
<1> QED BY <1>2, <1>3, <1>7 DEF u, d

(* How the offers and the fees change in a step.                           *)
OffersGain(sale, d) ==
  SumFunctionOnSet(Holding(offers', sale), Mk!Ids) = SumFunctionOnSet(Holding(offers, sale), Mk!Ids) + d
FeesGain(d) == fees' = fees + d

(* p and q gain x and y goods, u and v money; the offers a and b, fees c.   *)
Balances(p, q, x, y, u, v, a, b, c) ==
  /\ p \in Traders /\ q \in Traders /\ x \in Int /\ y \in Int /\ u \in Int /\ v \in Int
  /\ a \in Int /\ b \in Int /\ c \in Int
  /\ Gains(Traders, Pieces, Pieces', p, x, q, y) /\ Gains(Traders, Coins, Coins', p, u, q, v)
  /\ OffersGain(TRUE, a) /\ OffersGain(FALSE, b) /\ FeesGain(c)
  /\ x + y + a = 0 /\ u + v + b + c = 0

(* A step whose gains cancel keeps both totals.                            *)
LEMMA LedgerKept ==
  ASSUME MarketTypes, MarketTypes', NEW p, NEW q, NEW x, NEW y, NEW u, NEW v, NEW a, NEW b, NEW c,
         Balances(p, q, x, y, u, v, a, b, c)
  PROVE  Mk!Goods' = Mk!Goods /\ Mk!Money' = Mk!Money
<1>0. /\ p \in Traders /\ q \in Traders /\ x \in Int /\ y \in Int /\ u \in Int /\ v \in Int
      /\ a \in Int /\ b \in Int /\ c \in Int
      /\ Gains(Traders, Pieces, Pieces', p, x, q, y) /\ Gains(Traders, Coins, Coins', p, u, q, v)
      /\ OffersGain(TRUE, a) /\ OffersGain(FALSE, b) /\ FeesGain(c)
      /\ x + y + a = 0 /\ u + v + b + c = 0
  BY DEF Balances
<1>1. IsFiniteSet(Traders) /\ \A r \in Traders : Pieces[r] \in Int /\ Coins[r] \in Int
  BY BoundsAreNumbers, OwnedTyped
<1>2. SumFunctionOnSet(Pieces', Traders) = SumFunctionOnSet(Pieces, Traders) + x + y
  BY <1>0, <1>1, SumGains
<1>3. SumFunctionOnSet(Coins', Traders) = SumFunctionOnSet(Coins, Traders) + u + v
  BY <1>0, <1>1, SumGains
<1>4. /\ SumFunctionOnSet(Pieces, Traders) \in Int /\ SumFunctionOnSet(Coins, Traders) \in Int
  BY <1>1, SumTyped
<1>5. /\ SumFunctionOnSet(Holding(offers, TRUE), Mk!Ids) \in Int
      /\ SumFunctionOnSet(Holding(offers, FALSE), Mk!Ids) \in Int
  <2>1. IsTable(offers)
    BY DEF MarketTypes, IsTable
  <2> QED BY <2>1, HeldSumTyped
<1>6. fees \in Int /\ fees' = fees + c
  BY <1>0 DEF MarketTypes, FeesGain
<1> DEFINE P1 == SumFunctionOnSet(Pieces, Traders)
           P2 == SumFunctionOnSet(Pieces', Traders)
           C1 == SumFunctionOnSet(Coins, Traders)
           C2 == SumFunctionOnSet(Coins', Traders)
           S1 == SumFunctionOnSet(Holding(offers, TRUE), Mk!Ids)
           S2 == SumFunctionOnSet(Holding(offers', TRUE), Mk!Ids)
           B1 == SumFunctionOnSet(Holding(offers, FALSE), Mk!Ids)
           B2 == SumFunctionOnSet(Holding(offers', FALSE), Mk!Ids)
<1>9. /\ Mk!Goods = P1 + S1 /\ Mk!Goods' = P2 + S2
      /\ Mk!Money = C1 + fees + B1 /\ Mk!Money' = C2 + fees' + B2
  BY GoodsAre, GoodsWillBe, MoneyIs, MoneyWillBe
<1>10. /\ P2 = P1 + x + y /\ C2 = C1 + u + v /\ S2 = S1 + a /\ B2 = B1 + b
       /\ P1 \in Int /\ C1 \in Int /\ S1 \in Int /\ B1 \in Int
  BY <1>0, <1>2, <1>3, <1>4, <1>5 DEF OffersGain
<1> HIDE DEF P1, P2, C1, C2, S1, S2, B1, B2
<1>7. P2 + S2 = P1 + S1
  BY <1>0, <1>10
<1>8. C2 + fees' + B2 = C1 + fees + B1
  BY <1>0, <1>6, <1>10
<1> QED BY <1>7, <1>8, <1>9

LEMMA OffersSame ==
  ASSUME IsTable(offers), offers' = offers
  PROVE  OffersGain(TRUE, 0) /\ OffersGain(FALSE, 0)
<1>1. ASSUME NEW sale \in BOOLEAN PROVE OffersGain(sale, 0)
  <2>1. SumFunctionOnSet(Holding(offers, sale), Mk!Ids) \in Int
    BY HeldSumTyped
  <2> QED BY <2>1 DEF OffersGain
<1> QED BY <1>1

(* Nothing moves between what players own and the offers.                  *)
LEMMA LedgerUntouched ==
  ASSUME MarketTypes, MarketTypes', \A r \in Traders : /\ Pieces'[r] = Pieces[r]
                                                       /\ Coins'[r] = Coins[r],
         SumFunctionOnSet(Holding(offers', TRUE), Mk!Ids)
           = SumFunctionOnSet(Holding(offers, TRUE), Mk!Ids),
         SumFunctionOnSet(Holding(offers', FALSE), Mk!Ids)
           = SumFunctionOnSet(Holding(offers, FALSE), Mk!Ids),
         fees' = fees
  PROVE  Mk!Goods' = Mk!Goods /\ Mk!Money' = Mk!Money
<1>1. IsFiniteSet(Traders) /\ \A r \in Traders : Pieces[r] \in Int /\ Coins[r] \in Int
  BY BoundsAreNumbers, OwnedTyped
<1>2. SumFunctionOnSet(Pieces', Traders) = SumFunctionOnSet(Pieces, Traders)
  BY <1>1, SumEqual
<1>3. SumFunctionOnSet(Coins', Traders) = SumFunctionOnSet(Coins, Traders)
  BY <1>1, SumEqual
<1>4. Mk!Goods' = Mk!Goods
  BY <1>2, GoodsAre, GoodsWillBe
<1>5. Mk!Money' = Mk!Money
  BY <1>3, MoneyIs, MoneyWillBe
<1> QED BY <1>4, <1>5

LEMMA MoreTyped ==
  ASSUME NEW r \in Mk!Purse, NEW b \in Int, NEW c \in Int, NEW k \in Int,
         r.bank + b >= 0, r.chest + c >= 0, r.inbox + k >= 0
  PROVE  /\ Mk!More(r, b, c, k) \in Mk!Purse
         /\ Mk!More(r, b, c, k).bank = r.bank + b
         /\ Mk!More(r, b, c, k).chest = r.chest + c
         /\ Mk!More(r, b, c, k).inbox = r.inbox + k
<1>1. r.bank \in Nat /\ r.chest \in Nat /\ r.inbox \in Nat
  BY DEF Mk!Purse
<1>2. r.bank + b \in Nat /\ r.chest + c \in Nat /\ r.inbox + k \in Nat
  BY <1>1
<1> QED BY <1>2 DEF Mk!More, Mk!Purse

(* What each owns after p, who is in the game, has gained and lost, and q  *)
(* has gained, in memory or, when it is not in the game, in the database.  *)
Paid(p, b, c, k) == [mem EXCEPT ![p] = Mk!More(@, b, c, k)]
Exchanged(p, b, c, k, q, b2, k2) ==
  IF q \in online
  THEN /\ mem' = [Paid(p, b, c, k) EXCEPT ![q] = Mk!More(@, b2, 0, k2)]
       /\ stored' = stored
  ELSE /\ mem' = Paid(p, b, c, k)
       /\ stored' = [stored EXCEPT ![q] = Mk!More(@, b2, 0, k2)]
Refused(p, b, c, k) ==
  /\ mem' = Paid(p, b, c, k)
  /\ stored' = stored
Affords(p, b, c, k) ==
  /\ p \in online /\ b \in Int /\ c \in Int /\ k \in Int
  /\ mem[p].bank + b >= 0 /\ mem[p].chest + c >= 0 /\ mem[p].inbox + k >= 0
  /\ c = 0 \/ p \in opened
Purses ==
  /\ online \subseteq Traders
  /\ mem \in [Traders -> Mk!Purse] /\ stored \in [Traders -> Mk!Purse]

LEMMA PaidIs ==
  ASSUME Purses, NEW p, NEW b, NEW c, NEW k, Affords(p, b, c, k),
         NEW m, m = Paid(p, b, c, k)
  PROVE  /\ m \in [Traders -> Mk!Purse] /\ m[p] = Mk!More(mem[p], b, c, k)
         /\ m[p].bank = mem[p].bank + b /\ m[p].chest = mem[p].chest + c
         /\ m[p].inbox = mem[p].inbox + k
         /\ \A r \in Traders \ {p} : m[r] = mem[r]
<1>1. p \in Traders /\ mem[p] \in Mk!Purse
  BY DEF Purses, Affords
<1>2. /\ Mk!More(mem[p], b, c, k) \in Mk!Purse
      /\ Mk!More(mem[p], b, c, k).bank = mem[p].bank + b
      /\ Mk!More(mem[p], b, c, k).chest = mem[p].chest + c
      /\ Mk!More(mem[p], b, c, k).inbox = mem[p].inbox + k
  BY <1>1, MoreTyped DEF Affords
<1>3. m[p] = Mk!More(mem[p], b, c, k) /\ \A r \in Traders \ {p} : m[r] = mem[r]
  BY <1>1 DEF Purses, Paid
<1>4. m \in [Traders -> Mk!Purse]
  BY <1>1, <1>2 DEF Purses, Paid
<1> QED BY <1>2, <1>3, <1>4

LEMMA GivenIs ==
  ASSUME NEW m \in [Traders -> Mk!Purse], NEW q \in Traders, NEW b \in Nat, NEW k \in Nat,
         NEW n, n = [m EXCEPT ![q] = Mk!More(@, b, 0, k)]
  PROVE  /\ n \in [Traders -> Mk!Purse]
         /\ n[q].bank = m[q].bank + b /\ n[q].chest = m[q].chest
         /\ n[q].inbox = m[q].inbox + k
         /\ \A r \in Traders \ {q} : n[r] = m[r]
<1>1. m[q] \in Mk!Purse
  OBVIOUS
<1>2. m[q].bank \in Nat /\ m[q].chest \in Nat /\ m[q].inbox \in Nat
  BY <1>1 DEF Mk!Purse
<1>3. /\ Mk!More(m[q], b, 0, k) \in Mk!Purse
      /\ Mk!More(m[q], b, 0, k).bank = m[q].bank + b
      /\ Mk!More(m[q], b, 0, k).chest = m[q].chest + 0
      /\ Mk!More(m[q], b, 0, k).inbox = m[q].inbox + k
  BY <1>1, <1>2, MoreTyped
<1>4. n[q] = Mk!More(m[q], b, 0, k) /\ n \in [Traders -> Mk!Purse]
      /\ \A r \in Traders \ {q} : n[r] = m[r]
  BY <1>3
<1> QED BY <1>2, <1>3, <1>4

LEMMA Pays ==
  ASSUME Purses, ChestUntouched, NEW p, NEW b, NEW c, NEW k, Affords(p, b, c, k),
         Refused(p, b, c, k), online' = online, opened' = opened
  PROVE  /\ Purses' /\ ChestUntouched'
         /\ Gains(Traders, Pieces, Pieces', p, c + k, p, 0)
         /\ Gains(Traders, Coins, Coins', p, b, p, 0)
<1>1. /\ mem' \in [Traders -> Mk!Purse]
      /\ mem'[p].bank = mem[p].bank + b /\ mem'[p].chest = mem[p].chest + c
      /\ mem'[p].inbox = mem[p].inbox + k
      /\ \A r \in Traders \ {p} : mem'[r] = mem[r]
  BY PaidIs DEF Refused
<1>2. stored' = stored /\ p \in online /\ p \in Traders
  BY DEF Refused, Affords, Purses
<1>3. Purses'
  BY <1>1, <1>2 DEF Purses
<1>4. ChestUntouched'
  <2>1. ASSUME NEW r \in online \ opened PROVE mem'[r].chest = stored'[r].chest
    <3>1. r \in Traders /\ mem[r].chest = stored[r].chest /\ mem[r] \in Mk!Purse
      BY DEF ChestUntouched, Purses
    <3>2. CASE r = p
      <4>1. c = 0 /\ mem[r].chest \in Nat
        BY <2>1, <3>1, <3>2 DEF Affords, Mk!Purse
      <4> QED BY <1>1, <1>2, <3>1, <3>2, <4>1
    <3>3. CASE r # p
      BY <1>1, <1>2, <3>1, <3>3
    <3> QED BY <3>2, <3>3
  <2> QED BY <2>1 DEF ChestUntouched
<1>5. ASSUME NEW r \in Traders
      PROVE  /\ Pieces'[r] = Pieces[r] + (IF r = p THEN c + k ELSE 0) + (IF r = p THEN 0 ELSE 0)
             /\ Coins'[r] = Coins[r] + (IF r = p THEN b ELSE 0) + (IF r = p THEN 0 ELSE 0)
  <2>1. /\ mem[r].bank \in Nat /\ mem[r].chest \in Nat /\ mem[r].inbox \in Nat
        /\ stored[r].bank \in Nat /\ stored[r].chest \in Nat /\ stored[r].inbox \in Nat
    <3>1. mem[r] \in Mk!Purse /\ stored[r] \in Mk!Purse
      BY DEF Purses
    <3> QED BY <3>1 DEF Mk!Purse
  <2>2. /\ Pieces[r] = Mk!Owned(r).chest + Mk!Owned(r).inbox /\ Coins[r] = Mk!Owned(r).bank
        /\ Pieces'[r] = Mk!Owned(r)'.chest + Mk!Owned(r)'.inbox /\ Coins'[r] = Mk!Owned(r)'.bank
    BY DEF Pieces, Coins
  <2>3. c \in Int /\ k \in Int /\ b \in Int
    BY DEF Affords
  <2>4. CASE r = p
    <3>1. Mk!Owned(r) = mem[r] /\ Mk!Owned(r)' = mem'[r]
      BY <1>2, <2>4 DEF Mk!Owned
    <3> QED BY <1>1, <2>1, <2>2, <2>3, <2>4, <3>1
  <2>5. CASE r # p
    <3>1. Mk!Owned(r)' = Mk!Owned(r)
      BY <1>1, <1>2, <2>5 DEF Mk!Owned
    <3>2. Pieces'[r] = Pieces[r] /\ Coins'[r] = Coins[r]
      BY <2>2, <3>1
    <3>3. Pieces[r] \in Int /\ Coins[r] \in Int
      BY <2>1, <2>2 DEF Mk!Owned
    <3> QED BY <2>5, <3>2, <3>3
  <2> QED BY <2>4, <2>5
<1>6. /\ Gains(Traders, Pieces, Pieces', p, c + k, p, 0)
      /\ Gains(Traders, Coins, Coins', p, b, p, 0)
  BY <1>5 DEF Gains
<1> QED BY <1>3, <1>4, <1>6

LEMMA Exchanges ==
  ASSUME Purses, ChestUntouched, NEW p, NEW b, NEW c, NEW k, Affords(p, b, c, k),
         NEW q \in Traders, NEW b2 \in Nat, NEW k2 \in Nat, Exchanged(p, b, c, k, q, b2, k2),
         online' = online, opened' = opened
  PROVE  /\ Purses' /\ ChestUntouched'
         /\ Gains(Traders, Pieces, Pieces', p, c + k, q, k2)
         /\ Gains(Traders, Coins, Coins', p, b, q, b2)
<1> DEFINE half == Paid(p, b, c, k)
<1>1. /\ half \in [Traders -> Mk!Purse]
      /\ half[p].bank = mem[p].bank + b /\ half[p].chest = mem[p].chest + c
      /\ half[p].inbox = mem[p].inbox + k
      /\ \A r \in Traders \ {p} : half[r] = mem[r]
  BY PaidIs
<1>2. IF q \in online
      THEN mem' = [half EXCEPT ![q] = Mk!More(@, b2, 0, k2)] /\ stored' = stored
      ELSE mem' = half /\ stored' = [stored EXCEPT ![q] = Mk!More(@, b2, 0, k2)]
  BY DEF Exchanged
<1> HIDE DEF half
<1>3. p \in online /\ p \in Traders /\ stored \in [Traders -> Mk!Purse] /\ online \subseteq Traders
      /\ b \in Int /\ c \in Int /\ k \in Int
  BY DEF Purses, Affords
<1>4. CASE q \in online
  <2>1. /\ mem' \in [Traders -> Mk!Purse]
        /\ mem'[q].bank = half[q].bank + b2 /\ mem'[q].chest = half[q].chest
        /\ mem'[q].inbox = half[q].inbox + k2
        /\ \A r \in Traders \ {q} : mem'[r] = half[r]
    <3>1. mem' = [half EXCEPT ![q] = Mk!More(@, b2, 0, k2)]
      BY <1>2, <1>4
    <3> QED BY <1>1, <3>1, GivenIs
  <2>2. stored' = stored
    BY <1>2, <1>4
  <2>3. Purses'
    BY <1>3, <2>1, <2>2 DEF Purses
  <2>4. \A r \in Traders :
          /\ mem[r].bank \in Nat /\ mem[r].chest \in Nat /\ mem[r].inbox \in Nat
          /\ half[r].bank = mem[r].bank + (IF r = p THEN b ELSE 0)
          /\ half[r].chest = mem[r].chest + (IF r = p THEN c ELSE 0)
          /\ half[r].inbox = mem[r].inbox + (IF r = p THEN k ELSE 0)
    <3>1. \A r \in Traders : mem[r] \in Mk!Purse
      BY DEF Purses
    <3>2. \A r \in Traders : mem[r].bank \in Nat /\ mem[r].chest \in Nat /\ mem[r].inbox \in Nat
      BY <3>1 DEF Mk!Purse
    <3> QED BY <1>1, <3>2
  <2>5. \A r \in Traders :
          /\ mem'[r].bank = mem[r].bank + (IF r = p THEN b ELSE 0) + (IF r = q THEN b2 ELSE 0)
          /\ mem'[r].chest = mem[r].chest + (IF r = p THEN c ELSE 0)
          /\ mem'[r].inbox = mem[r].inbox + (IF r = p THEN k ELSE 0) + (IF r = q THEN k2 ELSE 0)
    BY <1>3, <2>1, <2>4
  <2>6. ChestUntouched'
    <3>1. ASSUME NEW r \in online \ opened PROVE mem'[r].chest = stored'[r].chest
      <4>1. r \in Traders /\ mem[r].chest = stored[r].chest
        BY <1>3 DEF ChestUntouched
      <4>2. r = p => c = 0
        BY DEF Affords
      <4> QED BY <2>2, <2>4, <2>5, <4>1, <4>2
    <3> QED BY <3>1 DEF ChestUntouched
  <2>7. ASSUME NEW r \in Traders
        PROVE  /\ Pieces'[r] = Pieces[r] + (IF r = p THEN c + k ELSE 0) + (IF r = q THEN k2 ELSE 0)
               /\ Coins'[r] = Coins[r] + (IF r = p THEN b ELSE 0) + (IF r = q THEN b2 ELSE 0)
    <3>1. /\ Pieces[r] = Mk!Owned(r).chest + Mk!Owned(r).inbox /\ Coins[r] = Mk!Owned(r).bank
          /\ Pieces'[r] = Mk!Owned(r)'.chest + Mk!Owned(r)'.inbox /\ Coins'[r] = Mk!Owned(r)'.bank
      BY DEF Pieces, Coins
    <3>2. CASE r \in online
      <4>1. Mk!Owned(r) = mem[r] /\ Mk!Owned(r)' = mem'[r]
        BY <3>2 DEF Mk!Owned
      <4>2. /\ mem[r].bank \in Nat /\ mem[r].chest \in Nat /\ mem[r].inbox \in Nat
            /\ mem'[r].bank = mem[r].bank + (IF r = p THEN b ELSE 0) + (IF r = q THEN b2 ELSE 0)
            /\ mem'[r].chest = mem[r].chest + (IF r = p THEN c ELSE 0)
            /\ mem'[r].inbox = mem[r].inbox + (IF r = p THEN k ELSE 0) + (IF r = q THEN k2 ELSE 0)
        BY <2>4, <2>5
      <4> QED BY <1>3, <3>1, <4>1, <4>2
    <3>3. CASE r \notin online
      <4>1. Mk!Owned(r) = stored[r] /\ Mk!Owned(r)' = stored[r] /\ r # p /\ r # q
        BY <1>3, <1>4, <2>2, <3>3 DEF Mk!Owned
      <4>2. Pieces[r] \in Int /\ Coins[r] \in Int /\ Pieces'[r] = Pieces[r] /\ Coins'[r] = Coins[r]
        <5>1. stored[r] \in Mk!Purse
          BY <1>3
        <5> QED BY <3>1, <4>1, <5>1 DEF Mk!Purse
      <4> QED BY <4>1, <4>2
    <3> QED BY <3>2, <3>3
  <2> QED BY <2>3, <2>6, <2>7 DEF Gains
<1>5. CASE q \notin online
  <2>1. /\ stored' \in [Traders -> Mk!Purse]
        /\ stored'[q].bank = stored[q].bank + b2 /\ stored'[q].chest = stored[q].chest
        /\ stored'[q].inbox = stored[q].inbox + k2
        /\ \A r \in Traders \ {q} : stored'[r] = stored[r]
    <3>1. stored' = [stored EXCEPT ![q] = Mk!More(@, b2, 0, k2)]
      BY <1>2, <1>5
    <3> QED BY <1>3, <3>1, GivenIs
  <2>2. mem' = half
    BY <1>2, <1>5
  <2>3. Purses'
    BY <1>1, <1>3, <2>1, <2>2 DEF Purses
  <2>4. \A r \in Traders :
          /\ mem[r].bank \in Nat /\ mem[r].chest \in Nat /\ mem[r].inbox \in Nat
          /\ stored[r].bank \in Nat /\ stored[r].chest \in Nat /\ stored[r].inbox \in Nat
    <3>1. \A r \in Traders : mem[r] \in Mk!Purse /\ stored[r] \in Mk!Purse
      BY DEF Purses
    <3> QED BY <3>1 DEF Mk!Purse
  <2>6. ChestUntouched'
    <3>1. ASSUME NEW r \in online \ opened PROVE mem'[r].chest = stored'[r].chest
      <4>1. r \in Traders /\ mem[r].chest = stored[r].chest /\ r # q
        BY <1>3, <1>5 DEF ChestUntouched
      <4>2. r = p => c = 0
        BY DEF Affords
      <4> QED BY <1>1, <2>1, <2>2, <2>4, <4>1, <4>2
    <3> QED BY <3>1 DEF ChestUntouched
  <2>7. ASSUME NEW r \in Traders
        PROVE  /\ Pieces'[r] = Pieces[r] + (IF r = p THEN c + k ELSE 0) + (IF r = q THEN k2 ELSE 0)
               /\ Coins'[r] = Coins[r] + (IF r = p THEN b ELSE 0) + (IF r = q THEN b2 ELSE 0)
    <3>1. /\ Pieces[r] = Mk!Owned(r).chest + Mk!Owned(r).inbox /\ Coins[r] = Mk!Owned(r).bank
          /\ Pieces'[r] = Mk!Owned(r)'.chest + Mk!Owned(r)'.inbox /\ Coins'[r] = Mk!Owned(r)'.bank
      BY DEF Pieces, Coins
    <3>0. /\ mem[r].bank \in Nat /\ mem[r].chest \in Nat /\ mem[r].inbox \in Nat
          /\ stored[r].bank \in Nat /\ stored[r].chest \in Nat /\ stored[r].inbox \in Nat
      BY <2>4
    <3>2. CASE r \in online
      <4>1. Mk!Owned(r) = mem[r] /\ Mk!Owned(r)' = half[r] /\ r # q
        BY <1>5, <2>2, <3>2 DEF Mk!Owned
      <4>2. /\ half[r].bank = mem[r].bank + (IF r = p THEN b ELSE 0)
            /\ half[r].chest = mem[r].chest + (IF r = p THEN c ELSE 0)
            /\ half[r].inbox = mem[r].inbox + (IF r = p THEN k ELSE 0)
        BY <1>1, <3>0
      <4> QED BY <1>3, <3>0, <3>1, <4>1, <4>2
    <3>3. CASE r \notin online
      <4>1. Mk!Owned(r) = stored[r] /\ Mk!Owned(r)' = stored'[r] /\ r # p
        BY <1>3, <3>3 DEF Mk!Owned
      <4>2. /\ stored'[r].bank = stored[r].bank + (IF r = q THEN b2 ELSE 0)
            /\ stored'[r].chest = stored[r].chest
            /\ stored'[r].inbox = stored[r].inbox + (IF r = q THEN k2 ELSE 0)
        BY <2>1, <3>0
      <4> QED BY <3>0, <3>1, <4>1, <4>2
    <3> QED BY <3>2, <3>3
  <2> QED BY <2>3, <2>6, <2>7 DEF Gains
<1> QED BY <1>4, <1>5

(* Offers may go and shrink while old answers speak of them.               *)
LEMMA AnswersKept ==
  ASSUME MarketTypes, AnswersAgree, queries' = queries, nextId' \in Nat, nextId <= nextId',
         \A i \in DOMAIN offers' :
           \/ /\ i \in DOMAIN offers /\ offers'[i].owner = offers[i].owner
              /\ offers'[i].sale = offers[i].sale /\ offers'[i].price = offers[i].price
           \/ i = nextId /\ nextId < nextId'
  PROVE  AnswersAgree'
<1>1. nextId \in Nat /\ DOMAIN offers \subseteq Nat /\ MaxOffers \in Nat
  BY IdsAreFinite DEF MarketTypes
<1>2. ASSUME NEW i \in DOMAIN offers' PROVE i < nextId'
  <2>1. i \in DOMAIN offers => i \in Nat /\ i < nextId
    BY <1>1 DEF AnswersAgree
  <2> QED BY <1>1, <1>2, <2>1
<1>3. ASSUME NEW n \in 1 .. Len(queries), queries[n].answered
      PROVE  RowsAgree(queries[n].rows, offers', nextId')
  <2> DEFINE rows == queries[n].rows
  <2>1. RowsAgree(rows, offers, nextId)
    BY <1>3 DEF AnswersAgree
  <2>2. DOMAIN rows \subseteq Nat
    <3>1. queries[n] \in Searches
      BY DEF MarketTypes
    <3>2. queries[n] \in [answered : {TRUE}, rows : OfferTables]
      BY <1>3, <3>1 DEF Searches
    <3>3. rows \in OfferTables
      BY <3>2
    <3>4. DOMAIN rows \subseteq Mk!Ids
      BY <3>3 DEF OfferTables
    <3> QED BY <3>4, IdsAreFinite
  <2>3. ASSUME NEW i \in DOMAIN rows
        PROVE  /\ i < nextId'
               /\ i \in DOMAIN offers' => /\ offers'[i].owner = rows[i].owner
                                         /\ offers'[i].sale = rows[i].sale
                                         /\ offers'[i].price = rows[i].price
    <3>1. i < nextId /\ i \in Nat
      BY <2>1, <2>2 DEF RowsAgree
    <3>2. i < nextId' /\ i # nextId
      BY <1>1, <3>1
    <3>3. i \in DOMAIN offers => /\ offers[i].owner = rows[i].owner
                                 /\ offers[i].sale = rows[i].sale
                                 /\ offers[i].price = rows[i].price
      BY <2>1 DEF RowsAgree
    <3> QED BY <3>2, <3>3
  <2> HIDE DEF rows
  <2>4. RowsAgree(rows, offers', nextId')
    BY <2>1, <2>3 DEF RowsAgree
  <2> QED BY <2>4 DEF rows
<1> QED BY <1>2, <1>3 DEF AnswersAgree

(* The totals stay.                                                        *)
Same == Mk!Goods' = Mk!Goods /\ Mk!Money' = Mk!Money

(* One lemma per step of Market: each keeps MarketInv, and each but the    *)
(* settling of expired offers keeps both totals.                           *)
LEMMA LogInKeeps ==
  ASSUME MarketInv, NEW p \in Traders, Mk!LogIn(p), mishaps' \in 0 .. MaxMishaps
  PROVE  MarketInv' /\ Same /\ queries' = queries
<1>1. /\ p \notin online /\ online' = online \union {p}
      /\ mem' = [mem EXCEPT ![p] = stored[p]]
      /\ stored' = stored /\ opened' = opened /\ inMarket' = inMarket
      /\ offers' = offers /\ nextId' = nextId /\ queries' = queries /\ fees' = fees
  BY DEF Mk!LogIn
<1>2. mem' \in [Traders -> Mk!Purse] /\ mem'[p] = stored[p]
      /\ \A r \in Traders \ {p} : mem'[r] = mem[r]
  BY <1>1 DEF MarketInv, MarketTypes
<1>3. MarketTypes'
  BY <1>1, <1>2 DEF MarketInv, MarketTypes
<1>4. ChestUntouched'
  BY <1>1, <1>2 DEF MarketInv, MarketTypes, ChestUntouched
<1>5. AnswersAgree'
  BY <1>1 DEF MarketInv, AnswersAgree
<1>6. \A r \in Traders : Mk!Owned(r)' = Mk!Owned(r)
  BY <1>1, <1>2 DEF Mk!Owned
<1>7. \A r \in Traders : Pieces'[r] = Pieces[r] /\ Coins'[r] = Coins[r]
  BY <1>6 DEF Pieces, Coins
<1>8. Same
  BY <1>1, <1>3, <1>7, LedgerUntouched DEF MarketInv, Same
<1> QED BY <1>1, <1>3, <1>4, <1>5, <1>8 DEF MarketInv

LEMMA SavedIs ==
  ASSUME MarketInv, NEW p \in online
  PROVE  /\ Mk!Saved(p, mem[p]) \in Mk!Purse
         /\ Mk!Saved(p, mem[p]).bank = mem[p].bank
         /\ Mk!Saved(p, mem[p]).chest = mem[p].chest
         /\ Mk!Saved(p, mem[p]).inbox = mem[p].inbox
         /\ p \notin opened => Mk!Saved(p, mem[p]).chest = stored[p].chest
<1>1. mem[p] \in Mk!Purse /\ stored[p] \in Mk!Purse
  BY DEF MarketInv, MarketTypes
<1>2. CASE p \in opened
  BY <1>1, <1>2 DEF Mk!Saved, Mk!Purse
<1>3. CASE p \notin opened
  <2>1. mem[p].chest = stored[p].chest
    BY <1>3 DEF MarketInv, ChestUntouched
  <2>2. Mk!Saved(p, mem[p]) = [mem[p] EXCEPT !.chest = stored[p].chest]
    BY <1>3 DEF Mk!Saved
  <2> QED BY <1>1, <2>1, <2>2 DEF Mk!Purse
<1> QED BY <1>2, <1>3

LEMMA LogOutKeeps ==
  ASSUME MarketInv, NEW p \in Traders, NEW refused \in BOOLEAN, Mk!LogOut(p, refused),
         mishaps' \in 0 .. MaxMishaps
  PROVE  MarketInv' /\ (~refused => Same) /\ queries' = queries
<1>1. /\ p \in online /\ online' = online \ {p} /\ opened' = opened \ {p}
      /\ inMarket' = inMarket \ {p} /\ mem' = [mem EXCEPT ![p] = Mk!Empty]
      /\ stored' = IF refused THEN stored ELSE [stored EXCEPT ![p] = Mk!Saved(p, mem[p])]
      /\ offers' = offers /\ nextId' = nextId /\ queries' = queries /\ fees' = fees
  BY DEF Mk!LogOut
<1>2. Mk!Empty \in Mk!Purse
  BY DEF Mk!Empty, Mk!Purse
<1>3. mem' \in [Traders -> Mk!Purse] /\ \A r \in Traders \ {p} : mem'[r] = mem[r]
  BY <1>1, <1>2 DEF MarketInv, MarketTypes
<1>4. /\ stored' \in [Traders -> Mk!Purse] /\ \A r \in Traders \ {p} : stored'[r] = stored[r]
      /\ ~refused => stored'[p] = Mk!Saved(p, mem[p])
  <2>1. CASE refused
    BY <1>1, <2>1 DEF MarketInv, MarketTypes
  <2>2. CASE ~refused
    BY <1>1, <2>2, SavedIs DEF MarketInv, MarketTypes
  <2> QED BY <2>1, <2>2
<1>5. MarketTypes'
  BY <1>1, <1>3, <1>4 DEF MarketInv, MarketTypes
<1>6. ChestUntouched'
  BY <1>1, <1>3, <1>4 DEF MarketInv, MarketTypes, ChestUntouched
<1>7. AnswersAgree'
  BY <1>1 DEF MarketInv, AnswersAgree
<1>8. ASSUME ~refused PROVE Same
  <2>1. ASSUME NEW r \in Traders PROVE Pieces'[r] = Pieces[r] /\ Coins'[r] = Coins[r]
    <3>1. /\ Pieces[r] = Mk!Owned(r).chest + Mk!Owned(r).inbox /\ Coins[r] = Mk!Owned(r).bank
          /\ Pieces'[r] = Mk!Owned(r)'.chest + Mk!Owned(r)'.inbox /\ Coins'[r] = Mk!Owned(r)'.bank
      BY DEF Pieces, Coins
    <3>2. CASE r = p
      <4>1. Mk!Owned(r) = mem[p] /\ Mk!Owned(r)' = Mk!Saved(p, mem[p])
        BY <1>1, <1>4, <1>8, <3>2 DEF Mk!Owned
      <4> QED BY <1>1, <3>1, <4>1, SavedIs
    <3>3. CASE r # p
      <4>1. Mk!Owned(r)' = Mk!Owned(r)
        BY <1>1, <1>3, <1>4, <3>3 DEF Mk!Owned
      <4> QED BY <3>1, <4>1
    <3> QED BY <3>2, <3>3
  <2> QED BY <1>1, <1>5, <2>1, LedgerUntouched DEF MarketInv, Same
<1> QED BY <1>1, <1>5, <1>6, <1>7, <1>8 DEF MarketInv

LEMMA SaveKeeps ==
  ASSUME MarketInv, NEW refused, Mk!SaveGameState(refused), mishaps' \in 0 .. MaxMishaps
  PROVE  MarketInv' /\ Same /\ queries' = queries
<1>1. /\ online' = online /\ opened' = opened /\ inMarket' = inMarket /\ mem' = mem
      /\ stored' = [p \in Traders |-> IF p \in online \ refused THEN Mk!Saved(p, mem[p])
                                      ELSE stored[p]]
      /\ offers' = offers /\ nextId' = nextId /\ queries' = queries /\ fees' = fees
  BY DEF Mk!SaveGameState
<1>2. ASSUME NEW p \in Traders
      PROVE  /\ stored'[p] \in Mk!Purse
             /\ p \notin online => stored'[p] = stored[p]
             /\ p \in online \ opened => stored'[p].chest = stored[p].chest
  <2>1. CASE p \in online \ refused
    BY <1>1, <2>1, SavedIs
  <2>2. CASE p \notin online \ refused
    BY <1>1, <2>2 DEF MarketInv, MarketTypes
  <2> QED BY <2>1, <2>2
<1>3. stored' \in [Traders -> Mk!Purse]
  <2>1. DOMAIN stored' = Traders /\ stored' = [p \in Traders |-> stored'[p]]
    BY <1>1
  <2>2. \A p \in Traders : stored'[p] \in Mk!Purse
    BY <1>2
  <2> QED BY Zenon, <2>1, <2>2
<1>5. MarketTypes'
  BY <1>1, <1>3 DEF MarketInv, MarketTypes
<1>6. ChestUntouched'
  BY <1>1, <1>2 DEF MarketInv, MarketTypes, ChestUntouched
<1>7. AnswersAgree'
  BY <1>1 DEF MarketInv, AnswersAgree
<1>8. \A r \in Traders : Mk!Owned(r)' = Mk!Owned(r)
  BY <1>1, <1>2 DEF Mk!Owned
<1>9. \A r \in Traders : Pieces'[r] = Pieces[r] /\ Coins'[r] = Coins[r]
  BY <1>8 DEF Pieces, Coins
<1>10. Same
  BY <1>1, <1>5, <1>9, LedgerUntouched DEF MarketInv, Same
<1> QED BY <1>1, <1>5, <1>6, <1>7, <1>10 DEF MarketInv

LEMMA CrashKeeps ==
  ASSUME MarketInv, Mk!Crash, mishaps' \in 0 .. MaxMishaps
  PROVE  MarketInv'
<1>1. /\ online' = {} /\ opened' = {} /\ inMarket' = {} /\ queries' = <<>>
      /\ mem' = [p \in Traders |-> Mk!Empty] /\ stored' = stored
      /\ offers' = offers /\ nextId' = nextId /\ fees' = fees
  BY DEF Mk!Crash
<1>2. Mk!Empty \in Mk!Purse
  BY DEF Mk!Empty, Mk!Purse
<1>3. mem' \in [Traders -> Mk!Purse] /\ queries' \in Seq(Searches)
  BY <1>1, <1>2
<1>4. MarketTypes'
  BY <1>1, <1>3 DEF MarketInv, MarketTypes
<1>5. ChestUntouched'
  BY <1>1 DEF ChestUntouched
<1>6. AnswersAgree'
  BY <1>1 DEF MarketInv, AnswersAgree
<1> QED BY <1>4, <1>5, <1>6 DEF MarketInv

(* A depot or a market is opened or closed.                                *)
LEMMA OpeningKeeps ==
  ASSUME MarketInv, opened' \subseteq online, opened \subseteq opened', inMarket' \subseteq opened',
         UNCHANGED <<online, mem, stored, offers, nextId, queries, fees>>,
         mishaps' \in 0 .. MaxMishaps
  PROVE  MarketInv' /\ Same /\ queries' = queries
<1>1. MarketTypes'
  BY DEF MarketInv, MarketTypes
<1>2. ChestUntouched'
  BY DEF MarketInv, MarketTypes, ChestUntouched
<1>3. AnswersAgree'
  BY DEF MarketInv, AnswersAgree
<1>4. \A r \in Traders : Mk!Owned(r)' = Mk!Owned(r)
  BY DEF Mk!Owned
<1>5. \A r \in Traders : Pieces'[r] = Pieces[r] /\ Coins'[r] = Coins[r]
  BY <1>4 DEF Pieces, Coins
<1>6. Same
  BY <1>1, <1>5, LedgerUntouched DEF MarketInv, Same
<1> QED BY <1>1, <1>2, <1>3, <1>6 DEF MarketInv

LEMMA OpenDepotKeeps ==
  ASSUME MarketInv, NEW p \in Traders, mishaps' \in 0 .. MaxMishaps,
         Mk!OpenDepot(p) \/ Mk!EnterMarket(p) \/ Mk!LeaveMarket(p)
  PROVE  MarketInv' /\ Same /\ queries' = queries
<1>1. /\ opened' \subseteq online /\ opened \subseteq opened' /\ inMarket' \subseteq opened'
      /\ UNCHANGED <<online, mem, stored, offers, nextId, queries, fees>>
  BY DEF Mk!OpenDepot, Mk!EnterMarket, Mk!LeaveMarket, MarketInv, MarketTypes
<1> QED BY <1>1, OpeningKeeps

LEMMA ExpireKeeps ==
  ASSUME MarketInv, NEW i \in DOMAIN offers, Mk!Expire(i), mishaps' \in 0 .. MaxMishaps
  PROVE  MarketInv' /\ Same /\ queries' = queries
<1>1. /\ offers' = [offers EXCEPT ![i].old = TRUE]
      /\ UNCHANGED <<online, mem, stored, opened, inMarket, nextId, queries, fees>>
  BY DEF Mk!Expire
<1>2. IsTable(offers) /\ offers[i] \in Mk!Offer
  BY DEF MarketInv, MarketTypes, IsTable
<1>3. /\ DOMAIN offers' = DOMAIN offers /\ \A j \in DOMAIN offers \ {i} : offers'[j] = offers[j]
      /\ offers'[i] = [offers[i] EXCEPT !.old = TRUE]
  BY <1>1
<1>4. /\ offers'[i] \in Mk!Offer /\ offers'[i].owner = offers[i].owner
      /\ offers'[i].sale = offers[i].sale /\ offers'[i].price = offers[i].price
      /\ offers'[i].amount = offers[i].amount
  BY <1>2, <1>3 DEF Mk!Offer
<1>5. MarketTypes'
  BY <1>1, <1>3, <1>4 DEF MarketInv, MarketTypes
<1>6. ChestUntouched'
  BY <1>1 DEF MarketInv, ChestUntouched
<1>7. AnswersAgree'
  BY <1>1, <1>3, <1>4, AnswersKept DEF MarketInv, MarketTypes
<1>8. \A r \in Traders : Mk!Owned(r)' = Mk!Owned(r)
  BY <1>1 DEF Mk!Owned
<1>9. \A r \in Traders : Pieces'[r] = Pieces[r] /\ Coins'[r] = Coins[r]
  BY <1>8 DEF Pieces, Coins
<1>10. /\ Holding(offers', TRUE) = Holding(offers, TRUE) /\ Holding(offers', FALSE) = Holding(offers, FALSE)
  BY <1>3, <1>4 DEF Holding
<1>11. Same
  BY <1>1, <1>5, <1>9, <1>10, LedgerUntouched DEF MarketInv, Same
<1> QED BY <1>1, <1>5, <1>6, <1>7, <1>11 DEF MarketInv

LEMMA CheckKeeps ==
  ASSUME MarketInv, Mk!CheckExpiredOffers, mishaps' \in 0 .. MaxMishaps
  PROVE  MarketInv' /\ Same /\ Len(queries') = Len(queries) + 1
<1>1. /\ queries' = Append(queries, [answered |-> FALSE])
      /\ UNCHANGED <<online, mem, stored, opened, inMarket, offers, nextId, fees>>
  BY DEF Mk!CheckExpiredOffers
<1>2. queries \in Seq(Searches) /\ [answered |-> FALSE] \in Searches
  BY DEF MarketInv, MarketTypes, Searches
<1>3. /\ queries' \in Seq(Searches) /\ Len(queries') = Len(queries) + 1
      /\ \A n \in 1 .. Len(queries) : queries'[n] = queries[n]
      /\ queries'[Len(queries) + 1] = [answered |-> FALSE]
  BY <1>1, <1>2
<1>4. MarketTypes'
  BY <1>1, <1>3 DEF MarketInv, MarketTypes
<1>5. ChestUntouched'
  BY <1>1 DEF MarketInv, ChestUntouched
<1>6. AnswersAgree'
  <2>1. ASSUME NEW n \in 1 .. Len(queries'), queries'[n].answered
        PROVE  RowsAgree(queries'[n].rows, offers', nextId')
    <3>1. n \in 1 .. Len(queries)
      <4>1. n # Len(queries) + 1
        BY <1>3, <2>1
      <4> QED BY <1>2, <1>3, <4>1
    <3>2. queries'[n] = queries[n] /\ queries[n].answered
      BY <1>3, <2>1, <3>1
    <3>3. RowsAgree(queries[n].rows, offers, nextId)
      BY <3>1, <3>2 DEF MarketInv, AnswersAgree
    <3> QED BY <1>1, <3>2, <3>3
  <2>2. \A i \in DOMAIN offers' : i < nextId'
    BY <1>1 DEF MarketInv, AnswersAgree
  <2> QED BY <2>1, <2>2 DEF AnswersAgree
<1>7. \A r \in Traders : Mk!Owned(r)' = Mk!Owned(r)
  BY <1>1 DEF Mk!Owned
<1>8. \A r \in Traders : Pieces'[r] = Pieces[r] /\ Coins'[r] = Coins[r]
  BY <1>7 DEF Pieces, Coins
<1>9. Same
  BY <1>1, <1>4, <1>8, LedgerUntouched DEF MarketInv, Same
<1> QED BY <1>3, <1>4, <1>5, <1>6, <1>9 DEF MarketInv

LEMMA AnswerKeeps ==
  ASSUME MarketInv, Mk!AnswerQuery, mishaps' \in 0 .. MaxMishaps
  PROVE  MarketInv' /\ Same /\ Len(queries') = Len(queries)
<1> DEFINE rows == [i \in {j \in Mk!Live : offers[j].old} |-> offers[i]]
           new == [answered |-> TRUE, rows |-> rows]
<1>1. PICK m \in 1 .. Len(queries) : queries' = [queries EXCEPT ![m] = new]
  BY DEF Mk!AnswerQuery
<1>2. UNCHANGED <<online, mem, stored, opened, inMarket, offers, nextId, fees>>
  BY DEF Mk!AnswerQuery
<1>3. /\ DOMAIN rows \subseteq DOMAIN offers /\ \A i \in DOMAIN rows : rows[i] = offers[i]
  BY DEF Mk!Live
<1>4. rows \in OfferTables
  <2>1. rows = [i \in DOMAIN rows |-> rows[i]] /\ DOMAIN rows \in SUBSET Mk!Ids
        /\ \A i \in DOMAIN rows : rows[i] \in Mk!Offer
    BY <1>3 DEF MarketInv, MarketTypes, Mk!Live
  <2> HIDE DEF rows
  <2>2. rows \in [DOMAIN rows -> Mk!Offer]
    BY <2>1
  <2> QED BY <2>1, <2>2 DEF OfferTables
<1>5. RowsAgree(rows, offers, nextId)
  BY <1>3 DEF RowsAgree, MarketInv, AnswersAgree
<1> HIDE DEF rows
<1>6. queries \in Seq(Searches) /\ new \in Searches /\ new.answered = TRUE /\ new.rows = rows
  BY <1>4 DEF MarketInv, MarketTypes, Searches
<1> HIDE DEF new
<1>7. /\ queries' \in Seq(Searches) /\ Len(queries') = Len(queries) /\ queries'[m] = new
      /\ \A n \in 1 .. Len(queries) : n # m => queries'[n] = queries[n]
  BY <1>1, <1>6
<1>8. MarketTypes'
  BY <1>2, <1>7 DEF MarketInv, MarketTypes
<1>9. ChestUntouched'
  BY <1>2 DEF MarketInv, ChestUntouched
<1>10. AnswersAgree'
  <2>1. ASSUME NEW n \in 1 .. Len(queries'), queries'[n].answered
        PROVE  RowsAgree(queries'[n].rows, offers', nextId')
    <3>1. n \in 1 .. Len(queries)
      BY <1>7
    <3>2. RowsAgree(queries'[n].rows, offers, nextId)
      <4>1. CASE n = m
        BY <1>5, <1>6, <1>7, <4>1
      <4>2. CASE n # m
        BY <1>7, <2>1, <3>1, <4>2 DEF MarketInv, AnswersAgree
      <4> QED BY <4>1, <4>2
    <3> QED BY <1>2, <3>2
  <2>2. \A i \in DOMAIN offers' : i < nextId'
    BY <1>2 DEF MarketInv, AnswersAgree
  <2> QED BY <2>1, <2>2 DEF AnswersAgree
<1>11. \A r \in Traders : Mk!Owned(r)' = Mk!Owned(r)
  BY <1>2 DEF Mk!Owned
<1>12. \A r \in Traders : Pieces'[r] = Pieces[r] /\ Coins'[r] = Coins[r]
  BY <1>11 DEF Pieces, Coins
<1>13. Same
  BY <1>2, <1>8, <1>12, LedgerUntouched DEF MarketInv, Same
<1> QED BY <1>7, <1>8, <1>9, <1>10, <1>13 DEF MarketInv

(* What the handlers of offers and parcels leave alone.                    *)
LEMMA TypesFollow ==
  ASSUME MarketInv, Purses', ChestUntouched', IsTable(offers'), AnswersAgree',
         nextId' \in 1 .. MaxOffers + 1, fees' \in Nat, mishaps' \in 0 .. MaxMishaps,
         UNCHANGED <<online, opened, inMarket, queries>>
  PROVE  MarketInv'
BY DEF MarketInv, MarketTypes, Purses, IsTable

LEMMA SendItemKeeps ==
  ASSUME MarketInv, NEW p \in Traders, NEW q \in Traders, NEW refused \in BOOLEAN,
         Mk!SendItem(p, q, refused), mishaps' \in 0 .. MaxMishaps
  PROVE  MarketInv' /\ (~refused => Same) /\ queries' = queries
<1>1. /\ p \in opened /\ mem[p].chest > 0
      /\ UNCHANGED <<online, opened, inMarket, offers, nextId, queries, fees>>
      /\ IF q \in online
         THEN /\ refused = FALSE
              /\ mem' = [[mem EXCEPT ![p] = Mk!More(@, 0, -1, 0)]
                           EXCEPT ![q] = Mk!More(@, 0, 0, 1)]
              /\ stored' = stored
         ELSE /\ mem' = [mem EXCEPT ![p] = Mk!More(@, 0, -1, 0)]
              /\ stored' = IF refused THEN stored
                           ELSE [stored EXCEPT ![q] = Mk!More(@, 0, 0, 1)]
  BY DEF Mk!SendItem
<1>2. Purses /\ ChestUntouched /\ p \in online /\ IsTable(offers)
  BY <1>1 DEF MarketInv, MarketTypes, Purses, IsTable
<1>3. mem[p].bank \in Nat /\ mem[p].chest \in Nat /\ mem[p].inbox \in Nat
  <2>1. mem[p] \in Mk!Purse
    BY DEF MarketInv, MarketTypes
  <2> QED BY <2>1 DEF Mk!Purse
<1>4. Affords(p, 0, -1, 0)
  BY <1>1, <1>2, <1>3 DEF Affords
<1>5. nextId' \in 1 .. MaxOffers + 1 /\ fees' \in Nat /\ IsTable(offers')
  BY <1>1, <1>2 DEF MarketInv, MarketTypes
<1>6. AnswersAgree'
  BY <1>1 DEF MarketInv, AnswersAgree
<1>7. CASE refused
  <2>1. Refused(p, 0, -1, 0)
    BY <1>1, <1>7 DEF Refused, Paid
  <2>2. Purses' /\ ChestUntouched'
    BY <1>1, <1>2, <1>4, <2>1, Pays
  <2> QED BY <1>1, <1>5, <1>6, <1>7, <2>2, TypesFollow
<1>8. CASE ~refused
  <2>1. Exchanged(p, 0, -1, 0, q, 0, 1)
    BY <1>1, <1>8 DEF Exchanged, Paid
  <2>2. /\ Purses' /\ ChestUntouched'
        /\ Gains(Traders, Pieces, Pieces', p, -1 + 0, q, 1)
        /\ Gains(Traders, Coins, Coins', p, 0, q, 0)
    BY <1>1, <1>2, <1>4, <2>1, Exchanges
  <2>3. MarketInv'
    BY <1>1, <1>5, <1>6, <2>2, TypesFollow
  <2>4. Same
    <3>1. OffersGain(TRUE, 0) /\ OffersGain(FALSE, 0)
      BY <1>1, <1>2, OffersSame
    <3>2. FeesGain(0)
      BY <1>1 DEF MarketInv, MarketTypes, FeesGain
    <3>3. MarketTypes /\ MarketTypes'
      BY <2>3 DEF MarketInv
    <3>4. -1 + 0 = -1
      OBVIOUS
    <3>5. Gains(Traders, Pieces, Pieces', p, -1, q, 1)
      BY <2>2, <3>4
    <3>6. Balances(p, q, -1, 1, 0, 0, 0, 0, 0)
      <4>1. /\ -1 \in Int /\ 1 \in Int /\ 0 \in Int /\ -1 + 1 + 0 = 0 /\ 0 + 0 + 0 + 0 = 0
        OBVIOUS
      <4>2. p \in Traders /\ q \in Traders
        OBVIOUS
      <4> QED BY Zenon, <2>2, <3>1, <3>2, <3>5, <4>1, <4>2 DEF Balances
    <3> QED BY <3>3, <3>6, LedgerKept DEF Same
  <2> QED BY <1>1, <2>3, <2>4
<1> QED BY <1>7, <1>8

LEMMA MerchantIs ==
  ASSUME MarketInv, NEW p \in inMarket
  PROVE  /\ p \in Traders /\ p \in online /\ p \in opened /\ mem[p] \in Mk!Purse
         /\ mem[p].bank \in Nat /\ mem[p].chest \in Nat /\ mem[p].inbox \in Nat
         /\ Purses /\ ChestUntouched /\ IsTable(offers) /\ MarketTypes
<1>1. p \in Traders /\ p \in online /\ p \in opened /\ mem[p] \in Mk!Purse
  BY DEF MarketInv, MarketTypes
<1>2. mem[p].bank \in Nat /\ mem[p].chest \in Nat /\ mem[p].inbox \in Nat
  BY <1>1 DEF Mk!Purse
<1>3. Purses /\ ChestUntouched /\ IsTable(offers) /\ MarketTypes
  BY DEF MarketInv, MarketTypes, Purses, IsTable
<1> QED BY <1>1, <1>2, <1>3

LEMMA AmountsAre ==
  ASSUME NEW amount \in Mk!Amounts, NEW price \in Prices
  PROVE  /\ amount \in Nat /\ amount >= 1 /\ price \in Nat /\ amount * price \in Nat
<1>1. Prices \subseteq Nat /\ MaxAmount \in Nat
  BY BoundsAreNumbers
<1>2. amount \in Nat /\ amount >= 1
  BY <1>1 DEF Mk!Amounts
<1>3. price \in Nat
  BY <1>1
<1> QED BY <1>2, <1>3

(* An offer is made: p has half b for it in money and x in goods.          *)
LEMMA PutKeeps ==
  ASSUME MarketInv, NEW p \in inMarket, NEW amount \in Mk!Amounts, NEW price \in Prices,
         NEW sale \in BOOLEAN, Mk!Put(p, sale, amount, price), nextId \in Mk!Ids,
         NEW b, NEW c, NEW k, Affords(p, b, c, k), mem' = Paid(p, b, c, k),
         c + k = IF sale THEN -amount ELSE 0,
         b = -Fee - (IF sale THEN 0 ELSE amount * price),
         mishaps' \in 0 .. MaxMishaps
  PROVE  MarketInv' /\ Same /\ queries' = queries
<1> DEFINE o == [owner |-> p, sale |-> sale, amount |-> amount, price |-> price, old |-> FALSE]
<1>1. /\ offers' = Extended(o) /\ nextId' = nextId + 1 /\ fees' = fees + Fee
      /\ UNCHANGED <<online, stored, opened, inMarket, queries>>
  BY DEF Mk!Put, Extended
<1>2. /\ p \in Traders /\ Purses /\ ChestUntouched /\ IsTable(offers) /\ MarketTypes
      /\ b \in Int /\ c \in Int /\ k \in Int
  BY MerchantIs DEF Affords
<1>3. /\ amount \in Nat /\ price \in Nat /\ amount * price \in Nat
  BY AmountsAre
<1>4. /\ o \in Mk!Offer /\ o.owner = p /\ o.sale = sale /\ o.amount = amount /\ o.price = price
  BY <1>2 DEF Mk!Offer
<1> HIDE DEF o
<1>5. nextId \notin DOMAIN offers /\ nextId \in Nat /\ nextId + 1 \in 1 .. MaxOffers + 1
  BY IdsAreFinite DEF MarketInv, AnswersAgree
<1>6. Refused(p, b, c, k)
  BY <1>1 DEF Refused
<1>7. /\ Purses' /\ ChestUntouched'
      /\ Gains(Traders, Pieces, Pieces', p, c + k, p, 0)
      /\ Gains(Traders, Coins, Coins', p, b, p, 0)
  BY <1>1, <1>2, <1>6, Pays
<1>8. /\ IsTable(offers') /\ OffersGain(TRUE, Value(o, TRUE, amount))
      /\ OffersGain(FALSE, Value(o, FALSE, amount))
  <2>1. ASSUME NEW s \in BOOLEAN PROVE IsTable(offers') /\ OffersGain(s, Value(o, s, amount))
    BY <1>1, <1>2, <1>4, <1>5, HeldPut DEF OffersGain
  <2> QED BY <2>1
<1>9. AnswersAgree'
  <2>1. \A i \in DOMAIN offers' : (i \in DOMAIN offers /\ offers'[i] = offers[i]) \/ i = nextId
    BY <1>1 DEF Extended, Mk!Live
  <2>2. nextId' \in Nat /\ nextId <= nextId' /\ nextId < nextId'
    BY <1>1, <1>5
  <2> QED BY <1>1, <2>1, <2>2, AnswersKept DEF MarketInv
<1>10. FeesGain(Fee) /\ Fee \in Nat /\ fees' \in Nat
  BY <1>1, BoundsAreNumbers DEF FeesGain, MarketInv, MarketTypes
<1>11. MarketInv'
  BY <1>1, <1>5, <1>7, <1>8, <1>9, <1>10, TypesFollow
<1>12. CASE sale
  <2>1. Value(o, TRUE, amount) = amount /\ Value(o, FALSE, amount) = 0
    BY <1>4, <1>12 DEF Value
  <2>2. c + k + 0 + amount = 0 /\ b + 0 + 0 + Fee = 0 /\ c + k \in Int
    BY <1>2, <1>3, <1>10, <1>12
  <2>3. Balances(p, p, c + k, 0, b, 0, amount, 0, Fee)
    <3>1. 0 \in Int /\ amount \in Int /\ Fee \in Int
      BY <1>3, <1>10
    <3> QED BY Zenon, <1>2, <1>7, <1>8, <1>10, <2>1, <2>2, <3>1 DEF Balances
  <2> QED BY <1>1, <1>2, <1>11, <2>3, LedgerKept DEF Same, MarketInv
<1>13. CASE ~sale
  <2>1. Value(o, TRUE, amount) = 0 /\ Value(o, FALSE, amount) = amount * price
    BY <1>4, <1>13 DEF Value
  <2> DEFINE cost == amount * price
  <2>2. cost \in Int /\ b = -Fee - cost
    BY <1>3, <1>13
  <2>3. OffersGain(FALSE, cost)
    BY <1>8, <2>1
  <2> HIDE DEF cost
  <2>4. c + k + 0 + 0 = 0 /\ b + 0 + cost + Fee = 0 /\ c + k \in Int
    BY <1>2, <1>10, <1>13, <2>2
  <2>5. Balances(p, p, c + k, 0, b, 0, 0, cost, Fee)
    <3>1. 0 \in Int /\ Fee \in Int
      BY <1>10
    <3>2. OffersGain(TRUE, 0)
      BY <1>8, <2>1
    <3> QED BY Zenon, <1>2, <1>7, <1>10, <2>2, <2>3, <2>4, <3>1, <3>2 DEF Balances
  <2> QED BY <1>1, <1>2, <1>11, <2>5, LedgerKept DEF Same, MarketInv
<1> QED BY <1>12, <1>13

LEMMA CreateSaleKeeps ==
  ASSUME MarketInv, NEW p \in Traders, NEW amount \in Mk!Amounts, NEW price \in Prices,
         NEW c \in 0 .. amount, Mk!CreateSale(p, amount, price, c), mishaps' \in 0 .. MaxMishaps
  PROVE  MarketInv' /\ Same /\ queries' = queries
<1>1. /\ nextId \in Mk!Ids /\ p \in inMarket /\ mem[p].bank >= Fee
      /\ mem[p].chest >= c /\ mem[p].inbox >= amount - c
      /\ mem' = Paid(p, -Fee, -c, c - amount) /\ Mk!Put(p, TRUE, amount, price)
  BY DEF Mk!CreateSale, Mk!Takes, Paid
<1>2. amount \in Nat /\ c \in Int /\ Fee \in Nat
  BY AmountsAre, BoundsAreNumbers
<1>3. /\ p \in online /\ p \in opened
      /\ mem[p].bank \in Nat /\ mem[p].chest \in Nat /\ mem[p].inbox \in Nat
  BY <1>1, MerchantIs
<1>4. Affords(p, -Fee, -c, c - amount)
  BY <1>1, <1>2, <1>3 DEF Affords
<1>5. -c + (c - amount) = -amount /\ -Fee = -Fee - 0
  BY <1>2
<1> DEFINE b == -Fee
           d == -c
           k == c - amount
<1>6. Affords(p, b, d, k) /\ mem' = Paid(p, b, d, k) /\ d + k = -amount /\ b = -Fee - 0
  BY <1>1, <1>4, <1>5
<1> HIDE DEF b, d, k
<1> QED BY <1>1, <1>6, PutKeeps

LEMMA CreatePurchaseKeeps ==
  ASSUME MarketInv, NEW p \in Traders, NEW amount \in Mk!Amounts, NEW price \in Prices,
         Mk!CreatePurchase(p, amount, price), mishaps' \in 0 .. MaxMishaps
  PROVE  MarketInv' /\ Same /\ queries' = queries
<1> DEFINE cost == amount * price
           b == -(cost + Fee)
<1>1. /\ nextId \in Mk!Ids /\ p \in inMarket /\ mem[p].bank >= cost + Fee
      /\ mem' = Paid(p, b, 0, 0) /\ Mk!Put(p, FALSE, amount, price)
  BY DEF Mk!CreatePurchase, Paid
<1>2. cost \in Nat /\ Fee \in Nat
  BY AmountsAre, BoundsAreNumbers
<1>3. /\ p \in online /\ p \in opened
      /\ mem[p].bank \in Nat /\ mem[p].chest \in Nat /\ mem[p].inbox \in Nat
  BY <1>1, MerchantIs
<1>4. b = -Fee - cost /\ b \in Int /\ mem[p].bank + b >= 0
  <2> HIDE DEF cost
  <2> QED BY <1>1, <1>2, <1>3
<1> HIDE DEF b
<1>5. Affords(p, b, 0, 0)
  BY <1>3, <1>4 DEF Affords
<1>6. 0 + 0 = 0 /\ b = -Fee - amount * price
  BY <1>4
<1> QED BY <1>1, <1>5, <1>6, PutKeeps

LEMMA TableShrinks ==
  ASSUME MarketInv, NEW i \in DOMAIN offers, NEW amount \in Mk!Amounts,
         amount <= offers[i].amount, offers' = Mk!Reduced(i, amount),
         UNCHANGED <<nextId, queries>>
  PROVE  /\ IsTable(offers') /\ AnswersAgree'
         /\ Value(offers[i], TRUE, amount) \in Int /\ Value(offers[i], FALSE, amount) \in Int
         /\ OffersGain(TRUE, -Value(offers[i], TRUE, amount))
         /\ OffersGain(FALSE, -Value(offers[i], FALSE, amount))
<1>1. IsTable(offers) /\ amount \in Nat /\ amount >= 1
  <2>1. MaxAmount \in Nat
    BY BoundsAreNumbers
  <2> QED BY <2>1 DEF MarketInv, MarketTypes, IsTable, Mk!Amounts
<1>2. ASSUME NEW sale \in BOOLEAN
      PROVE  /\ IsTable(offers') /\ Value(offers[i], sale, amount) \in Int
             /\ OffersGain(sale, -Value(offers[i], sale, amount))
  <2> DEFINE d == Value(offers[i], sale, amount)
  <2>1. /\ IsTable(Mk!Reduced(i, amount)) /\ d \in Int
        /\ SumFunctionOnSet(Holding(Mk!Reduced(i, amount), sale), Mk!Ids)
             = SumFunctionOnSet(Holding(offers, sale), Mk!Ids) - d
    BY <1>1, HeldReduced
  <2>2. SumFunctionOnSet(Holding(offers, sale), Mk!Ids) \in Int
    BY <1>1, HeldSumTyped
  <2> HIDE DEF d
  <2>3. OffersGain(sale, -d)
    BY <2>1, <2>2 DEF OffersGain
  <2> QED BY <2>1, <2>3 DEF d
<1>3. AnswersAgree'
  <2>1. ASSUME NEW j \in DOMAIN offers'
        PROVE  /\ j \in DOMAIN offers /\ offers'[j].owner = offers[j].owner
               /\ offers'[j].sale = offers[j].sale /\ offers'[j].price = offers[j].price
    <3>1. CASE offers[i].amount = amount
      BY <3>1 DEF Mk!Reduced, Mk!Without
    <3>2. CASE offers[i].amount # amount
      <4>1. offers' = [offers EXCEPT ![i].amount = @ - amount] /\ offers[i] \in Mk!Offer
        BY <1>1, <3>2 DEF Mk!Reduced, IsTable
      <4>2. j \in DOMAIN offers /\ (j # i => offers'[j] = offers[j])
            /\ offers'[i] = [offers[i] EXCEPT !.amount = @ - amount]
        BY <4>1
      <4>3. /\ offers'[i].owner = offers[i].owner
            /\ offers'[i].sale = offers[i].sale /\ offers'[i].price = offers[i].price
        BY <4>1, <4>2 DEF Mk!Offer
      <4> QED BY <4>2, <4>3
    <3> QED BY <3>1, <3>2
  <2>2. nextId' \in Nat /\ nextId <= nextId' /\ queries' = queries /\ MarketTypes /\ AnswersAgree
    BY IdsAreFinite DEF MarketInv, MarketTypes
  <2> QED BY <2>1, <2>2, AnswersKept
<1> QED BY <1>2, <1>3

LEMMA AcceptKeeps ==
  ASSUME MarketInv, NEW p \in inMarket, NEW i \in DOMAIN offers, NEW amount \in Mk!Amounts,
         amount <= offers[i].amount, offers' = Mk!Reduced(i, amount),
         UNCHANGED <<online, opened, inMarket, nextId, queries, fees>>,
         NEW b, NEW c, NEW k, Affords(p, b, c, k), NEW q \in Traders, NEW b2 \in Nat,
         NEW k2 \in Nat, NEW refused \in BOOLEAN,
         refused => Refused(p, b, c, k), ~refused => Exchanged(p, b, c, k, q, b2, k2),
         c + k + k2 = Value(offers[i], TRUE, amount), b + b2 = Value(offers[i], FALSE, amount),
         mishaps' \in 0 .. MaxMishaps
  PROVE  MarketInv' /\ (~refused => Same) /\ queries' = queries
<1>1. /\ p \in Traders /\ Purses /\ ChestUntouched /\ MarketTypes
      /\ b \in Int /\ c \in Int /\ k \in Int /\ b2 \in Int /\ k2 \in Int
  BY MerchantIs DEF Affords
<1> DEFINE vg == Value(offers[i], TRUE, amount)
           vm == Value(offers[i], FALSE, amount)
<1>2. /\ IsTable(offers') /\ AnswersAgree' /\ vg \in Int /\ vm \in Int
      /\ OffersGain(TRUE, -vg) /\ OffersGain(FALSE, -vm)
  BY TableShrinks
<1>3. c + k + k2 = vg /\ b + b2 = vm
  OBVIOUS
<1> HIDE DEF vg, vm
<1>4. nextId' \in 1 .. MaxOffers + 1 /\ fees' \in Nat /\ FeesGain(0)
  BY DEF MarketInv, MarketTypes, FeesGain
<1>5. CASE refused
  <2>1. Purses' /\ ChestUntouched'
    BY <1>1, <1>5, Pays
  <2> QED BY <1>2, <1>4, <1>5, <2>1, TypesFollow
<1>6. CASE ~refused
  <2>1. /\ Purses' /\ ChestUntouched'
        /\ Gains(Traders, Pieces, Pieces', p, c + k, q, k2)
        /\ Gains(Traders, Coins, Coins', p, b, q, b2)
    BY <1>1, <1>6, Exchanges
  <2>2. MarketInv'
    BY <1>2, <1>4, <2>1, TypesFollow
  <2>3. c + k \in Int /\ -vg \in Int /\ -vm \in Int
        /\ c + k + k2 + (-vg) = 0 /\ b + b2 + (-vm) + 0 = 0
    BY <1>1, <1>2, <1>3
  <2>4. Balances(p, q, c + k, k2, b, b2, -vg, -vm, 0)
    <3>1. 0 \in Int /\ q \in Traders
      OBVIOUS
    <3> QED BY Zenon, <1>1, <1>2, <1>4, <2>1, <2>3, <3>1 DEF Balances
  <2> QED BY <1>1, <2>2, <2>4, LedgerKept DEF Same, MarketInv
<1> QED BY <1>5, <1>6

LEMMA CancelKeeps ==
  ASSUME MarketInv, NEW p \in Traders, NEW i \in DOMAIN offers, Mk!Cancel(p, i),
         mishaps' \in 0 .. MaxMishaps
  PROVE  MarketInv' /\ Same /\ queries' = queries
<1> DEFINE o == offers[i]
           b == IF o.sale THEN 0 ELSE o.amount * o.price
           k == IF o.sale THEN o.amount ELSE 0
<1>1. o \in Mk!Offer
  BY DEF MarketInv, MarketTypes
<1>2. o.amount \in Nat /\ o.amount >= 1 /\ o.price \in Nat /\ o.sale \in BOOLEAN
      /\ o.amount <= o.amount /\ o.amount \in Mk!Amounts
  BY <1>1, OfferTyped DEF Mk!Offer
<1>3. b \in Nat /\ k \in Nat
  BY <1>2
<1>4. /\ p \in inMarket /\ offers' = Mk!Without(offers, i)
      /\ UNCHANGED <<online, opened, inMarket, nextId, queries, fees>>
      /\ Mk!Given(p, b, k, FALSE)
  <2>1. /\ p \in inMarket /\ offers' = Mk!Without(offers, i)
        /\ UNCHANGED <<online, opened, inMarket, nextId, queries, fees>>
        /\ IF o.sale THEN Mk!Given(p, 0, o.amount, FALSE) ELSE Mk!Given(p, o.amount * o.price, 0, FALSE)
    BY DEF Mk!Cancel
  <2> QED BY <2>1
<1> HIDE DEF b, k
<1>5. /\ p \in online /\ p \in opened /\ Purses /\ ChestUntouched
      /\ mem[p].bank \in Nat /\ mem[p].chest \in Nat /\ mem[p].inbox \in Nat
  BY <1>4, MerchantIs
<1>6. mem' = Paid(p, b, 0, k) /\ stored' = stored
  BY <1>4, <1>5 DEF Mk!Given, Paid
<1>7. Affords(p, b, 0, k) /\ Refused(p, b, 0, k)
  BY <1>3, <1>5, <1>6 DEF Affords, Refused
<1>8. /\ Purses' /\ ChestUntouched'
      /\ Gains(Traders, Pieces, Pieces', p, 0 + k, p, 0)
      /\ Gains(Traders, Coins, Coins', p, b, p, 0)
  BY <1>4, <1>5, <1>7, Pays
<1>9. offers' = Mk!Reduced(i, o.amount)
  BY <1>4 DEF Mk!Reduced
<1> HIDE DEF o
<1>10. Value(o, TRUE, o.amount) = k /\ Value(o, FALSE, o.amount) = b
  BY <1>2 DEF Value, b, k
<1>11. /\ IsTable(offers') /\ AnswersAgree' /\ OffersGain(TRUE, -k) /\ OffersGain(FALSE, -b)
  <2>1. /\ IsTable(offers') /\ AnswersAgree'
        /\ OffersGain(TRUE, -Value(offers[i], TRUE, o.amount))
        /\ OffersGain(FALSE, -Value(offers[i], FALSE, o.amount))
    <3>1. o.amount <= offers[i].amount
      BY <1>2 DEF o
    <3> QED BY <1>2, <1>4, <1>9, <3>1, TableShrinks
  <2>2. Value(offers[i], TRUE, o.amount) = k /\ Value(offers[i], FALSE, o.amount) = b
    BY <1>10 DEF o
  <2> QED BY <2>1, <2>2
<1>12. nextId' \in 1 .. MaxOffers + 1 /\ fees' \in Nat /\ FeesGain(0)
  BY <1>4 DEF MarketInv, MarketTypes, FeesGain
<1>13. MarketInv'
  BY <1>4, <1>8, <1>11, <1>12, TypesFollow
<1>14. 0 + k = k /\ k + 0 + (-k) = 0 /\ b + 0 + (-b) + 0 = 0 /\ k \in Int /\ b \in Int
       /\ -k \in Int /\ -b \in Int /\ 0 \in Int
  BY <1>3
<1>15. Gains(Traders, Pieces, Pieces', p, k, p, 0)
  BY <1>8, <1>14
<1>16. Balances(p, p, k, 0, b, 0, -k, -b, 0)
  <2>1. p \in Traders
    OBVIOUS
  <2> QED BY Zenon, <1>8, <1>11, <1>12, <1>14, <1>15, <2>1 DEF Balances
<1> QED BY <1>4, <1>13, <1>16, LedgerKept DEF Same, MarketInv

LEMMA AcceptPurchaseKeeps ==
  ASSUME MarketInv, NEW p \in Traders, NEW i \in DOMAIN offers, NEW amount \in Mk!Amounts,
         NEW c \in 0 .. amount, NEW refused \in BOOLEAN,
         Mk!AcceptPurchase(p, i, amount, c, refused), mishaps' \in 0 .. MaxMishaps
  PROVE  MarketInv' /\ (~refused => Same) /\ queries' = queries
<1> DEFINE o == offers[i]
           q == o.owner
           b == amount * o.price
           d == -c
           k == c - amount
<1>1. /\ p \in inMarket /\ ~o.sale /\ amount <= o.amount
      /\ mem[p].chest >= c /\ mem[p].inbox >= amount - c
      /\ offers' = Mk!Reduced(i, amount)
      /\ UNCHANGED <<online, opened, inMarket, nextId, queries, fees>>
  BY DEF Mk!AcceptPurchase, Mk!Takes
<1>2. IF q \in online
      THEN /\ refused = FALSE
           /\ mem' = [Paid(p, b, d, k) EXCEPT ![q] = Mk!More(@, 0, 0, amount)]
           /\ stored' = stored
      ELSE /\ mem' = Paid(p, b, d, k)
           /\ stored' = IF refused THEN stored
                        ELSE [stored EXCEPT ![q] = Mk!More(@, 0, 0, amount)]
  BY DEF Mk!AcceptPurchase, Paid
<1>3. o \in Mk!Offer
  BY DEF MarketInv, MarketTypes
<1>4. /\ o.price \in Nat /\ q \in Traders /\ o.sale = FALSE /\ amount \in Nat /\ c \in Int
  <2>1. o.price \in Nat /\ q \in Traders /\ o.sale \in BOOLEAN
    BY <1>3, OfferTyped
  <2>2. amount \in Nat
    BY BoundsAreNumbers DEF Mk!Amounts
  <2> QED BY <1>1, <2>1, <2>2
<1>5. b \in Nat /\ b \in Int
  BY <1>4
<1>6. /\ p \in online /\ p \in opened
      /\ mem[p].bank \in Nat /\ mem[p].chest \in Nat /\ mem[p].inbox \in Nat
  BY <1>1, MerchantIs
<1>7. Affords(p, b, d, k)
  <2>1. mem[p].bank + b >= 0
    <3> HIDE DEF b
    <3> QED BY <1>5, <1>6
  <2>2. /\ d \in Int /\ k \in Int /\ mem[p].chest + d >= 0 /\ mem[p].inbox + k >= 0
    BY <1>1, <1>4, <1>6
  <2> HIDE DEF b, d, k
  <2> QED BY <1>5, <1>6, <2>1, <2>2 DEF Affords
<1>8. /\ d + k + amount = Value(o, TRUE, amount)
      /\ b + 0 = Value(o, FALSE, amount)
  <2>1. Value(o, TRUE, amount) = 0 /\ Value(o, FALSE, amount) = b
    BY <1>4 DEF Value
  <2>2. d + k + amount = 0
    BY <1>4
  <2>3. b + 0 = b
    BY <1>5
  <2> QED BY Zenon, <2>1, <2>2, <2>3
<1> HIDE DEF b, d, k, q
<1>9. refused => Refused(p, b, d, k)
  BY <1>2 DEF Refused
<1>10. ~refused => Exchanged(p, b, d, k, q, 0, amount)
  BY <1>2 DEF Exchanged
<1> QED BY <1>1, <1>4, <1>7, <1>8, <1>9, <1>10, AcceptKeeps

LEMMA AcceptSaleKeeps ==
  ASSUME MarketInv, NEW p \in Traders, NEW i \in DOMAIN offers, NEW amount \in Mk!Amounts,
         NEW refused \in BOOLEAN,
         Mk!AcceptSale(p, i, amount, refused), mishaps' \in 0 .. MaxMishaps
  PROVE  MarketInv' /\ (~refused => Same) /\ queries' = queries
<1> DEFINE o == offers[i]
           q == o.owner
           cost == amount * o.price
           b == -cost
<1>1. /\ p \in inMarket /\ o.sale /\ amount <= o.amount /\ mem[p].bank >= cost
      /\ offers' = Mk!Reduced(i, amount)
      /\ UNCHANGED <<online, opened, inMarket, nextId, queries, fees>>
  BY DEF Mk!AcceptSale
<1>2. IF q \in online
      THEN /\ refused = FALSE
           /\ mem' = [Paid(p, b, 0, amount) EXCEPT ![q] = Mk!More(@, cost, 0, 0)]
           /\ stored' = stored
      ELSE /\ mem' = Paid(p, b, 0, amount)
           /\ stored' = IF refused THEN stored
                        ELSE [stored EXCEPT ![q] = Mk!More(@, cost, 0, 0)]
  BY DEF Mk!AcceptSale, Paid
<1>3. o \in Mk!Offer
  BY DEF MarketInv, MarketTypes
<1>4. /\ o.price \in Nat /\ q \in Traders /\ o.sale = TRUE /\ amount \in Nat
  <2>1. o.price \in Nat /\ q \in Traders /\ o.sale \in BOOLEAN
    BY <1>3, OfferTyped
  <2>2. amount \in Nat
    BY BoundsAreNumbers DEF Mk!Amounts
  <2> QED BY <1>1, <2>1, <2>2
<1>5. cost \in Nat /\ b \in Int
  BY <1>4
<1>6. /\ p \in online /\ p \in opened
      /\ mem[p].bank \in Nat /\ mem[p].chest \in Nat /\ mem[p].inbox \in Nat
  BY <1>1, MerchantIs
<1>7. Affords(p, b, 0, amount)
  <2>1. mem[p].bank + b >= 0
    <3> HIDE DEF cost
    <3> QED BY <1>1, <1>5, <1>6
  <2> HIDE DEF b
  <2> QED BY <1>4, <1>5, <1>6, <2>1 DEF Affords
<1>8. /\ 0 + amount + 0 = Value(o, TRUE, amount)
      /\ b + cost = Value(o, FALSE, amount)
  <2>1. Value(o, TRUE, amount) = amount /\ Value(o, FALSE, amount) = 0
    BY <1>4 DEF Value
  <2>2. b + cost = 0
    <3> HIDE DEF cost
    <3> QED BY <1>5
  <2>3. 0 + amount + 0 = amount
    BY <1>4
  <2> QED BY Zenon, <2>1, <2>2, <2>3
<1> HIDE DEF b, q, cost
<1>9. refused => Refused(p, b, 0, amount)
  BY <1>2 DEF Refused
<1>10. ~refused => Exchanged(p, b, 0, amount, q, cost, 0)
  BY <1>2 DEF Exchanged
<1> QED BY <1>1, <1>4, <1>5, <1>7, <1>8, <1>9, <1>10, AcceptKeeps

(* The offers of an answer that are still there, and what is left of the   *)
(* table without them.                                                     *)
Settled(rows, sale) == {i \in DOMAIN rows \intersect DOMAIN offers : rows[i].sale = sale}
Rest(rows) == [i \in DOMAIN offers \ DOMAIN rows |-> offers[i]]
Shares(rows, sale) == [p \in Traders |-> Mk!Returned(rows, p, sale)]

LEMMA WorthIs ==
  ASSUME NEW t, IsTable(t), NEW sale \in BOOLEAN, NEW i \in DOMAIN t
  PROVE  /\ Mk!Worth(t, sale)[i] \in Nat
         /\ Mk!Worth(t, sale)[i] = IF sale THEN t[i].amount ELSE t[i].amount * t[i].price
         /\ t[i].amount \in Nat /\ t[i].price \in Nat
<1>1. t[i].amount \in Nat /\ t[i].price \in Nat
  BY OfferTyped DEF IsTable
<1>2. t[i].amount * t[i].price \in Nat
  BY <1>1
<1>3. Mk!Worth(t, sale)[i] = IF sale THEN t[i].amount ELSE t[i].amount * t[i].price
  BY DEF Mk!Worth
<1> QED BY <1>1, <1>2, <1>3

LEMMA IdsFinite ==
  ASSUME NEW T, T \subseteq Mk!Ids PROVE IsFiniteSet(T)
BY IdsAreFinite, FS_Subset

(* What a player gets back for the offers of an answer is what those of    *)
(* them that are still his and still there are worth.                      *)
LEMMA ReturnedIs ==
  ASSUME NEW rows, IsTable(rows), NEW sale \in BOOLEAN
  PROVE  /\ \A p \in Traders : Mk!Returned(rows, p, sale) \in Nat
         /\ SumFunctionOnSet(Shares(rows, sale), Traders)
              = SumFunctionOnSet(Mk!Worth(rows, sale), Settled(rows, sale))
<1> DEFINE S == Settled(rows, sale)
           f == Mk!Worth(rows, sale)
           o == [i \in S |-> rows[i].owner]
           r == Shares(rows, sale)
<1>1. S \subseteq DOMAIN rows /\ S \subseteq Mk!Ids /\ IsFiniteSet(S)
  <2>1. S \subseteq DOMAIN rows /\ S \subseteq Mk!Ids
    BY DEF Settled, IsTable
  <2> QED BY <2>1, IdsFinite
<1>2. \A i \in S : f[i] \in Nat
  BY <1>1, WorthIs
<1>3. \A i \in S : o[i] \in Traders /\ o[i] = rows[i].owner
  BY <1>1, OfferTyped DEF IsTable
<1>4. ASSUME NEW p \in Traders
      PROVE  r[p] = SumFunctionOnSet(f, {i \in S : o[i] = p}) /\ r[p] = Mk!Returned(rows, p, sale)
  <2>1. {i \in S : o[i] = p}
          = {i \in Mk!ToSettle(rows) : rows[i].owner = p /\ rows[i].sale = sale}
    BY DEF Settled, Mk!ToSettle, Mk!Live
  <2>2. Mk!Returned(rows, p, sale) = SumFunctionOnSet(f, {i \in S : o[i] = p})
    BY <2>1, MarketSum DEF Mk!Returned
  <2>3. r[p] = Mk!Returned(rows, p, sale)
    BY DEF Shares
  <2> QED BY <2>2, <2>3
<1> HIDE DEF S, f, o, r
<1>5. \A p \in Traders : Mk!Returned(rows, p, sale) \in Nat
  <2>1. ASSUME NEW p \in Traders PROVE Mk!Returned(rows, p, sale) \in Nat
    <3> DEFINE G == {i \in S : o[i] = p}
    <3>1. IsFiniteSet(G) /\ \A i \in G : f[i] \in Nat
      BY <1>1, <1>2, FS_Subset
    <3>2. Mk!Returned(rows, p, sale) = SumFunctionOnSet(f, G)
      BY <1>4
    <3> HIDE DEF G
    <3> QED BY <3>1, <3>2, SumNatural
  <2> QED BY <2>1
<1>6. SumFunctionOnSet(r, Traders) = SumFunctionOnSet(f, S)
  <2>1. IsFiniteSet(Traders)
    BY BoundsAreNumbers
  <2>2. \A x \in S : f[x] \in Int /\ o[x] \in Traders
    BY <1>2, <1>3
  <2> DEFINE G == [p \in Traders |-> {x \in S : o[x] = p}]
  <2>3. Grouping(S, Traders, f, o, G, r)
    BY <1>4, <2>2 DEF Grouping
  <2> HIDE DEF G
  <2> QED BY <1>1, <2>1, <2>2, <2>3, SumGrouped
<1> QED BY <1>5, <1>6 DEF S, f, r

LEMMA OverdueIs ==
  ASSUME NEW rows, IsTable(rows), IsTable(offers), RowsAgree(rows, offers, nextId),
         NEW sale \in BOOLEAN
  PROVE  /\ Mk!Overdue(rows, sale) \in Int
         /\ SumFunctionOnSet(Mk!Worth(rows, sale), Settled(rows, sale))
              = SumFunctionOnSet(Mk!Worth(offers, sale), Settled(rows, sale))
                  + Mk!Overdue(rows, sale)
<1> DEFINE S == Settled(rows, sale)
           f == Mk!Worth(rows, sale)
           g == Mk!Worth(offers, sale)
           d == [i \in DOMAIN rows \intersect DOMAIN offers |->
                  (rows[i].amount - offers[i].amount) * (IF sale THEN 1 ELSE rows[i].price)]
<1>1. S \subseteq DOMAIN rows /\ S \subseteq DOMAIN offers /\ IsFiniteSet(S)
  <2>1. S \subseteq DOMAIN rows /\ S \subseteq DOMAIN offers /\ S \subseteq Mk!Ids
    BY DEF Settled, IsTable
  <2> QED BY <2>1, IdsFinite
<1>2. ASSUME NEW i \in S PROVE g[i] \in Int /\ d[i] \in Int /\ f[i] = g[i] + d[i]
  <2> DEFINE a == rows[i].amount
             b == offers[i].amount
             c == rows[i].price
  <2>1. /\ a \in Nat /\ b \in Nat /\ c \in Nat /\ offers[i].price = c /\ i \in DOMAIN rows
        /\ i \in DOMAIN offers
        /\ f[i] = IF sale THEN a ELSE a * c
        /\ g[i] = IF sale THEN b ELSE b * c
    BY <1>1, WorthIs DEF RowsAgree
  <2>2. d[i] = (a - b) * (IF sale THEN 1 ELSE c)
    BY <2>1
  <2> HIDE DEF a, b, c, d, f, g
  <2>3. CASE sale
    <3>1. (a - b) * 1 = a - b
      BY <2>1
    <3> QED BY <2>1, <2>2, <2>3, <3>1
  <2>4. CASE ~sale
    <3>1. (a - b) * c = a * c - b * c /\ a * c \in Int /\ b * c \in Int
      BY <2>1
    <3> QED BY <2>1, <2>2, <2>4, <3>1
  <2> QED BY <2>3, <2>4
<1>3. Mk!Overdue(rows, sale) = SumFunctionOnSet(d, S)
  BY MarketSum DEF Mk!Overdue, Settled, Mk!Live
<1> HIDE DEF S, f, g, d
<1>4. SumFunctionOnSet(f, S) = SumFunctionOnSet(g, S) + SumFunctionOnSet(d, S)
  BY <1>1, <1>2, SumPlus
<1>5. SumFunctionOnSet(d, S) \in Int
  BY <1>1, <1>2, SumTyped
<1> QED BY <1>3, <1>4, <1>5 DEF S, f, g

LEMMA RestIs ==
  ASSUME NEW rows, IsTable(offers), RowsAgree(rows, offers, nextId), NEW sale \in BOOLEAN
  PROVE  /\ IsTable(Rest(rows))
         /\ SumFunctionOnSet(Mk!Worth(offers, sale), Settled(rows, sale)) \in Int
         /\ SumFunctionOnSet(Holding(offers, sale), Mk!Ids)
              = SumFunctionOnSet(Mk!Worth(offers, sale), Settled(rows, sale))
                  + SumFunctionOnSet(Holding(Rest(rows), sale), Mk!Ids)
<1> DEFINE u == Rest(rows)
           S == Settled(rows, sale)
           T == {i \in DOMAIN offers : offers[i].sale = sale}
           V == {i \in DOMAIN u : u[i].sale = sale}
           f == Mk!Worth(offers, sale)
           g == Mk!Worth(u, sale)
<1>1. /\ DOMAIN u = DOMAIN offers \ DOMAIN rows
      /\ \A i \in DOMAIN u : u[i] = offers[i]
  BY DEF Rest
<1>2. IsTable(u)
  BY <1>1 DEF IsTable
<1>3. S \subseteq T /\ T \ S = V /\ T \subseteq DOMAIN offers /\ T \subseteq Mk!Ids
  BY <1>1 DEF Settled, RowsAgree, IsTable
<1>4. IsFiniteSet(T) /\ IsFiniteSet(S) /\ IsFiniteSet(V)
  BY <1>3, IdsFinite
<1>5. \A i \in T : f[i] \in Int
  BY <1>3, WorthIs
<1>6. \A i \in V : g[i] = f[i]
  BY <1>1 DEF Mk!Worth
<1>7. /\ SumFunctionOnSet(f, T) = SumFunctionOnSet(Holding(offers, sale), Mk!Ids)
      /\ SumFunctionOnSet(g, V) = SumFunctionOnSet(Holding(u, sale), Mk!Ids)
  BY <1>2, TableSum
<1> HIDE DEF u, S, T, V, f, g
<1>8. SumFunctionOnSet(f, T) = SumFunctionOnSet(f, S) + SumFunctionOnSet(f, V)
  BY <1>3, <1>4, <1>5, SumSplit
<1>9. SumFunctionOnSet(g, V) = SumFunctionOnSet(f, V)
  <2>1. \A i \in V : f[i] \in Int /\ g[i] = f[i]
    BY <1>3, <1>5, <1>6
  <2> QED BY <1>4, <2>1, SumEqual
<1>10. SumFunctionOnSet(f, S) \in Int
  <2>1. \A i \in S : f[i] \in Int
    BY <1>3, <1>5
  <2> QED BY <1>4, <2>1, SumTyped
<1> QED BY <1>2, <1>7, <1>8, <1>9, <1>10 DEF u, S, f

(* Settling an answer pays every owner out and leaves the rest of the      *)
(* table; the owners partition the offers, so what they get adds up to     *)
(* what was overdue.                                                       *)
LEMMA ProcessIs ==
  ASSUME MarketInv, NEW refused, Mk!ProcessExpiredOffers(refused), mishaps' \in 0 .. MaxMishaps
  PROVE  /\ MarketInv'
         /\ IsTable(Head(queries).rows) /\ RowsAgree(Head(queries).rows, offers, nextId)
         /\ offers' = Rest(Head(queries).rows) /\ fees' = fees /\ Mk!Settles
         /\ refused = {} =>
              \A p \in Traders :
                /\ Pieces'[p] = Pieces[p] + Shares(Head(queries).rows, TRUE)[p]
                /\ Coins'[p] = Coins[p] + Shares(Head(queries).rows, FALSE)[p]
                /\ Shares(Head(queries).rows, TRUE)[p] \in Int
                /\ Shares(Head(queries).rows, FALSE)[p] \in Int
<1> DEFINE rows == Head(queries).rows
           gifts(p) == Mk!Returned(rows, p, TRUE)
           coins(p) == Mk!Returned(rows, p, FALSE)
<1>1. /\ queries # <<>> /\ Head(queries).answered
      /\ mem' = [p \in Traders |-> IF p \in online THEN Mk!More(mem[p], coins(p), 0, gifts(p))
                                   ELSE mem[p]]
      /\ stored' = [p \in Traders |-> IF p \in online \union refused THEN stored[p]
                                      ELSE Mk!More(stored[p], coins(p), 0, gifts(p))]
      /\ offers' = Rest(rows) /\ queries' = Tail(queries)
      /\ UNCHANGED <<online, opened, inMarket, nextId, fees>>
  BY DEF Mk!ProcessExpiredOffers, Rest, Mk!Live
<1>2. queries \in Seq(Searches) /\ Len(queries) >= 1 /\ Head(queries) = queries[1]
  BY <1>1 DEF MarketInv, MarketTypes
<1>3. rows \in OfferTables /\ IsTable(rows)
  <2>1. Head(queries) \in Searches
    BY <1>2
  <2>2. Head(queries) \in [answered : {TRUE}, rows : OfferTables]
    BY <1>1, <2>1 DEF Searches
  <2>3. rows \in OfferTables
    BY <2>2
  <2> HIDE DEF rows
  <2> QED BY <2>3 DEF OfferTables, IsTable
<1>4. RowsAgree(rows, offers, nextId)
  BY <1>1, <1>2 DEF MarketInv, AnswersAgree
<1>5. \A p \in Traders : gifts(p) \in Nat /\ coins(p) \in Nat
  BY <1>3, ReturnedIs
<1>6. IsTable(offers) /\ IsTable(Rest(rows))
  <2>1. IsTable(offers)
    BY DEF MarketInv, MarketTypes, IsTable
  <2> QED BY <1>4, <2>1, RestIs
<1>20. \A p \in Traders : Shares(rows, TRUE)[p] = gifts(p) /\ Shares(rows, FALSE)[p] = coins(p)
  BY DEF Shares
<1> HIDE DEF rows, gifts, coins
<1>7. ASSUME NEW r \in Mk!Purse, NEW p \in Traders
      PROVE  /\ Mk!More(r, coins(p), 0, gifts(p)) \in Mk!Purse
             /\ Mk!More(r, coins(p), 0, gifts(p)).bank = r.bank + coins(p)
             /\ Mk!More(r, coins(p), 0, gifts(p)).chest = r.chest
             /\ Mk!More(r, coins(p), 0, gifts(p)).inbox = r.inbox + gifts(p)
  <2>1. r.bank \in Nat /\ r.chest \in Nat /\ r.inbox \in Nat
    BY DEF Mk!Purse
  <2>2. /\ r.bank + coins(p) >= 0 /\ r.chest + 0 >= 0 /\ r.inbox + gifts(p) >= 0
        /\ coins(p) \in Int /\ gifts(p) \in Int /\ r.chest + 0 = r.chest
    BY <1>5, <2>1
  <2> QED BY <2>2, MoreTyped
<1>8. ASSUME NEW p \in Traders
      PROVE  mem[p] \in Mk!Purse /\ stored[p] \in Mk!Purse
  BY DEF MarketInv, MarketTypes
<1>9. ASSUME NEW p \in Traders
      PROVE  /\ mem'[p] \in Mk!Purse /\ mem'[p].chest = mem[p].chest
             /\ stored'[p] \in Mk!Purse
  <2>1. CASE p \in online
    BY <1>1, <1>7, <1>8, <2>1
  <2>2. CASE p \notin online
    BY <1>1, <1>7, <1>8, <2>2
  <2> QED BY <2>1, <2>2
<1>10. mem' \in [Traders -> Mk!Purse] /\ stored' \in [Traders -> Mk!Purse]
  <2>1. mem' = [p \in Traders |-> mem'[p]] /\ stored' = [p \in Traders |-> stored'[p]]
    BY <1>1
  <2>2. (\A p \in Traders : mem'[p] \in Mk!Purse) /\ \A p \in Traders : stored'[p] \in Mk!Purse
    BY <1>9
  <2> QED BY Zenon, <2>1, <2>2
<1>11. /\ queries' \in Seq(Searches) /\ Len(queries') = Len(queries) - 1
       /\ \A n \in 1 .. Len(queries') : queries'[n] = queries[n + 1] /\ n + 1 \in 1 .. Len(queries)
  BY <1>1, <1>2
<1>12. MarketTypes'
  BY <1>1, <1>6, <1>10, <1>11 DEF MarketInv, MarketTypes, IsTable
<1>13. ChestUntouched'
  <2>1. ASSUME NEW p \in online \ opened PROVE mem'[p].chest = stored'[p].chest
    <3>1. p \in Traders /\ mem[p].chest = stored[p].chest
      BY DEF MarketInv, MarketTypes, ChestUntouched
    <3>2. stored'[p] = stored[p]
      BY <1>1, <3>1
    <3> QED BY <1>9, <3>1, <3>2
  <2> QED BY <1>1, <2>1 DEF ChestUntouched
<1>14. AnswersAgree'
  <2>1. /\ DOMAIN offers' \subseteq DOMAIN offers /\ \A i \in DOMAIN offers' : offers'[i] = offers[i]
    BY <1>1 DEF Rest
  <2>2. ASSUME NEW n \in 1 .. Len(queries'), queries'[n].answered
        PROVE  RowsAgree(queries'[n].rows, offers', nextId')
    <3>1. RowsAgree(queries'[n].rows, offers, nextId)
      BY <1>11, <2>2 DEF MarketInv, AnswersAgree
    <3> QED BY <1>1, <2>1, <3>1 DEF RowsAgree
  <2>3. \A i \in DOMAIN offers' : i < nextId'
    BY <1>1, <2>1 DEF MarketInv, AnswersAgree
  <2> QED BY <2>2, <2>3 DEF AnswersAgree
<1>15. ASSUME refused = {}, NEW p \in Traders
       PROVE  /\ Pieces'[p] = Pieces[p] + gifts(p) /\ Coins'[p] = Coins[p] + coins(p)
              /\ gifts(p) \in Int /\ coins(p) \in Int
  <2>1. /\ Pieces[p] = Mk!Owned(p).chest + Mk!Owned(p).inbox /\ Coins[p] = Mk!Owned(p).bank
        /\ Pieces'[p] = Mk!Owned(p)'.chest + Mk!Owned(p)'.inbox /\ Coins'[p] = Mk!Owned(p)'.bank
    BY DEF Pieces, Coins
  <2>2. Mk!Owned(p) \in Mk!Purse
    BY <1>8 DEF Mk!Owned
  <2>3. Mk!Owned(p)' = Mk!More(Mk!Owned(p), coins(p), 0, gifts(p))
    BY <1>1, <1>15 DEF Mk!Owned
  <2>4. /\ Mk!Owned(p)'.bank = Mk!Owned(p).bank + coins(p)
        /\ Mk!Owned(p)'.chest = Mk!Owned(p).chest
        /\ Mk!Owned(p)'.inbox = Mk!Owned(p).inbox + gifts(p)
    BY <1>7, <2>2, <2>3
  <2>5. Mk!Owned(p).bank \in Nat /\ Mk!Owned(p).chest \in Nat /\ Mk!Owned(p).inbox \in Nat
    BY <2>2 DEF Mk!Purse
  <2> QED BY <1>5, <2>1, <2>4, <2>5
<1>16. Mk!Settles
  BY <1>1 DEF Mk!Settles
<1>17. MarketInv'
  BY <1>12, <1>13, <1>14 DEF MarketInv
<1>18. offers' = Rest(rows) /\ fees' = fees
  BY <1>1
<1> QED BY <1>3, <1>4, <1>15, <1>16, <1>17, <1>18, <1>20 DEF rows

(* What was settled left the offers and reached its owners; what the       *)
(* offers of the answer no longer held was returned anew, which is what    *)
(* Overdue says of them.                                                   *)
LEMMA ProcessBalances ==
  ASSUME MarketInv, Mk!ProcessExpiredOffers({}), mishaps' \in 0 .. MaxMishaps
  PROVE  /\ MarketInv' /\ Mk!Settles
         /\ Mk!Goods' = Mk!Goods + Mk!Overdue(Head(queries).rows, TRUE)
         /\ Mk!Money' = Mk!Money + Mk!Overdue(Head(queries).rows, FALSE)
<1> DEFINE rows == Head(queries).rows
<1>1. /\ MarketInv' /\ IsTable(rows) /\ RowsAgree(rows, offers, nextId)
      /\ offers' = Rest(rows) /\ fees' = fees /\ Mk!Settles
      /\ \A p \in Traders :
           /\ Pieces'[p] = Pieces[p] + Shares(rows, TRUE)[p]
           /\ Coins'[p] = Coins[p] + Shares(rows, FALSE)[p]
           /\ Shares(rows, TRUE)[p] \in Int /\ Shares(rows, FALSE)[p] \in Int
  BY ProcessIs
<1> HIDE DEF rows
<1>2. IsTable(offers) /\ MarketTypes /\ MarketTypes' /\ fees \in Int
  BY <1>1 DEF MarketInv, MarketTypes, IsTable
<1>3. IsFiniteSet(Traders) /\ \A r \in Traders : Pieces[r] \in Int /\ Coins[r] \in Int
  BY <1>2, BoundsAreNumbers, OwnedTyped
<1> DEFINE P1 == SumFunctionOnSet(Pieces, Traders)
           P2 == SumFunctionOnSet(Pieces', Traders)
           PS == SumFunctionOnSet(Shares(rows, TRUE), Traders)
           C1 == SumFunctionOnSet(Coins, Traders)
           C2 == SumFunctionOnSet(Coins', Traders)
           CS == SumFunctionOnSet(Shares(rows, FALSE), Traders)
           GT == SumFunctionOnSet(Holding(offers, TRUE), Mk!Ids)
           GR == SumFunctionOnSet(Holding(Rest(rows), TRUE), Mk!Ids)
           GW == SumFunctionOnSet(Mk!Worth(offers, TRUE), Settled(rows, TRUE))
           GS == SumFunctionOnSet(Mk!Worth(rows, TRUE), Settled(rows, TRUE))
           GO == Mk!Overdue(rows, TRUE)
           MT == SumFunctionOnSet(Holding(offers, FALSE), Mk!Ids)
           MR == SumFunctionOnSet(Holding(Rest(rows), FALSE), Mk!Ids)
           MW == SumFunctionOnSet(Mk!Worth(offers, FALSE), Settled(rows, FALSE))
           MS == SumFunctionOnSet(Mk!Worth(rows, FALSE), Settled(rows, FALSE))
           MO == Mk!Overdue(rows, FALSE)
<1>4. P2 = P1 + PS /\ P1 \in Int
  BY <1>1, <1>3, SumPlus, SumTyped
<1>5. C2 = C1 + CS /\ C1 \in Int
  BY <1>1, <1>3, SumPlus, SumTyped
<1>6. PS = GS /\ CS = MS
  BY <1>1, ReturnedIs
<1>7. /\ GS = GW + GO /\ GO \in Int /\ GT = GW + GR /\ GW \in Int /\ GR \in Int
      /\ MS = MW + MO /\ MO \in Int /\ MT = MW + MR /\ MW \in Int /\ MR \in Int
  <2>1. ASSUME NEW s \in BOOLEAN
        PROVE  /\ SumFunctionOnSet(Mk!Worth(rows, s), Settled(rows, s))
                    = SumFunctionOnSet(Mk!Worth(offers, s), Settled(rows, s))
                        + Mk!Overdue(rows, s)
               /\ Mk!Overdue(rows, s) \in Int
               /\ SumFunctionOnSet(Holding(offers, s), Mk!Ids)
                    = SumFunctionOnSet(Mk!Worth(offers, s), Settled(rows, s))
                        + SumFunctionOnSet(Holding(Rest(rows), s), Mk!Ids)
               /\ SumFunctionOnSet(Mk!Worth(offers, s), Settled(rows, s)) \in Int
               /\ SumFunctionOnSet(Holding(Rest(rows), s), Mk!Ids) \in Int
    BY <1>1, <1>2, OverdueIs, RestIs, HeldSumTyped
  <2> QED BY <2>1
<1>8. /\ Mk!Goods = P1 + GT /\ Mk!Money = C1 + fees + MT
  BY <1>2, GoodsAre, MoneyIs
<1>9. /\ Mk!Goods' = P2 + GR /\ Mk!Money' = C2 + fees + MR
  BY <1>1, <1>2, GoodsWillBe, MoneyWillBe
<1> HIDE DEF P1, P2, PS, C1, C2, CS, GT, GR, GW, GS, GO, MT, MR, MW, MS, MO
<1>10. Mk!Goods' = Mk!Goods + GO
  BY <1>4, <1>6, <1>7, <1>8, <1>9
<1>11. Mk!Money' = Mk!Money + MO
  BY <1>2, <1>5, <1>6, <1>7, <1>8, <1>9
<1> QED BY <1>1, <1>10, <1>11 DEF GO, MO, rows

LEMMA NotSettled ==
  ASSUME MarketInv, Len(queries') >= Len(queries)
  PROVE  ~Mk!Settles
<1>1. queries \in Seq(Searches)
  BY DEF MarketInv, MarketTypes
<1>2. ASSUME queries # <<>>, queries' = Tail(queries) PROVE FALSE
  <2>1. Len(Tail(queries)) = Len(queries) - 1 /\ Len(queries) \in Nat
    BY <1>1, <1>2
  <2> QED BY <1>2, <2>1
<1> QED BY <1>2 DEF Mk!Settles

LEMMA SameBalances ==
  ASSUME MarketInv, Same, Len(queries') >= Len(queries)
  PROVE  Mk!Balanced
<1>1. ~Mk!Settles
  BY NotSettled
<1>2. Mk!Goods \in Int /\ Mk!Money \in Int
  <2>1. IsFiniteSet(Traders) /\ \A r \in Traders : Pieces[r] \in Int /\ Coins[r] \in Int
    BY BoundsAreNumbers, OwnedTyped DEF MarketInv
  <2>2. SumFunctionOnSet(Pieces, Traders) \in Int /\ SumFunctionOnSet(Coins, Traders) \in Int
    BY <2>1, SumTyped
  <2>3. ASSUME NEW s \in BOOLEAN PROVE SumFunctionOnSet(Holding(offers, s), Mk!Ids) \in Int
    BY HeldSumTyped DEF MarketInv, MarketTypes, IsTable
  <2>4. /\ SumFunctionOnSet(Holding(offers, TRUE), Mk!Ids) \in Int
        /\ SumFunctionOnSet(Holding(offers, FALSE), Mk!Ids) \in Int
    BY <2>3
  <2> DEFINE a == SumFunctionOnSet(Pieces, Traders)
             b == SumFunctionOnSet(Coins, Traders)
             c == SumFunctionOnSet(Holding(offers, TRUE), Mk!Ids)
             d == SumFunctionOnSet(Holding(offers, FALSE), Mk!Ids)
  <2>0. MarketTypes /\ fees \in Int
    BY DEF MarketInv, MarketTypes
  <2>5. Mk!Goods = a + c /\ Mk!Money = b + fees + d /\ fees \in Int
    BY <2>0, GoodsAre, MoneyIs
  <2>6. a \in Int /\ b \in Int /\ c \in Int /\ d \in Int
    BY <2>2, <2>4
  <2> HIDE DEF a, b, c, d
  <2> QED BY <2>5, <2>6
<1> QED BY <1>1, <1>2 DEF Same, Mk!Balanced

LEMMA HandleKeeps ==
  ASSUME MarketInv, NEW p \in Traders, Mk!Handle(p), mishaps' \in 0 .. MaxMishaps
  PROVE  MarketInv' /\ Same /\ queries' = queries
<1>1. CASE Mk!LogIn(p)
  BY <1>1, LogInKeeps
<1>2. CASE Mk!OpenDepot(p) \/ Mk!EnterMarket(p) \/ Mk!LeaveMarket(p)
  BY <1>2, OpenDepotKeeps
<1>3. ASSUME NEW amount \in Mk!Amounts, NEW price \in Prices,
             Mk!CreatePurchase(p, amount, price)
      PROVE  MarketInv' /\ Same /\ queries' = queries
  BY <1>3, CreatePurchaseKeeps
<1>4. ASSUME NEW amount \in Mk!Amounts, NEW price \in Prices, NEW c \in 0 .. amount,
             Mk!CreateSale(p, amount, price, c)
      PROVE  MarketInv' /\ Same /\ queries' = queries
  BY <1>4, CreateSaleKeeps
<1>5. ASSUME NEW i \in DOMAIN offers, Mk!Cancel(p, i)
      PROVE  MarketInv' /\ Same /\ queries' = queries
  BY <1>5, CancelKeeps
<1> QED BY <1>1, <1>2, <1>3, <1>4, <1>5 DEF Mk!Handle, Mk!Live

LEMMA HandleAndWriteKeeps ==
  ASSUME MarketInv, NEW p \in Traders, NEW refused \in BOOLEAN, Mk!HandleAndWrite(p, refused),
         mishaps' \in 0 .. MaxMishaps
  PROVE  MarketInv' /\ (~refused => Same) /\ queries' = queries
<1>1. CASE Mk!LogOut(p, refused)
  BY <1>1, LogOutKeeps
<1>2. ASSUME NEW q \in Traders, Mk!SendItem(p, q, refused)
      PROVE  MarketInv' /\ (~refused => Same) /\ queries' = queries
  BY <1>2, SendItemKeeps
<1>3. ASSUME NEW i \in DOMAIN offers, NEW amount \in Mk!Amounts,
             Mk!AcceptSale(p, i, amount, refused)
      PROVE  MarketInv' /\ (~refused => Same) /\ queries' = queries
  BY <1>3, AcceptSaleKeeps
<1>4. ASSUME NEW i \in DOMAIN offers, NEW amount \in Mk!Amounts, NEW c \in 0 .. amount,
             Mk!AcceptPurchase(p, i, amount, c, refused)
      PROVE  MarketInv' /\ (~refused => Same) /\ queries' = queries
  BY <1>4, AcceptPurchaseKeeps
<1> QED BY <1>1, <1>2, <1>3, <1>4 DEF Mk!HandleAndWrite, Mk!Live

LEMMA SmoothlyKeeps ==
  ASSUME MarketInv, Mk!Smoothly, mishaps' = mishaps
  PROVE  MarketInv' /\ Mk!Balanced
<1>0. mishaps' \in 0 .. MaxMishaps /\ queries \in Seq(Searches) /\ Len(queries) \in Nat
  BY DEF MarketInv, MarketTypes
<1>1. ASSUME NEW p \in Traders, Mk!Handle(p) PROVE MarketInv' /\ Same /\ queries' = queries
  BY <1>0, <1>1, HandleKeeps
<1>2. ASSUME NEW p \in Traders, Mk!HandleAndWrite(p, FALSE)
      PROVE  MarketInv' /\ Same /\ queries' = queries
  <2>1. FALSE \in BOOLEAN
    OBVIOUS
  <2>2. ASSUME NEW r \in BOOLEAN, r = FALSE PROVE MarketInv' /\ Same /\ queries' = queries
    BY <1>0, <1>2, <2>2, HandleAndWriteKeeps
  <2> QED BY <2>1, <2>2
<1>3. ASSUME NEW i \in Mk!Live, Mk!Expire(i) PROVE MarketInv' /\ Same /\ queries' = queries
  BY <1>0, <1>3, ExpireKeeps DEF Mk!Live
<1>4. CASE Mk!SaveGameState({})
  BY <1>0, <1>4, SaveKeeps, SameBalances
<1>5. CASE Mk!CheckExpiredOffers
  <2>1. MarketInv' /\ Same /\ Len(queries') = Len(queries) + 1
    BY <1>0, <1>5, CheckKeeps
  <2> QED BY <1>0, <2>1, SameBalances
<1>6. CASE Mk!AnswerQuery
  <2>1. MarketInv' /\ Same /\ Len(queries') = Len(queries)
    BY <1>0, <1>6, AnswerKeeps
  <2> QED BY <1>0, <2>1, SameBalances
<1>7. CASE Mk!ProcessExpiredOffers({})
  <2>1. /\ MarketInv' /\ Mk!Settles
        /\ Mk!Goods' = Mk!Goods + Mk!Overdue(Head(queries).rows, TRUE)
        /\ Mk!Money' = Mk!Money + Mk!Overdue(Head(queries).rows, FALSE)
    BY <1>0, <1>7, ProcessBalances
  <2> QED BY <2>1 DEF Mk!Balanced
<1>8. ASSUME MarketInv', Same, queries' = queries PROVE MarketInv' /\ Mk!Balanced
  BY <1>0, <1>8, SameBalances
<1> QED BY <1>1, <1>2, <1>3, <1>4, <1>5, <1>6, <1>7, <1>8 DEF Mk!Smoothly

LEMMA MishapKeeps ==
  ASSUME MarketInv, Mk!Mishap
  PROVE  MarketInv' /\ Mk!Balanced
<1>0. mishaps' \in 0 .. MaxMishaps /\ mishaps' # mishaps /\ (Mk!Crash \/ Mk!DatabaseRefuses)
  BY BoundsAreNumbers DEF Mk!Mishap, MarketInv, MarketTypes
<1>1. CASE Mk!Crash
  BY <1>0, <1>1, CrashKeeps DEF Mk!Balanced
<1>2. ASSUME NEW p \in Traders, Mk!HandleAndWrite(p, TRUE) PROVE MarketInv'
  <2>1. TRUE \in BOOLEAN
    OBVIOUS
  <2>2. ASSUME NEW r \in BOOLEAN, r = TRUE PROVE MarketInv'
    BY <1>0, <1>2, <2>2, HandleAndWriteKeeps
  <2> QED BY <2>1, <2>2
<1>3. ASSUME NEW refused, Mk!SaveGameState(refused) PROVE MarketInv'
  BY <1>0, <1>3, SaveKeeps
<1>4. ASSUME NEW refused, Mk!ProcessExpiredOffers(refused) PROVE MarketInv'
  BY <1>0, <1>4, ProcessIs
<1>5. MarketInv'
  BY <1>0, <1>1, <1>2, <1>3, <1>4 DEF Mk!DatabaseRefuses
<1> QED BY <1>0, <1>5 DEF Mk!Balanced

LEMMA MarketStarts ==
  ASSUME Mk!Init PROVE MarketInv
<1>1. /\ online = {} /\ opened = {} /\ inMarket = {}
      /\ mem = [p \in Traders |-> Mk!Empty] /\ stored = Endowment
      /\ offers = <<>> /\ nextId = 1 /\ queries = <<>> /\ fees = 0 /\ mishaps = 0
  BY DEF Mk!Init
<1>2. Mk!Empty \in Mk!Purse
  BY DEF Mk!Empty, Mk!Purse
<1>3. mem \in [Traders -> Mk!Purse] /\ stored \in [Traders -> Mk!Purse]
  BY <1>1, <1>2, MarketAssumption
<1>4. DOMAIN offers = {} /\ queries \in Seq(Searches) /\ Len(queries) = 0
  BY <1>1
<1>5. nextId \in 1 .. MaxOffers + 1 /\ fees \in Nat /\ mishaps \in 0 .. MaxMishaps
  BY <1>1, BoundsAreNumbers
<1>6. MarketTypes
  BY <1>1, <1>3, <1>4, <1>5 DEF MarketTypes
<1>7. ChestUntouched /\ AnswersAgree
  BY <1>1, <1>4 DEF ChestUntouched, AnswersAgree
<1> QED BY <1>6, <1>7 DEF MarketInv

(* MarketInv holds while the market runs, and every step of it balances.   *)
MarketSafe == part = "market" => MarketInv

LEMMA MarketStep ==
  ASSUME MarketSafe, [MCNext]_allVars
  PROVE  MarketSafe' /\ [part = "market" => Mk!TypeOK /\ Mk!Balanced]_allVars
<1>1. CASE MarketNext
  <2>1. part = "market" /\ part' = part /\ Mk!Next /\ MarketInv
    BY <1>1 DEF MarketNext, MarketSafe
  <2>2. MarketInv' /\ Mk!Balanced
    BY <2>1, SmoothlyKeeps, MishapKeeps DEF Mk!Next
  <2>3. Mk!TypeOK
    BY <2>1, MarketTypesHold DEF MarketInv
  <2> QED BY <2>1, <2>2, <2>3 DEF MarketSafe
<1>2. CASE part # "market" /\ part' = part
  BY <1>2 DEF MarketSafe
<1>3. CASE UNCHANGED allVars
  <2>1. part' = part /\ UNCHANGED marketVars
    BY <1>3 DEF allVars
  <2>2. MarketInv => MarketInv'
    BY <2>1 DEF MarketInv, MarketTypes, ChestUntouched, AnswersAgree, marketVars
  <2> QED BY <1>3, <2>1, <2>2 DEF MarketSafe
<1>4. MarketNext \/ (part # "market" /\ part' = part) \/ UNCHANGED allVars
  BY DEF MCNext, TradeNext, TileNext, InventoryNext, DecayNext, ShopsNext, SavingNext
<1> QED BY <1>1, <1>2, <1>3, <1>4

(* Goods and money only change hands, for any players, endowments, prices, *)
(* fee and numbers of offers and searches: no step of the market, of the   *)
(* mail or of the saving of players makes or destroys any of them, except  *)
(* a crash or a write that the database refuses, and except for what an    *)
(* expired offer had lost between the search that found it and the answer, *)
(* which is paid out twice (game.cpp, iomarket.cpp, iologindata.cpp).      *)
THEOREM TheLedgerBalances == MCSpec => LedgerBalances
<1>1. MCInit => MarketSafe
  BY MarketStarts DEF MCInit, MarketSafe
<1>2. MarketSafe /\ [MCNext]_allVars
        => MarketSafe' /\ [part = "market" => Mk!TypeOK /\ Mk!Balanced]_allVars
  BY MarketStep
<1> QED BY <1>1, <1>2, PTL DEF MCSpec, LedgerBalances
=============================================================================
