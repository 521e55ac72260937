-------------------------------- MODULE Shops ---------------------------------
(***************************************************************************)
(* The shops of the NPCs (npc.cpp, player.cpp, game.cpp): the windows that *)
(* a script opens for a player, the two Lua functions that are kept in the *)
(* registry as long as a window is open, and the coins and goods that      *)
(* change hands.  A player's window, its shop owner, the NPC's set of      *)
(* shoppers and the references in the registry are kept apart, in four     *)
(* places, and are to agree.                                               *)
(*                                                                         *)
(* The scripts of the NPCs are not part of the repository: one may open a  *)
(* window for anybody, close it, take money for goods and goods for money, *)
(* and open a window again while it hears that one is being closed.        *)
(***************************************************************************)
EXTENDS Naturals, Sequences, FiniteSets, FiniteSetsExt

CONSTANTS
  Players,
  Npcs,
  None,
  Purses,        (* the coins the players may have first                   *)
  Wealth,        (* what they are worth                                    *)
  Ratio,         (* of a coin to the next smaller one, and a stack: 100    *)
  Places,        (* how many stacks and pieces a player has room for       *)
  Prices,        (* of a piece: what it costs, what is given for it        *)
  Amounts,       (* how many pieces are asked for at once                  *)
  MaxReopens,    (* bound: windows opened while one is being closed        *)
  MaxFailures    (* bound: windows opened for players who are not there    *)

VARIABLES
  online,        (* the players in the game                                *)
  alive,         (* the NPCs in the game                                   *)
  owner,         (* Player::shopOwner                                      *)
  calls,         (* purchaseCallback and saleCallback, those that are set  *)
  listed,        (* has the player a shopItemList?                         *)
  window,        (* the shop the client shows                              *)
  shoppers,      (* Npc::shopPlayerSet                                     *)
  refs,          (* references in the registry, by the player of a window  *)
  purse,         (* the stacks of coins, in the order they are found       *)
  goods,         (* pieces of what is traded                               *)
  shown,         (* money and goods in the last sale list                  *)
  ground,        (* what change and goods found no room                    *)
  paid,          (* history: what was paid, less what was given for goods  *)
  taken,         (* history: pieces sold to the player, less those bought  *)
  tangled,       (* history: players with a window opened in between       *)
  failures       (* history: references of windows that did not come up    *)

shopVars ==
  <<online, alive, owner, calls, listed, window, shoppers, refs, purse, goods, shown,
    ground, paid, taken, tangled, failures>>

Callbacks == {{"sell"}, {"buy", "sell"}}
Units == {1, Ratio, Ratio * Ratio}
Worth(s) == s.unit * s.count
Total(stacks) == MapThenSumSet(LAMBDA i : Worth(stacks[i]), DOMAIN stacks)

TypeOK ==
  /\ online \subseteq Players /\ alive \subseteq Npcs
  /\ owner \in [Players -> Npcs \cup {None}] /\ window \in [Players -> Npcs \cup {None}]
  /\ calls \in [Players -> {{}} \cup Callbacks] /\ listed \in [Players -> BOOLEAN]
  /\ shoppers \in [Npcs -> SUBSET Players] /\ tangled \subseteq Players
  /\ \A p \in Players :
       /\ refs[p] \in Nat /\ goods[p] \in Nat /\ taken[p] \in Nat
       /\ \A i \in DOMAIN purse[p] : purse[p][i].unit \in Units /\ purse[p][i].count \in 1 .. Ratio
       /\ shown[p] \in [money : Nat, goods : Nat]
  /\ ground \in [money : Nat, goods : Nat]
  /\ failures \in 0 .. MaxFailures

Init ==
  /\ online = Players /\ alive = Npcs
  /\ owner = [p \in Players |-> None] /\ window = owner
  /\ calls = [p \in Players |-> {}] /\ listed = [p \in Players |-> FALSE]
  /\ shoppers = [n \in Npcs |-> {}] /\ refs = [p \in Players |-> 0]
  /\ purse \in Purses /\ goods = [p \in Players |-> 0]
  /\ shown = [p \in Players |-> [money |-> 0, goods |-> 0]]
  /\ ground = [money |-> 0, goods |-> 0]
  /\ paid = 0 /\ taken = [p \in Players |-> 0]
  /\ tangled = {} /\ failures = 0
-----------------------------------------------------------------------------
(* Windows.  A handler is a function of the four places, because a script  *)
(* that is called in between may call the handler again.                   *)
Now == [owner |-> owner, calls |-> calls, listed |-> listed, window |-> window,
        shoppers |-> shoppers, refs |-> refs]

(* setShopOwner(), addShopPlayer() and openShopWindow(), once what was     *)
(* open is closed.                                                         *)
Opened(w, p, n, c) ==
  [w EXCEPT !.owner[p] = n, !.calls[p] = c, !.listed[p] = TRUE, !.window[p] = n,
            !.shoppers[n] = @ \cup {p}, !.refs[p] = @ + Cardinality(c)]

(* Unreferenced is luaL_unref() for the callbacks that were set.           *)
Unreferenced(w, p) == w.refs[p] - Cardinality(w.calls[p])

(* Player::closeShopWindow(): the player has no owner any more when the    *)
(* script hears of it, and no list when the script is done.  Again is the  *)
(* NPC whose window the script opens then, or None.                        *)
Closed(w, p, again, send) ==
  IF w.owner[p] = None THEN [w EXCEPT !.listed[p] = FALSE]
  ELSE LET left == [w EXCEPT !.owner[p] = None, !.calls[p] = {},
                             !.refs[p] = Unreferenced(w, p),
                             !.shoppers[w.owner[p]] = @ \ {p}]
           heard == IF again = None THEN left ELSE Opened(left, p, again, {"sell"})
       IN [heard EXCEPT !.listed[p] = FALSE, !.window[p] = IF send THEN None ELSE @]

Becomes(w) ==
  /\ owner' = w.owner /\ calls' = w.calls /\ listed' = w.listed
  /\ window' = w.window /\ shoppers' = w.shoppers /\ refs' = w.refs

(* The script of the shop p has open may use its chance, a bounded number  *)
(* of times.                                                               *)
Again(p) == {None} \cup
  (IF owner[p] = None \/ Cardinality(tangled) = MaxReopens THEN {} ELSE alive)
Tangles(p, again) == tangled' = IF again = None THEN tangled ELSE tangled \cup {p}

(* sendSaleItemList(): the money and what can be sold.                     *)
Lists(p, stacks, n) ==
  shown' = [shown EXCEPT ![p] = [money |-> Total(stacks), goods |-> n]]

(* openShopWindow(): a script may open it for any player in the game.      *)
OpenShop(p, n, c) ==
  /\ p \in online /\ n \in alive
  /\ \E again \in Again(p) :
       Becomes(Opened(Closed(Now, p, again, FALSE), p, n, c)) /\ Tangles(p, again)
  /\ Lists(p, purse[p], goods[p])
  /\ UNCHANGED <<online, alive, purse, goods, ground, paid, taken, failures>>

(* The older openShopWindow() takes its references before it looks for the *)
(* player, and gives them to nobody if there is none.                      *)
OpenFails(p, c) ==
  /\ p \notin online /\ failures < MaxFailures
  /\ refs' = [refs EXCEPT ![p] = @ + Cardinality(c)]
  /\ failures' = failures + 1
  /\ UNCHANGED <<online, alive, owner, calls, listed, window, shoppers, purse, goods,
                 shown, ground, paid, taken, tangled>>

(* closeShopWindow() of a script: it does nothing unless the player is in  *)
(* this NPC's shop, tells no script, and leaves the list.                  *)
CloseByScript(p, n) ==
  /\ p \in online /\ n \in alive /\ owner[p] = n
  /\ Becomes([Now EXCEPT !.owner[p] = None, !.calls[p] = {}, !.window[p] = None,
                         !.refs[p] = Unreferenced(Now, p), !.shoppers[n] = @ \ {p}])
  /\ UNCHANGED <<online, alive, purse, goods, shown, ground, paid, taken, tangled, failures>>

(* playerCloseShop().                                                      *)
CloseByClient(p) ==
  /\ p \in online
  /\ \E again \in Again(p) :
       Becomes(Closed(Now, p, again, TRUE)) /\ Tangles(p, again)
  /\ UNCHANGED <<online, alive, purse, goods, shown, ground, paid, taken, failures>>

(* A player leaves the game, in whatever shop it is.                       *)
Leave(p) ==
  /\ p \in online
  /\ online' = online \ {p}
  /\ \E again \in Again(p) :
       Becomes(Closed(Now, p, again, TRUE)) /\ Tangles(p, again)
  /\ UNCHANGED <<alive, purse, goods, shown, ground, paid, taken, failures>>

(* closeAllShopWindows() takes one shopper after the other until there is  *)
(* none; a shopper who is in no shop, or in another one, is dropped.       *)
AllClosed(n) ==
  LET In(p) == owner[p] # None /\ p \in shoppers[n] IN
  [owner |-> [p \in Players |-> IF In(p) THEN None ELSE owner[p]],
   calls |-> [p \in Players |-> IF In(p) THEN {} ELSE calls[p]],
   listed |-> [p \in Players |-> listed[p] /\ p \notin shoppers[n]],
   window |-> [p \in Players |-> IF In(p) THEN None ELSE window[p]],
   shoppers |-> [m \in Npcs |-> IF m = n THEN {}
                   ELSE shoppers[m] \ {p \in Players : In(p) /\ owner[p] = m}],
   refs |-> [p \in Players |-> IF In(p) THEN Unreferenced(Now, p) ELSE refs[p]]]

(* An NPC is removed.  One whose set still names a player who left with a  *)
(* tangled window would follow a stale pointer: it stays.                  *)
RemoveNpc(n) ==
  /\ n \in alive /\ shoppers[n] \subseteq online
  /\ alive' = alive \ {n}
  /\ Becomes(AllClosed(n))
  /\ UNCHANGED <<online, purse, goods, shown, ground, paid, taken, tangled, failures>>

(* Npcs::reload() closes every window first, and then every NPC begins     *)
(* anew, with no shoppers.                                                 *)
ReloadNpcs ==
  /\ \A n \in alive : shoppers[n] \subseteq online
  /\ \E p \in Players : owner[p] # None
  /\ Becomes([owner |-> [p \in Players |-> None], calls |-> [p \in Players |-> {}],
              listed |-> [p \in Players |-> listed[p] /\ \A n \in alive : p \notin shoppers[n]],
              window |-> [p \in Players |-> IF owner[p] = None THEN window[p] ELSE None],
              shoppers |-> [n \in Npcs |-> IF n \in alive THEN {} ELSE shoppers[n]],
              refs |-> [p \in Players |-> Unreferenced(Now, p)]])
  /\ UNCHANGED <<online, alive, purse, goods, shown, ground, paid, taken, tangled, failures>>
-----------------------------------------------------------------------------
(* Money.                                                                  *)

(* The coins are taken by what a stack is worth, the least first.          *)
Before(stacks, i) ==
  {j \in DOMAIN stacks : \/ Worth(stacks[j]) < Worth(stacks[i])
                         \/ Worth(stacks[j]) = Worth(stacks[i]) /\ j < i}
Owed(stacks, price, i) ==
  LET sum == MapThenSumSet(LAMBDA j : Worth(stacks[j]), Before(stacks, i))
  IN IF sum > price THEN 0 ELSE price - sum

(* The stack at which the price is reached.                                *)
LastStack(stacks, price) ==
  CHOOSE i \in DOMAIN stacks :
    /\ Owed(stacks, price, i) > 0 /\ Worth(stacks[i]) >= Owed(stacks, price, i)
    /\ \A j \in Before(stacks, i) : Worth(stacks[j]) < Owed(stacks, price, j)

(* How many coins of a stack are broken for what is owed of it.            *)
RemoveCount(owed, unit) == owed \div unit + 1

(* The coins a sum is given in, the largest first.                         *)
CoinsOf(money) ==
  LET rest == money % (Ratio * Ratio)
  IN SelectSeq(<<[unit |-> Ratio * Ratio, count |-> money \div (Ratio * Ratio)],
                 [unit |-> Ratio, count |-> rest \div Ratio],
                 [unit |-> 1, count |-> rest % Ratio]>>, LAMBDA s : s.count > 0)

(* A stack joins another of its kind, or takes a place, or finds none and  *)
(* is put on the ground.                                                   *)
Room(stacks, n) == Places - (Len(stacks) + n)
PutStack(w, s, n) ==
  LET same == {i \in DOMAIN w.stacks : w.stacks[i].unit = s.unit /\ w.stacks[i].count < Ratio}
      i == Min(same)
      fits == Min({s.count, Ratio - w.stacks[i].count})
      rest == s.count - fits
  IN IF same # {} /\ (rest = 0 \/ Room(w.stacks, n) > 0)
     THEN [w EXCEPT !.stacks = LET joined == [@ EXCEPT ![i].count = @ + fits]
                               IN IF rest = 0 THEN joined
                                  ELSE Append(joined, [s EXCEPT !.count = rest])]
     ELSE IF same = {} /\ Room(w.stacks, n) > 0
     THEN [w EXCEPT !.stacks = Append(@, s)]
     ELSE [w EXCEPT !.dropped = @ + Worth(s)]

(* addMoney(), for a player with n pieces of other things.                 *)
AddMoney(w, money, n) ==
  LET coins == CoinsOf(money)
      after[k \in 0 .. Len(coins)] == IF k = 0 THEN w ELSE PutStack(after[k - 1], coins[k], n)
  IN after[Len(coins)]

(* removeMoney(), for a player who has it: the stacks before the last go,  *)
(* then the change is given, and then the coins it was given for are taken *)
(* from the last, which may have grown by the change.                      *)
Purged(stacks) == SelectSeq(stacks, LAMBDA s : s.count > 0)
Taken(stacks, last, owed, n) ==
  LET unit == stacks[last].unit
      broken == RemoveCount(owed, unit)
      kept(i) == i \notin Before(stacks, last) \cup {last}
      place == Cardinality({i \in DOMAIN stacks : kept(i) /\ i < last}) + 1
      left == Purged([i \in DOMAIN stacks |->
                IF kept(i) \/ (i = last /\ Worth(stacks[i]) > owed) THEN stacks[i]
                ELSE [stacks[i] EXCEPT !.count = 0]])
      whole == Worth(stacks[last]) = owed
      given == AddMoney([stacks |-> left, dropped |-> 0],
                        IF whole THEN 0 ELSE unit * broken - owed, n)
  IN IF whole THEN given
     ELSE [given EXCEPT !.stacks = Purged([@ EXCEPT ![place].count = @ - broken])]
RemoveMoney(stacks, price, n) ==
  LET last == LastStack(stacks, price)
  IN Taken(stacks, last, Owed(stacks, price, last), n)

(* doSellItem(): piece by piece, until there is no more room.              *)
Sold(free, amount, drop) == IF drop THEN amount ELSE Min({amount, free})
-----------------------------------------------------------------------------
(* The script takes the money and hands out the goods.                     *)
Pays(p, cost, rest, n, sold) ==
  /\ purse' = [purse EXCEPT ![p] = rest.stacks]
  /\ goods' = [goods EXCEPT ![p] = @ + n]
  /\ ground' = [money |-> ground.money + rest.dropped, goods |-> ground.goods + sold - n]
  /\ paid' = paid + cost
  /\ taken' = [taken EXCEPT ![p] = @ + sold]
  /\ Lists(p, rest.stacks, goods[p] + n)

(* A callback that is not set, or that finds too little, changes nothing,  *)
(* and the list is sent.                                                   *)
NoDeal(p) == UNCHANGED <<purse, goods, ground, paid, taken>> /\ Lists(p, purse[p], goods[p])

(* hasShopItemForSale().                                                   *)
OnTheList(p) == listed[p]

(* playerPurchaseItem(): what the client asks for is on the list of the    *)
(* shop that is open.                                                      *)
Buy(p, amount, drop) ==
  LET cost == amount * Prices.buy IN
  /\ p \in online /\ owner[p] # None /\ OnTheList(p)
  /\ IF "buy" \notin calls[p] \/ Total(purse[p]) < cost THEN NoDeal(p)
     ELSE \E rest \in {RemoveMoney(purse[p], cost, goods[p])} :
          \E free \in {Room(rest.stacks, goods[p])} :
            Pays(p, cost, rest, Min({free, amount}), Sold(free, amount, drop))
  /\ UNCHANGED <<online, alive, owner, calls, listed, window, shoppers, refs, tangled,
                 failures>>

(* removeItemOfType() takes all the pieces or none.                        *)
HasPieces(p, amount) == goods[p] >= amount

(* playerSellItem(): the script takes the pieces and gives money for them. *)
Sell(p, amount) ==
  LET price == amount * Prices.sell
      left == goods[p] - amount
  IN /\ p \in online /\ owner[p] # None
     /\ IF "sell" \notin calls[p] \/ ~HasPieces(p, amount) THEN NoDeal(p)
        ELSE \E rest \in {AddMoney([stacks |-> purse[p], dropped |-> 0], price, left)} :
             /\ purse' = [purse EXCEPT ![p] = rest.stacks]
             /\ goods' = [goods EXCEPT ![p] = left]
             /\ ground' = [ground EXCEPT !.money = @ + rest.dropped]
             /\ paid' = paid - price
             /\ taken' = [taken EXCEPT ![p] = @ - amount]
             /\ Lists(p, rest.stacks, left)
     /\ UNCHANGED <<online, alive, owner, calls, listed, window, shoppers, refs, tangled,
                    failures>>

(* Coins are found on the ground, or spent elsewhere; the sale list is     *)
(* sent again, because they are coins (updateSaleShopList()).              *)
Spend(p) ==
  /\ p \in online /\ purse[p] # <<>>
  /\ purse' = [purse EXCEPT ![p] = Tail(@)]
  /\ ground' = [ground EXCEPT !.money = @ + Worth(Head(purse[p]))]
  /\ IF owner[p] # None THEN Lists(p, Tail(purse[p]), goods[p]) ELSE UNCHANGED shown
  /\ UNCHANGED <<online, alive, owner, calls, listed, window, shoppers, refs, goods, paid,
                 taken, tangled, failures>>

Windows ==
  \E p \in Players :
    \/ \E n \in Npcs, c \in Callbacks : OpenShop(p, n, c)
    \/ \E c \in Callbacks \ {{}} : OpenFails(p, c)
    \/ \E n \in Npcs : CloseByScript(p, n)
    \/ CloseByClient(p)
    \/ Leave(p)
Trades ==
  \E p \in Players :
    \/ \E m \in Amounts, drop \in BOOLEAN : Buy(p, m, drop)
    \/ \E m \in Amounts : Sell(p, m)
    \/ Spend(p)
Removals == ReloadNpcs \/ \E n \in Npcs : RemoveNpc(n)
Gone == (online = {} \/ alive = {}) /\ UNCHANGED shopVars

Next == Windows \/ Trades \/ Removals \/ Gone
-----------------------------------------------------------------------------
(* A player's shop owner is in the game and knows of the player, whatever  *)
(* the scripts do while a window is being closed; and a player whose       *)
(* window never was opened in between is in one shop at most, the one its  *)
(* client shows, and nowhere once it has left.                             *)
OwnersAreLive ==
  \A p \in Players :
    /\ owner[p] # None => owner[p] \in alive /\ p \in shoppers[owner[p]]
    /\ p \notin tangled =>
         /\ \A n \in Npcs : p \in shoppers[n] <=> owner[p] = n
         /\ window[p] = owner[p] /\ (owner[p] # None => listed[p] /\ p \in online)

(* A callback that may be called is referenced, and no reference is left   *)
(* over, but for a window opened in between and one that did not come up.  *)
ReferencesAreKept ==
  \A p \in Players :
    /\ refs[p] >= Cardinality(calls[p])
    /\ p \notin tangled /\ failures = 0 => refs[p] = Cardinality(calls[p])

(* No coin is lost or made: the change is right, whatever the stacks and   *)
(* the room; and every piece that was counted as sold is somewhere.        *)
NothingIsLost ==
  /\ MapThenSumSet(LAMBDA p : Total(purse[p]), Players) + ground.money + paid = Wealth
  /\ MapThenSumSet(LAMBDA p : taken[p], Players)
       = MapThenSumSet(LAMBDA p : goods[p], Players) + ground.goods

(* What the client was told it has is what it has, as long as it is in a   *)
(* shop.                                                                   *)
ListsAreCurrent ==
  \A p \in Players : window[p] = owner[p] /\ owner[p] # None =>
    shown[p] = [money |-> Total(purse[p]), goods |-> goods[p]]

ShopsAreSound == OwnersAreLive /\ ReferencesAreKept /\ NothingIsLost /\ ListsAreCurrent
=============================================================================
