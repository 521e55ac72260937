-------------------------------- MODULE Market --------------------------------
(***************************************************************************)
(* The market (game.cpp, iomarket.cpp), the mail, and the two places where *)
(* the property of a player is kept: the Player object while it is in the  *)
(* game, its rows in the database (iologindata.cpp) while it is not.       *)
(*                                                                         *)
(* The offers live in the database only, and every handler works on them   *)
(* at once, on the dispatcher thread.  The exception is the search for     *)
(* expired offers: its SELECT is a task of the database thread, and its    *)
(* answer reaches the dispatcher later, when the offers may have changed.  *)
(*                                                                         *)
(* One kind of item is traded; a save writes all tables of a player in one *)
(* transaction, so that it happens or is refused as a whole.  The player's *)
(* other belongings are left out.                                          *)
(***************************************************************************)
EXTENDS Integers, Sequences, FiniteSets, Functions

CONSTANTS
  Players,
  Prices,          (* price of one piece                                   *)
  Fee,             (* what an offer costs, between 20 and 1000 in the code *)
  Endowment,       (* what each player owns first: bank, chest and inbox    *)
  MaxAmount,       (* bound: pieces in one offer                           *)
  MaxOffers,       (* bound: offers ever made                              *)
  MaxPerPlayer,    (* MAX_MARKET_OFFERS_AT_A_TIME_PER_PLAYER               *)
  MaxQueries,      (* bound: searches for expired offers under way         *)
  MaxMishaps       (* bound: crashes and writes that the database refuses  *)

VARIABLES
  online,          (* the players in Game::players                         *)
  mem,             (* bank, depot chest and inbox of the Player objects    *)
  stored,          (* the same in the database                             *)
  opened,          (* those whose lastDepotId is not -1                    *)
  inMarket,        (* Player::inMarket                                     *)
  offers,          (* the table market_offers, by id                       *)
  nextId,
  queries,         (* searches: "asked", or the rows that were found       *)
  fees,            (* what the offers have cost so far                     *)
  mishaps          (* crashes and refused writes so far                    *)

marketVars ==
  <<online, mem, stored, opened, inMarket, offers, nextId, queries, fees, mishaps>>

Ids == 1 .. MaxOffers
Amounts == 1 .. MaxAmount
Purse == [bank : Nat, chest : Nat, inbox : Nat]
Empty == [bank |-> 0, chest |-> 0, inbox |-> 0]
Offer == [owner : Players, sale : BOOLEAN, amount : Amounts, price : Prices,
          old : BOOLEAN]
Live == DOMAIN offers

TypeOK ==
  /\ online \subseteq Players /\ opened \subseteq online
  /\ mem \in [Players -> Purse] /\ stored \in [Players -> Purse]
  /\ inMarket \subseteq opened
  /\ Live \subseteq Ids /\ \A i \in Live : offers[i] \in Offer
  /\ nextId \in 1 .. MaxOffers + 1
  /\ \A n \in 1 .. Len(queries) :
       \/ queries[n].answered = FALSE
       \/ /\ DOMAIN queries[n].rows \subseteq Ids
          /\ \A i \in DOMAIN queries[n].rows : queries[n].rows[i] \in Offer
  /\ fees \in Nat /\ mishaps \in 0 .. MaxMishaps

Init ==
  /\ online = {} /\ opened = {} /\ inMarket = {}
  /\ mem = [p \in Players |-> Empty]
  /\ stored = Endowment
  /\ offers = << >> /\ nextId = 1
  /\ queries = << >>
  /\ fees = 0 /\ mishaps = 0
-----------------------------------------------------------------------------
Without(f, i) == [j \in DOMAIN f \ {i} |-> f[j]]

(* What IOLoginData::savePlayer leaves in the database for the purse r: it *)
(* skips the depot of a player who has opened none since he came.          *)
Saved(p, r) == IF p \in opened THEN r ELSE [r EXCEPT !.chest = stored[p].chest]

(* What p owns now, wherever it is kept.                                   *)
Owned(p) == IF p \in online THEN mem[p] ELSE stored[p]

More(r, bank, chest, inbox) ==
  [bank |-> r.bank + bank, chest |-> r.chest + chest, inbox |-> r.inbox + inbox]

(* p is given bank money or goods for the inbox: in memory when it is in   *)
(* the game, else in the database, by an UPDATE or by loading and saving   *)
(* the player, unless the database refuses that.                           *)
Given(p, bank, inbox, refused) ==
  IF p \in online
  THEN /\ mem' = [mem EXCEPT ![p] = More(@, bank, 0, inbox)]
       /\ UNCHANGED stored
  ELSE /\ stored' = IF refused THEN stored
                    ELSE [stored EXCEPT ![p] = More(@, bank, 0, inbox)]
       /\ UNCHANGED mem

(* getMarketItemList: enough pieces in the chest and the inbox together;   *)
(* c of them are taken from the chest.                                     *)
Takes(p, amount, c) ==
  /\ c <= amount /\ mem[p].chest >= c /\ mem[p].inbox >= amount - c
-----------------------------------------------------------------------------
(* loadPlayer, when the player is placed in the game.                      *)
LogIn(p) ==
  /\ p \notin online
  /\ online' = online \union {p}
  /\ mem' = [mem EXCEPT ![p] = stored[p]]
  /\ UNCHANGED <<stored, opened, inMarket, offers, nextId, queries, fees>>

(* Player::onRemoveCreature: three tries to save, then it is given up.     *)
LogOut(p, refused) ==
  /\ p \in online
  /\ stored' = IF refused THEN stored ELSE [stored EXCEPT ![p] = Saved(p, mem[p])]
  /\ online' = online \ {p}
  /\ opened' = opened \ {p}
  /\ inMarket' = inMarket \ {p}
  /\ mem' = [mem EXCEPT ![p] = Empty]
  /\ UNCHANGED <<offers, nextId, queries, fees>>

(* Game::saveGameState: a transaction for each player, some are refused.   *)
SaveGameState(refused) ==
  /\ refused \subseteq online
  /\ stored' = [p \in Players |-> IF p \in online \ refused THEN Saved(p, mem[p])
                                  ELSE stored[p]]
  /\ UNCHANGED <<online, mem, opened, inMarket, offers, nextId, queries, fees>>

(* The server dies: what was not saved is gone, and so are the tasks.      *)
Crash ==
  /\ online # {}
  /\ online' = {} /\ opened' = {} /\ inMarket' = {}
  /\ mem' = [p \in Players |-> Empty]
  /\ queries' = << >>
  /\ UNCHANGED <<stored, offers, nextId, fees>>

OpenDepot(p) ==
  /\ p \in online \ opened
  /\ opened' = opened \union {p}
  /\ UNCHANGED <<online, mem, stored, inMarket, offers, nextId, queries, fees>>

(* Mailbox::sendItem: a parcel from the chest of p goes to the inbox of q. *)
SendItem(p, q, refused) ==
  /\ p \in opened /\ mem[p].chest > 0
  /\ IF q \in online
     THEN /\ refused = FALSE
          /\ mem' = [[mem EXCEPT ![p] = More(@, 0, -1, 0)] EXCEPT ![q] = More(@, 0, 0, 1)]
          /\ UNCHANGED stored
     ELSE /\ mem' = [mem EXCEPT ![p] = More(@, 0, -1, 0)]
          /\ stored' = IF refused THEN stored ELSE [stored EXCEPT ![q] = More(@, 0, 0, 1)]
  /\ UNCHANGED <<online, opened, inMarket, offers, nextId, queries, fees>>

EnterMarket(p) ==
  /\ p \in opened \ inMarket
  /\ inMarket' = inMarket \union {p}
  /\ UNCHANGED <<online, mem, stored, opened, offers, nextId, queries, fees>>

(* The window is closed, or the player moves.                              *)
LeaveMarket(p) ==
  /\ p \in inMarket
  /\ inMarket' = inMarket \ {p}
  /\ UNCHANGED <<online, mem, stored, opened, offers, nextId, queries, fees>>

(* The goods in offers to sell, the money in offers to buy.                *)
Worth(table, sale) ==
  [i \in DOMAIN table |-> IF sale THEN table[i].amount ELSE table[i].amount * table[i].price]

OfferCount(p) == Cardinality({i \in Live : offers[i].owner = p})

Put(p, sale, amount, price) ==
  /\ offers' = [i \in Live \union {nextId} |->
                 IF i = nextId THEN [owner |-> p, sale |-> sale, amount |-> amount,
                                     price |-> price, old |-> FALSE]
                 ELSE offers[i]]
  /\ nextId' = nextId + 1
  /\ fees' = fees + Fee
  /\ UNCHANGED <<online, stored, opened, inMarket, queries>>

(* playerCreateMarketOffer                                                 *)
CreateSale(p, amount, price, c) ==
  /\ nextId \in Ids /\ p \in inMarket /\ OfferCount(p) < MaxPerPlayer
  /\ mem[p].bank >= Fee /\ Takes(p, amount, c)
  /\ mem' = [mem EXCEPT ![p] = More(@, -Fee, -c, c - amount)]
  /\ Put(p, TRUE, amount, price)

CreatePurchase(p, amount, price) ==
  /\ nextId \in Ids /\ p \in inMarket /\ OfferCount(p) < MaxPerPlayer
  /\ mem[p].bank >= amount * price + Fee
  /\ mem' = [mem EXCEPT ![p] = More(@, -(amount * price + Fee), 0, 0)]
  /\ Put(p, FALSE, amount, price)

(* playerCancelMarketOffer                                                 *)
Cancel(p, i) ==
  /\ p \in inMarket /\ i \in Live /\ offers[i].owner = p
  /\ LET o == offers[i] IN
     IF o.sale THEN Given(p, 0, o.amount, FALSE) ELSE Given(p, o.amount * o.price, 0, FALSE)
  /\ offers' = Without(offers, i)
  /\ UNCHANGED <<online, opened, inMarket, nextId, queries, fees>>

(* acceptOffer takes its amount off the row, deleteOffer takes the row.    *)
Reduced(i, amount) ==
  IF offers[i].amount = amount THEN Without(offers, i)
  ELSE [offers EXCEPT ![i].amount = @ - amount]

(* playerAcceptMarketOffer: p sells to the owner of a purchase offer.  The *)
(* owner need not be in the game; it may be p itself.                      *)
AcceptPurchase(p, i, amount, c, refused) ==
  /\ p \in inMarket /\ i \in Live /\ ~offers[i].sale /\ amount <= offers[i].amount
  /\ Takes(p, amount, c)
  /\ LET q == offers[i].owner
         paid == [mem EXCEPT ![p] = More(@, amount * offers[i].price, -c, c - amount)] IN
     IF q \in online
     THEN /\ refused = FALSE
          /\ mem' = [paid EXCEPT ![q] = More(@, 0, 0, amount)]
          /\ UNCHANGED stored
     ELSE /\ mem' = paid
          /\ stored' = IF refused THEN stored
                       ELSE [stored EXCEPT ![q] = More(@, 0, 0, amount)]
  /\ offers' = Reduced(i, amount)
  /\ UNCHANGED <<online, opened, inMarket, nextId, queries, fees>>

(* ... or buys from the owner of a sale.                                   *)
AcceptSale(p, i, amount, refused) ==
  /\ p \in inMarket /\ i \in Live /\ offers[i].sale /\ amount <= offers[i].amount
  /\ mem[p].bank >= amount * offers[i].price
  /\ LET q == offers[i].owner
         price == amount * offers[i].price
         bought == [mem EXCEPT ![p] = More(@, -price, 0, amount)] IN
     IF q \in online
     THEN /\ refused = FALSE
          /\ mem' = [bought EXCEPT ![q] = More(@, price, 0, 0)]
          /\ UNCHANGED stored
     ELSE /\ mem' = bought
          /\ stored' = IF refused THEN stored ELSE [stored EXCEPT ![q] = More(@, price, 0, 0)]
  /\ offers' = Reduced(i, amount)
  /\ UNCHANGED <<online, opened, inMarket, nextId, queries, fees>>
-----------------------------------------------------------------------------
(* MARKET_OFFER_DURATION has passed since the offer was made.              *)
Expire(i) ==
  /\ i \in Live /\ ~offers[i].old
  /\ offers' = [offers EXCEPT ![i].old = TRUE]
  /\ UNCHANGED <<online, mem, stored, opened, inMarket, nextId, queries, fees>>

(* checkExpiredOffers: the SELECT is given to the database thread ...      *)
CheckExpiredOffers ==
  /\ Len(queries) < MaxQueries
  /\ queries' = Append(queries, [answered |-> FALSE])
  /\ UNCHANGED <<online, mem, stored, opened, inMarket, offers, nextId, fees>>

(* ... which runs its tasks in order and hands the rows to the dispatcher. *)
AnswerQuery ==
  /\ \E n \in 1 .. Len(queries) :
       /\ ~queries[n].answered
       /\ \A m \in 1 .. n - 1 : queries[m].answered
       /\ queries' = [queries EXCEPT ![n] =
            [answered |-> TRUE,
             rows |-> [i \in {j \in Live : offers[j].old} |-> offers[i]]]]
  /\ UNCHANGED <<online, mem, stored, opened, inMarket, offers, nextId, fees>>

ToSettleBlindly(rows) == DOMAIN rows
(* moveOfferToHistory succeeds for these rows: they are still offered.     *)
ToSettle(rows) == DOMAIN rows \intersect Live
Returned(rows, p, sale) ==
  SumFunctionOnSet(Worth(rows, sale),
                   {i \in ToSettle(rows) : rows[i].owner = p /\ rows[i].sale = sale})

(* processExpiredOffers: goods and money go back to their owners, by the   *)
(* amounts of the answer.                                                  *)
ProcessExpiredOffers(refused) ==
  /\ queries # << >> /\ Head(queries).answered
  /\ LET rows == Head(queries).rows
         back(r, p) == More(r, Returned(rows, p, FALSE), 0, Returned(rows, p, TRUE)) IN
     /\ refused \subseteq {rows[i].owner : i \in ToSettle(rows)} \ online
     /\ mem' = [p \in Players |-> IF p \in online THEN back(mem[p], p) ELSE mem[p]]
     /\ stored' = [p \in Players |-> IF p \in online \union refused THEN stored[p]
                                     ELSE back(stored[p], p)]
     /\ offers' = [i \in Live \ DOMAIN rows |-> offers[i]]
  /\ queries' = Tail(queries)
  /\ UNCHANGED <<online, opened, inMarket, nextId, fees>>
-----------------------------------------------------------------------------
Handle(p) ==
  \/ LogIn(p) \/ OpenDepot(p) \/ EnterMarket(p) \/ LeaveMarket(p)
  \/ \E amount \in Amounts, price \in Prices :
       \/ CreatePurchase(p, amount, price)
       \/ \E c \in 0 .. amount : CreateSale(p, amount, price, c)
  \/ \E i \in Live : Cancel(p, i)

(* The handlers that write to the database what memory no longer holds.    *)
HandleAndWrite(p, refused) ==
  \/ LogOut(p, refused)
  \/ \E q \in Players : SendItem(p, q, refused)
  \/ \E i \in Live, amount \in Amounts :
       \/ AcceptSale(p, i, amount, refused)
       \/ \E c \in 0 .. amount : AcceptPurchase(p, i, amount, c, refused)

DatabaseRefuses ==
  \/ \E p \in Players : HandleAndWrite(p, TRUE)
  \/ \E refused \in (SUBSET online) \ {{}} : SaveGameState(refused)
  \/ \E refused \in (SUBSET Players) \ {{}} : ProcessExpiredOffers(refused)

Mishap == mishaps < MaxMishaps /\ mishaps' = mishaps + 1 /\ (Crash \/ DatabaseRefuses)

Smoothly ==
  \/ \E p \in Players : Handle(p) \/ HandleAndWrite(p, FALSE)
  \/ \E i \in Live : Expire(i)
  \/ SaveGameState({}) \/ CheckExpiredOffers \/ AnswerQuery \/ ProcessExpiredOffers({})

Next == Mishap \/ (Smoothly /\ UNCHANGED mishaps)

Spec == Init /\ [][Next]_marketVars
-----------------------------------------------------------------------------
InOffers(sale) == SumFunctionOnSet(Worth(offers, sale), {i \in Live : offers[i].sale = sale})
Goods == SumFunction([p \in Players |-> Owned(p).chest + Owned(p).inbox]) + InOffers(TRUE)
Money == SumFunction([p \in Players |-> Owned(p).bank]) + fees + InOffers(FALSE)

(* By how much the offers have shrunk since the answer was given.          *)
Overdue(rows, sale) ==
  LET left == DOMAIN rows \intersect Live
  IN  SumFunctionOnSet([i \in left |-> (rows[i].amount - offers[i].amount)
                                         * (IF sale THEN 1 ELSE rows[i].price)],
                       {i \in left : rows[i].sale = sale})

Settles == queries # << >> /\ Head(queries).answered /\ queries' = Tail(queries)

(* Property: goods and money change hands but do not appear or vanish, as  *)
(* long as the database takes what it is given and the server does not die *)
(* with unsaved players; when expired offers are settled, they are settled *)
(* by the amounts of an old answer, and what was bought of them since then *)
(* comes into being a second time, that and nothing else.                  *)
Balanced ==
  \/ mishaps' # mishaps
  \/ /\ Goods' = Goods + (IF Settles THEN Overdue(Head(queries).rows, TRUE) ELSE 0)
     /\ Money' = Money + (IF Settles THEN Overdue(Head(queries).rows, FALSE) ELSE 0)

LedgerBalances == [][Balanced]_marketVars
===============================================================================
