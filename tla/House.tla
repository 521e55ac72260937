-------------------------------- MODULE House ---------------------------------
(***************************************************************************)
(* Houses and their beds (house.cpp, housetile.cpp, bed.cpp): who owns a   *)
(* house, who may be inside, the sale of a house in a trade, and the       *)
(* players who sleep.  A house lets people in by its lists, and throws     *)
(* them out when a list or the owner changes; nothing is checked later,    *)
(* not even when a player leaves the guild that a list names.              *)
(*                                                                         *)
(* A bed is made of two items, its halves.  Sleeping takes several steps:  *)
(* the bed is used, a window asks for a skill, the answer puts the player  *)
(* to sleep, and an event takes him out of the game; he wakes when he      *)
(* comes back, or when somebody wakes him.  A bed is used from beside it,  *)
(* perhaps through the wall, and no list is asked.                         *)
(*                                                                         *)
(* Lists are sets of players and guilds: the patterns that a line may hold *)
(* are read as the players that they match, those that shut somebody out   *)
(* are left out.  So are the doors, the rent, which is collected before    *)
(* anybody plays, and the goods in a house.                                *)
(***************************************************************************)
EXTENDS Naturals, FiniteSets, Functions

CONSTANTS
  Players, Houses, Guilds,
  Beds,            (* the beds                                             *)
  HouseOf,         (* the house that a bed stands in                       *)
  Outside,         (* anywhere else                                        *)
  Beside,          (* the places within a step of a bed                    *)
  Nobody,          (* owner 0, sleeper 0, null                             *)
  Texts,           (* by house, the lists that are written there: a bound, *)
                   (* and if none is, nobody asks for its lists            *)
  FirstOwner,      (* who owns the houses when they are loaded             *)
  FirstGuild,      (* who is a member of which guild then                  *)
  Recruits         (* those who may change their guild: a bound            *)

VARIABLES
  houseOwner,      (* House::owner                                         *)
  lists,           (* guestList and subOwnerList                           *)
  memberOf,        (* Player::guild                                        *)
  place,           (* the house in which a player stands, or stood last    *)
  changed,         (* history: whose guild changed since he came there     *)
  playing,         (* the players in the game                              *)
  sleeper,         (* BedItem::sleeperGUID, for both halves of each bed    *)
  bedSleepers,     (* Game::bedSleepersMap                                 *)
  dialog,          (* the bed that an open training window is about        *)
  window,          (* Player::editHouse and its list                       *)
  deal,            (* transferItem: the trade in which a house is offered  *)
  kicks            (* players that a pending event takes out of the game   *)

inside == <<place, changed>>
houseVars == <<houseOwner, lists, memberOf, inside, playing, sleeper, bedSleepers,
               dialog, window, deal, kicks>>

Halves == {"head", "foot"}
Lists == {"guest", "subowner"}
BedHalves == Beds \X Halves
Anybody == Players \union {Nobody}

TypeOK ==
  /\ houseOwner \in [Houses -> Anybody]
  /\ lists \in [Houses -> [Lists -> SUBSET (Players \union Guilds)]]
  /\ memberOf \in [Players -> Guilds \union {Nobody}] /\ changed \subseteq Players
  /\ place \in [Players -> Houses \union {Outside}]
  /\ playing \subseteq Players /\ kicks \subseteq playing
  /\ sleeper \in [BedHalves -> Anybody]
  /\ bedSleepers \in [Players -> BedHalves \union {Nobody}]
  /\ dialog \in [Players -> BedHalves \union {Nobody}]
  /\ window \in [Players -> (Houses \X Lists) \union {Nobody}]
  /\ deal \in [Houses -> (Players \X Players) \union {Nobody}]

Init ==
  /\ houseOwner = FirstOwner
  /\ lists = [h \in Houses |-> [l \in Lists |-> {}]]
  /\ memberOf = FirstGuild
  /\ place = [p \in Players |-> Outside] /\ changed = {}
  /\ playing = {} /\ kicks = {}
  /\ sleeper = [b \in BedHalves |-> Nobody]
  /\ bedSleepers = [p \in Players |-> Nobody]
  /\ dialog = [p \in Players |-> Nobody]
  /\ window = [p \in Players |-> Nobody]
  /\ deal = [h \in Houses |-> Nobody]
-----------------------------------------------------------------------------
(* isInList, and getHouseAccessLevel by its numbers.                       *)
IsInList(list, p) == p \in list \/ memberOf[p] \in list
Level(own, ls, h, p) ==
  IF own[h] = p THEN 3
  ELSE IF IsInList(ls[h]["subowner"], p) THEN 2
  ELSE IF IsInList(ls[h]["guest"], p) THEN 1
  ELSE 0

IsInvited(h, p) == Level(houseOwner, lists, h, p) > 0

CanEdit(h, l, p) ==
  \/ Level(houseOwner, lists, h, p) = 3
  \/ Level(houseOwner, lists, h, p) = 2 /\ l = "guest"

Inside(h) == {p \in playing : place[p] = h}

(* The players of P are put before the door: onCreatureMove closes the     *)
(* window in which they chose what to train.                               *)
Moved(P, to) ==
  /\ place' = [p \in Players |-> IF p \in P THEN to ELSE place[p]]
  /\ changed' = changed \ P
  /\ dialog' = [p \in Players |-> IF p \in P THEN Nobody ELSE dialog[p]]

OtherHalf(b) == <<b[1], CHOOSE x \in Halves : x # b[2]>>
BothHalves(b) == {b, OtherHalf(b)}

(* BedItem::wakeUp of the beds in B, which hold a sleeper.                 *)
WakeUp(B) ==
  /\ sleeper' = [b \in BedHalves |->
                  IF \E c \in B : b \in BothHalves(c) THEN Nobody ELSE sleeper[b]]
  /\ bedSleepers' = [p \in Players |->
                      IF \E b \in B : sleeper[b] = p THEN Nobody ELSE bedSleepers[p]]

(* Both sides of a trade in which a house is offered.                      *)
Trading == UNION {{deal[h][1], deal[h][2]} : h \in {x \in Houses : deal[x] # Nobody}}

NoDealsOf(P) ==
  [h \in Houses |-> IF deal[h] # Nobody /\ {deal[h][1], deal[h][2]} \intersect P # {}
                    THEN Nobody ELSE deal[h]]
-----------------------------------------------------------------------------
(* House::setOwner: everybody inside is thrown out, the beds are emptied   *)
(* and the lists are cleared, if the house had an owner.                   *)
SetOwner(h, new) ==
  IF houseOwner[h] = new
  THEN UNCHANGED <<houseOwner, lists, inside, dialog, sleeper, bedSleepers>>
  ELSE /\ houseOwner' = [houseOwner EXCEPT ![h] = new]
       /\ IF houseOwner[h] = Nobody
          THEN UNCHANGED <<lists, inside, dialog, sleeper, bedSleepers>>
          ELSE /\ lists' = [lists EXCEPT ![h] = [l \in Lists |-> {}]]
               /\ Moved(Inside(h), Outside)
               /\ WakeUp({b \in BedHalves : HouseOf[b[1]] = h /\ sleeper[b] # Nobody})

(* The placement of a player who logs in: HouseTile::queryDestination puts *)
(* one who is not invited before the door; then a bed, if he slept in one, *)
(* is told to wake him.                                                    *)
LogIn(p) ==
  /\ p \notin playing
  /\ playing' = playing \union {p}
  /\ place' = [place EXCEPT ![p] =
       IF @ # Outside /\ ~IsInvited(@, p) THEN Outside ELSE @]
  /\ changed' = changed \ {p}
  /\ IF bedSleepers[p] = Nobody THEN UNCHANGED <<sleeper, bedSleepers>>
     ELSE WakeUp({bedSleepers[p]})
  /\ UNCHANGED <<houseOwner, lists, memberOf, dialog, window, deal, kicks>>

(* Player::onRemoveCreature: a trade is called off, which lets go of the   *)
(* transfer item of a house; the event to come does not find the player.   *)
LeaveGame(p) ==
  /\ p \in playing
  /\ playing' = playing \ {p} /\ kicks' = kicks \ {p}
  /\ dialog' = [dialog EXCEPT ![p] = Nobody]
  /\ window' = [window EXCEPT ![p] = Nobody]
  /\ deal' = NoDealsOf({p})
  /\ UNCHANGED <<houseOwner, lists, memberOf, inside, sleeper, bedSleepers>>

(* HouseTile::queryAdd lets in whom the house knows.                       *)
Enter(p, h) ==
  /\ p \in playing /\ place[p] = Outside /\ IsInvited(h, p)
  /\ Moved({p}, h)
  /\ UNCHANGED <<houseOwner, lists, memberOf, playing, sleeper, bedSleepers, window, deal,
                 kicks>>

GoOut(p) ==
  /\ p \in playing /\ place[p] # Outside
  /\ Moved({p}, Outside)
  /\ UNCHANGED <<houseOwner, lists, memberOf, playing, sleeper, bedSleepers, window, deal,
                 kicks>>

(* The spells that open the window of a list.                              *)
AskForList(p, l) ==
  /\ p \in playing /\ place[p] # Outside /\ CanEdit(place[p], l, p)
  /\ Texts[place[p]] # {}
  /\ window' = [window EXCEPT ![p] = <<place[p], l>>]
  /\ UNCHANGED <<houseOwner, lists, memberOf, inside, playing, sleeper, bedSleepers, dialog,
                 deal, kicks>>

NobodyUninvited(h, ls) == {}
(* Those inside h that a new list does not let stay.                       *)
Uninvited(h, ls) == {p \in Inside(h) : Level(houseOwner, ls, h, p) = 0}

(* playerUpdateHouseWindow and House::setAccessList: the window may be old *)
(* and is judged again.                                                    *)
UpdateHouseWindow(p, text) ==
  /\ p \in playing /\ window[p] # Nobody /\ text \in Texts[window[p][1]]
  /\ window' = [window EXCEPT ![p] = Nobody]
  /\ LET h == window[p][1]
         l == window[p][2]
         new == [lists EXCEPT ![h][l] = text] IN
     IF CanEdit(h, l, p)
     THEN /\ lists' = new
          /\ Moved(Uninvited(h, new), Outside)
     ELSE UNCHANGED <<lists, inside, dialog>>
  /\ UNCHANGED <<houseOwner, memberOf, playing, sleeper, bedSleepers, deal, kicks>>
-----------------------------------------------------------------------------
(* Commands::sellHouse: p offers the house that he stands in to q.  The    *)
(* transfer item exists once, and each takes part in one trade.            *)
OwnsNone(q) == \A h \in Houses : houseOwner[h] # q

SellHouse(p, q) ==
  /\ p \in playing /\ q \in playing /\ p # q
  /\ place[p] # Outside /\ houseOwner[place[p]] = p
  /\ OwnsNone(q)
  /\ deal[place[p]] = Nobody
  /\ {p, q} \intersect Trading = {}
  /\ deal' = [deal EXCEPT ![place[p]] = <<p, q>>]
  /\ UNCHANGED <<houseOwner, lists, memberOf, inside, playing, sleeper, bedSleepers, dialog,
                 window, kicks>>

(* The trade is closed: HouseTransferItem::onTradeEvent, ON_TRADE_CANCEL.  *)
CallOff(h) ==
  /\ deal[h] # Nobody
  /\ deal' = [deal EXCEPT ![h] = Nobody]
  /\ UNCHANGED <<houseOwner, lists, memberOf, inside, playing, sleeper, bedSleepers, dialog,
                 window, kicks>>

(* Both have accepted: ON_TRADE_TRANSFER, House::executeTransfer.          *)
ExecuteTransfer(h) ==
  /\ deal[h] # Nobody
  /\ SetOwner(h, deal[h][2])
  /\ deal' = [deal EXCEPT ![h] = Nobody]
  /\ UNCHANGED <<memberOf, playing, window, kicks>>

(* House:setOwnerGuid, called by a script for an owner who leaves a house. *)
GiveUp(h) ==
  /\ houseOwner[h] # Nobody
  /\ SetOwner(h, Nobody)
  /\ UNCHANGED <<memberOf, playing, window, deal, kicks>>
-----------------------------------------------------------------------------
(* Actions::internalUseItem on a bed that is within a step: a free one     *)
(* asks what to train, the owner wakes whoever sleeps in it; nobody else   *)
(* can do that.                                                            *)
UseBed(p, b) ==
  /\ p \in playing /\ place[p] \in Beside[b[1]]
  /\ \/ /\ sleeper[b] = Nobody
        /\ dialog' = [dialog EXCEPT ![p] = b]
        /\ UNCHANGED <<sleeper, bedSleepers>>
     \/ /\ sleeper[b] # Nobody /\ houseOwner[HouseOf[b[1]]] = p
        /\ WakeUp({b})
        /\ UNCHANGED dialog
  /\ UNCHANGED <<houseOwner, lists, memberOf, inside, playing, window, deal, kicks>>

(* playerAnswerModalWindow: BedItem::sleep looks again whether it is free, *)
(* and puts the player there, whoever he is.                               *)
Answer(p) ==
  /\ p \in playing /\ dialog[p] # Nobody
  /\ dialog' = [dialog EXCEPT ![p] = Nobody]
  /\ LET b == dialog[p] IN
     IF sleeper[b] = Nobody
     THEN /\ sleeper' = [c \in BedHalves |-> IF c \in BothHalves(b) THEN p ELSE sleeper[c]]
          /\ bedSleepers' = [bedSleepers EXCEPT ![p] = b]
          /\ place' = [place EXCEPT ![p] = HouseOf[b[1]]] /\ changed' = changed \ {p}
          /\ kicks' = kicks \union {p}
     ELSE UNCHANGED <<sleeper, bedSleepers, inside, kicks>>
  /\ UNCHANGED <<houseOwner, lists, memberOf, playing, window, deal>>

(* A script moves him to another guild, or out of his own, wherever he is; *)
(* for one who does not play, the database is changed.                     *)
SetGuild(p, g) ==
  /\ p \in Recruits /\ memberOf[p] # g
  /\ memberOf' = [memberOf EXCEPT ![p] = g]
  /\ changed' = IF p \in playing /\ place[p] # Outside THEN changed \union {p} ELSE changed
  /\ UNCHANGED <<houseOwner, lists, place, playing, sleeper, bedSleepers, dialog, window, deal,
                 kicks>>
-----------------------------------------------------------------------------
(* The event of Game::kickPlayer is the same step as any other departure.  *)
Next ==
  \/ \E p \in Players :
       \/ LogIn(p) \/ LeaveGame(p) \/ GoOut(p) \/ Answer(p)
       \/ \E h \in Houses : Enter(p, h)
       \/ \E l \in Lists : AskForList(p, l)
       \/ \E text \in UNION Range(Texts) : UpdateHouseWindow(p, text)
       \/ \E q \in Players : SellHouse(p, q)
       \/ \E b \in BedHalves : UseBed(p, b)
       \/ \E g \in Guilds \union {Nobody} : SetGuild(p, g)
  \/ \E h \in Houses : CallOff(h) \/ ExecuteTransfer(h) \/ GiveUp(h)

Spec == Init /\ [][Next]_houseVars
-----------------------------------------------------------------------------
(* A stranger got in by a bed, and an event is to take him out of the game *)
(* at once, or his guild changed while he was inside.                      *)
NoStrangerStays ==
  \A p \in playing :
    place[p] # Outside => IsInvited(place[p], p) \/ p \in kicks \/ p \in changed

OneHouseEach ==
  \A g, h \in Houses : houseOwner[g] = houseOwner[h] /\ houseOwner[g] # Nobody => g = h

(* The halves of a bed agree, and the map leads a sleeper to his bed.      *)
BedsAgree ==
  /\ \A b \in BedHalves : sleeper[b] = sleeper[OtherHalf(b)]
  /\ \A p \in Players : bedSleepers[p] # Nobody => sleeper[bedSleepers[p]] = p

(* A transfer item does not outlive the trade that it is offered in.       *)
DealsAreOpen == Trading \subseteq playing

(* Invariant: whatever is sold, given up, listed, used and answered in     *)
(* whatever order, nobody stays in a house that does not let him in unless *)
(* his guild changed meanwhile, nobody comes to own two, no house stays    *)
(* bound to a trade that is over, and a sleeper is found in the bed that   *)
(* the game has noted for him.                                             *)
HousesAreSound == NoStrangerStays /\ OneHouseEach /\ BedsAgree /\ DealsAreOpen
===============================================================================
