-------------------------------- MODULE Screen --------------------------------
(***************************************************************************)
(* The VIP lists (player.cpp, protocolgame.cpp, iologindata.cpp): whom a   *)
(* player watches, what its client shows of them, and the rows of the      *)
(* account.  A list is read from the rows when the player logs in, up to   *)
(* the limit of the account, while the client is sent all the rows; later  *)
(* every change is made to the list and to the rows at once.  Characters   *)
(* of one account share the rows, and know nothing of each other's lists.  *)
(* A player may lose its client and get another one.                       *)
(***************************************************************************)
EXTENDS Integers, Sequences, FiniteSets, SequencesExt

CONSTANTS
  Players,
  AccountOf,     (* the account of each player                             *)
  Accessing,     (* those who see players in ghost mode                    *)
  Special,       (* those with PlayerFlag_SpecialVIP                       *)
  Limits,        (* getMaxVIPEntries(), with and without premium           *)
  MaxRequests    (* bound: entries added and removed, premium days gained  *)

VARIABLES
  online,
  ghost,         (* the players in ghost mode                              *)
  connected,     (* the players with a client                              *)
  VIPList,
  limit,         (* the limit of each player                               *)
  rows,          (* account_viplist                                        *)
  entries,       (* those the client shows                                 *)
  status,        (* ... as being in the game                               *)
  shared,        (* history: players who met another of their account      *)
  crowded,       (* history: players whose rows exceeded the limit         *)
  requests

buddyVars == <<online, ghost, connected, VIPList, limit, rows, entries, status, shared,
               crowded, requests>>

Accounts == {AccountOf[p] : p \in Players}

BuddyTypeOK ==
  /\ online \subseteq Players /\ ghost \subseteq online /\ connected \subseteq online
  /\ VIPList \in [Players -> SUBSET Players] /\ rows \in [Accounts -> SUBSET Players]
  /\ limit \in [Players -> Limits]
  /\ entries \in [Players -> SUBSET Players] /\ \A p \in Players : status[p] \subseteq entries[p]
  /\ shared \subseteq Players /\ crowded \subseteq Players
  /\ requests \in 0 .. MaxRequests

BuddyInit ==
  /\ online = {} /\ ghost = {} /\ connected = {}
  /\ VIPList = [p \in Players |-> {}] /\ entries = VIPList /\ status = VIPList
  /\ limit = [p \in Players |-> CHOOSE n \in Limits : \A m \in Limits : m <= n]
  /\ rows = [a \in Accounts |-> {}]
  /\ shared = {} /\ crowded = {} /\ requests = 0

(* Those of a set who are in the game, as p is told.                       *)
SeenAmong(p, set) == {q \in set : q \notin ghost \/ p \in Accessing}
SeenOnline(p, set) == SeenAmong(p, set \cap online)

(* notifyStatusChange(), called for everybody in to: a player with a       *)
(* client and with q in its list is told.                                  *)
Told(q, to) == {p \in to \cap connected : q \in VIPList[p]}
Notified(q, to, isOnline) ==
  [p \in Players |->
     IF p \notin Told(q, to) \/ q \notin entries[p] THEN status[p]
     ELSE IF isOnline THEN status[p] \cup {q} ELSE status[p] \ {q}]

(* addVIPInternal() for one row after the other, until the limit is full;  *)
(* a row of the player itself is passed over.                              *)
Loaded(p, n) ==
  LET others == rows[AccountOf[p]] \ {p}
  IN {s \in SUBSET others : Cardinality(s) = IF Cardinality(others) < n THEN Cardinality(others)
                                                                       ELSE n}

(* sendAddCreature() for the player itself: the client is sent the rows.   *)
SentEntries(p, now) ==
  /\ entries' = [entries EXCEPT ![p] = rows[AccountOf[p]]]
  /\ status' = [now EXCEPT ![p] = SeenAmong(p, rows[AccountOf[p]] \cap (online \cup {p}))]

(* The player is loaded, the others are notified, and the client is sent   *)
(* what it shows.                                                          *)
Login(p) ==
  /\ p \notin online
  /\ \E n \in Limits, list \in SUBSET Players :
       /\ list \in Loaded(p, n)
       /\ VIPList' = [VIPList EXCEPT ![p] = list] /\ limit' = [limit EXCEPT ![p] = n]
       /\ crowded' = IF list = rows[AccountOf[p]] THEN crowded \ {p} ELSE crowded \cup {p}
  /\ SentEntries(p, Notified(p, online, TRUE))
  /\ online' = online \cup {p} /\ connected' = connected \cup {p}
  /\ LET mates == {q \in online : AccountOf[q] = AccountOf[p]}
     IN shared' = IF mates = {} THEN shared \ {p} ELSE shared \cup mates \cup {p}
  /\ UNCHANGED <<ghost, rows, requests>>

(* Player::removeList().                                                   *)
Logout(p) ==
  /\ p \in online
  /\ online' = online \ {p} /\ ghost' = ghost \ {p} /\ connected' = connected \ {p}
  /\ status' = [Notified(p, online \ {p}, FALSE) EXCEPT ![p] = {}]
  /\ entries' = [entries EXCEPT ![p] = {}]
  /\ VIPList' = [VIPList EXCEPT ![p] = {}]
  /\ UNCHANGED <<limit, rows, shared, crowded, requests>>

(* The connection breaks; and a client takes the player over.              *)
Disconnect(p) ==
  /\ p \in connected
  /\ connected' = connected \ {p}
  /\ entries' = [entries EXCEPT ![p] = {}] /\ status' = [status EXCEPT ![p] = {}]
  /\ UNCHANGED <<online, ghost, VIPList, limit, rows, shared, crowded, requests>>
Connect(p) ==
  /\ p \in online \ connected
  /\ connected' = connected \cup {p}
  /\ SentEntries(p, status)
  /\ UNCHANGED <<online, ghost, VIPList, limit, rows, shared, crowded, requests>>

(* player:setGhostMode(): those who see through it are not told.           *)
SetGhostMode(p) ==
  /\ p \in online
  /\ ghost' = IF p \in ghost THEN ghost \ {p} ELSE ghost \cup {p}
  /\ status' = Notified(p, online \ Accessing, p \in ghost)
  /\ UNCHANGED <<online, connected, VIPList, limit, rows, entries, shared, crowded, requests>>

Requested == requests < MaxRequests /\ requests' = requests + 1

(* playerRequestAddVip() and Player::addVIP().                             *)
SpecialOnlyBySpecial(p, q) == q \in Special => p \in Special
MayWatch(p, q) ==
  /\ SpecialOnlyBySpecial(p, q)
  /\ p # q /\ Cardinality(VIPList[p]) < limit[p] /\ q \notin VIPList[p]
AddVIPEntry(p, q) == rows' = [rows EXCEPT ![AccountOf[p]] = @ \cup {q}]
RemoveVIPEntry(p, q) == rows' = [rows EXCEPT ![AccountOf[p]] = @ \ {q}]
AddVip(p, q) ==
  /\ p \in connected /\ MayWatch(p, q) /\ Requested
  /\ VIPList' = [VIPList EXCEPT ![p] = @ \cup {q}]
  /\ AddVIPEntry(p, q)
  /\ entries' = [entries EXCEPT ![p] = @ \cup {q}]
  /\ status' = [status EXCEPT ![p] = (@ \ {q}) \cup SeenOnline(p, {q})]
  /\ UNCHANGED <<online, ghost, connected, limit, shared, crowded>>

(* The client drops the entry when it asks for it; removeVIP() deletes the *)
(* row of one that is in the list.                                         *)
RemoveVip(p, q) ==
  /\ p \in connected /\ q \in entries[p] /\ Requested
  /\ entries' = [entries EXCEPT ![p] = @ \ {q}] /\ status' = [status EXCEPT ![p] = @ \ {q}]
  /\ IF q \in VIPList[p]
     THEN /\ VIPList' = [VIPList EXCEPT ![p] = @ \ {q}]
          /\ RemoveVIPEntry(p, q)
     ELSE UNCHANGED <<VIPList, rows>>
  /\ UNCHANGED <<online, ghost, connected, limit, shared, crowded>>

(* The account becomes premium, or ceases to be, while the player is in    *)
(* the game: the list stays as it is.                                      *)
Premium(p) ==
  /\ p \in online /\ Requested
  /\ \E n \in Limits \ {limit[p]} : limit' = [limit EXCEPT ![p] = n]
  /\ UNCHANGED <<online, ghost, connected, VIPList, rows, entries, status, shared, crowded>>

Presence(p) == Login(p) \/ Logout(p) \/ Disconnect(p) \/ Connect(p) \/ SetGhostMode(p)
Lists(p) == Premium(p) \/ \E q \in Players : AddVip(p, q) \/ RemoveVip(p, q)
BuddyNext == \E p \in Players : Presence(p) \/ Lists(p)
-----------------------------------------------------------------------------
(* What the client shows of a player that is in the list is how it is,     *)
(* whoever came, went, hid or showed itself meanwhile, with a client or    *)
(* without one.                                                            *)
StatusIsCurrent ==
  \A p \in connected : \A q \in VIPList[p] \cap entries[p] :
    q \in status[p] <=> q \in SeenOnline(p, {q})

(* The list and the rows agree, and the client shows them, unless there    *)
(* were more rows than the limit, or another character of the account.     *)
ListsAreStored ==
  \A p \in online \ (shared \cup crowded) :
    /\ VIPList[p] = rows[AccountOf[p]]
    /\ p \in connected => entries[p] = VIPList[p]

(* Nobody but those who may watches a player with the flag.                *)
SpecialAreApart ==
  \A p \in Players : VIPList[p] \cap Special # {} =>
    \E q \in Special : AccountOf[q] = AccountOf[p]

BuddiesAreSound == StatusIsCurrent /\ ListsAreStored /\ SpecialAreApart
-----------------------------------------------------------------------------
(***************************************************************************)
(* The second section: the part of the map that a client shows.  The       *)
(* server sends it whole after a teleport, and a row or a column of it     *)
(* after a step, on all the floors that can be seen; tiles that are not    *)
(* there are counted and passed over.  A creature is described once and    *)
(* named by its id as long as the server thinks that the client knows it;  *)
(* both forget one when there are too many.  The client's side is modelled *)
(* from what the server expects of it.                                     *)
(*                                                                         *)
(* Left out: where on a tile a thing is (see Tiles).  A step never leads   *)
(* to another floor, as Map::moveCreature takes that for a teleport, so    *)
(* that MoveUpCreature and MoveDownCreature are never called.              *)
(***************************************************************************)
CONSTANTS
  Worlds,        (* the sets of positions that may have tiles              *)
  Creatures, Viewer, (* the player who sees is one of them                 *)
  Steps,         (* of creatures: pairs of differences                     *)
  Orders,        (* sequences of all creatures: the orders in which a set  *)
                 (* of the server's may be gone through                    *)
  Layers, SeaLevel, Below, (* the last floor: 15; the ground: 7; the       *)
                 (* floors seen above and below when underground: 2        *)
  West, East, North, South, (* what is seen from a place: 8, 9, 6, 7       *)
  MaxSkip,       (* 0xFE                                                   *)
  MaxKnown       (* 1300                                                   *)

VARIABLES
  world,
  place,         (* of each creature, Nowhere when it is not in the game   *)
  unseen,        (* those who are invisible for the viewer                 *)
  knownCreatureSet,
  central, drawn, figures, (* the client: its place, the tiles and the     *)
                 (* creatures that it shows, known = those it has heard of *)
  known,
  thrown         (* history: those forgotten when more were in sight than  *)
                 (* the sets may hold                                      *)

clientVars == <<central, drawn, figures, known>>
viewVars == <<world, place, unseen, knownCreatureSet, clientVars, thrown>>

Nowhere == <<>>
Others == Creatures \ {Viewer}

ViewTypeOK ==
  /\ world \in Worlds /\ place \in [Creatures -> world \cup {Nowhere}]
  /\ unseen \subseteq Others
  /\ knownCreatureSet \subseteq Creatures /\ known \subseteq Creatures
  /\ central \in world /\ drawn \subseteq world
  /\ DOMAIN figures \subseteq Creatures /\ thrown \subseteq Creatures

(* The first floor and the last in the order in which they are sent.       *)
FloorsFrom(z) ==
  IF z > SeaLevel
  THEN LET last == IF z + Below > Layers THEN Layers ELSE z + Below
       IN  [i \in 1 .. last - (z - Below) + 1 |-> z - Below + i - 1]
  ELSE [i \in 1 .. SeaLevel + 1 |-> SeaLevel - i + 1]

(* ProtocolGame::canSee() from the place of the viewer                     *)
InSight(p, from) ==
  /\ IF from[3] <= SeaLevel THEN p[3] <= SeaLevel
     ELSE from[3] - p[3] <= Below /\ p[3] - from[3] <= Below
  /\ LET o == from[3] - p[3]
     IN  /\ p[1] - o \in from[1] - West .. from[1] + East
         /\ p[2] - o \in from[2] - North .. from[2] + South

(* The game as it is after a step: where creatures are, who is hidden.     *)
Game(at, hidden, order) == [at |-> at, hidden |-> hidden, order |-> order]
CanSee(c, g) == g.at[c] # Nowhere /\ c \notin g.hidden /\ InSight(g.at[c], g.at[Viewer])
-----------------------------------------------------------------------------
(* GetMapDescription(): the positions of a part of the map, floor by floor *)
(* and column by column.                                                   *)
Cells(x, y, z, width, height) ==
  LET floors == FloorsFrom(z)
      area == width * height
  IN  [i \in 1 .. Len(floors) * area |->
         LET nz == floors[((i - 1) \div area) + 1]
             k == (i - 1) % area
         IN  <<x + (k \div height) + z - nz, y + (k % height) + z - nz, nz>>]

(* GetFloorDescription(): a message consists of the things of tiles, and   *)
(* of numbers of cells to skip, each of which ends what comes before it.   *)
Ended(m, n) == [skip |-> -1, tiles |-> 0, msg |-> Append(m.msg, [tiles |-> m.tiles, count |-> n])]
Flushed(m) == IF m.skip >= 0 THEN Ended(m, m.skip) ELSE m
WithTile(m) == [Flushed(m) EXCEPT !.skip = 0, !.tiles = @ + 1]
WithoutOne(m) == IF m.skip = MaxSkip THEN Ended(m, MaxSkip) ELSE [m EXCEPT !.skip = @ + 1]
WithoutTile(m) == IF m.skip = MaxSkip THEN Ended(m, MaxSkip + 1) ELSE [m EXCEPT !.skip = @ + 1]
MapDescription(cells) ==
  LET start == [skip |-> -1, tiles |-> 0, msg |-> <<>>]
      sent[i \in 0 .. Len(cells)] ==
        IF i = 0 THEN start
        ELSE IF cells[i] \in world THEN WithTile(sent[i - 1]) ELSE WithoutTile(sent[i - 1])
  IN  Flushed(sent[Len(cells)]).msg

(* What the client draws: from a cell it reads things until it comes to a  *)
(* number, and goes on behind the cells it is told to skip.                *)
TilesRead(msg, cells) ==
  LET at[k \in 1 .. Len(msg)] == IF k = 1 THEN 1 ELSE at[k - 1] + 1 + msg[k - 1].count
  IN  {cells[at[k]] : k \in {j \in DOMAIN msg : msg[j].tiles > 0}}
-----------------------------------------------------------------------------
(* The server's set and the client's screen as a record.                   *)
Screen ==
  [set |-> knownCreatureSet, central |-> central, drawn |-> drawn, figures |-> figures,
   known |-> known, thrown |-> thrown]
Becomes(s) ==
  /\ knownCreatureSet' = s.set /\ central' = s.central /\ drawn' = s.drawn
  /\ figures' = s.figures /\ known' = s.known /\ thrown' = s.thrown

(* checkCreatureAsKnown(): one who is out of sight is forgotten, or the    *)
(* first that is found.                                                    *)
FirstIn(order, set) == order[SelectInSeq(order, LAMBDA c : c \in set)]
ToForget(s, c, g) ==
  LET all == s.set \cup {c}
      outOfSight == {d \in all : ~CanSee(d, g)}
  IN  IF Cardinality(all) <= MaxKnown THEN {}
      ELSE {FirstIn(g.order, IF outOfSight = {} THEN s.set ELSE outOfSight)}
Crowded(g) == Cardinality({d \in Creatures : CanSee(d, g)}) > MaxKnown
CheckCreatureAsKnown(s, c, g) ==
  IF c \in s.set THEN s
  ELSE LET gone == ToForget(s, c, g)
       IN  [s EXCEPT !.set = (@ \cup {c}) \ gone, !.known = (@ \ gone) \cup {c},
                     !.thrown = (@ \ {c}) \cup IF Crowded(g) THEN gone ELSE {}]

(* A creature is described and shown, or it is removed.                    *)
AddCreature(s, c, g) ==
  [CheckCreatureAsKnown(s, c, g) EXCEPT !.figures = (c :> g.at[c]) @@ @]
RemoveCreature(s, c) == [s EXCEPT !.figures = Restrict(@, DOMAIN @ \ {c})]

(* GetTileDescription() for one cell after the other: the creatures on it  *)
(* that can be seen.                                                       *)
CreaturesSent(cells, g) ==
  LET shown == {c \in Creatures \ g.hidden : g.at[c] \in ToSet(cells)}
      taken == {i \in DOMAIN cells : \E c \in shown : g.at[c] = cells[i]}
  IN  FlattenSeq([i \in 1 .. Cardinality(taken) |->
        LET p == cells[SetToSortSeq(taken, <)[i]]
        IN  SelectSeq(g.order, LAMBDA c : c \in shown /\ g.at[c] = p)])

(* The client comes to a place and draws cells of its own reckoning; what  *)
(* is out of sight from there it drops.                                    *)
Drawn(s, to, cells, sent, g) ==
  LET wiped == [s EXCEPT !.figures =
                  Restrict(@, {c \in DOMAIN @ : @[c] \notin ToSet(cells)})]
      told == FoldLeft(LAMBDA t, c : AddCreature(t, c, g), wiped, CreaturesSent(sent, g))
      tiles == (s.drawn \ ToSet(cells)) \cup TilesRead(MapDescription(sent), cells)
  IN  [told EXCEPT !.central = to,
         !.drawn = {p \in tiles : InSight(p, to)},
         !.figures = Restrict(@, {c \in DOMAIN @ : InSight(@[c], to)})]

Width == West + East + 1
Height == North + South + 1

(* sendMapDescription()                                                    *)
SendMapDescription(s, g) ==
  LET p == g.at[Viewer]
      cells == Cells(p[1] - West, p[2] - North, p[3], Width, Height)
  IN  Drawn(s, p, cells, cells, g)

(* sendMoveCreature() for the viewer after a step: the row for the old x,  *)
(* then the column with the new y.  The client reckons from where it is.   *)
SendStep(s, old, g) ==
  LET new == g.at[Viewer]
      dx == new[1] - old[1]
      dy == new[2] - old[2]
      edgeX == IF dx < 0 THEN -West ELSE East
      edgeY == IF dy < 0 THEN -North ELSE South
      Row(x, y, z) == Cells(x - West, y + edgeY, z, Width, 1)
      Column(x, y, z) == Cells(x + edgeX, y - North, z, 1, Height)
      moved == [s EXCEPT !.figures = (Viewer :> new) @@ @]
      c == <<s.central[1], s.central[2] + dy, s.central[3]>>
      row == IF dy = 0 THEN moved
             ELSE Drawn(moved, c, Row(c[1], c[2], c[3]), Row(old[1], new[2], new[3]), g)
      d == <<c[1] + dx, c[2], c[3]>>
  IN  IF dx = 0 THEN row
      ELSE Drawn(row, d, Column(d[1], d[2], d[3]), Column(new[1], new[2], new[3]), g)

(* ... and for another creature, which may come into sight or leave it.    *)
SendAddCreature(s, c, g) ==
  IF InSight(g.at[c], g.at[Viewer]) THEN AddCreature(s, c, g) ELSE s
SendRemove(s, c, old) == IF InSight(old, place[Viewer]) THEN RemoveCreature(s, c) ELSE s
SendMove(s, c, old, teleport, g) ==
  IF ~teleport /\ InSight(old, g.at[Viewer]) /\ InSight(g.at[c], g.at[Viewer])
  THEN [s EXCEPT !.figures = [d \in DOMAIN @ |-> IF d = c THEN g.at[c] ELSE @[d]]]
  ELSE SendAddCreature(SendRemove(s, c, old), c, g)

(* Map::moveCreature()                                                     *)
MoveCreature(c, p, teleport) ==
  /\ place[c] # Nowhere /\ p \in world \ {place[c]}
  /\ place' = [place EXCEPT ![c] = p] /\ UNCHANGED <<world, unseen>>
  /\ \E order \in Orders :
       LET g == Game([place EXCEPT ![c] = p], unseen, order)
       IN  Becomes(CASE c = Viewer /\ teleport -> SendMapDescription(RemoveCreature(Screen, c), g)
                     [] c = Viewer /\ ~teleport -> SendStep(Screen, place[c], g)
                     [] c \in unseen -> Screen
                     [] OTHER -> SendMove(Screen, c, place[c], teleport, g))

(* A step to a place beside on the same floor that has ground; any other   *)
(* move, and to where there is none, is a teleport.                        *)
Step(c) == \E d \in Steps :
  place[c] # Nowhere /\ MoveCreature(c, <<place[c][1] + d[1], place[c][2] + d[2], place[c][3]>>, FALSE)
Teleport(c) == \E p \in world : MoveCreature(c, p, TRUE)

(* Game::placeCreature(), Game::removeCreature()                           *)
Appear(c, p) ==
  /\ place[c] = Nowhere /\ place' = [place EXCEPT ![c] = p]
  /\ \E order \in Orders :
       Becomes(SendAddCreature(Screen, c, Game([place EXCEPT ![c] = p], unseen, order)))
  /\ UNCHANGED <<world, unseen>>
Vanish(c) ==
  /\ place[c] # Nowhere /\ place' = [place EXCEPT ![c] = Nowhere]
  /\ Becomes(IF c \in unseen THEN Screen ELSE SendRemove(Screen, c, place[c]))
  /\ unseen' = unseen \ {c} /\ UNCHANGED world

(* sendCreatureChangeVisible() for a monster                               *)
ChangeVisible(c) ==
  /\ place[c] # Nowhere
  /\ IF c \in unseen
     THEN /\ unseen' = unseen \ {c}
          /\ \E order \in Orders :
               Becomes(SendAddCreature(Screen, c, Game(place, unseen \ {c}, order)))
     ELSE /\ unseen' = unseen \cup {c}
          /\ Becomes(SendRemove(Screen, c, place[c]))
  /\ UNCHANGED <<world, place>>

(* The player is taken over by another client, which knows nobody.         *)
Fresh(p) == [set |-> {}, central |-> p, drawn |-> {}, figures |-> <<>>, known |-> {},
             thrown |-> {}]
Welcomed(at, order) == SendMapDescription(Fresh(at[Viewer]), Game(at, unseen, order))
NewClient ==
  /\ \E order \in Orders : Becomes(Welcomed(place, order))
  /\ UNCHANGED <<world, place, unseen>>

ViewInit ==
  /\ world \in Worlds /\ unseen = {}
  /\ place = [c \in Creatures |-> IF c = Viewer THEN CHOOSE p \in world : TRUE ELSE Nowhere]
  /\ LET s == Welcomed(place, CHOOSE order \in Orders : TRUE)
     IN  /\ knownCreatureSet = s.set /\ central = s.central /\ drawn = s.drawn
         /\ figures = s.figures /\ known = s.known /\ thrown = s.thrown

ViewNext ==
  \/ \E c \in Creatures : Step(c) \/ Teleport(c)
  \/ \E c \in Others : Vanish(c) \/ ChangeVisible(c) \/ \E p \in world : Appear(c, p)
  \/ NewClient
ViewSpec == ViewInit /\ [][ViewNext]_viewVars
-----------------------------------------------------------------------------
(* The client shows the tiles and the creatures that there are, and no     *)
(* others, where they are, however it came to where it is.                 *)
ViewIsCurrent ==
  /\ central = place[Viewer]
  /\ drawn = {p \in world : InSight(p, central)}
  /\ figures = [c \in {d \in Creatures : CanSee(d, Game(place, unseen, <<>>))} |-> place[c]]

(* Who is named by its id is known to the client, and so is everybody on   *)
(* its screen, unless he was forgotten because there were too many in      *)
(* sight; the sets stay bounded.                                           *)
NamedAreKnown ==
  /\ knownCreatureSet \subseteq known /\ Cardinality(knownCreatureSet) <= MaxKnown
  /\ DOMAIN figures \subseteq known \cup thrown

ViewIsSound == ViewIsCurrent /\ NamedAreKnown
=============================================================================
