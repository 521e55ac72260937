--------------------------------- MODULE Tiles ---------------------------------
(***************************************************************************)
(* A tile of the map, the browse field that may be open on it, and what a  *)
(* player's client shows of it (tile.cpp, ProtocolGame).  Three copies are *)
(* kept up by hand.  The tile's flags say what its items do, the browse    *)
(* field lists the moveable ones, and the client is told of every change   *)
(* by a position in the stack, of which it shows only the first few: what  *)
(* moves up from below has to be told as well.                             *)
(***************************************************************************)
EXTENDS Integers, Sequences, FiniteSets, SequencesExt

CONSTANTS
  Items, Creatures, Kinds,
  Layer,           (* of each kind: "ground", "top" or "down"              *)
  Order,           (* alwaysOnTopOrder                                     *)
  Type,            (* ItemTypes_t and the rest by which a change of kind   *)
                   (* keeps the object                                     *)
  Solid, Moveable, (* blockSolid, moveable                                 *)
  Special,         (* teleports, mailboxes and the like: a flag each       *)
  Splashes, Fields,(* of which a tile has one at most                      *)
  Unreplaceable,   (* fields that stay                                     *)
  MaxShown,        (* what the client shows of a tile: 10                  *)
  None

VARIABLES
  ground, down, top, (* items is down followed by top                      *)
  creatures, invisible,
  kind,            (* of each item, None for those that do not exist       *)
  flags,
  browse,          (* the browse field's itemlist, <<None>> when there is  *)
                   (* no browse field                                      *)
  parent,          (* of each item on the tile: "tile" or "browse"         *)
  client,          (* what the client shows                                *)
  behind, turned   (* see ClientIsCurrent and BrowseIsSound                *)

tileVars == <<ground, down, top, creatures, invisible, kind, flags, browse,
              parent, client, behind, turned>>

Flags == {"solid", "immovableSolid", "special"}
Things == Items \union Creatures
NoBrowse == <<None>>

TypeOK ==
  /\ ground \in Items \union {None} /\ down \in Seq(Items) /\ top \in Seq(Items)
  /\ creatures \in Seq(Creatures) /\ invisible \subseteq Creatures
  /\ kind \in [Items -> Kinds \union {None}] /\ flags \subseteq Flags
  /\ browse = NoBrowse \/ browse \in Seq(Items)
  /\ parent \in [Items -> {"none", "tile", "browse"}]
  /\ client \in Seq(Things) /\ Len(client) <= MaxShown
  /\ behind \in BOOLEAN /\ turned \subseteq Items

Init ==
  /\ ground = None /\ down = <<>> /\ top = <<>> /\ creatures = <<>> /\ invisible = {}
  /\ kind = [i \in Items |-> None] /\ flags = {} /\ browse = NoBrowse
  /\ parent = [i \in Items |-> "none"] /\ client = <<>>
  /\ behind = FALSE /\ turned = {}
-----------------------------------------------------------------------------
(* The tile as a record, which the operators below pass on.                *)
Self ==
  [ground |-> ground, down |-> down, top |-> top, creatures |-> creatures,
   hidden |-> invisible, kind |-> kind, flags |-> flags, browse |-> browse,
   parent |-> parent, client |-> client, behind |-> behind, turned |-> turned]

Becomes(w) ==
  /\ ground' = w.ground /\ down' = w.down /\ top' = w.top /\ creatures' = w.creatures
  /\ invisible' = w.hidden /\ kind' = w.kind /\ flags' = w.flags /\ browse' = w.browse
  /\ parent' = w.parent /\ client' = w.client /\ behind' = w.behind /\ turned' = w.turned

OnTile(w) == ToSet(w.down \o w.top) \union ({w.ground} \ {None})

(* What the player sees, in the order of getThingIndex and of              *)
(* GetTileDescription.                                                     *)
View(w) ==
  (IF w.ground = None THEN <<>> ELSE <<w.ground>>) \o w.top
    \o Reverse(SelectSeq(w.creatures, LAMBDA c : c \notin w.hidden)) \o w.down

FirstOf(s) == IF Len(s) > MaxShown THEN SubSeq(s, 1, MaxShown) ELSE s
ThingCount(w) == Len(View(w)) + Cardinality({i \in DOMAIN w.creatures : w.creatures[i] \in w.hidden})

(* getStackposOfItem, getStackposOfCreature                                *)
Stackpos(w, t) ==
  LET n == CHOOSE n \in DOMAIN View(w) : View(w)[n] = t
  IN  IF n > MaxShown THEN -1 ELSE n - 1

(* The messages 0x69, 0x6A, 0x6B and 0x6C, and what the client does.       *)
SendUpdateTile(w) == [w EXCEPT !.client = FirstOf(View(w)), !.behind = FALSE]
SendAdd(w, t) ==
  LET s == Stackpos(w, t)
      n == IF s > Len(w.client) THEN Len(w.client) ELSE s
  IN  IF s = -1 THEN w ELSE [w EXCEPT !.client = FirstOf(InsertAt(@, n + 1, t))]
SendUpdate(w, t) ==
  LET s == Stackpos(w, t)
  IN  IF s = -1 \/ s + 1 > Len(w.client) THEN w ELSE [w EXCEPT !.client[s + 1] = t]
SendRemove(w, s) ==
  IF s = -1 \/ s + 1 > Len(w.client) THEN w ELSE [w EXCEPT !.client = RemoveAt(@, s + 1)]

(* hasProperty                                                             *)
PropertiesOf(k) ==
  (IF k \in Solid THEN {"solid"} ELSE {})
    \union (IF k \in Solid \ Moveable THEN {"immovableSolid"} ELSE {})

SetTileFlags(w, i) ==
  [w EXCEPT !.flags = @ \union PropertiesOf(w.kind[i])
                        \union (IF w.kind[i] \in Special THEN {"special"} ELSE {})]

(* resetTileFlags: what no other item has, except that nobody looks for    *)
(* another teleport.                                                       *)
ResetTileFlags(w, i) ==
  LET others == UNION {PropertiesOf(w.kind[j]) : j \in OnTile(w) \ {i}}
  IN  [w EXCEPT !.flags = @ \ ((PropertiesOf(w.kind[i]) \ others)
                        \union (IF w.kind[i] \in Special THEN {"special"} ELSE {}))]

Browsed(w) == w.browse # NoBrowse
Listed(w, i) == Browsed(w) /\ i \in ToSet(w.browse)

(* onAddTileItem: the item's parent is the tile, browse field or not.      *)
OnAddTileItem(w, i) ==
  LET v == IF Browsed(w) /\ w.kind[i] \in Moveable THEN [w EXCEPT !.browse = Append(@, i)] ELSE w
  IN  SendAdd(SetTileFlags([v EXCEPT !.parent[i] = "tile"], i), i)

(* onUpdateTileItem: an item that becomes moveable is not listed, and one  *)
(* that is turned into an immovable thing itself stays listed.             *)
OnUpdateTileItem(w, old, new) ==
  LET listed == [w EXCEPT !.browse = [n \in DOMAIN @ |-> IF @[n] = old THEN new ELSE @[n]]]
      v == IF ~Listed(w, old) THEN w
           ELSE IF w.kind[new] \in Moveable
           THEN [listed EXCEPT !.parent[new] = "tile", !.turned = @ \ {new}]
           ELSE IF w.kind[old] \in Moveable
           THEN [w EXCEPT !.browse = SelectSeq(@, LAMBDA j : j # old)]
           ELSE [w EXCEPT !.turned = @ \union {new}]
  IN  SendUpdate(v, new)

(* onRemoveTileItem, and postRemoveNotification, which tells the client    *)
(* what has come up from below.                                            *)
OnRemoveTileItem(w, i, stackpos) ==
  LET v == IF w.kind[i] \in Moveable /\ Listed(w, i)
           THEN [w EXCEPT !.browse = SelectSeq(@, LAMBDA j : j # i)] ELSE w
  IN  SendRemove(ResetTileFlags(v, i), stackpos)

PostRemoveNotification(w) ==
  IF ThingCount(w) > MaxShown - 2 THEN SendUpdateTile(w) ELSE w

Released(w, i) == [w EXCEPT !.kind[i] = None, !.parent[i] = "none"]

(* removeThing of a whole item.                                            *)
RemoveThing(w, i) ==
  LET Other(j) == j # i
      v == [w EXCEPT !.ground = IF @ = i THEN None ELSE @,
                     !.top = SelectSeq(@, Other), !.down = SelectSeq(@, Other),
                     !.parent[i] = "none"]
  IN  OnRemoveTileItem(v, i, Stackpos(w, i))

RemovedForGood(w, i) == PostRemoveNotification(Released(RemoveThing(w, i), i))

(* Where a thing that is always on top goes: below those of its order.     *)
InsertedOnTop(w, i) ==
  LET above == {n \in DOMAIN w.top : Order[w.kind[i]] <= Order[w.kind[w.top[n]]]}
      n == IF above = {} THEN Len(w.top) + 1 ELSE CHOOSE n \in above : \A m \in above : n <= m
  IN  [w EXCEPT !.top = InsertAt(@, n, i)]

(* The first one of a sort that excludes another.                          *)
FirstIn(w, s, sort) ==
  LET found == {n \in DOMAIN s : w.kind[s[n]] \in sort}
  IN  IF found = {} THEN None ELSE s[CHOOSE n \in found : \A m \in found : n <= m]

Replaced(w, old) == IF old = None THEN w ELSE RemovedForGood(w, old)

(* addThing                                                                *)
AddThing(w, i) ==
  LET k == w.kind[i]
      splash == IF k \in Splashes THEN FirstIn(w, w.top, Splashes) ELSE None
      field == IF k \in Fields THEN FirstIn(w, w.down, Fields) ELSE None
      layered == [w EXCEPT !.ground = i, !.parent[i] = "tile",
                           !.parent[w.ground] = "none"]
  IN  CASE Layer[k] = "ground" ->
             IF w.ground = None THEN OnAddTileItem([w EXCEPT !.ground = i], i)
             ELSE PostRemoveNotification(Released(
                    OnUpdateTileItem(SetTileFlags(ResetTileFlags(layered, w.ground), i), w.ground, i),
                    w.ground))
        [] Layer[k] = "top" -> OnAddTileItem(InsertedOnTop(Replaced(w, splash), i), i)
        [] OTHER ->
             IF field # None /\ w.kind[field] \in Unreplaceable THEN Released(w, i)
             ELSE LET v == Replaced(w, field)
                  IN  OnAddTileItem([v EXCEPT !.down = <<i>> \o @], i)

(* updateThing: the item itself changes.                                   *)
UpdateThing(w, i, k) ==
  LET v == SetTileFlags([ResetTileFlags(w, i) EXCEPT !.kind[i] = k], i)
  IN  OnUpdateTileItem(v, i, i)

(* replaceThing: another takes its place.                                  *)
ReplaceThing(w, i, j) ==
  LET Put(s) == [n \in DOMAIN s |-> IF s[n] = i THEN j ELSE s[n]]
      v == [w EXCEPT !.ground = IF @ = i THEN j ELSE @, !.top = Put(@), !.down = Put(@),
                     !.parent[j] = "tile"]
  IN  Released(OnUpdateTileItem(SetTileFlags(ResetTileFlags(v, i), j), i, j), i)

(* queryAdd of a creature that walks.                                      *)
QueryAddCreature ==
  ground # None /\ creatures = <<>> /\ "solid" \notin flags
-----------------------------------------------------------------------------
NewItem(i) == kind[i] = None /\ i \notin turned

(* internalAddItem, or the end of a move; scripts and the map may do it    *)
(* whatever queryAdd says (FLAG_NOLIMIT).                                  *)
AddItem ==
  \E i \in Items, k \in Kinds :
    /\ NewItem(i)
    /\ Becomes(AddThing([Self EXCEPT !.kind[i] = k], i))

(* internalRemoveItem, or the start of a move.                             *)
RemoveItem == \E i \in OnTile(Self) : Becomes(RemovedForGood(Self, i))

(* transformItem: between layers the item is taken away and put back; of   *)
(* one type it changes itself; else a new one takes its place.  What was   *)
(* turned is not transformed again: a bound.                               *)
TransformItem ==
  \E i \in OnTile(Self) \ turned, k \in Kinds :
    LET old == kind[i]
        away == PostRemoveNotification(RemoveThing(Self, i))
        OnTop(l) == Layer[l] = "top"
    IN  /\ k # old /\ (Layer[k] = "ground") <=> (Layer[old] = "ground")
        /\ \/ /\ OnTop(k) # OnTop(old)
              /\ Becomes(AddThing([away EXCEPT !.kind[i] = k], i))
           \/ /\ OnTop(k) = OnTop(old) /\ Type[k] = Type[old]
              /\ Becomes(UpdateThing(PostRemoveNotification(Self), i, k))
           \/ /\ OnTop(k) = OnTop(old) /\ Type[k] # Type[old]
              /\ \E j \in Items :
                   /\ NewItem(j)
                   /\ Becomes(PostRemoveNotification(
                        ReplaceThing([Self EXCEPT !.kind[j] = k], i, j)))

(* moveCreature to and from the tile.                                      *)
CreatureComes ==
  \E c \in Creatures :
    LET w == [Self EXCEPT !.creatures = <<c>> \o @]
    IN  /\ c \notin ToSet(creatures) /\ QueryAddCreature
        /\ Becomes(IF c \in invisible THEN w ELSE SendAdd(w, c))

CreatureGoes ==
  \E c \in ToSet(creatures) :
    LET w == [Self EXCEPT !.creatures = SelectSeq(@, LAMBDA d : d # c)]
    IN  Becomes(PostRemoveNotification(
          IF c \in invisible THEN w ELSE SendRemove(w, Stackpos(Self, c))))

(* sendCreatureChangeVisible, after which nothing is told of what comes up *)
(* from below.                                                             *)
ChangeVisible ==
  \E c \in ToSet(creatures) :
    LET w == [Self EXCEPT !.hidden = @ \union {c}]
        v == [Self EXCEPT !.hidden = @ \ {c}]
    IN  Becomes(IF c \in invisible THEN SendAdd(v, c)
                ELSE [SendRemove(w, Stackpos(Self, c)) EXCEPT
                       !.behind = @ \/ Len(View(Self)) > MaxShown])

(* The constructor and the destructor of a browse field's container.       *)
OpenBrowseField ==
  LET listed == Reverse(SelectSeq(down \o top, LAMBDA i : kind[i] \in Moveable))
  IN  /\ browse = NoBrowse
      /\ Becomes([Self EXCEPT !.browse = listed,
           !.parent = [i \in Items |-> IF i \in ToSet(listed) THEN "browse" ELSE @[i]]])

CloseBrowseField ==
  /\ browse # NoBrowse
  /\ Becomes([Self EXCEPT !.browse = NoBrowse, !.turned = {},
       !.parent = [i \in Items |->
         IF i \in ToSet(browse) /\ i \in OnTile(Self) THEN "tile" ELSE @[i]]])

(* The client comes into view.                                             *)
Describe == Becomes(SendUpdateTile(Self))

Next ==
  \/ AddItem \/ RemoveItem \/ TransformItem \/ CreatureComes \/ CreatureGoes
  \/ ChangeVisible \/ OpenBrowseField \/ CloseBrowseField \/ Describe

Spec == Init /\ [][Next]_tileVars
-----------------------------------------------------------------------------
(* The flags say what the items do: whether one blocks the way and whether *)
(* it can be moved away, exactly; a flag of the special ones is never set  *)
(* without such an item.                                                   *)
FlagsAreExact ==
  /\ flags \ {"special"} = UNION {PropertiesOf(kind[i]) : i \in OnTile(Self)}
  /\ "special" \in flags => \E i \in OnTile(Self) : kind[i] \in Special

(* The browse field lists only what is on the tile, and an item's parent   *)
(* is the tile, or the browse field that lists it: never one that is gone; *)
(* except that an item turned immovable while it is listed stays listed.   *)
BrowseIsSound ==
  /\ Browsed(Self) => ToSet(browse) \subseteq OnTile(Self) \union turned
  /\ \A i \in OnTile(Self) :
       parent[i] = "tile" \/ (parent[i] = "browse" /\ Listed(Self, i))

(* The client shows the first things of the tile, whatever was added,      *)
(* removed, replaced or came up from below; except after a creature became *)
(* invisible on a tile with more than it shows.                            *)
ClientIsCurrent == ~behind => client = FirstOf(View(Self))

(* Invariant: the tile's three copies agree with what is on it (setTile-   *)
(* Flags and resetTileFlags; onAddTileItem, onUpdateTileItem and           *)
(* onRemoveTileItem; getStackposOfItem and postRemoveNotification).        *)
TilesAreSound == FlagsAreExact /\ BrowseIsSound /\ ClientIsCurrent
================================================================================
