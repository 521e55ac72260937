-------------------------------- MODULE Terrain -------------------------------
(***************************************************************************)
(* What creatures know of the map: the search of a path, and what they     *)
(* remember of the tiles and the creatures around; no state is shared.     *)
(***************************************************************************)
EXTENDS Integers, Sequences, FiniteSets, SequencesExt, FiniteSetsExt
-----------------------------------------------------------------------------
(***************************************************************************)
(* How a creature finds its way and sees (map.cpp, creature.cpp): the      *)
(* search for a path to a place near a target, one node at a time, and     *)
(* the two rays that say whether the sight between two places is clear.    *)
(* Both are pure, and the search is the longest algorithm of the server;   *)
(* it cuts corners, as it looks at five of the eight neighbours only.      *)
(*                                                                         *)
(* Places are cells of one floor.  Neighbours of equal cost come in one    *)
(* order, whatever the direction.                                          *)
(***************************************************************************)
CONSTANTS
  Width, Height,   (* of the floor                                         *)
  InitialWalls,    (* the sets of cells that nobody walks on or looks past *)
  InitialCosts,    (* and functions from cells to the extra cost of them   *)
  Starts,          (* where the creature may be                            *)
  Quests,          (* targets, with the parameters of the search           *)
  MaxNodes, MaxClosed

VARIABLES
  wall, extra,     (* the map                                              *)
  from, quest,     (* the question                                         *)
  nodes,           (* the nodes in the order of their creation             *)
  found,           (* the best match so far, or 0                          *)
  bestMatch,
  path             (* the answer, once there is one: cells, or "none"      *)

pathVars == <<wall, extra, from, quest, nodes, found, bestMatch, path>>

Place == (1..Width) \X (1..Height)

PathsTypeOK ==
  /\ wall \in SUBSET Place /\ extra \in [Place -> Nat] /\ from \in Place
  /\ \A n \in 1..Len(nodes) :
       /\ nodes[n].pos \in Place /\ nodes[n].f \in Nat /\ nodes[n].open \in BOOLEAN
       /\ nodes[n].parent \in 0..Len(nodes)
  /\ found \in 0..Len(nodes) /\ bestMatch \in Nat
  /\ path.status \in {"searching", "found", "none"} /\ path.cells \in Seq(Place)

Abs(n) == IF n < 0 THEN -n ELSE n
Sign(n) == IF n > 0 THEN 1 ELSE IF n < 0 THEN -1 ELSE 0
MaxOf(a, b) == IF a > b THEN a ELSE b
Range2(p, q) == MaxOf(Abs(p[1] - q[1]), Abs(p[2] - q[2]))

PathsInit ==
  /\ wall \in InitialWalls /\ extra \in InitialCosts
  /\ from \in Starts \ wall /\ quest \in Quests
  /\ nodes = <<[pos |-> from, parent |-> 0, f |-> 0, open |-> TRUE]>>
  /\ found = 0 /\ bestMatch = 0 /\ path = [status |-> "searching", cells |-> <<>>]
-----------------------------------------------------------------------------
(* checkSightLine: from a to b, along the cells closest to the line.       *)
Ray(a, b) ==
  LET A == b[2] - a[2]
      B == a[1] - b[1]
      C == -(A * b[1] + B * b[2])
      mx == Sign(b[1] - a[1])
      my == Sign(b[2] - a[2])
      off(x, y) == Abs(A * x + B * y + C)
      step(cells, n) ==
        LET s == Last(cells)
            hor == off(s[1] + mx, s[2])
            ver == off(s[1], s[2] + my)
            cross == off(s[1] + mx, s[2] + my)
            down == s[2] # b[2] /\ (s[1] = b[1] \/ hor > ver \/ hor > cross)
            y == IF down THEN s[2] + my ELSE s[2]
            along == s[1] # b[1] /\ (y = b[2] \/ ver > hor \/ ver > cross)
        IN  IF s = b THEN cells
            ELSE Append(cells, <<IF along THEN s[1] + mx ELSE s[1], y>>)
  IN  FoldLeft(step, <<a>>, [n \in 1..(Width + Height) |-> n])

CheckSightLine(a, b) == \A n \in 2..Len(Ray(a, b)) : Ray(a, b)[n] \notin wall
IsSightClear(a, b) == CheckSightLine(a, b) \/ CheckSightLine(b, a)
-----------------------------------------------------------------------------
(* FrozenPathingConditionCall: p is no farther from the target than asked  *)
(* for, and unless the search is a full one on the creature's side of it.  *)
IsInRange(p) ==
  \A axis \in 1..2 :
    LET d == from[axis] - quest.target[axis]
        high == IF quest.full \/ d >= 0 THEN quest.max ELSE 0
        low == IF quest.full \/ d <= 0 THEN quest.max ELSE 0
    IN  p[axis] \in (quest.target[axis] - low)..(quest.target[axis] + high)

Distance(p) == Range2(quest.target, p)
Acceptable(p) ==
  /\ IsInRange(p) /\ (quest.clear => IsSightClear(p, quest.target))
  /\ Distance(p) \in quest.min..quest.max
Matches(p) ==
  Acceptable(p) /\ (quest.max = 1 \/ Distance(p) = quest.max \/ Distance(p) > bestMatch)
MatchOf(p) ==
  IF quest.max = 1 THEN bestMatch ELSE IF Distance(p) = quest.max THEN 0 ELSE Distance(p)
-----------------------------------------------------------------------------
AllNeighbors ==
  <<<<-1, 0>>, <<0, 1>>, <<1, 0>>, <<0, -1>>, <<-1, -1>>, <<1, -1>>, <<1, 1>>, <<-1, 1>>>>

(* dirNeighbors: of a node with a parent, those that do not lead back.     *)
Neighbors(n) ==
  IF nodes[n].parent = 0 THEN AllNeighbors
  ELSE LET p == nodes[nodes[n].parent].pos
           here == nodes[n].pos
       IN  SelectSeq(AllNeighbors, LAMBDA d :
             d[1] * (p[1] - here[1]) + d[2] * (p[2] - here[2]) <= 0)

MapWalkCost(d) == IF Abs(d[1]) = Abs(d[2]) THEN 25 ELSE 10
CanWalkTo(p) == p \in Place \ wall

(* Where a search may go at all                                            *)
Permitted(p) ==
  /\ CanWalkTo(p) /\ (quest.keep => IsInRange(p))
  /\ quest.search # 0 => Range2(from, p) <= quest.search

(* What one neighbour of the node n does to the nodes; full says that      *)
(* there was no room for another one, and no match to fall back on.        *)
Visit(n, w, d) ==
  LET p == <<nodes[n].pos[1] + d[1], nodes[n].pos[2] + d[2]>>
      known == SelectInSeq(w.nodes, LAMBDA m : m.pos = p)
      f == nodes[n].f + MapWalkCost(d) + extra[p]
  IN  IF w.stop \/ ~Permitted(p) THEN w
      ELSE IF known # 0
      THEN IF w.nodes[known].f <= f THEN w
           ELSE [w EXCEPT !.nodes[known].f = f, !.nodes[known].parent = n,
                          !.nodes[known].open = TRUE]
      ELSE IF Len(w.nodes) >= MaxNodes THEN [w EXCEPT !.stop = TRUE]
      ELSE [w EXCEPT !.nodes = Append(@, [pos |-> p, parent |-> n, f |-> f, open |-> TRUE])]

Open == {n \in 1..Len(nodes) : nodes[n].open}
Closed == {n \in 1..Len(nodes) : ~nodes[n].open}
BestNode ==
  CHOOSE n \in Open : \A m \in Open : nodes[n].f < nodes[m].f
                                      \/ (nodes[n].f = nodes[m].f /\ n <= m)

(* The parents of the node that was found, from the start                  *)
PathTo(n) ==
  FoldLeft(LAMBDA cells, k :
             LET m == SelectInSeq(nodes, LAMBDA x : x.pos = Head(cells))
             IN  IF nodes[m].parent = 0 THEN cells
                 ELSE <<nodes[nodes[m].parent].pos>> \o cells,
           <<nodes[n].pos>>, nodes)

Searching == path.status = "searching"
Answer(n) ==
  path' = IF n = 0 THEN [status |-> "none", cells |-> <<>>]
          ELSE [status |-> "found", cells |-> PathTo(n)]

(* One turn of the loop of getPathMatching                                 *)
Expand ==
  /\ Searching /\ Open # {} /\ (quest.search # 0 \/ Cardinality(Closed) < MaxClosed)
  /\ LET n == BestNode
         matches == Matches(nodes[n].pos)
         visit(w, d) == Visit(n, w, d)
         w == FoldLeft(visit, [nodes |-> nodes, stop |-> FALSE], Neighbors(n))
         best == IF matches THEN MatchOf(nodes[n].pos) ELSE bestMatch
         match == IF matches THEN n ELSE found
     IN  /\ bestMatch' = best /\ found' = match
         /\ IF matches /\ best = 0 THEN Answer(n) /\ UNCHANGED nodes
            ELSE IF w.stop /\ match = 0 THEN Answer(0) /\ UNCHANGED nodes
            ELSE nodes' = [w.nodes EXCEPT ![n].open = FALSE] /\ UNCHANGED path
  /\ UNCHANGED <<wall, extra, from, quest>>

(* Nothing is left to expand, or too much was expanded.                    *)
GiveUp ==
  /\ Searching
  /\ Open = {} \/ (quest.search = 0 /\ Cardinality(Closed) >= MaxClosed)
  /\ Answer(found) /\ UNCHANGED <<wall, extra, from, quest, nodes, found, bestMatch>>

Finished == ~Searching /\ UNCHANGED pathVars

PathsNext == Expand \/ GiveUp \/ Finished
PathsSpec == PathsInit /\ [][PathsNext]_pathVars
-----------------------------------------------------------------------------
Steps(p, q) == Range2(p, q) = 1
CostOf(p, q) == MapWalkCost(<<q[1] - p[1], q[2] - p[2]>>) + extra[q]

(* A node costs what its way costs; what is expanded is done with: no      *)
(* neighbour of it, not one of those that were skipped either, can be      *)
(* reached cheaper from there.  Together they say that f is the least      *)
(* cost of all ways, although only five neighbours were looked at.         *)
CostsAreLeast ==
  /\ \A n \in 2..Len(nodes) :
       /\ Steps(nodes[nodes[n].parent].pos, nodes[n].pos)
       /\ nodes[n].f = nodes[nodes[n].parent].f
                       + CostOf(nodes[nodes[n].parent].pos, nodes[n].pos)
  /\ Len(nodes) < MaxNodes =>
       \A n \in Closed : \A p \in Place :
         Steps(nodes[n].pos, p) /\ Permitted(p) =>
           \E m \in 1..Len(nodes) :
             nodes[m].pos = p /\ nodes[m].f <= nodes[n].f + CostOf(nodes[n].pos, p)

(* A path leads step by step over free cells to where the sight is clear   *)
(* and the distance right, and there is none that is nearer to what was    *)
(* asked for; without an answer, no place that was reached is acceptable.  *)
AnswersAreRight ==
  /\ path.status = "found" =>
       LET end == Last(path.cells)
       IN  /\ Head(path.cells) = from /\ Acceptable(end)
           /\ \A k \in 2..Len(path.cells) :
                Steps(path.cells[k - 1], path.cells[k]) /\ Permitted(path.cells[k])
           /\ \A n \in Closed : Acceptable(nodes[n].pos) => Distance(nodes[n].pos) <= Distance(end)
  /\ path.status = "none" => \A n \in Closed : ~Acceptable(nodes[n].pos)

(* A ray goes straight: every cell of it is less than one from the line,   *)
(* and it arrives.                                                         *)
RaysAreStraight ==
  \A p \in Place :
    LET r == Ray(from, p)
        A == p[2] - from[2]
        B == from[1] - p[1]
    IN  /\ Last(r) = p
        /\ \A k \in 1..Len(r) :
             Abs(A * (r[k][1] - p[1]) + B * (r[k][2] - p[2])) <= MaxOf(Abs(A), Abs(B))
        /\ \A k \in 2..Len(r) : Steps(r[k - 1], r[k])

(* Invariant: the search finds the cheapest way to the best place, if      *)
(* there is any; the rays of sight are straight.                           *)
PathsAreSound == CostsAreLeast /\ AnswersAreRight /\ RaysAreStraight
-----------------------------------------------------------------------------
(***************************************************************************)
(* Who is near (map.cpp, creature.cpp, tile.cpp).  The map is cut into     *)
(* leaves that know their creatures and their neighbours to the south and  *)
(* the east; whoever is near a place is told what happens there, and is    *)
(* looked for along these links, or taken from a cache that lives until    *)
(* somebody moves or the dispatcher's task ends.  A monster keeps a cache  *)
(* of its own, of the cells around it that it could walk on; it shifts it  *)
(* when it moves, and corrects it when it is told of a change.             *)
(*                                                                         *)
(* Left out: floors.  The radius of both caches is the viewport.           *)
(***************************************************************************)
CONSTANTS
  MapWidth, MapHeight,   (* of the map, in cells from 0                          *)
  FloorSize,       (* the cells of a leaf, one way                         *)
  Viewport,
  Monster, Other,  (* a monster, and a creature without a cache            *)
  MapOrders,       (* the orders in which leaves may be made               *)
  Late,            (* leaves that a script may make while the server runs  *)
  Spots,           (* where things and creatures may come to be            *)
  MaxDeeds,        (* bound on what happens                                *)
  Nowhere

VARIABLES
  tree,            (* the leaves, their links and their lists of creatures *)
  where,           (* the position of each creature                        *)
  solid, fields,   (* cells with something in the way, cells on fire       *)
  spectatorCache,  (* who was found near which centre                      *)
  localMapCache,   (* the monster's, by offset                             *)
  smeared, burnt,  (* history: it may be wrong; cells whose fire went out  *)
  deeds

nearVars == <<tree, where, solid, fields, spectatorCache, localMapCache, smeared, burnt, deeds>>

Creatures == {Monster, Other}
Cell == (0..(MapWidth - 1)) \X (0..(MapHeight - 1))
LeafOf(p) == <<p[1] \div FloorSize, p[2] \div FloorSize>>
Leaves == {LeafOf(p) : p \in Cell}
Offset == ((-Viewport)..Viewport) \X ((-Viewport)..Viewport)
Own == <<0, 0>>
Plus(p, d) == <<p[1] + d[1], p[2] + d[2]>>
Minus(p, q) == <<p[1] - q[1], p[2] - q[2]>>

SurroundingsTypeOK ==
  /\ tree.made \in SUBSET Leaves
  /\ tree.south \in [Leaves -> Leaves \union {Nowhere}]
  /\ tree.east \in [Leaves -> Leaves \union {Nowhere}]
  /\ tree.list \in [Leaves -> SUBSET Creatures]
  /\ where \in [Creatures -> Cell \union {Nowhere}]
  /\ solid \in SUBSET Cell /\ fields \in SUBSET Cell /\ burnt \in SUBSET Cell
  /\ DOMAIN spectatorCache \in SUBSET Cell
  /\ localMapCache \in [Offset -> BOOLEAN]
  /\ smeared \in BOOLEAN /\ deeds \in 0..MaxDeeds
-----------------------------------------------------------------------------
GetLeaf(t, l) == IF l \in t.made THEN l ELSE Nowhere

(* setTile: the first tile of a leaf makes it, and links it both ways.     *)
SetTile(t, l) ==
  LET north == Plus(l, <<0, -1>>)
      west == Plus(l, <<-1, 0>>)
  IN  IF l \in t.made THEN t
      ELSE [t EXCEPT
        !.made = @ \union {l},
        !.south = [k \in Leaves |->
          CASE k = north /\ north \in t.made -> l
            [] k = l -> GetLeaf(t, Plus(l, <<0, 1>>))
            [] OTHER -> t.south[k]],
        !.east = [k \in Leaves |->
          CASE k = west /\ west \in t.made -> l
            [] k = l -> GetLeaf(t, Plus(l, <<1, 0>>))
            [] OTHER -> t.east[k]]]

Empty ==
  [made |-> {}, south |-> [l \in Leaves |-> Nowhere], east |-> [l \in Leaves |-> Nowhere],
   list |-> [l \in Leaves |-> {}]]

Near(p, q) == Minus(p, q) \in Offset

(* getSpectatorsInternal: row by row, from leaf to leaf                    *)
Scan(t, at, center) ==
  LET low(k) == Max({0, center[k] - Viewport}) \div FloorSize
      high(k) == (center[k] + Viewport) \div FloorSize
      numbers(k) == [n \in 1..(high(k) - low(k) + 1) |-> low(k) + n - 1]
      row(s, ny) ==
        LET look(v, nx) ==
              IF v.leaf = Nowhere THEN [v EXCEPT !.leaf = GetLeaf(t, <<nx + 1, ny>>)]
              ELSE [leaf |-> t.east[v.leaf],
                    list |-> v.list \union {c \in t.list[v.leaf] : Near(at[c], center)}]
        IN  [leaf |-> IF s.leaf = Nowhere THEN GetLeaf(t, <<low(1), ny + 1>>)
                      ELSE t.south[s.leaf],
             list |-> FoldLeft(look, s, numbers(1)).list]
  IN  FoldLeft(row, [leaf |-> GetLeaf(t, <<low(1), low(2)>>), list |-> {}], numbers(2)).list

SurroundingsInit ==
  /\ tree \in {FoldLeft(SetTile, Empty, order) : order \in MapOrders}
  /\ where = [c \in Creatures |-> Nowhere] /\ solid = {} /\ fields = {}
  /\ spectatorCache = <<>> /\ localMapCache = [o \in Offset |-> FALSE]
  /\ smeared = FALSE /\ burnt = {} /\ deeds = 0
-----------------------------------------------------------------------------
(* The operators below map the world as a record to its successor.         *)
Now == [tree |-> tree, where |-> where, solid |-> solid, fields |-> fields,
        found |-> spectatorCache, walk |-> localMapCache, smeared |-> smeared, burnt |-> burnt]
Becomes(w) ==
  /\ tree' = w.tree /\ where' = w.where /\ solid' = w.solid /\ fields' = w.fields
  /\ spectatorCache' = w.found /\ localMapCache' = w.walk
  /\ smeared' = w.smeared /\ burnt' = w.burnt

(* getSpectators adds to a list, and what it did not find in the cache it  *)
(* puts there: the whole list, with what the caller had in it before.      *)
Spectators(w, list, center) ==
  list \union (IF center \in DOMAIN w.found THEN w.found[center]
               ELSE Scan(w.tree, w.where, center))
GetSpectators(w, list, center) ==
  IF center \in DOMAIN w.found THEN w
  ELSE [w EXCEPT !.found =
         [p \in DOMAIN w.found \union {center} |->
           IF p = center THEN Spectators(w, list, center) ELSE w.found[p]]]
ClearSpectatorCache(w) == [w EXCEPT !.found = <<>>]

(* queryAdd, as the monster asks it                                        *)
Walkable(w, p) ==
  /\ p \in Cell /\ LeafOf(p) \in w.tree.made
  /\ p \notin w.solid \union w.fields /\ \A c \in Creatures : w.where[c] # p

UpdateTileCache(w, p) ==
  IF w.where[Monster] # Nowhere /\ Minus(p, w.where[Monster]) \in Offset
  THEN [w EXCEPT !.walk[Minus(p, w.where[Monster])] = Walkable(w, p), !.burnt = @ \ {p}]
  ELSE w
UpdateMapCache(w) ==
  [w EXCEPT !.walk = [o \in Offset |-> Walkable(w, Plus(w.where[Monster], o))],
            !.smeared = FALSE, !.burnt = {}]

(* onCreatureMove: the rows are shifted first, and the new one is filled;  *)
(* then the columns, but of a diagonal step never the topmost row, which   *)
(* is right only if that one is new.                                       *)
Shifted(w, d) ==
  LET fresh(o) == Walkable(w, Plus(w.where[Monster], o))
      rows == IF d[2] = 0 THEN w.walk
              ELSE [o \in Offset |->
                IF o[2] = d[2] * Viewport THEN fresh(o) ELSE w.walk[<<o[1], o[2] + d[2]>>]]
      first == IF d[2] # 0 THEN 1 - Viewport ELSE -Viewport
  IN  IF d[1] = 0 THEN rows
      ELSE [o \in Offset |->
        IF o[1] = d[1] * Viewport THEN fresh(o)
        ELSE IF o[2] >= first THEN rows[<<o[1] + d[1], o[2]>>] ELSE rows[o]]

Aligned(d) == d[1] = 0 \/ d[2] <= 0
OnOwnMove(w, old, teleport) ==
  LET d == Minus(w.where[Monster], old)
  IN  IF teleport THEN UpdateMapCache(w)
      ELSE UpdateTileCache([w EXCEPT !.walk = Shifted(w, d),
                                     !.smeared = @ \/ ~Aligned(d)], old)
-----------------------------------------------------------------------------
Deed == deeds < MaxDeeds /\ deeds' = deeds + 1
Placed == {c \in Creatures : where[c] # Nowhere}

PlaceCreature(c, p) ==
  /\ c \notin Placed /\ LeafOf(p) \in tree.made /\ p \notin solid
  /\ \A d \in Creatures : where[d] # p
  /\ LET v == ClearSpectatorCache([Now EXCEPT !.where[c] = p,
                                              !.tree.list[LeafOf(p)] = @ \union {c}])
         w == GetSpectators(v, {}, p)
     IN  Becomes(IF Monster \notin Spectators(v, {}, p) THEN w
                 ELSE IF c = Monster THEN UpdateMapCache(w) ELSE UpdateTileCache(w, p))
  /\ Deed

RemoveCreature(c) ==
  /\ c \in Placed
  /\ LET p == where[c]
         list == Spectators(Now, {}, p)
         w == ClearSpectatorCache([Now EXCEPT !.where[c] = Nowhere,
                                              !.tree.list[LeafOf(p)] = @ \ {c}])
     IN  Becomes(IF Monster \in list /\ c # Monster THEN UpdateTileCache(w, p) ELSE w)
  /\ Deed

MoveCreature(c, q, teleport) ==
  /\ c \in Placed /\ q \in Cell \ solid /\ LeafOf(q) \in tree.made
  /\ \A d \in Creatures : where[d] # q
  /\ ~teleport => Minus(q, where[c]) \in (-1..1) \X (-1..1)
  /\ LET p == where[c]
         list == Spectators(Now, Spectators(Now, {}, p), q)
         w == ClearSpectatorCache(
                [Now EXCEPT !.where[c] = q,
                            !.tree.list = [l \in Leaves |->
                              IF l = LeafOf(q) THEN @[l] \union {c} ELSE @[l] \ {c}]])
     IN  Becomes(IF Monster \notin list THEN w
                 ELSE IF c = Monster THEN OnOwnMove(w, p, teleport)
                 ELSE UpdateTileCache(UpdateTileCache(w, q), p))
  /\ Deed

(* Something comes to lie on a tile, or is taken away from it.             *)
Told(w, p) ==
  LET v == GetSpectators(w, {}, p)
  IN  IF Monster \in Spectators(w, {}, p) THEN UpdateTileCache(v, p) ELSE v
OnAddTileItem(p) ==
  /\ p \notin solid \union fields /\ LeafOf(p) \in tree.made
  /\ \/ Becomes(Told([Now EXCEPT !.solid = @ \union {p}], p))
     \/ Becomes(Told([Now EXCEPT !.fields = @ \union {p}], p))
  /\ Deed
OnRemoveTileItem(p) ==
  /\ \/ p \in solid /\ Becomes(Told([Now EXCEPT !.solid = @ \ {p}], p))
     \/ p \in fields /\ Becomes(GetSpectators([Now EXCEPT !.fields = @ \ {p},
                                                          !.burnt = @ \union {p}], {}, p))
  /\ Deed

(* A new part of the map, of which nobody is told                          *)
CreateTile(l) ==
  /\ l \in Late \ tree.made
  /\ Becomes([Now EXCEPT !.tree = SetTile(tree, l),
                         !.burnt = @ \union {p \in Cell : LeafOf(p) = l}])
  /\ Deed

(* convinceCreature asks for those near two places with one list.          *)
Convince ==
  /\ Placed = Creatures
  /\ LET p == where[Monster]
         v == GetSpectators(Now, {}, p)
     IN  Becomes(GetSpectators(v, Spectators(Now, {}, p), where[Other]))
  /\ Deed

(* The dispatcher's task is over.                                          *)
EndOfTask ==
  /\ spectatorCache # <<>> /\ Becomes(ClearSpectatorCache(Now)) /\ UNCHANGED deeds

Over == deeds = MaxDeeds /\ spectatorCache = <<>> /\ UNCHANGED nearVars

SurroundingsNext ==
  \/ \E p \in Spots :
       \/ OnAddTileItem(p) \/ OnRemoveTileItem(p)
       \/ \E c \in Creatures : PlaceCreature(c, p) \/ MoveCreature(c, p, TRUE)
  \/ \E c \in Creatures : RemoveCreature(c) \/ \E q \in Cell : MoveCreature(c, q, FALSE)
  \/ \E l \in Late : CreateTile(l)
  \/ Convince \/ EndOfTask \/ Over

SurroundingsSpec == SurroundingsInit /\ [][SurroundingsNext]_nearVars
-----------------------------------------------------------------------------
(* Along the links everybody near is found, wherever there is no map and   *)
(* in whatever order it was made; and nobody near is missing in the cache, *)
(* nor does it hold one who is gone.                                       *)
NobodyIsMissed ==
  /\ \A p \in Cell :
       Scan(tree, where, p) = {c \in Placed : Near(where[c], p)}
  /\ \A p \in DOMAIN spectatorCache :
       /\ {c \in Placed : Near(where[c], p)} \subseteq spectatorCache[p]
       /\ spectatorCache[p] \subseteq Placed

(* The monster takes no cell for free that is not; and none for taken that *)
(* is free, unless it was not told: the fire on it went out, or it is new. *)
(* All this until it makes a diagonal step to the south.                   *)
StepsAreSafe ==
  Monster \in Placed /\ ~smeared =>
    \A o \in Offset \ {Own} :
      LET p == Plus(where[Monster], o)
      IN  /\ localMapCache[o] => Walkable(Now, p)
          /\ Walkable(Now, p) /\ p \notin burnt => localMapCache[o]

(* Invariant: those who are near are told, and what they keep is true.     *)
SurroundingsAreSound == NobodyIsMissed /\ StepsAreSafe
===============================================================================
