-------------------------------- MODULE Windows --------------------------------
(***************************************************************************)
(* The containers that players have open (Player::openContainers), and the *)
(* browse field of a tile, a container that exists as long as somebody     *)
(* holds on to it: the windows that show it and an event of 30 seconds.    *)
(* Containers are carried about, put into each other and destroyed, and    *)
(* players walk: a window is only closed by the notifications of what      *)
(* moves.  The cells lie on a line; a container is within reach when it is *)
(* one's own or at most one cell away.                                     *)
(***************************************************************************)
EXTENDS Integers, FiniteSets

CONSTANTS
  Players, Containers, Cells,
  Browsable,       (* the cell with the browse field                       *)
  Ids, DummyId,    (* the numbers of windows, and that of the browse field *)
  Place,           (* where the containers are at first                    *)
  MaxFields,       (* how often a browse field comes up: a bound           *)
  MaxDeeds,        (* how often containers move or players leave: a bound  *)
  None

VARIABLES
  pos,             (* of each player, None when not in the game            *)
  loc,             (* of each container: a cell, a player or a container   *)
  window,          (* openContainers: of each player, by number            *)
  client,          (* what the client shows                                *)
  field,           (* the browse field there is, a number, or 0            *)
  refs,            (* its referenceCounter                                 *)
  fields,          (* how many there were so far                           *)
  timers,          (* scheduled decreaseBrowseFieldRef                     *)
  lost,            (* references of players that left without a word       *)
  deeds

windowVars == <<pos, loc, window, client, field, refs, fields, timers, lost, deeds>>

Fields == 1..MaxFields
Shown == Containers \union Fields \union {None}

TypeOK ==
  /\ pos \in [Players -> Cells \union {None}]
  /\ loc \in [Containers -> Cells \union Players \union Containers \union {None}]
  /\ window \in [Players -> [Ids -> Shown]] /\ client \in [Players -> [Ids -> Shown]]
  /\ field \in Fields \union {0} /\ fields \in 0..MaxFields
  /\ refs \in Nat /\ timers \in 0..MaxFields /\ lost \in Nat
  /\ deeds \in 0..MaxDeeds

Init ==
  /\ pos = [p \in Players |-> Browsable] /\ loc = Place
  /\ window = [p \in Players |-> [i \in Ids |-> None]] /\ client = window
  /\ field = 0 /\ refs = 0 /\ fields = 0 /\ timers = 0 /\ lost = 0 /\ deeds = 0
-----------------------------------------------------------------------------
(* getTopParent's place: a cell, a player, or None for what is removed.    *)
TopOf(l) ==
  LET top[c \in Containers] == IF l[c] \in Containers THEN top[l[c]] ELSE l[c] IN top

Near(c, d) == c - d \in -1..1

(* The cell of what a window shows, at the places l and the positions o.   *)
CellOf(o, l, x) ==
  IF x \in Fields THEN Browsable
  ELSE LET t == TopOf(l)[x] IN IF t \in Players THEN o[t] ELSE t

(* The containers from x outwards, which autoCloseContainers looks at.     *)
Outwards(l, x) ==
  LET up[c \in Containers] == {c} \union (IF l[c] \in Containers THEN up[l[c]] ELSE {})
  IN  IF x \in Containers THEN up[x] ELSE {x}

(* The windows and the browse field as a record.                           *)
Self == [win |-> window, client |-> client, field |-> field, refs |-> refs,
         fields |-> fields, timers |-> timers]

Becomes(w) ==
  /\ window' = w.win /\ client' = w.client /\ field' = w.field /\ refs' = w.refs
  /\ fields' = w.fields /\ timers' = w.timers

(* incrementReferenceCounter and decrementReferenceCounter, which ends the *)
(* browse field when it reaches 0.                                         *)
Held(w, x) == IF x \in Fields THEN [w EXCEPT !.refs = @ + 1] ELSE w
LetGo(w, x) ==
  IF x \notin Fields THEN w
  ELSE [w EXCEPT !.refs = @ - 1, !.field = IF w.refs = 1 THEN 0 ELSE @]

(* addContainer, closeContainer                                            *)
AddContainer(w, p, i, x) == [LetGo(Held(w, x), w.win[p][i]) EXCEPT !.win[p][i] = x]
CloseContainer(w, p, i) == [LetGo(w, w.win[p][i]) EXCEPT !.win[p][i] = None]

(* onSendContainer, onCloseContainer                                       *)
OnSendContainer(w, p, x) ==
  [w EXCEPT !.client[p] = [i \in Ids |-> IF w.win[p][i] = x THEN x ELSE @[i]]]
OnCloseContainer(w, p, x) ==
  [w EXCEPT !.client[p] = [i \in Ids |-> IF w.win[p][i] = x THEN None ELSE @[i]]]

(* autoCloseContainers: the windows of x, of what is in it, and of what is *)
(* removed, all of them.                                                   *)
AutoCloseContainers(w, p, x, l) ==
  LET gone == {i \in Ids : /\ w.win[p][i] # None
                           /\ \/ x \in Outwards(l, w.win[p][i])
                              \/ w.win[p][i] \in Containers /\ TopOf(l)[w.win[p][i]] = None}
      held == Cardinality({i \in gone : w.win[p][i] \in Fields})
  IN  [w EXCEPT !.win[p] = [i \in Ids |-> IF i \in gone THEN None ELSE @[i]],
                !.client[p] = [i \in Ids |-> IF i \in gone THEN None ELSE @[i]],
                !.refs = @ - held,
                !.field = IF held > 0 /\ w.refs = held THEN 0 ELSE @]

(* The browse field, made when there is none; an event holds on to it, too. *)
WithField(w) ==
  IF w.field # 0 THEN w
  ELSE [w EXCEPT !.field = w.fields + 1, !.fields = @ + 1, !.refs = 1, !.timers = @ + 1]

CanMake == field # 0 \/ fields < MaxFields
InReach(p, c) ==
  LET t == TopOf(loc)[c] IN t = p \/ (t \in Cells /\ Near(t, pos[p]))

(* Each one told, p, has the windows that after[p] leaves to it.           *)
ToldAll(w, after) ==
  [w EXCEPT !.win = [p \in Players |-> IF p \in DOMAIN after THEN after[p].win[p] ELSE @[p]],
            !.client = [p \in Players |->
                         IF p \in DOMAIN after THEN after[p].client[p] ELSE @[p]]]
-----------------------------------------------------------------------------
Others == <<pos, loc, lost, deeds>>

(* internalUseItem of a container; the least of the numbers is closed.     *)
UseContainer ==
  \E p \in Players, c \in Containers, i \in Ids :
    LET open == {j \in Ids : window[p][j] = c}
        first == CHOOSE j \in open : \A k \in open : j <= k
    IN  /\ pos[p] # None /\ InReach(p, c)
        /\ Becomes(IF open # {} THEN CloseContainer(OnCloseContainer(Self, p, c), p, first)
                   ELSE OnSendContainer(AddContainer(Self, p, i, c), p, c))
        /\ UNCHANGED Others

(* playerMoveUpContainer: into the container around, or to the browse      *)
(* field, also of the cell of the one who carries it.                      *)
MoveUpContainer ==
  \E p \in Players, i \in Ids :
    LET c == window[p][i]
        inside == c \in Containers /\ loc[c] \in Containers
        w == IF inside THEN Self ELSE WithField(Self)
        up == IF inside THEN loc[c] ELSE w.field
    IN  /\ pos[p] # None /\ c # None
        /\ inside \/ (CellOf(pos, loc, c) = Browsable /\ CanMake)
        /\ Becomes([AddContainer(w, p, i, up) EXCEPT !.client[p][i] = up])
        /\ UNCHANGED Others

BrowseField ==
  \E p \in Players :
    LET w == WithField(Self)
        old == window[p][DummyId]
    IN  /\ pos[p] # None /\ Near(pos[p], Browsable) /\ CanMake
        /\ Becomes(IF old # None THEN CloseContainer(OnCloseContainer(w, p, old), p, DummyId)
                   ELSE [AddContainer(w, p, DummyId, w.field) EXCEPT
                          !.client[p][DummyId] = w.field])
        /\ UNCHANGED Others

PlayerCloseContainer ==
  \E p \in Players, i \in Ids :
    /\ pos[p] # None /\ window[p][i] # None
    /\ Becomes([CloseContainer(Self, p, i) EXCEPT !.client[p][i] = None])
    /\ UNCHANGED Others

(* postAddNotification of the player: what is out of reach is closed.      *)
Walk ==
  \E p \in Players, c \in Cells :
    LET o == [pos EXCEPT ![p] = c]
        far == {x \in Shown \ {None} : (\E i \in Ids : window[p][i] = x) /\ ~Near(CellOf(o, loc, x), c)}
        inField == far \intersect Fields
        w1 == IF inField = {} THEN Self
              ELSE AutoCloseContainers(Self, p, CHOOSE x \in inField : TRUE, loc)
        w2 == [w1 EXCEPT
                !.win[p] = [i \in Ids |-> IF @[i] \in Containers /\ Outwards(loc, @[i]) \intersect far # {}
                                          THEN None ELSE @[i]],
                !.client[p] = [i \in Ids |->
                  IF w1.win[p][i] \in Containers /\ Outwards(loc, w1.win[p][i]) \intersect far # {}
                  THEN None ELSE @[i]]]
    IN  /\ pos[p] # None /\ Near(c, pos[p]) /\ c # pos[p]
        /\ pos' = o /\ Becomes(w2)
        /\ UNCHANGED <<loc, lost, deeds>>

(* Without asking who carries the container now.                           *)
SeenByAll(w, p, c, l) ==
  IF TopOf(l)[c] = None \/ ~Near(CellOf(pos, l, c), pos[p])
  THEN AutoCloseContainers(w, p, c, l) ELSE OnSendContainer(w, p, c)

(* postRemoveNotification to one who is told; topContainer is never a      *)
(* depot chest here.                                                       *)
Noticed(w, p, c, l) ==
  LET t == TopOf(l)[c] IN
  IF t = None \/ ~Near(CellOf(pos, l, c), pos[p]) \/ (t \in Players /\ t # p)
  THEN AutoCloseContainers(w, p, c, l) ELSE OnSendContainer(w, p, c)

(* A container is moved, by whomever, or destroyed: who carried it is      *)
(* told, or everybody who sees the cell.                                   *)
MoveContainer ==
  \E c \in Containers, to \in Cells \union Players \union Containers \union {None} :
    LET l == [loc EXCEPT ![c] = to]
        from == TopOf(loc)[c]
        told == {p \in Players : pos[p] # None /\ (from \in Players => p = from)}
    IN  /\ from # None /\ to # loc[c] /\ deeds < MaxDeeds /\ deeds' = deeds + 1
        /\ to \in Containers => c \notin Outwards(loc, to) /\ TopOf(loc)[to] # None
        /\ to \in Players => pos[to] # None /\ InReach(to, c)
        /\ loc' = l
        /\ Becomes(ToldAll(Self, [p \in told |-> Noticed(Self, p, c, l)]))
        /\ UNCHANGED <<pos, lost>>

(* decreaseBrowseFieldRef, of whatever browse field there is by then.      *)
Timer ==
  /\ timers > 0
  /\ Becomes([LetGo(Self, IF field = 0 THEN None ELSE field) EXCEPT !.timers = @ - 1])
  /\ UNCHANGED Others

(* The player's object goes with what it carries; nobody lets go of the    *)
(* browse field for it.                                                    *)
LogOut ==
  \E p \in Players :
    /\ pos[p] # None /\ deeds < MaxDeeds /\ deeds' = deeds + 1
    /\ pos' = [pos EXCEPT ![p] = None]
    /\ loc' = [c \in Containers |-> IF loc[c] = p THEN None ELSE loc[c]]
    /\ lost' = lost + Cardinality({i \in Ids : window[p][i] \in Fields})
    /\ window' = [window EXCEPT ![p] = [i \in Ids |-> None]]
    /\ client' = [client EXCEPT ![p] = [i \in Ids |-> None]]
    /\ UNCHANGED <<field, refs, fields, timers>>

LogIn ==
  \E p \in Players :
    /\ pos[p] = None /\ pos' = [pos EXCEPT ![p] = Browsable]
    /\ UNCHANGED <<loc, window, client, field, refs, fields, timers, lost, deeds>>

Next ==
  \/ UseContainer \/ MoveUpContainer \/ BrowseField \/ PlayerCloseContainer
  \/ Walk \/ MoveContainer \/ Timer \/ LogOut \/ LogIn

Spec == Init /\ [][Next]_windowVars
-----------------------------------------------------------------------------
Windowed(x) == {w \in Players \X Ids : window[w[1]][w[2]] = x}

(* Invariant: a window is open only on what its player may reach, however  *)
(* the containers and the players moved (autoCloseContainers and the       *)
(* notifications); what the client shows as open is open; and the browse   *)
(* field that is shown is the one there is, held exactly by its windows,   *)
(* its event and those who left, so that it is not ended under anybody and *)
(* ends when nobody holds it (addContainer, closeContainer,                *)
(* decreaseBrowseFieldRef).                                                *)
WindowsAreSound ==
  /\ \A p \in Players, i \in Ids :
       /\ window[p][i] \in Containers => InReach(p, window[p][i])
       /\ window[p][i] \in Fields => window[p][i] = field /\ Near(pos[p], Browsable)
       /\ client[p][i] # None => client[p][i] = window[p][i]
  /\ timers <= 1
  /\ refs = (IF field = 0 THEN 0 ELSE Cardinality(Windowed(field))) + timers + lost
  /\ field = 0 <=> refs = 0
================================================================================
