------------------------------ MODULE Creatures -------------------------------
(***************************************************************************)
(* Creatures (creature.cpp, monster.cpp, map.cpp, game.cpp): players and   *)
(* monsters hold raw pointers to one another, as master and summons, as    *)
(* the one they attack or follow, and as the targets and the friends of a  *)
(* monster.  Only some of these are counted references; the rest is kept   *)
(* right by the notices that go to all who stand near a creature when it   *)
(* appears, moves, changes sides or is removed.                            *)
(*                                                                         *)
(* The list of creatures to be checked holds a reference of its own; a     *)
(* monster is in it while it is awake, and only from there is a creature   *)
(* that ran out of health buried.                                          *)
(*                                                                         *)
(* Places are cells on a line.  Left out: conditions (a monster with one   *)
(* stays awake), walls and floors, players in each other's party, and the  *)
(* monsters that do not attack.  An object is used once.                   *)
(***************************************************************************)
EXTENDS Integers, FiniteSets, FiniteSetsExt, TLC

CONSTANTS
  Players, Monsters,
  Cells,
  Sight,           (* how far a creature sees                              *)
  Viewport,        (* how far notices go, and no less than Sight           *)
  Leash,           (* how far a summon may be from its master              *)
  Home,            (* where each creature appears                          *)
  MaxDeeds,        (* bound: moves, orders, hits, convincings and removals *)
  None             (* nullptr                                              *)

VARIABLES
  creature,        (* every Creature object                                *)
  deeds            (* how many of these there were                         *)

creatureVars == <<creature, deeds>>

Creatures == Players \union Monsters

New == [life |-> "new", pos |-> 0, alive |-> TRUE,
        master |-> None, summons |-> {}, attacked |-> None, followed |-> None,
        targets |-> {}, friends |-> {},
        creatureCheck |-> FALSE,   (* to be checked, or else to be dropped *)
        listed |-> FALSE,          (* inCheckCreaturesVector               *)
        toRelease |-> 0,           (* its entries in ToReleaseCreatures    *)
        references |-> 0]

TypeOK ==
  /\ deeds \in 0..MaxDeeds
  /\ creature \in [Creatures ->
    [life : {"new", "placed", "removed", "deleted"}, pos : Cells, alive : BOOLEAN,
     master : Creatures \union {None}, summons : SUBSET Creatures,
     attacked : Creatures \union {None}, followed : Creatures \union {None},
     targets : SUBSET Creatures, friends : SUBSET Creatures,
     creatureCheck : BOOLEAN, listed : BOOLEAN,
     toRelease : 0..2, references : 0..3 + 3 * Cardinality(Creatures)]]

Init == creature = [c \in Creatures |-> New] /\ deeds = 0
-----------------------------------------------------------------------------
(* The operators below map the function w of all objects to its successor. *)

Apart(w, c, d) == IF w[c].pos > w[d].pos THEN w[c].pos - w[d].pos
                                         ELSE w[d].pos - w[c].pos
Sees(w, c, d) == Apart(w, c, d) <= Sight

(* getSpectators                                                           *)
Spectators(w, pos) ==
  {c \in Creatures : /\ w[c].life = "placed"
                     /\ w[c].pos \in (pos - Viewport)..(pos + Viewport)}

ForAll(op(_, _), w, S) == FoldSet(LAMBDA c, v : op(v, c), w, S)

Held(w, c) == [w EXCEPT ![c].references = @ + 1]
LetGo(w, c) == [w EXCEPT ![c].references = @ - 1]

(* clearTargetList, clearFriendList                                        *)
Cleared(w, m) ==
  [ForAll(LetGo, ForAll(LetGo, w, w[m].targets), w[m].friends)
     EXCEPT ![m].targets = {}, ![m].friends = {}]

WithTarget(w, m, c) ==
  IF c \in w[m].targets THEN w
  ELSE Held([w EXCEPT ![m].targets = @ \union {c}], c)
WithFriend(w, m, c) ==
  IF c \in w[m].friends THEN w
  ELSE Held([w EXCEPT ![m].friends = @ \union {c}], c)
WithoutTarget(w, m, c) ==
  IF c \notin w[m].targets THEN w
  ELSE LetGo([w EXCEPT ![m].targets = @ \ {c}], c)
WithoutFriend(w, m, c) ==
  IF c \notin w[m].friends THEN w
  ELSE LetGo([w EXCEPT ![m].friends = @ \ {c}], c)

(* addSummon and removeSummon                                              *)
WithSummon(w, c, s) ==
  Held([w EXCEPT ![s].master = c, ![c].summons = @ \union {s}], s)
ForgottenByMaster(w, c, s) ==
  IF s \notin w[c].summons THEN w
  ELSE [w EXCEPT ![s].master = None, ![c].summons = @ \ {s}]
WithoutSummon(w, c, s) ==
  IF s \notin w[c].summons THEN w
  ELSE LetGo([w EXCEPT ![s].master = None, ![c].summons = @ \ {s}], s)

(* addCreatureCheck                                                        *)
Checked(w, c) ==
  LET v == [w EXCEPT ![c].creatureCheck = TRUE]
  IN  IF w[c].listed THEN v ELSE Held([v EXCEPT ![c].listed = TRUE], c)

(* removeCreatureCheck                                                     *)
Unchecked(w, c) == [w EXCEPT ![c].creatureCheck = @ /\ ~w[c].listed]

(* Monster::setIdle                                                        *)
SetIdle(w, m, idle) ==
  IF w[m].life = "removed" \/ ~w[m].alive THEN w
  ELSE IF idle THEN Unchecked(Cleared(w, m), m) ELSE Checked(w, m)

UpdateIdleStatus(w, m) ==
  SetIdle(w, m, w[m].master = None /\ w[m].targets = {})

(* Monster::changeHealth with all that is left                             *)
Killed(w, m) == [SetIdle(w, m, FALSE) EXCEPT ![m].alive = FALSE]

(* A master that dies or is convinced loses its summons, and they die.     *)
SummonsKilled(w, c) ==
  [ForAll(LAMBDA v, s : LetGo([Killed(v, s) EXCEPT ![s].master = None], s),
          w, w[c].summons) EXCEPT ![c].summons = {}]
-----------------------------------------------------------------------------
Commanded(w, c) == w[c].master \in Players

(* isFriend and isOpponent, of a monster m                                 *)
IsFriend(w, m, c) ==
  IF Commanded(w, m) THEN w[m].master \in {c, w[c].master}
                     ELSE c \in Monsters /\ w[c].master = None
IsOpponent(w, m, c) ==
  IF Commanded(w, m) THEN c # w[m].master
                     ELSE c \in Players \/ Commanded(w, c)

(* onCreatureFound, which is all that onCreatureEnter does                 *)
Found(w, m, c) ==
  LET met == IF IsFriend(w, m, c) THEN WithFriend(w, m, c) ELSE w
  IN  UpdateIdleStatus(IF IsOpponent(w, m, c) THEN WithTarget(met, m, c)
                                              ELSE met, m)

(* onCreatureLeave                                                         *)
Lost(w, m, c) ==
  LET parted == IF IsFriend(w, m, c) THEN WithoutFriend(w, m, c) ELSE w
      ignored == WithoutTarget(parted, m, c)
  IN  IF ~IsOpponent(w, m, c) THEN parted
      ELSE IF ignored[m].targets = {} THEN UpdateIdleStatus(ignored, m)
      ELSE ignored

(* updateTargetList                                                        *)
UpdateTargetList(w, m) ==
  LET gone(S) == {c \in S : ~w[c].alive \/ ~Sees(w, m, c)}
      kept == ForAll(LAMBDA v, c : WithoutTarget(v, m, c),
                ForAll(LAMBDA v, c : WithoutFriend(v, m, c), w, gone(w[m].friends)),
                gone(w[m].targets))
      near == {c \in Spectators(w, w[m].pos) \ {m} : Sees(w, m, c)}
  IN  ForAll(LAMBDA v, c : Found(v, m, c), kept, near)

LookAround(w, m) == UpdateIdleStatus(UpdateTargetList(w, m), m)

(* setFollowCreature, and how a player gives up when it cannot             *)
Follow(w, c, t) ==
  [w EXCEPT ![c].followed = IF t # None /\ Sees(w, c, t) THEN t ELSE None]

(* setAttackedCreature: an order to attack goes on to the summons, unless  *)
(* the target is out of sight.                                             *)
AttackAlone(w, c, t) ==
  [w EXCEPT ![c].attacked = IF t # None /\ Sees(w, c, t) THEN t ELSE None]
Attack(w, c, t) ==
  LET v == AttackAlone(w, c, t)
      led == IF t # None /\ ~Sees(w, c, t) THEN v
             ELSE ForAll(LAMBDA u, s : AttackAlone(u, s, t), v, w[c].summons)
  IN  IF t = None /\ c \in Players THEN [led EXCEPT ![c].followed = None] ELSE led

(* onCreatureDisappear                                                     *)
NotAttacking(w, c, gone) == IF w[c].attacked = gone THEN Attack(w, c, None) ELSE w
NotFollowing(w, c, gone) == IF w[c].followed = gone THEN Follow(w, c, None) ELSE w
Disappeared(w, c, gone) == NotFollowing(NotAttacking(w, c, gone), c, gone)

(* selectTarget                                                            *)
SelectTarget(w, m, t) ==
  IF w[t].life # "placed" \/ t \notin w[m].targets THEN w
  ELSE Follow(Attack(w, m, t), m, t)
-----------------------------------------------------------------------------
(* The notices.  Spectators come in the order of a hash set: "before" are  *)
(* those notified before the creature itself.                              *)

Notify(op(_, _), w, c, spectators, before) ==
  ForAll(op,
    ForAll(op, ForAll(op, w, (spectators \ {c}) \intersect before),
           spectators \intersect {c}),
    (spectators \ {c}) \ before)

(* onRemoveCreature                                                        *)
Freed(w, c) ==
  IF w[c].master # None /\ w[w[c].master].life # "removed"
  THEN WithoutSummon(w, w[c].master, c) ELSE w
Parted(w, s, c) ==
  IF s = c
  THEN LET v == Freed(Disappeared(w, c, c), c)
       IN  IF c \in Players THEN v ELSE SetIdle(v, c, TRUE)
  ELSE LET v == Disappeared(w, s, c)
       IN  IF s \in Players THEN v ELSE Lost(v, s, c)

(* Game::removeCreature; then its summons, which have none of their own    *)
RemovedAlone(w, c, before) ==
  IF w[c].life # "placed" THEN w
  ELSE Unchecked(
         [Notify(LAMBDA v, s : Parted(v, s, c), w, c, Spectators(w, w[c].pos), before)
            EXCEPT ![c].life = "removed", ![c].toRelease = @ + 1], c)
SummonsRemoved(w, c, before) ==
  ForAll(LAMBDA u, s : RemovedAlone(u, s, before), w, w[c].summons)
Removed(w, c, before) ==
  IF w[c].life # "placed" THEN w
  ELSE SummonsRemoved(RemovedAlone(w, c, before), c, before)

(* onCreatureAppear, of the monster s                                      *)
Met(w, s, c) ==
  IF s \in Players THEN w
  ELSE IF s = c THEN LookAround(w, s) ELSE Found(w, s, c)

(* placeCreature                                                           *)
Placed(w, c, pos, before) ==
  LET v == Held([w EXCEPT ![c].life = "placed", ![c].pos = pos], c)
  IN  Checked(Notify(LAMBDA u, s : Met(u, s, c), v, c, Spectators(v, pos), before), c)

(* Creature::onCreatureMove: who strays too far is let go, summons first.  *)
KeptIfSeen(w, s, t, c) ==
  IF t # None /\ c \in {t, s} /\ ~Sees(w, s, t) THEN Disappeared(w, s, t) ELSE w
AttackedInSight(w, s, c) == KeptIfSeen(w, s, w[s].attacked, c)
KeptInSight(w, s, c) == AttackedInSight(KeptIfSeen(w, s, w[s].followed, c), s, c)

Unleashed(w, c, before) ==
  ForAll(LAMBDA v, s : Removed(v, s, before), w,
         {s \in w[c].summons : Apart(w, c, s) > Leash})

(* onCreatureMove: s learns that c came from the place old.  A monster     *)
(* whose way is blocked turns to the one in the way, if it cares to.       *)
SawComeOrGo(w, s, c, old) ==
  LET saw == w[s].pos \in (old - Sight)..(old + Sight)
  IN  UpdateIdleStatus(IF Sees(w, s, c) /\ ~saw THEN Found(w, s, c)
                       ELSE IF saw /\ ~Sees(w, s, c) THEN Lost(w, s, c) ELSE w, s)
Turned(w, s, c, inTheWay) ==
  LET free == w[s].followed = None
      blocked == /\ inTheWay \notin {None, s, w[s].followed}
                 /\ Apart(w, s, w[s].followed) > 0
      t == IF free THEN c ELSE inTheWay
  IN  IF w[s].master = None /\ (free \/ blocked) /\ IsOpponent(w, s, t)
      THEN SelectTarget(w, s, t) ELSE w
Noticed(w, s, c, old, before, inTheWay) ==
  LET v == KeptInSight(IF s = c THEN Unleashed(w, c, before) ELSE w, s, c)
  IN  IF s \in Players THEN v
      ELSE IF s = c THEN LookAround(v, s)
      ELSE Turned(SawComeOrGo(v, s, c, old), s, c, inTheWay)

(* Map::moveCreature                                                       *)
Moved(w, c, pos, before, inTheWay) ==
  LET v == [w EXCEPT ![c].pos = pos]
  IN  Notify(LAMBDA u, s : Noticed(u, s, c, w[c].pos, before, inTheWay), v, c,
             Spectators(v, w[c].pos) \union Spectators(v, pos), before)
-----------------------------------------------------------------------------
(* Objects that nobody holds are deleted, and let go of others.            *)
Deleted(w, c) ==
  LET v == ForAll(LAMBDA u, s : LetGo([AttackAlone(u, s, None) EXCEPT ![s].master = None], s),
                  Cleared(w, c), w[c].summons)
  IN  [v EXCEPT ![c] = [New EXCEPT !.life = "deleted"]]
Unheld(w) == {c \in Creatures : w[c].life = "removed" /\ w[c].references = 0}
Collected(w) ==
  FoldSet(LAMBDA i, v : ForAll(Deleted, v, Unheld(v)), w, 1..Cardinality(Creatures))

(* Game::cleanup                                                           *)
CleanedUp(w) ==
  [c \in Creatures |-> [w[c] EXCEPT !.references = @ - w[c].toRelease,
                                    !.toRelease = 0]]

(* A task of the dispatcher that ends in w; a deed, or not                 *)
Becomes(w) == creature' = Collected(w) /\ UNCHANGED deeds
Does(w) == deeds < MaxDeeds /\ deeds' = deeds + 1 /\ creature' = Collected(w)

Objects(life) == {c \in Creatures : creature[c].life = life}
Place(c) ==
  /\ creature[c].life = "new"
  /\ \E before \in SUBSET Objects("placed") :
       Becomes(Placed(creature, c, Home[c], before))

(* A player summons a monster, or fails for want of room.                  *)
Summon(c, s) ==
  /\ c \in Objects("placed") /\ s \in Objects("new") \intersect Monsters
  /\ LET w == WithSummon(creature, c, s)
     IN  \/ \E before \in SUBSET Objects("placed") :
              Becomes(Placed(w, s, creature[c].pos, before))
         \/ Becomes([WithoutSummon(w, c, s) EXCEPT ![s].life = "removed"])

Move(c, pos) ==
  /\ c \in Objects("placed") /\ creature[c].alive
  /\ pos # creature[c].pos
  /\ \E before \in SUBSET (Objects("placed") \ {c}),
        inTheWay \in Objects("placed") \union {None} :
       Does(CleanedUp(Moved(creature, c, pos, before, inTheWay)))

(* playerSetAttackedCreature, with or without chase, playerFollowCreature  *)
PlayerAttacks(p, t, chase) ==
  /\ p \in Objects("placed") /\ t \in Objects("placed") \union {None}
  /\ LET v == Attack(creature, p, t)
     IN  Does(IF v[p].attacked = None THEN v
                 ELSE Follow(v, p, IF chase THEN t ELSE None))
PlayerFollows(p, t) ==
  /\ p \in Objects("placed") /\ t \in Objects("placed") \ {p}
  /\ Does(Follow(Attack(creature, p, None), p, t))

(* combatChangeHealth                                                      *)
Hit(c, lethal) ==
  /\ c \in Objects("placed") /\ creature[c].alive
  /\ Does([IF c \in Monsters THEN SetIdle(creature, c, FALSE) ELSE creature
                EXCEPT ![c].alive = ~lethal])

(* Monster::convinceCreature                                               *)
Convince(c, m) ==
  LET master == creature[m].master
      freed == IF master = None THEN creature ELSE WithoutSummon(creature, master, m)
      won == SummonsKilled(Attack(Follow(WithSummon(freed, c, m), m, None), m, None), m)
      near == Spectators(won, won[m].pos) \union Spectators(won, won[c].pos)
  IN  /\ {c, m} \subseteq Objects("placed")
      /\ master \notin Players
      /\ Does(ForAll(LAMBDA v, s :
                   IF s \in Monsters /\ (IsFriend(v, s, m) \/ IsOpponent(v, s, m))
                   THEN LookAround(v, s) ELSE v,
                   LookAround(won, m), near \ {c}))

(* Monster::onThink: an awake monster finds somebody to attack or follow,  *)
(* and gives up, as a summon, whom it finds no way to.                     *)
Pursues(w, m, target) ==
  LET master == w[m].master
      lost == w[m].followed
      given == IF lost # None /\ lost \in w[m].targets /\ target = None /\ master # None
               THEN WithoutTarget(w, m, lost) ELSE w
  IN  IF master = None
      THEN IF target = None THEN given ELSE SelectTarget(given, m, target)
      ELSE IF w[m].attacked = None
           THEN IF w[master].attacked # None
                THEN SelectTarget(given, m, w[master].attacked)
                ELSE Follow(given, m, master)
      ELSE Follow(given, m, IF w[m].attacked = m THEN None ELSE w[m].attacked)
Thinks(w, m, target) ==
  LET v == UpdateIdleStatus(w, m)
  IN  IF v[m].creatureCheck THEN Pursues(v, m, target) ELSE v

(* checkCreatures, of a creature that is alive                             *)
Think(c) ==
  /\ creature[c].listed /\ creature[c].creatureCheck /\ creature[c].alive
  /\ c \in Monsters
  /\ \E target \in creature[c].targets \union {None} :
       Becomes(CleanedUp(Thinks(creature, c, target)))

(* ... and of a dead one: Creature::onDeath, Monster::death                *)
Buried(w, c, before) ==
  LET died == IF c \in Players THEN w
              ELSE Cleared(SummonsKilled(Attack(w, c, None), c), c)
      freed == IF w[c].master = None THEN died ELSE WithoutSummon(died, w[c].master, c)
  IN  Removed(freed, c, before)
Die(c) ==
  /\ creature[c].listed /\ creature[c].creatureCheck /\ ~creature[c].alive
  /\ \E before \in SUBSET (Objects("placed") \ {c}) :
       Becomes(CleanedUp(Buried(creature, c, before)))

(* ... and of one that is no longer to be checked                          *)
Unlist(c) ==
  /\ creature[c].listed /\ ~creature[c].creatureCheck
  /\ Becomes(CleanedUp([creature EXCEPT ![c].listed = FALSE, ![c].toRelease = @ + 1]))

(* A logout, or a script                                                   *)
Remove(c) ==
  /\ c \in Objects("placed")
  /\ \E before \in SUBSET (Objects("placed") \ {c}) :
       Does(Removed(creature, c, before))
-----------------------------------------------------------------------------
Next ==
  \E c \in Creatures :
    \/ Place(c) \/ \E pos \in Cells : Move(c, pos)
    \/ \E d \in Creatures : \/ c \in Players /\ Convince(c, d)
                            \/ creature[c].master = None /\ Summon(c, d)
    \/ c \in Players /\ \E d \in Creatures \union {None} :
         \/ d # c /\ \E chase \in BOOLEAN : PlayerAttacks(c, d, chase)
         \/ PlayerFollows(c, d)
    \/ \E lethal \in BOOLEAN : Hit(c, lethal)
    \/ Think(c) \/ Die(c) \/ Unlist(c) \/ Remove(c)
-----------------------------------------------------------------------------
(* The counter of a creature is the number of those who hold it.           *)
Holders(c) ==
  LET n(f(_)) == Cardinality({d \in Creatures : c \in f(creature[d])})
  IN  n(LAMBDA r : r.summons) + n(LAMBDA r : r.targets) + n(LAMBDA r : r.friends)
        + (IF creature[c].listed THEN 1 ELSE 0)
        + (IF creature[c].life = "placed" THEN 1 ELSE creature[c].toRelease)

Counted == \A c \in Creatures : creature[c].references = Holders(c)

(* Nobody in the game has a removed creature for its master or its target, *)
(* and the two sides of a summoning agree.                                 *)
NobodyDangles ==
  \A c \in Objects("placed") :
    /\ {creature[c].attacked, creature[c].followed, creature[c].master}
          \subseteq Objects("placed") \union {None}
    /\ \A d \in Creatures : creature[d].master = c <=> d \in creature[c].summons

(* A monster in the game that has something to do is checked: a summon,    *)
(* one that knows a target, and one that is dead, which is buried there.   *)
NobodyIsForgotten ==
  \A m \in Objects("placed") \intersect Monsters :
    creature[m].targets # {} \/ creature[m].master # None \/ ~creature[m].alive
      => creature[m].listed /\ creature[m].creatureCheck

(* Invariant: however creatures appear, walk, change sides, die and are    *)
(* removed, in whatever order their neighbours hear of it, no pointer of a *)
(* creature in the game is to one that left it, none is deleted while it   *)
(* is held (Game::removeCreature, the onCreatureAppear, onCreatureMove and *)
(* onRemoveCreature of Monster and Creature, incrementReferenceCounter),   *)
(* and no monster sleeps that has something to do (Monster::setIdle).      *)
CreaturesAreSound == Counted /\ NobodyDangles /\ NobodyIsForgotten
===============================================================================
