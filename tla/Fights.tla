-------------------------------- MODULE Fights --------------------------------
(***************************************************************************)
(* Fights and what follows from them (Game::combatChangeHealth, the        *)
(* Player's onAttackedCreature, onKilledCreature and death, Creature's     *)
(* onDeath).  Who attacks is marked as fighting, may be locked out of      *)
(* protection zones and gets a white skull; who kills somebody that did    *)
(* not fight back gets a frag, and after some a red or a black skull; the  *)
(* experience of the dead is divided by the damage done.  Nobody dies when *)
(* the health reaches 0, but only at the next check of the creature, and   *)
(* anything may come in between: others fall, one of two fighters leaves,  *)
(* and a level gained restores the health.                                 *)
(***************************************************************************)
EXTENDS Integers, FiniteSets, FiniteSetsExt

CONSTANTS
  Players, Monsters,
  Shielded,        (* the players under CONDITION_MANASHIELD               *)
  Worth,           (* the experience of a monster                          *)
  MaxLevel,        (* levels end here: a bound                             *)
  NoviceLevel,     (* up to here nobody loses experience; 7 in the code    *)
  KillsToRed, KillsToBlack,
  MaxHits,         (* how many hits there are: a bound                     *)
  None, Vanished       (* Vanished: who did damage and is no longer to be found    *)

VARIABLES
  fighter,         (* each creature's record                               *)
  hits,            (* the hits so far                                      *)
  lastDeath        (* what the last one to die was worth, and what of it   *)
                   (* was given out                                        *)

fightVars == <<fighter, hits, lastDeath>>

Creatures == Players \union Monsters
Skulls == {"none", "white", "red", "black"}
MaxExperience == 2 * (MaxLevel + 1)
MaxFrags == KillsToBlack + 1
MaxDamage == 2 * MaxHits

TypeOK ==
  /\ fighter \in [Creatures ->
       [here : BOOLEAN, health : 0..MaxLevel + 1, mana : 0..1, fight : BOOLEAN,
        locked : BOOLEAN, attacked : SUBSET Players, skull : Skulls,
        frags : 0..MaxFrags, exp : 0..MaxExperience, level : 1..MaxLevel,
        loss : BOOLEAN, arena : BOOLEAN,
        damage : [Creatures \union {Vanished} -> 0..MaxDamage],
        last : Creatures \union {None, Vanished}]]
  /\ hits \in 0..MaxHits
  /\ lastDeath \in [worth : Nat, given : Nat]

(* getExpForLevel, and healthMax, which grows by the gain of the vocation. *)
ExpForLevel(l) == IF l > MaxLevel THEN 2 * (MaxLevel - 1) ELSE 2 * (l - 1)
HealthMax(l) == l + 1

Fresh(x) ==
  [here |-> TRUE, health |-> HealthMax(1), mana |-> IF x \in Shielded THEN 1 ELSE 0,
   fight |-> FALSE, locked |-> FALSE, attacked |-> {}, skull |-> "none", frags |-> 0,
   exp |-> 0, level |-> 1, loss |-> TRUE, arena |-> FALSE,
   damage |-> [y \in Creatures \union {Vanished} |-> 0], last |-> None]

Init ==
  /\ fighter = [x \in Creatures |-> Fresh(x)]
  /\ hits = 0 /\ lastDeath = [worth |-> 0, given |-> 0]
-----------------------------------------------------------------------------
(* The operators below take and return the function of all the records.    *)
Least(x, y) == IF x < y THEN x ELSE y
Greatest(x, y) == IF x > y THEN x ELSE y

IsInPvpZone(w, a, t) == w[a].arena /\ w[t].arena
HasAttacked(w, p, q) == q \in w[p].attacked

(* getSkullClient: how t's skull looks to p.                               *)
SkullClient(w, p, t) ==
  IF w[t].skull = "none" /\ HasAttacked(w, t, p) THEN "yellow" ELSE w[t].skull

AddInFightTicks(w, p) == [w EXCEPT ![p].fight = TRUE]
AddAttacked(w, p, q) == [w EXCEPT ![p].attacked = @ \union ({q} \ {p})]

(* An attack on somebody who did not attack the player.                    *)
Aggressed(w, p, t) ==
  LET v == AddAttacked([w EXCEPT ![p].locked = TRUE], p, t)
  IN  IF IsInPvpZone(w, p, t) THEN [w EXCEPT ![p].locked = TRUE]
      ELSE IF w[t].skull = "none" /\ w[p].skull = "none" THEN [v EXCEPT ![p].skull = "white"]
      ELSE v

(* Player::onAttackedCreature                                              *)
OnAttackedCreature(w, p, t) ==
  IF p \notin Players \/ w[t].arena THEN w
  ELSE IF t = p \/ t \in Monsters THEN AddInFightTicks(w, p)
  ELSE IF w[p].skull = "none" /\ SkullClient(w, p, t) = "yellow"
  THEN AddInFightTicks(AddAttacked(w, p, t), p)
  ELSE IF HasAttacked(w, t, p) THEN AddInFightTicks(w, p)
  ELSE AddInFightTicks(Aggressed(w, p, t), p)

OnAttacked(w, t) == IF t \in Players THEN AddInFightTicks(w, t) ELSE w

(* addDamagePoints                                                         *)
AddDamagePoints(w, a, t, points) ==
  IF a = None \/ points = 0 THEN w
  ELSE [w EXCEPT ![t].damage[a] = @ + points, ![t].last = a]

(* drainMana and drainHealth, of a hit that was not blocked; the shield    *)
(* takes what the mana suffices for.                                       *)
Struck(w, a, t, damage) ==
  LET absorbed == IF t \in Shielded THEN Least(w[t].mana, damage) ELSE 0
      drained == Least(damage - absorbed, w[t].health)
      v == AddDamagePoints([w EXCEPT ![t].mana = @ - absorbed], a, t, absorbed)
  IN  AddDamagePoints([v EXCEPT ![t].health = @ - drained], a, t, drained)

(* Protected by isProtected, whatever the levels: who has a black skull    *)
(* may not attack the unmarked.                                            *)
CanDoCombat(w, a, t) ==
  a \in Players /\ t \in Players =>
    ~(w[a].skull = "black" /\ SkullClient(w, a, t) = "none")

(* onEndCondition(CONDITION_INFIGHT)                                       *)
StillAttacking(w, p) ==
  [w EXCEPT ![p].fight = FALSE, ![p].locked = FALSE,
            ![p].skull = IF @ \in {"red", "black"} THEN @ ELSE "none"]

OnEndInFight(w, p) ==
  [w EXCEPT ![p].fight = FALSE, ![p].locked = FALSE, ![p].attacked = {},
            ![p].skull = IF @ \in {"red", "black"} THEN @ ELSE "none"]

LevelUp[l \in 1..MaxLevel, e \in 0..MaxExperience] ==
  IF l < MaxLevel /\ e >= ExpForLevel(l + 1) THEN LevelUp[l + 1, e] ELSE l

LevelDown[l \in 1..MaxLevel, e \in 0..MaxExperience] ==
  IF l > 1 /\ e < ExpForLevel(l) THEN LevelDown[l - 1, e] ELSE l

(* addExperience: at the last level it returns at once.                    *)
AddExperience(w, p, e) ==
  LET sum == Least(w[p].exp + e, MaxExperience)
      level == LevelUp[w[p].level, sum]
  IN  IF e = 0 \/ w[p].level = MaxLevel THEN w
      ELSE IF level = w[p].level THEN [w EXCEPT ![p].exp = sum]
      ELSE [w EXCEPT ![p].exp = sum, ![p].level = level, ![p].health = HealthMax(level)]

(* The loss of experience and of levels in Player::death.                  *)
LoseExperience(w, p, loss) ==
  LET left == IF w[p].level > NoviceLevel THEN w[p].exp - loss ELSE w[p].exp
  IN  IF loss = 0 THEN w
      ELSE [w EXCEPT ![p].exp = left, ![p].level = LevelDown[w[p].level, left]]
-----------------------------------------------------------------------------
(* addUnjustifiedDead, where a frag not quite over counts, too.            *)
AddUnjustifiedDead(w, p) ==
  LET frags == Least(w[p].frags + 1, MaxFrags)
  IN  [w EXCEPT ![p].frags = frags,
                ![p].skull = IF @ = "black" THEN @
                             ELSE IF frags >= KillsToBlack THEN "black"
                             ELSE IF frags >= KillsToRed THEN "red" ELSE @]

(* Player::onKilledCreature                                                *)
OnKilledCreature(w, k, t, lastHit) ==
  LET murder == /\ ~IsInPvpZone(w, k, t) /\ HasAttacked(w, k, t)
                /\ ~HasAttacked(w, t, k) /\ t # k
      v == IF w[t].skull = "none" THEN AddUnjustifiedDead(w, k) ELSE w
  IN  IF k \notin Players \/ t \notin Players THEN w
      ELSE IF w[t].arena THEN [w EXCEPT ![t].loss = FALSE]
      ELSE IF ~murder THEN w
      ELSE IF lastHit /\ v[k].fight THEN [v EXCEPT ![k].locked = TRUE]
      ELSE v

TotalDamage(w, t) == FoldSet(LAMBDA y, s : s + w[t].damage[y], 0, DOMAIN w[t].damage)

(* getGainedExperience of a monster and of a player, where a quarter is    *)
(* kept back; worth is getLostExperience.                                  *)
GainedExperience(w, t, a, worth) ==
  IF t \in Monsters THEN (w[t].damage[a] * worth) \div TotalDamage(w, t)
  ELSE IF a \in Players /\ w[t].loss THEN (w[t].damage[a] * worth * 3) \div (TotalDamage(w, t) * 4)
  ELSE 0

Attackers(w, t) == {a \in Creatures \ {t} : w[a].here /\ w[t].damage[a] > 0}

(* The shares, of which every player gets its own.                         *)
Shares(w, t, worth) ==
  [a \in Players |-> IF a \in Attackers(w, t) THEN GainedExperience(w, t, a, worth) ELSE 0]

SharedOut(w, shares) ==
  FoldSet(LAMBDA a, v : AddExperience(v, a, shares[a]), w, DOMAIN shares)

(* removeCreature: what it did to others is no longer ascribed to anybody. *)
Removed(w, x) ==
  [y \in Creatures |->
    [w[y] EXCEPT !.here = IF y = x THEN FALSE ELSE @,
                 !.damage = [@ EXCEPT ![x] = 0, ![Vanished] = @ + w[y].damage[x]],
                 !.last = IF @ = x THEN Vanished ELSE @]]

(* Player::death and the end of Creature::onDeath; loss: what the player   *)
(* has to give for dying.                                                  *)
Deceased(w, p, loss, stays) ==
  LET poorer == IF w[p].loss THEN LoseExperience(w, p, loss) ELSE [w EXCEPT ![p].loss = TRUE]
      ended == IF poorer[p].fight THEN OnEndInFight(poorer, p) ELSE poorer
      healed == [ended EXCEPT ![p].health =
                  IF w[p].loss /\ ended[p].skull = "black" THEN 1 ELSE HealthMax(ended[p].level)]
  IN  IF stays THEN healed ELSE Removed(healed, p)

(* Creature::onDeath; most: mostDamageCreature, one of those whose damage  *)
(* is recent.                                                              *)
OnDeath(w, t, most, worth, loss) ==
  LET last == w[t].last
      hit == IF last \in Creatures /\ w[last].here THEN last ELSE None
      v1 == IF hit = None THEN w ELSE OnKilledCreature(w, hit, t, TRUE)
      v2 == SharedOut(v1, Shares(v1, t, worth))
      v3 == IF most = None \/ most = hit THEN v2 ELSE OnKilledCreature(v2, most, t, FALSE)
      stays == t \in Players /\ w[t].arena /\ hit \in Players
  IN  IF t \in Monsters THEN Removed(v3, t) ELSE Deceased(v3, t, loss, stays)
-----------------------------------------------------------------------------
(* A hit, by whatever does damage: combatBlockHit and combatChangeHealth.  *)
Hit ==
  \E t \in Creatures, a \in Creatures \union {None}, damage \in 1..2, blocked \in BOOLEAN :
    LET marked == IF a = None THEN fighter ELSE OnAttackedCreature(fighter, a, t)
        w == OnAttacked(marked, t)
    IN  /\ hits < MaxHits /\ hits' = hits + 1
        /\ fighter[t].here /\ a # None => fighter[a].here /\ CanDoCombat(fighter, a, t)
        /\ ~(a \in Monsters /\ t \in Monsters)
        /\ fighter' = IF blocked \/ w[t].health = 0 THEN w ELSE Struck(w, a, t, damage)
        /\ UNCHANGED lastDeath

(* gainHealth, which does not raise the dead.                              *)
Heal ==
  \E t \in Players :
    /\ fighter[t].here /\ fighter[t].health \in 1..HealthMax(fighter[t].level) - 1
    /\ fighter' = [fighter EXCEPT ![t].health = @ + 1]
    /\ UNCHANGED <<hits, lastDeath>>

(* checkCreatures for somebody without health.                             *)
Die ==
  \E t \in Creatures :
    /\ fighter[t].here /\ fighter[t].health = 0
    /\ \E most \in Attackers(fighter, t) \union {None},
          worth \in IF t \in Monsters THEN {Worth} ELSE 0..fighter[t].exp :
       \E loss \in 0..worth :
         LET w == OnDeath(fighter, t, most, worth, IF t \in Players THEN loss ELSE 0)
         IN  /\ t \in Monsters => loss = 0
             /\ fighter' = w
             /\ lastDeath' = [worth |-> worth,
                              given |-> FoldSet(LAMBDA a, s : s + Shares(fighter, t, worth)[a], 0, Players)]
    /\ UNCHANGED hits

(* The condition runs out while the player lives.                          *)
FightEnds ==
  \E p \in Players :
    /\ fighter[p].here /\ fighter[p].health > 0 /\ fighter[p].fight
    /\ fighter' = OnEndInFight(fighter, p)
    /\ UNCHANGED <<hits, lastDeath>>

(* checkSkullTicks                                                         *)
SkullTicks ==
  \E p \in Players :
    LET frags == Greatest(0, fighter[p].frags - 1)
        over == fighter[p].skull \in {"red", "black"} /\ frags = 0 /\ ~fighter[p].fight
    IN  /\ fighter[p].here /\ fighter[p].health > 0
        /\ frags # fighter[p].frags \/ over
        /\ fighter' = [fighter EXCEPT ![p].frags = frags,
                                      ![p].skull = IF over THEN "none" ELSE @]
        /\ UNCHANGED <<hits, lastDeath>>

EnterOrLeaveArena ==
  \E p \in Players :
    /\ fighter[p].here /\ fighter[p].health > 0
    /\ fighter' = [fighter EXCEPT ![p].arena = ~@]
    /\ UNCHANGED <<hits, lastDeath>>

(* A logout, or a kick in the midst of a fight.                            *)
Leave ==
  \E p \in Players :
    /\ fighter[p].here /\ fighter[p].health > 0
    /\ fighter' = Removed(fighter, p)
    /\ UNCHANGED <<hits, lastDeath>>

(* loadPlayer: the condition comes back, the lock and the white skull do   *)
(* not.                                                                    *)
Return ==
  \E p \in Players :
    LET old == fighter[p]
        kept == old.skull \in {"red", "black"} /\ old.frags > 0
    IN  /\ ~old.here
        /\ fighter' = [fighter EXCEPT ![p] =
             [Fresh(p) EXCEPT !.health = Greatest(1, old.health), !.fight = old.fight,
                              !.skull = IF kept THEN old.skull ELSE "none",
                              !.frags = old.frags, !.exp = old.exp, !.level = old.level]]
        /\ UNCHANGED <<hits, lastDeath>>

Next ==
  \/ Hit \/ Heal \/ Die \/ FightEnds \/ SkullTicks \/ EnterOrLeaveArena \/ Leave \/ Return

Spec == Init /\ [][Next]_fightVars
-----------------------------------------------------------------------------
(* Invariant: only who fights is locked out, has attacked anybody or wears *)
(* a white skull, so that all of it ends with the fight, also when the     *)
(* player dies or leaves in between (onAttackedCreature, onEndCondition,   *)
(* death); the level is that of the experience, after every gain and loss; *)
(* and no more experience is given out for the dead than they were worth.  *)
FightsAreSound ==
  /\ \A p \in Players :
       LET me == fighter[p] IN
       me.here =>
         /\ me.locked \/ me.attacked # {} \/ me.skull = "white" => me.fight
         /\ me.exp >= ExpForLevel(me.level)
         /\ me.level < MaxLevel => me.exp < ExpForLevel(me.level + 1)
         /\ me.health <= HealthMax(me.level)
  /\ lastDeath.given <= lastDeath.worth
===============================================================================
