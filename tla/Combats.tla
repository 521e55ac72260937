-------------------------------- MODULE Combats -------------------------------
(***************************************************************************)
(* Whom a combat hits, and how hard (combat.cpp, Game::combatBlockHit and  *)
(* combatChangeHealth).  A player or a summon may not hurt everybody: not  *)
(* the novices, not in protected zones, and in a world without PvP nobody  *)
(* outside the arena.  Blows are checked when they fall, but protected     *)
(* zones only when an attack begins and when one of the two changes zones; *)
(* fields and the conditions they give outlast their owner's place, and    *)
(* even his presence.                                                      *)
(*                                                                         *)
(* Places are in a line.  Scripts of a creature halve what it would lose.  *)
(* Left out: flags of groups, skulls but the black one, shields and armour *)
(* (a blow is blocked or not), effects and messages, sight and floors.     *)
(***************************************************************************)
EXTENDS Integers, Sequences, FiniteSets, SequencesExt, FiniteSetsExt

CONSTANTS
  Players, Summons, Wild,  (* players, monsters of players and others      *)
  Master,          (* of each summon                                       *)
  Novices, Black,  (* players below the level of protection, black skulls  *)
  Shielded, Scripted,
  Zone,            (* of each place, in a line                             *)
  Placements,      (* where everybody may be at first                      *)
  Combats,         (* what may be cast                                     *)
  MaxHealth, MaxMana,
  MaxDeeds, MaxCasts, (* bounds: casts and blows, and all else            *)
  None

VARIABLES
  at, worldType,
  present,         (* who is in the game                                   *)
  attacked,        (* attackedCreature                                     *)
  life,            (* health, mana and who did damage lately               *)
  burning,         (* the condition a creature has: whose, how much is left*)
                   (* and, as history, who lit the fire                    *)
  field,           (* what lies on each place: its kind, owner and age     *)
  blows,           (* history: what the last step did to whom              *)
  deeds, casts

combatVars == <<at, worldType, present, attacked, life, burning, field, blows, deeds, casts>>

Monsters == Summons \union Wild
Creatures == Players \union Monsters
Place == 1..Len(Zone)
ZoneOf(c) == Zone[at[c]]
NoField == [kind |-> "none", owner |-> None, fresh |-> FALSE]
Unhurt == [owner |-> None, left |-> 0, lit |-> None]
Least(a, b) == IF a < b THEN a ELSE b

TypeOK ==
  /\ at \in [Creatures -> Place] /\ worldType \in {"pvp", "nopvp"}
  /\ present \in SUBSET Creatures /\ attacked \in [Creatures -> Creatures \union {None}]
  /\ life \in [Creatures -> [health : 0..MaxHealth, mana : 0..MaxMana, by : SUBSET Creatures]]
  /\ burning \in [Creatures -> [owner : Creatures \union {None}, left : 0..2,
                             lit : Creatures \union {None}]]
  /\ field \in [Place -> [kind : {"none", "fire", "wall"}, owner : Creatures \union {None},
                          fresh : BOOLEAN]]
  /\ deeds \in 0..MaxDeeds /\ casts \in 0..MaxCasts

Init ==
  /\ at \in Placements /\ worldType \in {"pvp", "nopvp"} /\ present = Creatures
  /\ attacked = [c \in Creatures |-> None]
  /\ life = [c \in Creatures |-> [health |-> MaxHealth, by |-> {},
                                  mana |-> IF c \in Shielded THEN MaxMana ELSE 0]]
  /\ burning = [c \in Creatures |-> Unhurt] /\ field = [p \in Place |-> NoField]
  /\ blows = <<>> /\ deeds = 0 /\ casts = 0
-----------------------------------------------------------------------------
(* The player who answers for a creature, if there is one                  *)
Responsible(c) == IF c \in Summons THEN Master[c] ELSE IF c \in Players THEN c ELSE None
OfPlayers(c) == c \in Players \union Summons

IsProtected(p, q) == {p, q} \intersect Novices # {} \/ p \in Black
IsInPvpZone(c, t) == ZoneOf(c) = "pvp" /\ ZoneOf(t) = "pvp"

(* canDoCombat, for two creatures                                          *)
CanDoCombat(c, t) ==
  c # None =>
    /\ c \in Players /\ t \in Players =>
         /\ ~IsProtected(c, t) /\ ZoneOf(t) # "nopvp"
         /\ ZoneOf(c) = "nopvp" => ZoneOf(t) = "protection"
    /\ c \in Summons /\ t \in Players => ZoneOf(t) # "nopvp" /\ ~IsProtected(Master[c], t)
    /\ c \in Players /\ t \in Summons => ZoneOf(t) # "nopvp"
    /\ c \in Wild => t \notin Wild
    /\ worldType = "nopvp" /\ OfPlayers(c) /\ OfPlayers(t) => IsInPvpZone(c, t)

(* canDoCombat, for a place                                                *)
CanDoCombatAt(p, aggressive) ==
  Zone[p] # "blocked" /\ (aggressive => Zone[p] # "protection")

(* canTargetCreature; monsters choose by isTarget                          *)
CanTarget(c, t) ==
  IF c \in Players
  THEN /\ c # t /\ "protection" \notin {ZoneOf(c), ZoneOf(t)}
       /\ OfPlayers(t) => "nopvp" \notin {ZoneOf(c), ZoneOf(t)}
       /\ t \in Players => ~IsProtected(c, t)
       /\ CanDoCombat(c, t)
  ELSE t \notin Wild /\ ZoneOf(t) # "protection"
-----------------------------------------------------------------------------
(* The operators below map the world as a record to its successor.         *)
Now == [life |-> life, burning |-> burning, field |-> field, blows |-> <<>>]
Becomes(w) ==
  life' = w.life /\ burning' = w.burning /\ field' = w.field /\ blows' = w.blows

(* combatChangeHealth, of a loss in two parts: what is left of the parts   *)
(* after the mana shield took its share, and what the share was            *)
Shield(v, d, scripted) ==
  LET asked == d[1] + d[2]
      share == IF scripted THEN asked \div 2 ELSE asked
      taken == Least(v.mana, share)
  IN  IF v.mana = 0 \/ asked = 0 THEN [mana |-> 0, left |-> d]
      ELSE IF share = 0 THEN [mana |-> 0, left |-> <<0, 0>>]
      ELSE [mana |-> taken,
            left |-> IF taken <= d[1] THEN <<d[1] - taken, d[2]>>
                     ELSE <<0, Max({0, d[2] - (taken - d[1])})>>]

Wounds(v, d) == Least(v.health, d[1] + d[2])

(* With scripts it is done again for what they make of the rest.           *)
Loss(v, t, d) ==
  LET first == Shield(v, d, t \in Scripted)
      rest == <<first.left[1] \div 2, first.left[2] \div 2>>
      again == Shield([v EXCEPT !.mana = @ - first.mana], rest, FALSE)
  IN  IF t \notin Scripted \/ first.left = <<0, 0>>
      THEN [mana |-> first.mana, health |-> Wounds(v, first.left)]
      ELSE [mana |-> first.mana + again.mana, health |-> Wounds(v, again.left)]

ChangeHealth(w, c, lit, t, d, via) ==
  LET lost == Loss(w.life[t], t, d)
  IN  [w EXCEPT
         !.life[t].health = @ - lost.health, !.life[t].mana = @ - lost.mana,
         !.life[t].by = IF c = None \/ lost.health + lost.mana = 0 THEN @ ELSE @ \union {c},
         !.blows = Append(@, [by |-> c, lit |-> lit, to |-> t, via |-> via, asked |-> d[1] + d[2],
                              before |-> w.life[t].health + w.life[t].mana,
                              lost |-> lost.health + lost.mana])]

Heal(w, t, n) ==
  IF w.life[t].health = 0 THEN w
  ELSE [w EXCEPT !.life[t].health = Least(MaxHealth, @ + n)]

(* ConditionDamage::addCondition: the stronger one stays.                  *)
AddCondition(w, t, owner, lit) ==
  IF w.burning[t].left >= 2 THEN w
  ELSE [w EXCEPT !.burning[t] = [owner |-> owner, left |-> 2, lit |-> lit]]

(* CombatHealthFunc: players do half of the damage to players.  A blow     *)
(* that is blocked may still bring the condition with it.                  *)
HealthFunc(w, c, t, k, blocked, via) ==
  LET half == c \in Players /\ t \in Players /\ t \notin Black
      part(n) == IF half THEN n \div 2 ELSE n
      d == <<IF blocked THEN 0 ELSE part(k.damage[1]), part(k.damage[2])>>
      v == ChangeHealth(w, c, c, t, d, via)
  IN  IF k.heal > 0 THEN Heal(w, t, k.heal)
      ELSE IF k.burns THEN AddCondition(v, t, c, c) ELSE v

(* onStepInField: a wall vanishes; a fire is its owner's if it cannot do   *)
(* harm in his name, if it is new or if he fought the victim anyway.       *)
Harmful(w, t, p) ==
  LET owner == w.field[p].owner
  IN  ~ (/\ owner \in present
         /\ \/ OfPlayers(owner) /\ (worldType = "nopvp" \/ Zone[p] = "nopvp")
            \/ owner \in Players /\ t \in Players /\ IsProtected(owner, t))
OnStepInField(w, t, p) ==
  LET f == w.field[p]
      blamed == f.owner # None
                /\ (~Harmful(w, t, p) \/ f.fresh \/ f.owner \in w.life[t].by)
  IN  CASE f.kind = "wall" -> [w EXCEPT !.field[p] = NoField]
        [] f.kind = "fire" -> AddCondition(w, t, IF blamed THEN f.owner ELSE None, f.owner)
        [] OTHER -> w

(* Who stands on a place, from the top                                     *)
Standing(p) == SetToSeq({c \in present : at[c] = p})

(* combatTileEffects, and AddItemField for those who stand there           *)
TileEffects(w, c, k, p) ==
  IF k.item = "none" THEN w
  ELSE FoldLeft(LAMBDA v, t : OnStepInField(v, t, p),
                [w EXCEPT !.field[p] = [kind |-> k.item, owner |-> c, fresh |-> TRUE]],
                Standing(p))
-----------------------------------------------------------------------------
(* CombatFunc *)
Reached(c, k, p) ==
  LET there == Standing(p)
      chosen(t) == k.top => IF at[c] = p THEN t = c ELSE t = Head(there)
      allowed(t) == k.aggressive => c # t /\ CanDoCombat(c, t)
  IN  SelectSeq(there, LAMBDA t : chosen(t) /\ allowed(t))
CombatFunc(c, k, center, blocked) ==
  LET tiles == {p \in Place : p - center \in k.area /\ CanDoCombatAt(p, k.aggressive)}
      onTile(w, p) ==
        TileEffects(FoldLeft(LAMBDA v, t : HealthFunc(v, c, t, k, blocked, "area"), w,
                             Reached(c, k, p)), c, k, p)
  IN  FoldLeft(onTile, Now, SetToSortSeq(tiles, LAMBDA p, q : p > q))

Cast(c, k, center, blocked) ==
  /\ casts < MaxCasts /\ casts' = casts + 1 /\ c \in present
  /\ Becomes(CombatFunc(c, k, center, blocked))
  /\ UNCHANGED <<at, worldType, present, attacked, deeds>>

Deed == deeds < MaxDeeds /\ deeds' = deeds + 1

(* playerSetAttackedCreature, which a player's summons follow; selectTarget*)
SetAttacked(c, t) ==
  /\ Deed /\ {c, t} \subseteq present /\ c \notin Summons /\ attacked[c] # t
  /\ LET target == IF CanTarget(c, t) THEN t ELSE None
     IN  attacked' = [x \in Creatures |-> IF x = c \/ Responsible(x) = c THEN target
                                          ELSE attacked[x]]
  /\ blows' = <<>> /\ UNCHANGED <<at, worldType, present, life, burning, field, casts>>

(* doAttacking: doCombatHealth for the one target                          *)
Attack(c, k, blocked) ==
  LET t == attacked[c]
  IN  /\ c \in present /\ t # None /\ c # t /\ casts < MaxCasts /\ casts' = casts + 1
      /\ IF CanDoCombat(c, t) THEN Becomes(HealthFunc(Now, c, t, k, blocked, "attack"))
         ELSE Becomes(Now)
      /\ UNCHANGED <<at, worldType, present, attacked, deeds>>

(* onChangeZone, onAttackedCreatureChangeZone: who gives up an attack when *)
(* somebody went from a place to another; a player's summons do as he does *)
GivesUp(x, c, from, to) ==
  LET t == attacked[x]
      zone == IF t = c THEN Zone[to] ELSE ZoneOf(t)
  IN  /\ t # None /\ Zone[from] # Zone[to]
      /\ \/ x = c /\ x \in Players /\ Zone[to] = "protection"
         \/ c \in {x, t} /\ \/ zone = "protection"
                            \/ x \in Players /\ t \in Players /\ zone = "nopvp"
                            \/ /\ x \in Players /\ t \in Players
                               /\ zone = "normal" /\ worldType = "nopvp"

Move(c, to) ==
  /\ Deed /\ c \in present
  /\ to \in Place /\ Zone[to] # "blocked" /\ (c \in Monsters => Zone[to] # "protection")
  /\ \A x \in present : at[x] # to
  /\ at' = [at EXCEPT ![c] = to]
  /\ LET gone == {x \in Creatures : GivesUp(x, c, at[c], to)}
     IN  attacked' = [x \in Creatures |->
                        IF x \in gone \/ Responsible(x) \in gone THEN None ELSE attacked[x]]
  /\ Becomes(OnStepInField(Now, c, to))
  /\ UNCHANGED <<worldType, present, casts>>

(* ConditionDamage::doDamage, in the name of the owner if he is there      *)
Burn(t) ==
  LET owner == IF burning[t].owner \in present THEN burning[t].owner ELSE None
      w == [Now EXCEPT !.burning[t] = IF @.left = 1 THEN Unhurt ELSE [@ EXCEPT !.left = @ - 1]]
      damage == IF {owner, t} \subseteq Players THEN 1 ELSE 2
  IN  /\ t \in present /\ burning[t].left > 0
      /\ Becomes(IF CanDoCombat(owner, t) 
                 THEN ChangeHealth(w, owner, burning[t].lit, t, <<damage, 0>>, "burn") ELSE w)
      /\ UNCHANGED <<at, worldType, present, attacked, deeds, casts>>

(* Five seconds pass, or a minute.                                         *)
Age ==
  /\ \E p \in Place : field[p].fresh
  /\ field' = [p \in Place |-> [field[p] EXCEPT !.fresh = FALSE]]
  /\ blows' = <<>> /\ UNCHANGED <<at, worldType, present, attacked, life, burning, deeds, casts>>
Forget ==
  /\ \E c \in Creatures : life[c].by # {}
  /\ life' = [c \in Creatures |-> [life[c] EXCEPT !.by = {}]]
  /\ blows' = <<>> /\ UNCHANGED <<at, worldType, present, attacked, burning, field, deeds, casts>>

(* A player leaves, and the summons with him.                              *)
Leave(p) ==
  LET gone == {c \in Creatures : Responsible(c) = p}
  IN  /\ Deed /\ p \in present /\ present' = present \ gone
      /\ attacked' = [x \in Creatures |->
                        IF x \in gone \/ attacked[x] \in gone THEN None ELSE attacked[x]]
      /\ blows' = <<>>
      /\ UNCHANGED <<at, worldType, life, burning, field, casts>>

Next ==
  \/ \E c \in Creatures, k \in Combats :
       \/ \E blocked \in BOOLEAN : Attack(c, k, blocked)
       \/ \E p \in Place, blocked \in BOOLEAN : Cast(c, k, p, blocked)
  \/ \E c, t \in Creatures : SetAttacked(c, t)
  \/ \E c \in Creatures, d \in {-1, 1} : Move(c, at[c] + d)
  \/ \E t \in Creatures : Burn(t)
  \/ \E p \in Players : Leave(p)
  \/ Age \/ Forget

Spec == Init /\ [][Next]_combatVars
-----------------------------------------------------------------------------
(* No player is hurt in the name of another who may not hurt him; nor, in  *)
(* a world without PvP or as a novice, by a fire that another lit who is   *)
(* still in the game, whoever it burns for by now.  Nobody suffers a blow  *)
(* or a spell in a protected zone, and no blow comes from there.           *)
PeaceIsKept ==
  \A i \in 1..Len(blows) :
    LET b == blows[i]
    IN  b.lost > 0 =>
          /\ b.by # None /\ OfPlayers(b.by) /\ b.to \in Players /\ b.by # b.to =>
               /\ {Responsible(b.by), b.to} \intersect Novices = {}
               /\ ZoneOf(b.to) # "nopvp"
               /\ worldType = "nopvp" => IsInPvpZone(b.by, b.to)
          /\ b.lit \in present /\ OfPlayers(b.lit) /\ b.to \in Players /\ Responsible(b.lit) # b.to =>
               /\ worldType = "nopvp" => IsInPvpZone(b.lit, b.to)
               /\ b.lit \in Players => {b.lit, b.to} \intersect Novices = {}
          /\ b.via # "burn" => ZoneOf(b.to) # "protection"
          /\ b.via = "attack" => ZoneOf(b.by) # "protection"

(* One act hurts nobody twice, nor more than was asked; and without scripts*)
(* no less, if there is that much to lose.                                 *)
BlowsAreExact ==
  \A i \in 1..Len(blows) :
    LET b == blows[i]
    IN  /\ b.lost <= b.asked
        /\ b.to \notin Scripted => b.lost = Least(b.asked, b.before)
        /\ \A j \in 1..Len(blows) : blows[j].to = b.to => i = j

(* Whom a combat may hurt, by itself or by the fire it leaves, and how much*)
CombatsAreSound == PeaceIsKept /\ BlowsAreExact
===============================================================================
