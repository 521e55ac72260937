-------------------------------- MODULE Casting -------------------------------
(***************************************************************************)
(* How a player casts spells, uses runes and fires weapons (spells.cpp,    *)
(* weapons.cpp), and what is paid for it: cooldowns, which are conditions  *)
(* of the player, mana, which trains the magic level, soul, reagents,      *)
(* charges and ammunition.  Scripts keep cooldowns of their own            *)
(* (spell_cooldown_manager.cpp).                                           *)
(*                                                                         *)
(* The rules about zones, targets, levels and vocations only decide        *)
(* whether a cast is tried at all; they are left out, and so are players   *)
(* with special flags.  Assumed of the scripts of spells: they do not take *)
(* the mana of the caster.                                                 *)
(***************************************************************************)
EXTENDS Integers, Sequences, FiniteSets, FiniteSetsExt, SequencesExt

CONSTANTS
  Spells,          (* records: kind, mana, percent, soul, and cooldowns, a *)
                   (* sequence of pairs of a key and a duration            *)
  Keys,            (* ids of spells and groups                             *)
  Bow, Arrow, Wand, (* weapons: mana, percent, soul                        *)
  ManaGain,        (* mana that a level adds                               *)
  ReqMana,         (* mana for the next magic level, from level 0          *)
  Convinceable,    (* what monsters cost to convince                       *)
  BaseCooldown,    (* that a script asks the manager for                   *)
  ScriptTicks,     (* of the cooldown condition that a script adds         *)
  MaxLevel, MaxSoul, Stock,
  MaxCasts         (* bound on what is cast, fired and conjured            *)

VARIABLES
  online,
  level, mana, soul, magLevel, manaSpent,
  cooldowns,       (* remaining ticks of the conditions, by key            *)
  managed,         (* the remaining ticks that the manager keeps           *)
  stock,           (* reagents, conjured items, charges, arrows, summons   *)
  required,        (* history: the ticks for which a key has to be locked  *)
  trained,         (* history: the mana that counted for the magic level   *)
  unpaid,          (* history: the mana that a cast should have cost more  *)
  lost,            (* history: reagents gone for nothing                   *)
  sinceScripted, casts

castVars == <<online, level, mana, soul, magLevel, manaSpent, cooldowns, managed,
              stock, required, trained, unpaid, lost, sinceScripted, casts>>

Things == {"reagents", "made", "charges", "arrows", "summons"}
MaxMana(l) == ManaGain * l
MaxMagLevel == Len(ReqMana)

TypeOK ==
  /\ online \in BOOLEAN /\ level \in 1..MaxLevel
  /\ mana \in 0..MaxMana(level) /\ soul \in 0..MaxSoul
  /\ magLevel \in 0..MaxMagLevel /\ manaSpent \in Nat
  /\ DOMAIN cooldowns = Keys /\ \A k \in Keys : cooldowns[k] \in Nat
  /\ managed \in Nat
  /\ DOMAIN stock = Things /\ \A x \in Things : stock[x] \in Nat
  /\ DOMAIN required = Keys /\ trained \in Nat /\ unpaid \in Nat /\ lost \in Nat
  /\ sinceScripted \in Nat /\ casts \in 0..MaxCasts

Init ==
  /\ online = TRUE /\ level = 1 /\ mana = MaxMana(1) /\ soul = MaxSoul
  /\ magLevel = 0 /\ manaSpent = 0
  /\ cooldowns = [k \in Keys |-> 0] /\ managed = 0
  /\ stock = [x \in Things |-> IF x \in {"made", "summons"} THEN 0 ELSE Stock]
  /\ required = [k \in Keys |-> 0] /\ trained = 0 /\ unpaid = 0 /\ lost = 0
  /\ sinceScripted = BaseCooldown /\ casts = 0
-----------------------------------------------------------------------------
(* getManaCost: of a spell or a weapon, for someone of this level          *)
ManaCost(s, l) ==
  IF s.mana # 0 THEN s.mana ELSE (MaxMana(l) * s.percent) \div 100

(* playerSpellCheck: the spell, its group and its secondary group          *)
Exhausted(s) == \E i \in DOMAIN s.cooldowns : cooldowns[s.cooldowns[i][1]] > 0
SpellCheck(s) ==
  /\ online /\ casts < MaxCasts /\ ~Exhausted(s)
  /\ mana >= ManaCost(s, level) /\ soul >= s.soul

(* updateCondition: a condition that lasts longer stays as it is.          *)
AddCooldown(c, x) == IF c[x[1]] > x[2] THEN c ELSE [c EXCEPT ![x[1]] = x[2]]
Demanded(c, x) == [c EXCEPT ![x[1]] = Max({@, x[2]})]

AddCooldowns(list) ==
  /\ cooldowns' = FoldLeft(AddCooldown, cooldowns, list)
  /\ required' = FoldLeft(Demanded, required, list)

(* addManaSpent: what is left over goes on to the next level.              *)
NextLevel(w, l) ==
  IF w.level = l - 1 /\ w.spent + w.amount >= ReqMana[l]
  THEN [level |-> l, spent |-> 0, amount |-> w.amount - (ReqMana[l] - w.spent)] ELSE w
Advanced(w, amount) ==
  LET v == FoldLeft(NextLevel, [level |-> w.level, spent |-> w.spent, amount |-> amount],
                    [l \in 1..MaxMagLevel |-> l])
  IN  [level |-> v.level,
       spent |-> IF v.level = MaxMagLevel THEN v.spent ELSE v.spent + v.amount]

AddManaSpent(amounts) ==
  LET w == FoldLeft(Advanced, [level |-> magLevel, spent |-> manaSpent], amounts)
  IN  magLevel' = w.level /\ manaSpent' = w.spent

(* changeMana and changeSoul stop at nothing.                              *)
Reduced(x, by) == IF x > by THEN x - by ELSE 0

(* The mana and soul that a cast ends with, of someone who had that much   *)
(* and pays one after the other; trained and unpaid are the books on it.   *)
Pay(had, costs, souls) ==
  /\ mana' = FoldLeft(Reduced, had, costs)
  /\ soul' = FoldLeft(Reduced, soul, souls)
  /\ AddManaSpent(costs)
  /\ trained' = trained + FoldLeft(LAMBDA a, b : a + b, 0, costs)

Billed(had, cost, checked) ==
  unpaid' = unpaid + (IF checked /\ cost > had THEN cost - had ELSE 0)

(* addExperience, when the spell kills: a level fills up the mana.         *)
Gains == {n \in 0..1 : level + n <= MaxLevel}
ManaAfter(n) == IF n > 0 THEN MaxMana(level + n) ELSE mana

(* postCastSpell: cooldowns, then the price, as it is after the cast       *)
PostCastSpell(s, n, extra) ==
  /\ level' = level + n
  /\ Pay(ManaAfter(n), extra.mana \o <<ManaCost(s, level + n)>>, extra.soul \o <<s.soul>>)
  /\ Billed(ManaAfter(n), ManaCost(s, level + n), extra.mana = <<>>)

NoExtra == [mana |-> <<>>, soul |-> <<>>]
Cast == casts' = casts + 1

(* playerCastInstant: a script runs, which may add a cooldown itself, the  *)
(* caster may gain a level, and then the cast is paid for.                 *)
CastInstant(s) ==
  /\ s.kind \in {"instant", "target"} /\ SpellCheck(s) /\ Cast
  /\ \E n \in Gains : PostCastSpell(s, n, NoExtra)
  /\ \E byScript \in {<<>>} \union {<<<<k, ScriptTicks>>>> : k \in Keys} :
       AddCooldowns(byScript \o s.cooldowns)
  /\ UNCHANGED <<online, managed, stock, lost, sinceScripted>>

(* playerCastInstant, when nobody has that name                            *)
CastAtNobody(s) ==
  /\ s.kind = "target" /\ SpellCheck(s) /\ Cast
  /\ AddCooldowns(s.cooldowns)
  /\ UNCHANGED <<online, level, mana, soul, magLevel, manaSpent, managed, stock,
                 trained, unpaid, lost, sinceScripted>>

(* conjureItem: the reagent is gone by the time there is no room.          *)
Take(what) == stock[what] > 0
ConjureItem(s) ==
  /\ s.kind = "conjure" /\ SpellCheck(s) /\ Take("reagents") /\ Cast
  /\ \/ /\ stock' = [stock EXCEPT !["reagents"] = @ - 1, !["made"] = @ + 1]
        /\ PostCastSpell(s, 0, NoExtra) /\ AddCooldowns(s.cooldowns)
        /\ UNCHANGED lost
     \/ /\ stock' = [stock EXCEPT !["reagents"] = @ - 1] /\ lost' = lost + 1
        /\ UNCHANGED <<level, mana, soul, magLevel, manaSpent, cooldowns, required,
                       trained, unpaid>>
  /\ UNCHANGED <<online, managed, sinceScripted>>

(* RuneSpell::executeUse                                                   *)
UseRune(s) ==
  /\ s.kind = "rune" /\ SpellCheck(s) /\ Take("charges") /\ Cast
  /\ \E n \in Gains : PostCastSpell(s, n, NoExtra)
  /\ AddCooldowns(s.cooldowns)
  /\ stock' = [stock EXCEPT !["charges"] = @ - 1]
  /\ UNCHANGED <<online, managed, lost, sinceScripted>>

(* Convince pays for the creature and for the rune, and then executeUse    *)
(* pays for the rune.                                                      *)
Convince(s, cost) ==
  /\ s.kind = "convince" /\ SpellCheck(s) /\ Take("charges") /\ Cast
  /\ stock["summons"] < 2 /\ mana >= cost
  /\ PostCastSpell(s, 0, [mana |-> <<cost>>, soul |-> <<s.soul>>])
  /\ AddCooldowns(s.cooldowns)
  /\ stock' = [stock EXCEPT !["charges"] = @ - 1, !["summons"] = @ + 1]
  /\ UNCHANGED <<online, managed, lost, sinceScripted>>
-----------------------------------------------------------------------------
(* playerWeaponCheck                                                       *)
WeaponCheck(w) ==
  online /\ casts < MaxCasts /\ mana >= ManaCost(w, level) /\ soul >= w.soul

(* onUsedWeapon, of what is fired; a hit may kill.                         *)
OnUsedWeapon(w, checked) ==
  /\ \E n \in Gains :
       /\ level' = level + n
       /\ Pay(ManaAfter(n), <<ManaCost(w, level + n)>>, <<w.soul>>)
       /\ Billed(ManaAfter(n), ManaCost(w, level + n), checked)
  /\ UNCHANGED <<online, cooldowns, required, managed, lost, sinceScripted>>

(* WeaponDistance::useWeapon asks the bow, and the arrow is paid for,      *)
(* whether it hits or not; it breaks, is used up or falls on the ground.   *)
Shoot ==
  /\ WeaponCheck(Bow) /\ Take("arrows") /\ Cast
  /\ OnUsedWeapon(Arrow, FALSE) /\ stock' = [stock EXCEPT !["arrows"] = @ - 1]

UseWand ==
  /\ WeaponCheck(Wand) /\ Cast /\ OnUsedWeapon(Wand, TRUE) /\ UNCHANGED stock
-----------------------------------------------------------------------------
(* getModifiedCooldown, by a Constitution that takes 8 % a point           *)
ModifiedCooldown(base, constitution) ==
  Max({(base * (100 - 8 * constitution)) \div 100, base \div 10})

(* A script that asks isOnCooldown, and then calls setCooldown             *)
CastScripted(constitution) ==
  /\ online /\ managed = 0 /\ casts < MaxCasts /\ Cast
  /\ managed' = ModifiedCooldown(BaseCooldown, constitution) /\ sinceScripted' = 0
  /\ UNCHANGED <<online, level, mana, soul, magLevel, manaSpent, cooldowns, stock,
                 required, trained, unpaid, lost>>

(* Time: the conditions of somebody who is away wait, the manager does not. *)
Passed(x) == Reduced(x, 1)
Tick ==
  /\ IF online
     THEN /\ cooldowns' = [k \in Keys |-> Passed(cooldowns[k])]
          /\ required' = [k \in Keys |-> Passed(required[k])]
     ELSE UNCHANGED <<cooldowns, required>>
  /\ managed' = Passed(managed)
  /\ sinceScripted' = IF sinceScripted < BaseCooldown THEN sinceScripted + 1 ELSE sinceScripted
  /\ UNCHANGED <<online, level, mana, soul, magLevel, manaSpent, stock, trained,
                 unpaid, lost, casts>>

(* Player::changeMana of a condition, and changeSoul                       *)
Regenerate ==
  /\ online /\ mana < MaxMana(level) /\ mana' = mana + 1
  /\ soul' \in {soul, IF soul < MaxSoul THEN soul + 1 ELSE soul}
  /\ UNCHANGED <<online, level, magLevel, manaSpent, cooldowns, managed, stock,
                 required, trained, unpaid, lost, sinceScripted, casts>>

(* Player::death ends the cooldowns, and fills up the mana, or empties it. *)
Die ==
  /\ online /\ online' = FALSE
  /\ cooldowns' = [k \in Keys |-> 0] /\ required' = [k \in Keys |-> 0]
  /\ mana' \in {0, MaxMana(level)} /\ stock' = [stock EXCEPT !["summons"] = 0]
  /\ UNCHANGED <<level, soul, magLevel, manaSpent, managed, trained, unpaid, lost,
                 sinceScripted, casts>>

(* A logout saves the conditions, and a login brings them back.            *)
LogOut ==
  /\ online /\ online' = FALSE /\ stock' = [stock EXCEPT !["summons"] = 0]
  /\ UNCHANGED <<level, mana, soul, magLevel, manaSpent, cooldowns, managed,
                 required, trained, unpaid, lost, sinceScripted, casts>>
LogIn ==
  /\ ~online /\ online' = TRUE
  /\ UNCHANGED <<level, mana, soul, magLevel, manaSpent, cooldowns, managed, stock,
                 required, trained, unpaid, lost, sinceScripted, casts>>

Next ==
  \/ \E s \in Spells :
       \/ CastInstant(s) \/ CastAtNobody(s) \/ ConjureItem(s) \/ UseRune(s)
       \/ \E cost \in Convinceable : Convince(s, cost)
  \/ Shoot \/ UseWand \/ \E c \in {0, 5, 13} : CastScripted(c)
  \/ Tick \/ Regenerate \/ Die \/ LogOut \/ LogIn

Spec == Init /\ [][Next]_castVars
-----------------------------------------------------------------------------
(* No key is free before every cast that locked it allows that.            *)
CooldownsHold == \A k \in Keys : cooldowns[k] >= required[k]

(* A script's own cooldown lasts a tenth of what it asked for, at least,   *)
(* whatever the attributes, a logout or a death.                           *)
ScriptsWait == managed + sinceScripted >= BaseCooldown \div 10

(* The check before the cast makes sure of the price after it, and that    *)
(* the caster can go up a level meanwhile does not change this.            *)
PaidInFull == unpaid = 0

(* All mana that was paid counts for the magic level, until the last one.  *)
Required(l) == FoldLeft(LAMBDA a, b : a + b, 0, SubSeq(ReqMana, 1, l))
TrainingCounts ==
  IF magLevel = MaxMagLevel THEN trained >= Required(magLevel)
  ELSE trained = Required(magLevel) + manaSpent /\ manaSpent < ReqMana[magLevel + 1]

(* Every reagent became an item, or was lost for want of room.             *)
ReagentsAreKept == stock["reagents"] + stock["made"] + lost = Stock

(* Invariant: cooldowns last as long as the longest cast demands, whoever  *)
(* set them and whatever came later; casts are paid in full; mana that was *)
(* spent trains.                                                           *)
CastsAreSound ==
  CooldownsHold /\ ScriptsWait /\ PaidInFull /\ TrainingCounts /\ ReagentsAreKept
===============================================================================
