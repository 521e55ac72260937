-------------------------------- MODULE Growth --------------------------------
(***************************************************************************)
(* How a player grows and shrinks (player.cpp): experience and levels with *)
(* the health they bring, a skill with its tries, which scripts may add to *)
(* in the middle of an advance, training while away, what a death takes,   *)
(* and what a login makes of what was saved.  The magic level works as a   *)
(* skill does, from level 0; its advance is in Casting.                    *)
(*                                                                         *)
(* ReqTries grows with the level, so that no skill has a last level.       *)
(***************************************************************************)
EXTENDS Integers, Sequences, FiniteSets, SequencesExt, FiniteSetsExt

CONSTANTS
  ExpForLevel,     (* from level 1: a growing sequence from 0              *)
  ReqTries,        (* tries for each level of a skill above the lowest     *)
  Lowest,          (* the lowest level of a skill that a death leaves: 10  *)
  HealthBase, HealthGain,
  LossPercents,    (* what a death may take                                *)
  SafeLevel,       (* up to which those with a vocation lose no experience *)
  Tries, Exps,     (* that are gained or taken at once                     *)
  MaxChanges       (* bound                                                *)

VARIABLES
  experience, level, healthMax, health,
  skill,           (* level and tries                                      *)
  stored,          (* what the database has of a player who is away        *)
  total,           (* history: tries gained and not lost                   *)
  changes

growthVars == <<experience, level, healthMax, health, skill, stored, total, changes>>

MaxLevel == Len(ExpForLevel) - 1
LastSkill == Lowest + Len(ReqTries) - 1
Req(l) == ReqTries[l - Lowest]
SkillTypes == [level : Lowest..LastSkill, tries : Nat]

TypeOK ==
  /\ level \in 1..MaxLevel /\ experience \in Nat /\ healthMax \in Nat /\ health \in Nat
  /\ skill \in SkillTypes /\ total \in Nat /\ changes \in 0..MaxChanges
  /\ Len(stored) <= 1

Init ==
  /\ experience = 0 /\ level = 1 /\ healthMax = HealthBase /\ health = HealthBase
  /\ skill = [level |-> Lowest, tries |-> 0] /\ stored = <<>>
  /\ total = 0 /\ changes = 0
-----------------------------------------------------------------------------
Deed == stored = <<>> /\ changes < MaxChanges /\ changes' = changes + 1

(* addSkillAdvance and addOfflineTrainingTries: count goes down as levels  *)
(* go up, and each of these runs the scripts for advances.                 *)
Left(w, l) == w.count - (Req(l) - w.tries)
Advance(w, l) ==
  IF w.level = l - 1 /\ w.tries + w.count >= Req(l)
  THEN [level |-> l, tries |-> w.gift, count |-> Left(w, l), gift |-> 0]
  ELSE w

(* A script gives tries as well, once: the advance goes on from there.     *)
SkillAdvance(s, amount, gift) ==
  LET w == FoldLeft(Advance, [level |-> s.level, tries |-> s.tries,
                              count |-> amount, gift |-> gift],
                    [i \in 1..(LastSkill - Lowest) |-> Lowest + i])
  IN  [level |-> w.level, tries |-> w.tries + w.count]

Advances(s, amount) == SkillAdvance(s, amount, 0).level > s.level
GivenBy(s, amount, gift) == IF Advances(s, amount) THEN gift ELSE 0

Totals(s) ==
  FoldLeft(LAMBDA a, b : a + b, 0, SubSeq(ReqTries, 1, s.level - Lowest)) + s.tries
InReach(n) == n < Totals([level |-> LastSkill, tries |-> 0])

AddSkillAdvance(amount, gift) ==
  /\ Deed /\ InReach(total + amount + gift)
  /\ skill' = SkillAdvance(skill, amount, gift)
  /\ total' = total + amount + GivenBy(skill, amount, gift)
  /\ UNCHANGED <<experience, level, healthMax, health, stored>>
-----------------------------------------------------------------------------
(* addExperience: levels while the experience suffices, and full health    *)
Up(w, l) ==
  IF w.level = l - 1 /\ experience' >= ExpForLevel[l]
  THEN [level |-> l, healthMax |-> w.healthMax + HealthGain] ELSE w
Down(w, l) ==
  IF w.level = l /\ experience' < ExpForLevel[l]
  THEN [level |-> l - 1, healthMax |-> Max({0, w.healthMax - HealthGain})] ELSE w

Here == [level |-> level, healthMax |-> healthMax]
Raised == FoldLeft(Up, Here, [i \in 1..(MaxLevel - 1) |-> i + 1])
Lowered == FoldLeft(Down, Here, [i \in 1..(MaxLevel - 1) |-> MaxLevel + 1 - i])

Becomes(w, whole) ==
  /\ level' = w.level /\ healthMax' = w.healthMax
  /\ health' = IF whole \/ w.level # level THEN w.healthMax ELSE health

AddExperience(exp) ==
  /\ Deed /\ experience + exp < ExpForLevel[MaxLevel + 1]
  /\ experience' = experience + exp 
  /\ Becomes(Raised, FALSE)
  /\ UNCHANGED <<skill, stored, total>>

RemoveExperience(exp) ==
  /\ Deed /\ experience > 0
  /\ experience' = Max({0, experience - exp})
  /\ Becomes(Lowered, FALSE)
  /\ UNCHANGED <<skill, stored, total>>

Wounded(n) ==
  /\ Deed /\ health > n /\ health' = health - n
  /\ UNCHANGED <<experience, level, healthMax, skill, stored, total>>
-----------------------------------------------------------------------------
(* death: a share of all tries, taken off from the top                     *)
Loss(sum, percent) == (sum * percent) \div 100
Shrink(w, l) ==
  IF w.level = l /\ w.lost > w.tries
  THEN [level |-> l - 1, tries |-> Req(l), lost |-> w.lost - w.tries]
  ELSE w
LoseTries(s, lost) ==
  LET w == FoldLeft(Shrink, [level |-> s.level, tries |-> s.tries, lost |-> lost],
                    [i \in 1..(LastSkill - Lowest) |-> LastSkill + 1 - i])
  IN  [level |-> w.level, tries |-> Max({0, w.tries - w.lost})]

(* The experience goes, but for beginners with a vocation; the level       *)
(* follows; the player leaves and is saved.                                *)
Die(percent, vocation) ==
  LET lost == Loss(experience, percent)
      off == Loss(Totals(skill), percent)
  IN  /\ Deed
      /\ skill' = LoseTries(skill, off) /\ total' = total - Loss(total, percent)
      /\ experience' = IF vocation /\ level <= SafeLevel THEN experience ELSE experience - lost
     
      /\ Becomes(Lowered, TRUE)
      /\ stored' = <<[exp |-> experience', level |-> level', skill |-> skill',
                      healthMax |-> healthMax', health |-> health']>>

LogOut ==
  /\ stored = <<>>
  /\ stored' = <<[exp |-> experience, level |-> level, skill |-> skill,
                  healthMax |-> healthMax, health |-> health]>>
  /\ UNCHANGED <<experience, level, healthMax, health, skill, total, changes>>

(* loadPlayer: what does not fit together is put down to the least.        *)
LoadedExp(s) ==
  IF s.exp < ExpForLevel[s.level] \/ s.exp > ExpForLevel[s.level + 1]
  THEN ExpForLevel[s.level] ELSE s.exp
LoadedSkill(s) ==
  IF s.level < LastSkill /\ s.tries > Req(s.level + 1) THEN [s EXCEPT !.tries = 0] ELSE s

LogIn ==
  /\ stored # <<>> /\ stored' = <<>>
  /\ experience' = LoadedExp(stored[1]) /\ level' = stored[1].level
  /\ skill' = LoadedSkill(stored[1].skill)
  /\ healthMax' = stored[1].healthMax /\ health' = stored[1].health
  /\ UNCHANGED <<total, changes>>

Next ==
  \/ \E n \in Tries : \E gift \in {0, n} : AddSkillAdvance(n, gift)
  \/ \E n \in Exps : AddExperience(n) \/ RemoveExperience(n) \/ Wounded(n)
  \/ \E percent \in LossPercents, vocation \in BOOLEAN : Die(percent, vocation)
  \/ LogOut \/ LogIn

Spec == Init /\ [][Next]_growthVars
-----------------------------------------------------------------------------
(* Level and tries stand for all tries that were made and not lost, in the *)
(* one way they can: no advance, gift or death loses or repeats a try, and *)
(* no skill falls below its floor.                                         *)
TriesAreKept ==
  /\ Totals(skill) = total
  /\ skill.level < LastSkill => skill.tries < Req(skill.level + 1)

(* The level is that of the experience, and brings its health.             *)
LevelFits ==
  /\ ExpForLevel[level] <= experience /\ experience < ExpForLevel[level + 1]
  /\ healthMax = HealthBase + HealthGain * (level - 1)
  /\ health \in 1..healthMax

(* A login finds nothing to put right: what is saved always fits.          *)
NothingToPutRight ==
  stored # <<>> =>
    LoadedExp(stored[1]) = experience /\ LoadedSkill(stored[1].skill) = skill

(* Invariant: what players are worth is the sum of what they gained and    *)
(* lost, whatever came in between.                                         *)
GrowthIsSound == TriesAreKept /\ LevelFits /\ NothingToPutRight
===============================================================================
