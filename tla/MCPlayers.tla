------------------------------- MODULE MCPlayers ------------------------------
(***************************************************************************)
(* How players come into the game and what becomes of them there, in one   *)
(* run: the waiting list, conditions, fights and walks, and the creatures  *)
(* around them.  The components share no state, so that each behaviour is  *)
(* one of a single component, the one that part names; the others stay as  *)
(* they began.                                                             *)
(***************************************************************************)
EXTENDS WaitingList, TLC

CONSTANTS orc, Nobody, Vanished, w1, w2, LastCell, Wishes, Target, Moves,
          MaxAsked

VARIABLES
  part,
  conditions, varSpeed, varStats, health, pending, stepDelay, unswept,
  present, saved, added,
  fighter, hits, lastDeath,
  pos, playing, alive, walkDelay, busy, list, cancelNextWalk, eventWalk,
  walkTaskEvent, actionTaskEvent, walkTask, events, queue, asked, derailed,
  logged, level, mana, soul, magLevel, manaSpent, cooldowns, managed, stock,
  required, trained, unpaid, lost, sinceScripted, casts,
  experience, levelNow, healthMax, healthNow, skill, stored, total, changes,
  wall, extra, from, quest, nodes, found, bestMatch, path,
  tree, where, solid, burning, spectatorCache, localMapCache, smeared,
  burnt, happened,
  stands, at, targetList, followed, hasFollowPath, isUpdatingPath,
  listWalkDir, afraid, rocks, moves,
  placed, worldType, inGame, attacked, life, alight, fields, blows, done,
  cast,
  creature, deeds

FourPoints == 4
Sources == {0, 1}
Durations == {-1, 1}
Undelayed == FALSE
OneAtOnce == 1
Pair == 2
Co == INSTANCE Conditions WITH
  Base <- FourPoints, Ids <- Sources, Ticks <- Durations,
  Delayed <- Undelayed, MaxAdded <- Pair, MaxPending <- OneAtOnce,
  walkDelay <- stepDelay, online <- present

Two == Premium
Lone == {orc}
WithShield == Premium \ Diligent
ThreePoints == 3
Fi == INSTANCE Fights WITH
  Players <- Two, Monsters <- Lone, Shielded <- WithShield,
  Worth <- ThreePoints, MaxLevel <- Pair, NoviceLevel <- OneAtOnce,
  KillsToRed <- OneAtOnce, KillsToBlack <- Pair, MaxHits <- Pair,
  None <- Nobody

Ends == w1 :> 3 @@ w2 :> 0
Wa == INSTANCE Walking WITH
  None <- Nobody, online <- playing, scheduled <- events

(* A self-healing spell of two groups that are one, one with a target that *)
(* costs all mana, one that conjures, and two runes; a wand and a bow.     *)
OfSpell(kind, fixed, percent, souls, locks) ==
  [kind |-> kind, mana |-> fixed, percent |-> percent, soul |-> souls, cooldowns |-> locks]
FiveSpells ==
  {OfSpell("instant", 1, 0, 0, <<<<"heal", 3>>, <<"attack", 2>>, <<"attack", 1>>>>),
   OfSpell("target", 0, 100, 0, <<<<"heal", 1>>>>),
   OfSpell("conjure", 2, 0, 1, <<>>),
   OfSpell("rune", 0, 0, 0, <<<<"attack", 2>>>>),
   OfSpell("convince", 0, 0, 1, <<<<"heal", 2>>>>)}
Groups == {"heal", "attack"}
Price(fixed, percent) == [mana |-> fixed, percent |-> percent, soul |-> 0]
Free == Price(0, 0)
OneMana == Price(1, 0)
HalfOfIt == Price(0, 50)
Levels == <<1, 3>>
Costs == {0, 2}
TenTicks == 10
Ca == INSTANCE Casting WITH
  Spells <- FiveSpells, Keys <- Groups, Bow <- Free, Arrow <- OneMana,
  Wand <- HalfOfIt, ManaGain <- Pair, ReqMana <- Levels,
  Convinceable <- Costs, BaseCooldown <- TenTicks,
  ScriptTicks <- ThreePoints, MaxLevel <- Pair, MaxSoul <- OneAtOnce,
  Stock <- OneAtOnce, MaxCasts <- Pair, online <- logged

(* Five levels; a death costs nothing, a little less than a third, or more *)
ExperienceOf == <<0, 2, 5, 9, 100>>
TriesOf == <<2, 3, 4, 5>>
Losses == {0, 30, 60}
TriesGiven == {1, 3}
ExperienceGiven == {1, 4}
Seven == 7
FivePoints == 5
Gr == INSTANCE Growth WITH
  ExpForLevel <- ExperienceOf, ReqTries <- TriesOf, Lowest <- TenTicks,
  HealthBase <- FivePoints, HealthGain <- Pair, LossPercents <- Losses,
  SafeLevel <- Pair, Tries <- TriesGiven, Exps <- ExperienceGiven,
  MaxChanges <- Seven, level <- levelNow, health <- healthNow

(* A floor with two cells closed, or four and the only way past them; a    *)
(* field of fire and a creature in the way, or none; and four questions.   *)
FiveWide == 5
ThreeHigh == 3
TwoMaps == {{<<3, 1>>, <<3, 3>>}, {<<2, 1>>, <<2, 2>>, <<4, 2>>, <<4, 3>>}}
TwoCosts ==
  {[p \in (1..5) \X (1..3) |-> 0],
   [p \in (1..5) \X (1..3) |->
      CASE p = <<3, 2>> -> 30 [] p = <<2, 1>> -> 180 [] OTHER -> 0]}
TwoStarts == {<<1, 2>>, <<2, 1>>}
Quest(target, min, max, full, clear, keep, search) ==
  [target |-> target, min |-> min, max |-> max, full |-> full, clear |-> clear,
   keep |-> keep, search |-> search]
FourQuests ==
  {Quest(<<5, 2>>, 1, 1, TRUE, TRUE, FALSE, 12), Quest(<<3, 2>>, 1, 2, FALSE, TRUE, FALSE, 12),
   Quest(<<4, 3>>, 0, 1, TRUE, TRUE, FALSE, 0), Quest(<<3, 2>>, 1, 3, FALSE, FALSE, TRUE, 2)}
ElevenNodes == 11
EightClosed == 8
(* Six leaves of four cells, two of which may be made late                 *)
SixWide == 6
OnLeave == {<<1, 0>>, <<1, 1>>}
ThreeOrders ==
  {<<<<2, 1>>, <<0, 1>>, <<1, 1>>, <<2, 0>>, <<1, 0>>, <<0, 0>>>>,
   <<<<0, 0>>, <<2, 0>>, <<0, 1>>, <<2, 1>>>>,
   <<<<2, 1>>, <<1, 1>>, <<0, 0>>, <<0, 1>>, <<2, 0>>>>}
ThreeSpots == {<<1, 1>>, <<3, 1>>, <<4, 2>>}
Te == INSTANCE Terrain WITH
  Width <- FiveWide, Height <- ThreeHigh, InitialWalls <- TwoMaps,
  InitialCosts <- TwoCosts, Starts <- TwoStarts, Quests <- FourQuests,
  MaxNodes <- ElevenNodes, MaxClosed <- EightClosed, MapWidth <- SixWide,
  MapHeight <- FourPoints, FloorSize <- Pair, Viewport <- Pair,
  Monster <- orc, Other <- w1, MapOrders <- ThreeOrders, Late <- OnLeave,
  Spots <- ThreeSpots, MaxDeeds <- FourPoints, Nowhere <- Vanished,
  fields <- burning, deeds <- happened

(* A monster that keeps two cells away, two targets, two walls and a rock  *)
BothTargets == {"p", "q"}
TwoWalls == {<<1, 1>>, <<4, 3>>}
Den == <<2, 2>>
InTheLair ==
  [monster |-> Den, targets |-> [t \in BothTargets |-> IF t = "p" THEN <<3, 4>> ELSE <<2, 4>>]]
OneRock == {<<3, 2>>}
Hu == INSTANCE Hunting WITH
  Width <- FourPoints, Height <- FourPoints, Targets <- BothTargets,
  Wall <- TwoWalls, Home <- Den, Radius <- Pair, TargetDistance <- Pair,
  AttackRange <- Pair, Lair <- InTheLair, Rocks <- OneRock,
  MaxMoves <- OneAtOnce, None <- Nobody, pos <- stands

(* Two players, a novice, a summon and a monster; a spell that blocks in   *)
(* part, a fire and a wall that heals; and a place of each kind but one    *)
Caster == "p"
ThreePlayers == {Caster, "q", "n"}
OneSummon == {"s"}
OfTheCaster == [s \in OneSummon |-> Caster]
OneNovice == {"n"}
InHarm == {"q"}
WithScripts == {"q", "m"}
Beast == {"m"}
Nobodies == {}
FiveZones == <<"protection", "normal", "pvp", "pvp", "nopvp">>
AllInARow ==
  {[c \in {"p", "q", "n", "s", "m"} |->
      CASE c = "p" -> 1 [] c = "q" -> 2 [] c = "s" -> 3 [] c = "n" -> 4 [] OTHER -> 5]}
Effect(damage, heal, top, area, item, burns) ==
  [damage |-> damage, heal |-> heal, aggressive |-> heal = 0, top |-> top, area |-> area,
   item |-> item, burns |-> burns]
ThreeCombats ==
  {Effect(<<3, 2>>, 0, FALSE, {-1, 0, 1}, "none", FALSE),
   Effect(<<2, 0>>, 0, TRUE, {0}, "fire", TRUE), Effect(<<0, 0>>, 1, FALSE, {0}, "wall", FALSE)}
Cb == INSTANCE Combats WITH
  Players <- ThreePlayers, Summons <- OneSummon, Wild <- Beast,
  Master <- OfTheCaster, Novices <- OneNovice, Black <- Nobodies,
  Shielded <- InHarm, Scripted <- WithScripts, Zone <- FiveZones,
  Placements <- AllInARow, Combats <- ThreeCombats, MaxHealth <- FourPoints,
  MaxMana <- ThreePoints, MaxDeeds <- Pair, MaxCasts <- OneAtOnce,
  None <- Nobody, at <- placed, burning <- alight, present <- inGame,
  field <- fields, deeds <- done, casts <- cast

(* Sight, notices and the leash of summons end after 0, 1 and 1 cells.     *)
OnePlayer == {"p"}
TwoMonsters == {"rat", "wolf"}
ThreeCells == 0..2
WhereTheyAppear == "p" :> 0 @@ "rat" :> 0 @@ "wolf" :> 1
Near == 0
Cr == INSTANCE Creatures WITH
  Players <- OnePlayer, Monsters <- TwoMonsters, Cells <- ThreeCells,
  Sight <- Near, Viewport <- OneAtOnce, Leash <- OneAtOnce,
  Home <- WhereTheyAppear, MaxDeeds <- ThreePoints, None <- Nobody

conditionsVars == <<conditions, varSpeed, varStats, health, pending,
                    stepDelay, unswept, present, saved, added>>
fightsVars == <<fighter, hits, lastDeath>>
walkingVars == <<pos, playing, alive, walkDelay, busy, list, cancelNextWalk,
                 eventWalk, walkTaskEvent, actionTaskEvent, walkTask,
                 events, queue, asked, derailed>>
castingVars == <<logged, level, mana, soul, magLevel, manaSpent, cooldowns,
                 managed, stock, required, trained, unpaid, lost,
                 sinceScripted, casts>>
growthVars == <<experience, levelNow, healthMax, healthNow, skill, stored,
                total, changes>>
pathsVars == <<wall, extra, from, quest, nodes, found, bestMatch, path>>
surroundingsVars == <<tree, where, solid, burning, spectatorCache,
                      localMapCache, smeared, burnt, happened>>
huntingVars == <<stands, at, targetList, followed, hasFollowPath,
                 isUpdatingPath, listWalkDir, afraid, rocks, moves>>
combatsVars == <<placed, worldType, inGame, attacked, life, alight, fields,
                 blows, done, cast>>
creaturesVars == <<creature, deeds>>
allVars == <<part, vars, conditionsVars, fightsVars, walkingVars,
             castingVars, growthVars, pathsVars, surroundingsVars,
             huntingVars, combatsVars, creaturesVars>>

MCInit ==
  /\ Init /\ Co!Init /\ Fi!Init /\ Wa!Init /\ Ca!Init /\ Gr!Init /\ Te!PathsInit /\
     Te!SurroundingsInit /\ Hu!Init /\ Cb!Init /\ Cr!Init
  /\ part \in {"waiting", "conditions", "fights", "walking", "casting",
               "growth", "paths", "surroundings", "hunting", "combats",
               "creatures"}
  /\ part # "paths" => wall = {<<3, 1>>, <<3, 3>>} /\ extra[3, 2] = 0 /\ from = <<1, 2>> /\ quest.search = 0
  /\ part # "surroundings" => Cardinality(tree.made) = 5
  /\ part # "hunting" => ~afraid /\ Head(targetList) = "p"
  /\ part # "combats" => worldType = "pvp"

WaitingNext ==
  /\ part = "waiting" /\ Next
  /\ UNCHANGED <<part, conditionsVars, fightsVars, walkingVars, castingVars,
                 growthVars, pathsVars, surroundingsVars, huntingVars,
                 combatsVars, creaturesVars>>
ConditionsNext ==
  /\ part = "conditions" /\ Co!Next
  /\ UNCHANGED <<part, vars, fightsVars, walkingVars, castingVars,
                 growthVars, pathsVars, surroundingsVars, huntingVars,
                 combatsVars, creaturesVars>>
FightsNext ==
  /\ part = "fights" /\ Fi!Next
  /\ UNCHANGED <<part, vars, conditionsVars, walkingVars, castingVars,
                 growthVars, pathsVars, surroundingsVars, huntingVars,
                 combatsVars, creaturesVars>>
WalkingNext ==
  /\ part = "walking" /\ Wa!Next
  /\ UNCHANGED <<part, vars, conditionsVars, fightsVars, castingVars,
                 growthVars, pathsVars, surroundingsVars, huntingVars,
                 combatsVars, creaturesVars>>
CastingNext ==
  /\ part = "casting" /\ Ca!Next
  /\ UNCHANGED <<part, vars, conditionsVars, fightsVars, walkingVars,
                 growthVars, pathsVars, surroundingsVars, huntingVars,
                 combatsVars, creaturesVars>>
GrowthNext ==
  /\ part = "growth" /\ Gr!Next
  /\ UNCHANGED <<part, vars, conditionsVars, fightsVars, walkingVars,
                 castingVars, pathsVars, surroundingsVars, huntingVars,
                 combatsVars, creaturesVars>>
PathsNext ==
  /\ part = "paths" /\ Te!PathsNext
  /\ UNCHANGED <<part, vars, conditionsVars, fightsVars, walkingVars,
                 castingVars, growthVars, surroundingsVars, huntingVars,
                 combatsVars, creaturesVars>>
SurroundingsNext ==
  /\ part = "surroundings" /\ Te!SurroundingsNext
  /\ UNCHANGED <<part, vars, conditionsVars, fightsVars, walkingVars,
                 castingVars, growthVars, pathsVars, huntingVars,
                 combatsVars, creaturesVars>>
HuntingNext ==
  /\ part = "hunting" /\ Hu!Next
  /\ UNCHANGED <<part, vars, conditionsVars, fightsVars, walkingVars,
                 castingVars, growthVars, pathsVars, surroundingsVars,
                 combatsVars, creaturesVars>>
CombatsNext ==
  /\ part = "combats" /\ Cb!Next
  /\ UNCHANGED <<part, vars, conditionsVars, fightsVars, walkingVars,
                 castingVars, growthVars, pathsVars, surroundingsVars,
                 huntingVars, creaturesVars>>
CreaturesNext ==
  /\ part = "creatures" /\ Cr!Next
  /\ UNCHANGED <<part, vars, conditionsVars, fightsVars, walkingVars,
                 castingVars, growthVars, pathsVars, surroundingsVars,
                 huntingVars, combatsVars>>

MCNext ==
  \/ WaitingNext \/ ConditionsNext \/ FightsNext \/ WalkingNext
  \/ CastingNext \/ GrowthNext \/ PathsNext \/ SurroundingsNext
  \/ HuntingNext \/ CombatsNext \/ CreaturesNext

(* A player has room to walk away from a cell and back; the cells of the   *)
(* wishes are on the line, and a bound is a number.                        *)
ASSUME WalkAssumption ==
  /\ LastCell \in Nat /\ LastCell >= 2 /\ MaxAsked \in Nat
  /\ Target \in [Wishes -> Wa!Cells] /\ Nobody \notin Wishes

(* The fairness of WaitingList, where the waiting list is what runs.        *)
WaitingFairness ==
  /\ WF_vars(part = "waiting" /\ Tick)
  /\ \A p \in Players : WF_vars(part = "waiting" /\ Logout(p))
  /\ \A p \in Diligent : WF_vars(part = "waiting" /\ retryIn[p] = 0 /\ Login(p))

MCSpec == MCInit /\ [][MCNext]_allVars /\ WaitingFairness
-----------------------------------------------------------------------------
(* Invariant: how creatures find, chase and fight each other: whom players *)
(* hurt and how much, the conditions that last, what is cast and fired,    *)
(* what is gained and lost, the path found, past those around, and what    *)
(* monsters make of it; see FightsAreSound in Fights, CombatsAreSound in   *)
(* Combats, ConditionsAreSound in Conditions, CastsAreSound in Casting,    *)
(* GrowthIsSound in Growth, PathsAreSound and SurroundingsAreSound in      *)
(* Terrain, and HuntsAreSound in Hunting.                                  *)
FightsAreSound ==
  /\ part = "conditions" => Co!TypeOK /\ Co!ConditionsAreSound
  /\ part = "fights" => Fi!TypeOK /\ Fi!FightsAreSound
  /\ part = "combats" => Cb!TypeOK /\ Cb!CombatsAreSound
  /\ part = "casting" => Ca!TypeOK /\ Ca!CastsAreSound
  /\ part = "growth" => Gr!TypeOK /\ Gr!GrowthIsSound
  /\ part = "paths" => Te!PathsTypeOK /\ Te!PathsAreSound
  /\ part = "surroundings" => Te!SurroundingsTypeOK /\ Te!SurroundingsAreSound
  /\ part = "hunting" => Hu!TypeOK /\ Hu!HuntsAreSound

(* Invariant: a player who walks is not stuck, and only the last wish for  *)
(* the end of the walk waits; see WalksAreSound in Walking.                *)
WalksAreSound == part = "walking" => Wa!TypeOK /\ Wa!WalksAreSound

(* Invariant: who points at whom, and who is counted; see the one of the   *)
(* same name in Creatures.                                                 *)
CreaturesAreSound == part = "creatures" => Cr!TypeOK /\ Cr!CreaturesAreSound
===============================================================================
