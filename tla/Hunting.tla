------------------------------- MODULE Hunting --------------------------------
(***************************************************************************)
(* The steps of a monster (monster.cpp, creature.cpp): whom it follows,    *)
(* how one that shoots keeps its distance, how one that is afraid runs     *)
(* away, how it dances around its target, and what it pushes out of its    *)
(* way.  The choice of a step that keeps the distance is five hundred      *)
(* lines, one case for each direction; here there is one for all.          *)
(*                                                                         *)
(* Random numbers are choices.  Left out: summons, protection zones, what  *)
(* the search for a path finds (see Terrain: here any free step, or none),   *)
(* and monsters that push others; all targets are always in sight.         *)
(***************************************************************************)
EXTENDS Integers, Sequences, FiniteSets, SequencesExt, FiniteSetsExt

CONSTANTS
  Width, Height,
  Targets,         (* the creatures it may hunt                            *)
  Wall,            (* cells that cannot be entered                         *)
  Home, Radius,    (* of its spawn                                         *)
  TargetDistance, AttackRange,
  Lair,            (* where it is at first, and where its targets are      *)
  Rocks,           (* cells with a thing that it may push away             *)
  MaxMoves,        (* bound on the steps of targets                        *)
  None

VARIABLES
  pos, at,         (* the monster's position, and those of its targets     *)
  targetList,      (* in the order of preference                           *)
  followed,        (* followCreature, and attackedCreature with it         *)
  hasFollowPath, isUpdatingPath,
  listWalkDir,     (* the step to take, if any                             *)
  afraid,          (* its health is below runAwayHealth                    *)
  rocks,           (* where the things lie now                             *)
  moves

huntVars ==
  <<pos, at, targetList, followed, hasFollowPath, isUpdatingPath, listWalkDir, afraid, rocks, moves>>

Cell == (1..Width) \X (1..Height)
Vectors == (-1..1) \X (-1..1)
Directions == Vectors \ {<<0, 0>>}
Straight == {d \in Directions : d[1] = 0 \/ d[2] = 0}

TypeOK ==
  /\ pos \in Cell /\ at \in [Targets -> Cell] /\ rocks \in SUBSET Cell
  /\ targetList \in Seq(Targets) /\ ToSet(targetList) = Targets /\ IsInjective(targetList)
  /\ followed \in Targets \union {None} /\ hasFollowPath \in BOOLEAN
  /\ isUpdatingPath \in BOOLEAN /\ listWalkDir \in Seq(Directions) /\ Len(listWalkDir) <= 1
  /\ afraid \in BOOLEAN /\ moves \in 0..MaxMoves

Init ==
  /\ pos = Lair.monster /\ at = Lair.targets /\ targetList \in SetToSeqs(Targets)
  /\ followed = None /\ hasFollowPath = FALSE /\ isUpdatingPath = FALSE
  /\ listWalkDir = <<>> /\ afraid \in BOOLEAN /\ rocks = Rocks /\ moves = 0
-----------------------------------------------------------------------------
Plus(p, d) == <<p[1] + d[1], p[2] + d[2]>>
Minus(p, q) == <<p[1] - q[1], p[2] - q[2]>>
Opposite(d) == <<-d[1], -d[2]>>
Abs(n) == IF n < 0 THEN -n ELSE n
Sign(n) == IF n > 0 THEN 1 ELSE IF n < 0 THEN -1 ELSE 0
Greater(a, b) == IF a > b THEN a ELSE b
Dist(p, q) == Greater(Abs(p[1] - q[1]), Abs(p[2] - q[2]))
Steps(p, q) == Abs(p[1] - q[1]) + Abs(p[2] - q[2])
Dot(d, e) == d[1] * e[1] + d[2] * e[2]

(* canWalkTo: inside the range of the spawn, and free but for what it      *)
(* pushes away; and what internalMoveCreature asks for                     *)
Enterable(p) == p \in Cell \ Wall /\ \A t \in Targets : at[t] # p
IsInSpawnRange(p) == Dist(p, Home) <= Radius
CanWalkTo(d) == IsInSpawnRange(Plus(pos, d)) /\ Enterable(Plus(pos, d))
Free(set) == {d \in set : CanWalkTo(d)}

(* The first of some sets of directions that is not empty                  *)
FirstOf(sets) ==
  FoldLeft(LAMBDA chosen, set : IF chosen = {} THEN set ELSE chosen, {}, sets)

(* The target is on a diagonal: away from it, then past it.                *)
DiagonalSteps(away, flee) ==
  LET x == <<away[1], 0>>
      y == <<0, away[2]>>
      past(d, e) == IF CanWalkTo(Opposite(d)) /\ CanWalkTo(Plus(Opposite(d), e))
                    THEN {Opposite(d)} ELSE {}
      sidesteps == IF away = <<-1, -1>> THEN <<past(y, x), past(x, y)>>
                   ELSE <<past(x, y), past(y, x)>>
  IN  FirstOf(<<Free({x, y}), Free({away}),
                IF flee THEN Free({Opposite(x), Opposite(y)}) ELSE {}>> \o sidesteps)

(* It is not: straight away, to the side that is farther, to any side if   *)
(* it flees, diagonally away; and past the target as the last resort.      *)
StraightSteps(away, offset, flee) ==
  LET side == CASE away[1] = 0 -> <<-1, 0>>
                [] away[1] = 1 -> <<0, 1>>
                [] OTHER -> <<0, -1>>
      far == Plus(away, side)
      near == Plus(away, Opposite(side))
      sides == Free({side, Opposite(side)})
      askew == IF Free({far, near}) = {far, near} THEN {far, near}
               ELSE IF Free({far, near}) = {} THEN {}
               ELSE FirstOf(<<Free({side}), Free({far}), Free({Opposite(side)}), Free({near})>>)
  IN  FirstOf(<<Free({away}), {d \in sides : Dot(d, offset) >= 0},
                IF flee THEN sides ELSE {}, askew,
                IF flee THEN Free({Opposite(away)}) ELSE {}>>)

(* getDistanceStep, when it decides itself: the directions it may choose   *)
DistanceSteps(target, flee) ==
  LET offset == Minus(pos, target)
      away == <<Sign(offset[1]), Sign(offset[2])>>
      dx == Abs(offset[1])
      dy == Abs(offset[2])
  IN  IF offset = <<0, 0>> THEN Free(Straight)
      ELSE IF dx = dy THEN DiagonalSteps(away, flee)
      ELSE StraightSteps(IF dy > dx THEN <<0, away[2]>> ELSE <<away[1], 0>>, offset, flee)

(* What it leaves to the search for a path, and when it may stay           *)
Decides(target, flee) == flee \/ Dist(pos, target) <= TargetDistance
Content(target, flee) == ~flee /\ Dist(pos, target) = TargetDistance

CanUseAttack(p, t) == Dist(p, at[t]) <= AttackRange

(* getDanceStep: as far from the target as it is, and still in range of it *)
DanceSteps(keepAttack, keepDistance) ==
  {d \in Free(Straight) :
     LET there == Plus(pos, d)
         offset == Minus(pos, at[followed])
     IN  /\ keepDistance => Dot(d, offset) <= 0
         /\ Dist(there, at[followed]) = Dist(pos, at[followed])
         /\ keepAttack /\ CanUseAttack(pos, followed) => CanUseAttack(there, followed)}
-----------------------------------------------------------------------------
(* searchTarget: the targets it may come to select                         *)
Selectable(search) ==
  LET others == {t \in Targets : t # followed}
      inRange == {t \in others : search = "random" \/ CanUseAttack(pos, t)}
      nearest(set) == {t \in set : \A u \in set : Steps(pos, at[t]) <= Steps(pos, at[u])}
      first == SelectSeq(targetList, LAMBDA t : t # followed)
  IN  IF search = "nearest" THEN nearest(IF inRange # {} THEN inRange ELSE Targets)
      ELSE IF inRange # {} THEN inRange
      ELSE IF search = "attackrange" \/ first = <<>> THEN {}
      ELSE {Head(first)}

(* selectTarget and setFollowCreature; onFollowCreatureComplete            *)
Select(t) ==
  IF followed = t
  THEN UNCHANGED <<followed, hasFollowPath, isUpdatingPath, listWalkDir>>
  ELSE followed' = t /\ hasFollowPath' = FALSE /\ isUpdatingPath' = TRUE /\ listWalkDir' = <<>>

Search(search) ==
  \/ \E t \in Selectable(search) : Select(t)
  \/ /\ Selectable(search) = {}
     /\ UNCHANGED <<followed, hasFollowPath, isUpdatingPath, listWalkDir>>

Complete(hasPath) ==
  targetList' =
    LET others == SelectSeq(targetList, LAMBDA t : t # followed)
    IN  IF hasPath THEN <<followed>> \o others ELSE Append(others, followed)

(* goToFollowCreature                                                      *)
Go(step, hasPath) ==
  /\ listWalkDir' = step /\ hasFollowPath' = hasPath /\ isUpdatingPath' = FALSE
FindPath ==
  \/ Go(<<>>, FALSE)
  \/ \E step \in {<<>>} \union {<<d>> : d \in {e \in Directions : Enterable(Plus(pos, e))}} :
       Go(step, TRUE)
GoToFollowCreature ==
  LET target == at[followed]
      choices == IF Content(target, afraid) THEN {} ELSE DistanceSteps(target, afraid)
  IN  IF ~afraid /\ TargetDistance = 1
      THEN FindPath /\ Complete(hasFollowPath')
      ELSE IF ~Decides(target, afraid) THEN FindPath /\ UNCHANGED targetList
      ELSE \/ choices = {} /\ Go(listWalkDir, hasFollowPath) /\ Complete(hasFollowPath)
           \/ \E d \in choices : Go(<<d>>, TRUE) /\ Complete(TRUE)

(* Creature::onThink; the path is also thought over every two seconds.     *)
Ponder ==
  /\ followed # None /\ GoToFollowCreature
  /\ UNCHANGED <<pos, at, followed, afraid, rocks, moves>>

(* Monster::onThink, and onThinkTarget, which may look for another target  *)
Think ==
  /\ ~isUpdatingPath /\ IsInSpawnRange(pos)
  /\ \/ (followed = None \/ ~hasFollowPath) /\ Search("default")
     \/ /\ hasFollowPath /\ afraid /\ followed # None /\ ~CanUseAttack(pos, followed)
        /\ Search("attackrange")
     \/ Search(IF TargetDistance <= 1 THEN "random" ELSE "nearest")
  /\ UNCHANGED <<pos, at, targetList, afraid, rocks, moves>>

(* Too far from its spawn it is taken home, and goes idle.                 *)
TeleportHome ==
  /\ ~IsInSpawnRange(pos) /\ Enterable(Home)
  /\ pos' = Home /\ followed' = None /\ hasFollowPath' = FALSE /\ listWalkDir' = <<>>
  /\ isUpdatingPath' = FALSE /\ UNCHANGED <<at, targetList, afraid, rocks, moves>>
-----------------------------------------------------------------------------
(* pushItems: to any cell around where there is room, or it is destroyed   *)
Pushed(there) ==
  LET around == {q \in Cell \ Wall : Dist(there, q) = 1 /\ q \notin rocks /\ q # pos
                                     /\ \A t \in Targets : at[t] # q}
  IN  IF there \notin rocks THEN rocks' = rocks
      ELSE IF around = {} THEN rocks' = rocks \ {there}
      ELSE \E q \in around : rocks' = (rocks \ {there}) \union {q}

(* onWalk: the step, if the cell may be entered                            *)
Step(d) ==
  LET there == Plus(pos, d)
  IN  /\ IF there \in Cell THEN Pushed(there) ELSE UNCHANGED rocks
      /\ IF Enterable(there) THEN pos' = there ELSE pos' = pos
      /\ isUpdatingPath' = (isUpdatingPath \/ followed # None)
      /\ UNCHANGED <<at, targetList, followed, hasFollowPath, afraid, moves>>

(* getNextStep *)
Walk ==
  \/ /\ followed = None \/ ~hasFollowPath
     /\ \E d \in Free(Straight) : Step(d)
     /\ UNCHANGED listWalkDir
  \/ /\ followed # None /\ hasFollowPath /\ listWalkDir # <<>>
     /\ Step(Head(listWalkDir)) /\ listWalkDir' = Tail(listWalkDir)
  \/ /\ followed # None /\ hasFollowPath /\ listWalkDir = <<>>
     /\ \E d \in DanceSteps(~afraid, ~afraid) : Step(d)
     /\ UNCHANGED listWalkDir

(* A target makes a step; the way to it is thought over.                   *)
TargetMoves(t, d) ==
  LET there == Plus(at[t], d)
  IN  /\ moves < MaxMoves /\ moves' = moves + 1
      /\ Enterable(there) /\ there # pos /\ there \notin rocks
      /\ at' = [at EXCEPT ![t] = there]
      /\ isUpdatingPath' = (isUpdatingPath \/ (t = followed /\ hasFollowPath))
      /\ UNCHANGED <<pos, targetList, followed, hasFollowPath, listWalkDir, afraid, rocks>>

Next ==
  \/ Ponder \/ Think \/ TeleportHome \/ Walk
  \/ \E t \in Targets, d \in Directions : TargetMoves(t, d)

Spec == Init /\ [][Next]_huntVars
-----------------------------------------------------------------------------
(* A monster that keeps its distance takes only free steps, and never one  *)
(* towards its target; one that runs away goes nearer only if every other  *)
(* cell around is taken, and stands still only if there is no straight     *)
(* step at all.                                                            *)
DistanceIsKept ==
  \A t \in Targets, flee \in BOOLEAN :
    LET target == at[t]
        chosen == DistanceSteps(target, flee)
        nearer(d) == Dist(Plus(pos, d), target) < Dist(pos, target)
    IN  pos # target =>
          /\ chosen \subseteq Free(Directions)
          /\ ~flee => \A d \in chosen : ~nearer(d)
          /\ flee => \A d \in chosen : nearer(d) => \A e \in Free(Straight) : nearer(e)
          /\ flee /\ Free(Straight) # {} => chosen # {}

(* Nothing that blocks the way ends up under a monster or its target: what *)
(* it pushes lands on a free cell or is destroyed.                         *)
NothingInTheWay == pos \notin rocks /\ \A t \in Targets : at[t] \notin rocks

(* Invariant: monsters keep their distance or run, and push aside what is  *)
(* in their way.                                                           *)
HuntsAreSound == DistanceIsKept /\ NothingInTheWay
===============================================================================
