------------------------------ MODULE Conditions ------------------------------
(***************************************************************************)
(* What besets a player (condition.cpp, Creature::addCondition and its     *)
(* like): haste, paralysis, changed attributes and damage over time.  Each *)
(* condition changes the player when it starts and has to take the change  *)
(* back when it ends, whichever of many ways it ends or is replaced in.    *)
(* Haste and paralysis also exclude each other, and what may not happen    *)
(* before the current step is over is scheduled and happens by force.      *)
(* Time goes in units of EVENT_CREATURE_THINK_INTERVAL.                    *)
(***************************************************************************)
EXTENDS Integers, Sequences, SequencesExt

CONSTANTS
  Base,            (* healthMax                                            *)
  Ids,             (* ConditionId_t: not positive, or an item's slot       *)
  Ticks,           (* how long conditions last that come up: -1 or positive *)
  Delayed,         (* CONDITION_PARAM_DELAYED: no damage at the start      *)
  MaxAdded,        (* how many conditions come up: a bound                 *)
  MaxPending       (* how many events are scheduled at once: a bound       *)

VARIABLES
  conditions,      (* the list, as a sequence                              *)
  varSpeed, varStats, health,
  pending,         (* scheduled forceAddCondition and forceRemoveCondition *)
  walkDelay,       (* how long the current step still takes                *)
  unswept,         (* a unit has passed and executeConditions is to come   *)
  online, saved,   (* saved: the conditions column                         *)
  added

conditionVars == <<conditions, varSpeed, varStats, health, pending, walkDelay,
                   unswept, online, saved, added>>

SpeedTypes == {"haste", "paralyze"}
Types == SpeedTypes \union {"attributes", "damage"}

(* left: until endTime, negative when that has passed; half: a statsPercent *)
(* of 50, from which delta is computed at the start.                        *)
ConditionsOf(ticks, left) ==
  [type : Types, id : Ids, ticks : ticks, left : left, delta : -Base..Base,
   half : BOOLEAN, rounds : 0..2]

TypeOK ==
  /\ conditions \in Seq(ConditionsOf(-1..4, -2..4))
  /\ saved \in Seq(ConditionsOf(0..4, -2..4))
  /\ varSpeed \in Int /\ varStats \in Int /\ health \in 0..Base * 2
  /\ pending \in Seq([in : -1..2, force : {"add", "remove"},
                      what : ConditionsOf(-1..4, -1..4)])
  /\ walkDelay \in -1..2
  /\ unswept \in BOOLEAN /\ online \in BOOLEAN /\ added \in 0..MaxAdded

Init ==
  /\ conditions = <<>> /\ varSpeed = 0 /\ varStats = 0 /\ health = Base
  /\ pending = <<>> /\ walkDelay = -1 /\ unswept = FALSE
  /\ online = TRUE /\ saved = <<>> /\ added = 0
-----------------------------------------------------------------------------
(* The creature as a record, which the operators below pass on.            *)
Self == [list |-> conditions, speed |-> varSpeed, stats |-> varStats,
         health |-> health, pending |-> pending]

Becomes(w) ==
  /\ conditions' = w.list /\ varSpeed' = w.speed /\ varStats' = w.stats
  /\ health' = w.health /\ pending' = w.pending

Least(x, y) == IF x < y THEN x ELSE y
Greatest(x, y) == IF x > y THEN x ELSE y

MaxHealthOf(w) == Greatest(1, Base + w.stats)

(* setVarStats for the maximum of hit points, which cuts off what exceeds. *)
WithStats(w, d) ==
  LET v == [w EXCEPT !.stats = @ + d]
  IN  [v EXCEPT !.health = Least(@, MaxHealthOf(v))]

(* hasCondition                                                            *)
Has(w, type) == \E i \in DOMAIN w.list : w.list[i].type = type /\ w.list[i].left >= 0

(* doDamage of a round; a hit may be blocked.                              *)
Hurt(w, blocked) == IF blocked THEN w ELSE [w EXCEPT !.health = Greatest(0, @ - 1)]

(* updatePercentStats                                                      *)
Measured(w, c) ==
  IF c.type = "attributes" /\ c.half THEN [c EXCEPT !.delta = -(MaxHealthOf(w) \div 2)] ELSE c

(* What a condition does to its creature while it lasts.                   *)
Applied(w, c) ==
  CASE c.type \in SpeedTypes -> [w EXCEPT !.speed = @ + c.delta]
    [] c.type = "attributes" -> WithStats(w, c.delta)
    [] OTHER -> w

(* endCondition                                                            *)
Ended(w, c) == Applied(w, [c EXCEPT !.delta = -c.delta])

Scheduled(w, force, c) ==
  IF Len(w.pending) = MaxPending THEN w
  ELSE [w EXCEPT !.pending = Append(@, [in |-> walkDelay, force |-> force, what |-> c])]

(* removeCondition of those that a test found: all of them, or none as yet *)
(* when they paralyze and a step is under way.                             *)
Without(w, out, force) ==
  LET gone == SelectSeq(w.list, LAMBDA c : c \in out)
      kept == SelectSeq(w.list, LAMBDA c : c \notin out)
      later == SelectSeq(gone, LAMBDA c : c.type = "paralyze")
  IN  IF ~force /\ walkDelay > 0 /\ later # <<>> THEN Scheduled(w, "remove", later[1])
      ELSE FoldLeft(Ended, [w EXCEPT !.list = kept], gone)

OfType(w, type) == {c \in Range(w.list) : c.type = type}
WithoutType(w, type, force) == Without(w, OfType(w, type), force)

(* onAddCondition                                                          *)
Exclusive(w, type) ==
  IF type = "paralyze" /\ Has(w, "haste") THEN WithoutType(w, "haste", FALSE)
  ELSE IF type = "haste" /\ Has(w, "paralyze") THEN WithoutType(w, "paralyze", FALSE)
  ELSE w

(* setTicks                                                                *)
Timed(c, ticks) == [c EXCEPT !.ticks = ticks, !.left = ticks]

(* updateCondition: does what is new replace what is there?                *)
Replaces(old, new) ==
  CASE old.type \in SpeedTypes -> ~(old.ticks = -1 /\ new.ticks > 0)
    [] old.type = "attributes" ->
         /\ ~(old.ticks = -1 /\ new.ticks > 0)
         /\ ~(new.ticks >= 0 /\ old.left > new.ticks)
    [] OTHER -> ~(old.ticks = -1 /\ new.ticks > 0) /\ new.rounds > old.rounds

(* getNextDamage takes a round, unless they go on for ever.                *)
NextDamage(c) == IF c.ticks = -1 THEN c ELSE [c EXCEPT !.rounds = @ - 1]

(* The virtual addCondition of the one that is there.                      *)
Merged(w, i, c, blocked) ==
  LET old == w.list[i]
      v == Ended(w, old)
      new == Measured(v, Timed(c, c.ticks))
  IN  IF ~Replaces(old, c) THEN w
      ELSE IF old.type # "damage" THEN Applied([v EXCEPT !.list[i] = new], new)
      ELSE IF Delayed THEN [v EXCEPT !.list[i] = new]
      ELSE Hurt([v EXCEPT !.list[i] = NextDamage(new)], blocked)

(* startCondition and what follows it; the first round of damage may fail  *)
(* and with it the condition.                                              *)
Started(w, c, blocked) ==
  LET timed == [c EXCEPT !.left = IF c.ticks > 0 THEN c.ticks ELSE -1]
      new == Measured(w, timed)
  IN  IF c.type # "damage"
      THEN Exclusive([Applied(w, new) EXCEPT !.list = Append(@, new)], c.type)
      ELSE IF c.rounds = 0 \/ (blocked /\ ~Delayed) THEN w
      ELSE IF Delayed THEN [w EXCEPT !.list = Append(@, new)]
      ELSE [Hurt(w, FALSE) EXCEPT !.list = Append(@, NextDamage(new))]

(* addCondition                                                            *)
WithCondition(w, c, force, blocked) ==
  LET same == {i \in DOMAIN w.list : w.list[i].type = c.type /\ w.list[i].id = c.id}
  IN  IF ~force /\ c.type = "haste" /\ Has(w, "paralyze") /\ walkDelay > 0
      THEN Scheduled(w, "add", c)
      ELSE IF same # {} THEN Merged(w, CHOOSE i \in same : TRUE, c, blocked)
      ELSE Started(w, c, blocked)
-----------------------------------------------------------------------------
Others == <<walkDelay, unswept, online, saved>>

(* A spell, a rune, a field or a script.                                   *)
AddCondition ==
  \E type \in Types, id \in Ids, ticks \in Ticks, half, blocked \in BOOLEAN :
  \E delta \in CASE type = "haste" -> {2}
                 [] type = "paralyze" -> {-1}
                 [] type = "attributes" -> IF half THEN {0} ELSE {-1}
                 [] OTHER -> {0} :
    /\ online /\ health > 0 /\ added < MaxAdded
    /\ half => type = "attributes"
    /\ blocked => type = "damage"
    /\ type # "attributes" => id = 0
    /\ added' = added + 1
    /\ Becomes(WithCondition(Self,
         [type |-> type, id |-> id, ticks |-> ticks, left |-> -1, delta |-> delta,
          half |-> half, rounds |-> IF type = "damage" THEN Greatest(1, ticks) ELSE 0],
         FALSE, blocked))
    /\ UNCHANGED Others

(* removeCondition of a type, or of a type and an id.                      *)
RemoveCondition ==
  \E type \in Types, ids \in {Ids} \union {{i} : i \in Ids} :
    /\ online /\ \E i \in DOMAIN conditions : conditions[i].type = type
    /\ Becomes(Without(Self, {c \in OfType(Self, type) : c.id \in ids}, FALSE))
    /\ UNCHANGED <<Others, added>>

(* removeCombatCondition: it leaves what belongs to an item, and only      *)
(* shortens the rest, to delay, for one who may not act again yet.         *)
Dispelled(w, type, busy, delay) ==
  IF busy
  THEN [w EXCEPT !.list = [i \in DOMAIN @ |->
          IF @[i].type = type /\ @[i].id <= 0 THEN Timed(@[i], delay) ELSE @[i]]]
  ELSE Without(w, {c \in OfType(w, type) : c.id <= 0}, FALSE)

DispelCondition ==
  \E type \in Types, busy \in BOOLEAN, delay \in 0..1 :
    /\ online
    /\ \E i \in DOMAIN conditions : conditions[i].type = type /\ conditions[i].id <= 0
    /\ Becomes(Dispelled(Self, type, busy, delay))
    /\ UNCHANGED <<Others, added>>

(* forceAddCondition and forceRemoveCondition                              *)
RunEvent ==
  \E i \in DOMAIN pending :
    LET w == [Self EXCEPT !.pending = RemoveAt(@, i)]
        e == pending[i]
    IN  /\ online /\ e.in <= 0
        /\ Becomes(IF e.force = "add" THEN WithCondition(w, e.what, TRUE, FALSE)
                   ELSE WithoutType(w, e.what.type, TRUE))
        /\ UNCHANGED <<Others, added>>

Step ==
  /\ online /\ walkDelay <= 0
  /\ \E d \in 1..2 : walkDelay' = d
  /\ UNCHANGED <<conditions, varSpeed, varStats, health, pending, unswept, online,
                 saved, added>>

Tick ==
  /\ online /\ ~unswept /\ unswept' = TRUE
  /\ walkDelay' = Greatest(-1, walkDelay - 1)
  /\ conditions' = [i \in DOMAIN conditions |->
       [conditions[i] EXCEPT !.left = Greatest(-1, @ - 1)]]
  /\ pending' = [i \in DOMAIN pending |-> [pending[i] EXCEPT !.in = Greatest(-1, @ - 1)]]
  /\ UNCHANGED <<varSpeed, varStats, health, online, saved, added>>

(* executeCondition of one; field: of the kind on the creature's tile.     *)
Worn(w, i, field) ==
  LET c == w.list[i]
      rounds == c.type = "damage" /\ c.rounds > 0
      bRemove == CASE field = "none" -> c.ticks # -1
                   [] field = "same" -> FALSE
                   [] OTHER -> TRUE
      less == [c EXCEPT !.ticks = IF @ = -1 THEN @ ELSE Greatest(0, @ - 1)]
  IN  IF ~rounds THEN [w EXCEPT !.list[i] = less]
      ELSE IF bRemove THEN Hurt([w EXCEPT !.list[i] = [less EXCEPT !.rounds = @ - 1]], FALSE)
      ELSE Hurt([w EXCEPT !.list[i].left = IF c.ticks > 0 THEN @ + 1 ELSE @], FALSE)

(* executeConditions                                                       *)
ExecuteConditions ==
  \E field \in {"none", "same", "other"} :
    LET w == FoldLeft(LAMBDA v, i : Worn(v, i, field), Self, [i \in DOMAIN conditions |-> i])
        over == {c \in Range(w.list) : c.ticks # -1 /\ c.left < 0}
    IN  /\ online /\ unswept /\ health > 0
        /\ unswept' = FALSE
        /\ Becomes(Without(w, over, TRUE))
        /\ UNCHANGED <<walkDelay, online, saved, added>>

IsPersistent(c) == c.ticks # -1 /\ c.id <= 0

(* What the player left is read back by the load, changed as it is: the    *)
(* percentages are not stored, and each round of damage adds to the ticks. *)
Stored(w) ==
  LET kept == SelectSeq(w.list, IsPersistent)
  IN  [i \in DOMAIN kept |->
        [kept[i] EXCEPT !.half = FALSE, !.left = -1,
                        !.ticks = Least(4, @ + kept[i].rounds)]]

(* removeCreature; another object comes back at the next login, which the  *)
(* events of this one do not find.                                         *)
Gone(w) ==
  /\ Becomes([w EXCEPT !.list = <<>>, !.speed = 0, !.stats = 0, !.pending = <<>>])
  /\ online' = FALSE /\ saved' = Stored(w) /\ walkDelay' = -1

(* onDeath: a corpse is left, and with it the game; in the arena the       *)
(* player rises again.                                                     *)
Die ==
  \E arena \in BOOLEAN :
    LET w == [Without(Self, {c \in Range(conditions) : IsPersistent(c)}, TRUE) EXCEPT !.health = Base]
    IN  /\ online /\ unswept /\ health = 0
        /\ unswept' = FALSE /\ UNCHANGED added
        /\ \/ arena /\ Becomes(w) /\ UNCHANGED <<walkDelay, online, saved>>
           \/ ~arena /\ Gone(w)

LogOut ==
  /\ online /\ health > 0
  /\ Gone(Self) /\ unswept' = FALSE /\ UNCHANGED added

(* onCreatureAppear for the player itself.                                 *)
LogIn ==
  /\ ~online /\ online' = TRUE
  /\ Becomes(FoldLeft(LAMBDA w, c : WithCondition(w, c, FALSE, FALSE), Self, Reverse(saved)))
  /\ saved' = <<>>
  /\ UNCHANGED <<walkDelay, unswept, added>>

Next ==
  \/ AddCondition \/ RemoveCondition \/ DispelCondition \/ RunEvent
  \/ Step \/ Tick \/ ExecuteConditions \/ Die \/ LogOut \/ LogIn

Spec == Init /\ [][Next]_conditionVars
-----------------------------------------------------------------------------
Total(type) ==
  FoldLeft(LAMBDA s, c : IF c.type \in type THEN s + c.delta ELSE s, 0, conditions)

(* Invariant: what is added to the speed and to the hit points is what the *)
(* conditions at hand add, no more and no less, however they were added,   *)
(* replaced, dispelled, forced, or ended (startCondition, endCondition and *)
(* addCondition of ConditionSpeed and ConditionAttributes); there is one   *)
(* condition at most of a type and an id.                                   *)
ConditionsAreSound ==
  online =>
    /\ varSpeed = Total(SpeedTypes) /\ varStats = Total({"attributes"})
    /\ \A i, j \in DOMAIN conditions :
         conditions[i].type = conditions[j].type /\ conditions[i].id = conditions[j].id
           => i = j
===============================================================================
