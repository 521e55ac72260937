------------------------------- MODULE Wildlife -------------------------------
(***************************************************************************)
(* What brings monsters into the world: spawns, and raids, which share no  *)
(* state.                                                                  *)
(***************************************************************************)
EXTENDS Integers, FiniteSets, Sequences, Functions
-----------------------------------------------------------------------------
(***************************************************************************)
(* A spawn (spawn.cpp) keeps a number of monsters in a place: it files     *)
(* each under the id of its block, looks from time to time whether one is  *)
(* missing, and puts a new one there when its time has come and nobody is  *)
(* near.  It looks only while something is missing: what ends the rest is  *)
(* the removal of a monster.  A monster that strays out of the zone is     *)
(* filed under 0 and replaced, too.                                        *)
(***************************************************************************)
CONSTANTS
  Ids,             (* the blocks: positive                                 *)
  Monsters,        (* objects, each used once, in their order: a bound     *)
  Rate             (* RATE_SPAWN: how many may be put at one look          *)

VARIABLES
  spawnedMap,      (* pairs of an id and a monster                         *)
  due,             (* the blocks whose interval has passed since lastSpawn *)
  checkSpawnEvent, (* whether it believes that a look is scheduled         *)
  scheduled,       (* whether one is                                       *)
  life, away,      (* of each monster; away: outside the zone              *)
  mine,            (* the monsters whose pointer to the spawn is set       *)
  counter,         (* their references                                     *)
  started          (* Spawns::started: not before, nor after clear()       *)

spawnVars == <<spawnedMap, due, checkSpawnEvent, scheduled, life, away, mine,
               counter, started>>

SpawnsTypeOK ==
  /\ spawnedMap \subseteq (Ids \union {0}) \X Monsters
  /\ due \subseteq Ids
  /\ checkSpawnEvent \in BOOLEAN /\ scheduled \in BOOLEAN
  /\ life \in [Monsters -> {"new", "placed", "removed"}]
  /\ away \subseteq Monsters /\ mine \subseteq Monsters
  /\ counter \in [Monsters -> 0..2]
  /\ started \in {"no", "yes", "cleared"}

SpawnsInit ==
  /\ spawnedMap = {} /\ due = Ids /\ checkSpawnEvent = FALSE /\ scheduled = FALSE
  /\ life = [m \in Monsters |-> "new"] /\ away = {} /\ mine = {}
  /\ counter = [m \in Monsters |-> 0]
  /\ started = "no"
-----------------------------------------------------------------------------
(* What a look changes, as a record that the operators below pass on.      *)
Now == [map |-> spawnedMap, due |-> due, life |-> life, mine |-> mine,
        counter |-> counter]

Becomes(w) ==
  /\ spawnedMap' = w.map /\ due' = w.due /\ life' = w.life /\ mine' = w.mine
  /\ counter' = w.counter

Filed(w, id) == {m \in Monsters : <<id, m>> \in w.map}

(* spawnMonster for each block that put gives a monster: the game holds    *)
(* what it places, and so do we.                                           *)
Spawned(w, put) ==
  [w EXCEPT !.map = @ \union {<<id, put[id]>> : id \in DOMAIN put},
            !.due = @ \ DOMAIN put,
            !.life = [m \in Monsters |->
                        IF m \in Range(put) THEN "placed" ELSE w.life[m]],
            !.mine = @ \union Range(put),
            !.counter = [m \in Monsters |->
                           IF m \in Range(put) THEN 2 ELSE w.counter[m]]]

(* The blocks of S, in the order of their ids, and the next monsters, as   *)
(* far as there are any.                                                   *)
Unused(w) == {m \in Monsters : w.life[m] = "new"}
Broods(w, S) ==
  {put \in UNION {[T -> Unused(w)] : T \in SUBSET S} :
     /\ \A j, k \in DOMAIN put : j < k => put[j] < put[k]
     /\ \A j \in DOMAIN put, k \in S \ DOMAIN put : j < k
     /\ \A m \in Range(put), n \in Unused(w) \ Range(put) : m < n
     /\ DOMAIN put = S \/ Range(put) = Unused(w)}

(* The loop of checkSpawn, which ends when enough were put, or tried;      *)
(* crowded are the blocks with a player near.                              *)
Missing(w) == {id \in w.due : Filed(w, id) = {}}
Reached(w, crowded) ==
  {id \in Missing(w) :
     Cardinality({k \in Missing(w) \ crowded : k < id}) < Rate}
Looked(w, crowded, put) ==
  Spawned([w EXCEPT !.due = @ \ (Reached(w, crowded) \intersect crowded)], put)

(* cleanup                                                                 *)
CleanedUp(w, outside) ==
  LET dead == {e \in w.map : w.life[e[2]] = "removed"}
      stray == {e \in w.map \ dead : e[2] \in outside}
  IN  [w EXCEPT !.map = ((w.map \ dead) \ stray) \union {<<0, e[2]>> : e \in stray},
                !.due = @ \ {e[1] : e \in dead},
                !.counter = [m \in Monsters |->
                   @[m] - (IF \E e \in dead : e[2] = m THEN 1 ELSE 0)]]

(* checkSpawn; blocked are the blocks where there is no room.              *)
CheckSpawn(crowded, blocked) ==
  LET v == CleanedUp(Now, away)
  IN  /\ scheduled
      /\ \E put \in Broods(v, Reached(v, crowded) \ (crowded \union blocked)) :
           LET w == Looked(v, crowded, put)
               again == Cardinality(w.map) < Cardinality(Ids)
           IN  /\ Becomes(w)
               /\ scheduled' = again /\ checkSpawnEvent' = again
      /\ UNCHANGED <<away, started>>

(* Spawns::startup: no look follows, even where there was no room.         *)
Startup(blocked) ==
  /\ started = "no"
  /\ started' = "yes"
  /\ \E put \in Broods(Now, Ids \ blocked) : Becomes(Spawned(Now, put))
  /\ UNCHANGED <<checkSpawnEvent, scheduled, away>>

(* Spawns::clear, at the end of the server                                 *)
Clear ==
  /\ started = "yes"
  /\ started' = "cleared"
  /\ checkSpawnEvent' = FALSE /\ scheduled' = (scheduled /\ ~checkSpawnEvent)
  /\ spawnedMap' = {}
  /\ mine' = mine \ {e[2] : e \in spawnedMap}
  /\ counter' = [m \in Monsters |->
                   counter[m] - (IF \E e \in spawnedMap : e[2] = m THEN 1 ELSE 0)]
  /\ UNCHANGED <<due, life, away>>

TimePasses(id) ==
  /\ id \notin due
  /\ due' = due \union {id}
  /\ UNCHANGED <<spawnedMap, checkSpawnEvent, scheduled, life, away, mine, counter, started>>

(* A monster walks out of the zone or back.                                *)
Wander(m) ==
  /\ life[m] = "placed"
  /\ away' = IF m \in away THEN away \ {m} ELSE away \union {m}
  /\ UNCHANGED <<spawnedMap, due, checkSpawnEvent, scheduled, life, mine, counter,
                 started>>

(* Monster::onRemoveCreature, startSpawnCheck                              *)
Remove(m) ==
  /\ life[m] = "placed"
  /\ life' = [life EXCEPT ![m] = "removed"]
  /\ counter' = [counter EXCEPT ![m] = @ - 1]
  /\ checkSpawnEvent' = (checkSpawnEvent \/ m \in mine)
  /\ scheduled' = (scheduled \/ (m \in mine /\ ~checkSpawnEvent))
  /\ UNCHANGED <<spawnedMap, due, away, mine, started>>

(* convinceCreature: the spawn forgets the monster, and looks no sooner.   *)
Forgotten(m) == {e \in spawnedMap : e[2] # m}
Convince(m) ==
  /\ life[m] = "placed" /\ m \in mine
  /\ spawnedMap' = Forgotten(m)
  /\ counter' = [counter EXCEPT ![m] = @ - (IF Forgotten(m) # spawnedMap THEN 1 ELSE 0)]
  /\ mine' = mine \ {m}
  /\ UNCHANGED <<due, checkSpawnEvent, scheduled, life, away, started>>
-----------------------------------------------------------------------------
SpawnsNext ==
  \/ \E crowded, blocked \in SUBSET Ids : CheckSpawn(crowded, blocked)
  \/ \E blocked \in SUBSET Ids : Startup(blocked)
  \/ Clear
  \/ \E id \in Ids : TimePasses(id)
  \/ \E m \in Monsters : Wander(m) \/ Remove(m) \/ Convince(m)
-----------------------------------------------------------------------------
(* No block has two monsters, and no monster is filed twice; a monster in  *)
(* the game knows the spawn that files it, and is held once for each side. *)
FiledOnce ==
  /\ \A e, f \in spawnedMap : e # f => e[2] # f[2] /\ (e[1] = f[1] => e[1] = 0)
  /\ \A m \in Monsters :
       LET filed == \E e \in spawnedMap : e[2] = m
       IN  /\ counter[m] = (IF life[m] = "placed" THEN 1 ELSE 0)
                             + (IF filed THEN 1 ELSE 0)
           /\ life[m] = "placed" => (filed <=> m \in mine)

(* A monster that left the game while its spawn filed it is noticed: a     *)
(* look is scheduled as long as there is one.                              *)
DeadAreNoticed ==
  \A e \in spawnedMap : life[e[2]] = "removed" => scheduled

SpawnsAreSound == FiledOnce /\ DeadAreNoticed
-----------------------------------------------------------------------------
(***************************************************************************)
(* Raids (raids.cpp): once a minute one of the loaded raids may start,     *)
(* unless one is running; a raid is a chain of scheduler tasks, one per    *)
(* event, and frees the way when its last event was executed or one of     *)
(* them failed.  Scripts start raids besides, and an operator forces or    *)
(* reloads them.  One that does not repeat leaves the list as it starts.   *)
(*                                                                         *)
(* The scheduler hands a task over to the dispatcher when it is due, where *)
(* nothing can stop it any more.  A reload deletes the raids of the list   *)
(* and stops the tasks that are known of; any other goes on, with a raid   *)
(* that was deleted if it is the task of one, and then it may do whatever  *)
(* it finds in that memory.                                                *)
(***************************************************************************)
CONSTANTS
  Loads,           (* the sets of Raid objects, one for each load          *)
  Length,          (* how many events a raid has                           *)
  Repeated,        (* the raids that may be repeated                       *)
  MaxChains,       (* bound: how often raids are started                   *)
  None

VARIABLES
  load,            (* how often raids were loaded                          *)
  raidList, running,
  startedUp,       (* Raids::started                                       *)
  nextEvent,       (* Raid::nextEvent                                      *)
  nextEventEvent,  (* the chain of the task that the raid knows of, or 0   *)
  tasks,           (* pending executeRaidEvent: chain and raid             *)
  handed,          (* those of them that the dispatcher has                *)
  chains,          (* how many chains there were                           *)
  checks,          (* pending checkRaids: that of checkRaidsEvent, others  *)
                   (* in the scheduler, and with the dispatcher            *)
  deleted,         (* the raids that were deleted                          *)
  missed,          (* history: reloads that found no check to stop, when   *)
                   (* there was one                                        *)
  blurred,         (* history: the raids that were forced, or started while*)
                   (* a task of theirs was pending                         *)
  struck           (* history: those deleted while the dispatcher had one  *)

raidVars == <<load, raidList, running, startedUp, nextEvent, nextEventEvent, tasks, handed,
              chains, checks, deleted, missed, blurred, struck>>

AllRaids == UNION {Loads[i] : i \in DOMAIN Loads}

RaidsTypeOK ==
  /\ load \in 0..Len(Loads) /\ startedUp \in BOOLEAN
  /\ raidList \subseteq AllRaids /\ running \in AllRaids \union {None}
  /\ nextEvent \in [AllRaids -> Nat]
  /\ nextEventEvent \in [AllRaids -> 0..MaxChains]
  /\ tasks \subseteq (1..MaxChains) \X AllRaids /\ handed \subseteq tasks
  /\ chains \in 0..MaxChains
  /\ checks \in [known : {0, 1}, other : Nat, handed : Nat]
  /\ deleted \subseteq AllRaids /\ missed \in Nat
  /\ blurred \subseteq AllRaids /\ struck \subseteq AllRaids

RaidsInit ==
  /\ load = 0 /\ raidList = {} /\ running = None /\ startedUp = FALSE
  /\ nextEvent = [r \in AllRaids |-> 0]
  /\ nextEventEvent = [r \in AllRaids |-> 0]
  /\ tasks = {} /\ handed = {} /\ chains = 0
  /\ checks = [known |-> 0, other |-> 0, handed |-> 0]
  /\ deleted = {} /\ missed = 0 /\ blurred = {} /\ struck = {}
-----------------------------------------------------------------------------
HasNext(r) == nextEvent[r] < Length[r]
Pending(r) == {t \in tasks : t[2] = r}
Looks == checks.known + checks.other + checks.handed

(* A new chain for r, and Raid::startRaid                                  *)
Begin(r) ==
  /\ chains < MaxChains /\ chains' = chains + 1 /\ tasks' = tasks \union {<<chains', r>>}
StartRaid(r) ==
  IF HasNext(r)
  THEN /\ Begin(r)
       /\ nextEventEvent' = [nextEventEvent EXCEPT ![r] = chains']
       /\ blurred' = IF Pending(r) # {} THEN blurred \union {r} ELSE blurred
  ELSE UNCHANGED <<chains, tasks, nextEventEvent, blurred>>

(* Raids::loadFromXml, startup                                             *)
Load ==
  /\ load = 0
  /\ load' = 1 /\ raidList' = Loads[1] /\ startedUp' = TRUE
  /\ checks' = [checks EXCEPT !.known = 1]
  /\ UNCHANGED <<running, nextEvent, nextEventEvent, tasks, handed, chains, deleted, missed,
                 blurred, struck>>

(* The scheduler: a task is due.                                           *)
HandOver(t) ==
  /\ t \in tasks \ handed /\ handed' = handed \union {t}
  /\ UNCHANGED <<load, raidList, running, startedUp, nextEvent, nextEventEvent, tasks, chains,
                 checks, deleted, missed, blurred, struck>>

HandOverCheck ==
  /\ \/ checks.known > 0 /\ checks' = [checks EXCEPT !.known = 0, !.handed = @ + 1]
     \/ checks.other > 0 /\ checks' = [checks EXCEPT !.other = @ - 1, !.handed = @ + 1]
  /\ UNCHANGED <<load, raidList, running, startedUp, nextEvent, nextEventEvent, tasks, handed,
                 chains, deleted, missed, blurred, struck>>

(* Raids::checkRaids, whose next is the one that is known of then; a raid  *)
(* starts when the interval and the dice let it.                           *)
CheckAgain ==
  /\ checks.handed > 0
  /\ checks' = [known |-> 1, other |-> checks.other + checks.known,
                handed |-> checks.handed - 1]
CheckRaids ==
  /\ CheckAgain
  /\ UNCHANGED <<load, raidList, running, startedUp, nextEvent, nextEventEvent, tasks, handed,
                 chains, deleted, missed, blurred, struck>>
CheckStarts(r) ==
  /\ CheckAgain /\ running = None /\ r \in raidList
  /\ running' = r
  /\ StartRaid(r)
  /\ raidList' = IF r \in Repeated THEN raidList ELSE raidList \ {r}
  /\ UNCHANGED <<load, startedUp, nextEvent, handed, deleted, missed, struck>>

(* Raids::clear, which stops the tasks that are known of if the scheduler  *)
(* still has them, loadFromXml, which may fail, and startup                *)
Known == {t \in tasks \ handed : t[2] \in raidList /\ nextEventEvent[t[2]] = t[1]}
Reload(succeeds) ==
  /\ load \in 1..Len(Loads) - 1
  /\ load' = load + 1 /\ startedUp' = succeeds
  /\ raidList' = (IF succeeds THEN Loads[load'] ELSE {}) /\ running' = None
  /\ tasks' = tasks \ Known /\ deleted' = deleted \union raidList
  /\ nextEventEvent' = [r \in AllRaids |-> IF r \in raidList THEN 0 ELSE nextEventEvent[r]]
  /\ checks' = [checks EXCEPT !.known = IF succeeds THEN 1 ELSE 0]
  /\ missed' = (IF checks.known = 0 /\ Looks > 0 THEN missed + 1 ELSE missed)
  /\ struck' = struck \union {r \in raidList : Pending(r) \intersect handed # {}}
  /\ UNCHANGED <<nextEvent, handed, chains, blurred>>

(* Game.startRaid of a script: nothing is said to be running.              *)
ScriptStarts(r) ==
  /\ r \in raidList
  /\ StartRaid(r)
  /\ UNCHANGED <<load, raidList, running, startedUp, nextEvent, handed, checks, deleted, missed,
                 struck>>

(* Commands::forceRaid: the raid does not learn of its first task.         *)
ForceRaid(r) ==
  /\ r \in raidList /\ running = None
  /\ running' = r
  /\ IF HasNext(r) THEN Begin(r) /\ blurred' = blurred \union {r}
     ELSE UNCHANGED <<chains, tasks, blurred>>
  /\ UNCHANGED <<load, raidList, startedUp, nextEvent, nextEventEvent, handed, checks, deleted,
                 missed, struck>>

(* Raid::executeRaidEvent, and resetRaid                                   *)
ResetRaid(r) == nextEvent' = [nextEvent EXCEPT ![r] = 0] /\ running' = None
GoesOn(r, succeeds) ==
  IF r \in deleted THEN BOOLEAN ELSE {succeeds /\ nextEvent[r] + 1 < Length[r]}

LeftUnreset(t, succeeds) ==
  LET r == t[2]
  IN  /\ t \in handed /\ handed' = handed \ {t}
      /\ \E more \in GoesOn(r, succeeds) :
           IF more
           THEN /\ nextEvent' = [nextEvent EXCEPT ![r] = IF r \in deleted THEN @ ELSE @ + 1]
                /\ nextEventEvent' = [nextEventEvent EXCEPT ![r] = t[1]]
                /\ UNCHANGED <<tasks, running>>
           ELSE /\ tasks' = tasks \ {t}
                /\ IF succeeds THEN ResetRaid(r) ELSE UNCHANGED <<nextEvent, running>>
                /\ UNCHANGED nextEventEvent
      /\ UNCHANGED <<load, raidList, startedUp, chains, checks, deleted, missed, blurred, struck>>
ExecuteRaidEvent(t, succeeds) ==
  LET r == t[2]
  IN  /\ t \in handed /\ handed' = handed \ {t}
      /\ \E more \in GoesOn(r, succeeds) :
           IF more
           THEN /\ nextEvent' = [nextEvent EXCEPT ![r] = IF r \in deleted THEN @ ELSE @ + 1]
                /\ nextEventEvent' = [nextEventEvent EXCEPT ![r] = t[1]]
                /\ UNCHANGED <<tasks, running>>
           ELSE /\ tasks' = tasks \ {t}
                /\ ResetRaid(r)
                /\ UNCHANGED nextEventEvent
      /\ UNCHANGED <<load, raidList, startedUp, chains, checks, deleted, missed, blurred, struck>>
-----------------------------------------------------------------------------
RaidsNext ==
  \/ Load \/ HandOverCheck \/ CheckRaids
  \/ \E succeeds \in BOOLEAN : Reload(succeeds)
  \/ \E r \in AllRaids : CheckStarts(r) \/ ScriptStarts(r) \/ ForceRaid(r)
  \/ \E t \in tasks : HandOver(t) \/ \E succeeds \in BOOLEAN : ExecuteRaidEvent(t, succeeds)
-----------------------------------------------------------------------------
(* The raid that is said to be running has an event to come, so that the   *)
(* next can start some day, unless it has no events at all.                *)
RunningGoesOn == running # None /\ Length[running] > 0 => Pending(running) # {}

(* The raids are looked at for ever, and by more than one task only after  *)
(* as many reloads that came when the dispatcher had the last one already. *)
AlwaysLooked == (startedUp => Looks > 0) /\ Looks <= 1 + missed

(* A raid knows of its task in the scheduler, unless it was forced or      *)
(* started twice; so no task is left of a raid that a reload deleted, but  *)
(* for such a raid, and one whose task the dispatcher had at that time.    *)
TasksAreKnown ==
  /\ \A t \in tasks \ handed :
       t[2] \in raidList => nextEventEvent[t[2]] = t[1] \/ t[2] \in blurred
  /\ \A t \in tasks : t[2] \in deleted => t[2] \in blurred \union struck

RaidsAreSound == RunningGoesOn /\ AlwaysLooked /\ TasksAreKnown
===============================================================================
