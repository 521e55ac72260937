-------------------------------- MODULE Scripts -------------------------------
(***************************************************************************)
(* How scripts run (luascript.cpp, baseevents.cpp, creatureevent.cpp,      *)
(* globalevent.cpp): a stack of environments, as one script may set off    *)
(* another, with the items that each of them created; the events of        *)
(* creatures with the functions they call, which a reload of the files     *)
(* replaces while creatures still hold the events; the timers that scripts *)
(* leave behind, with their references into the registry of Lua; and the   *)
(* chain of tasks that wakes the global events, whose times are in the     *)
(* second section.                                                         *)
(*                                                                         *)
(* Where the code goes on with a null pointer, or beyond the end of the    *)
(* array of environments, derailed says so and nothing is followed.        *)
(* Assumed of scripts: they leave alone an item that they gave away.       *)
(***************************************************************************)
EXTENDS Integers, Sequences, FiniteSets, SequencesExt

CONSTANTS
  Names,           (* of creature events                                   *)
  Files,           (* what creaturescripts.xml may say: sequences of       *)
                   (* events, each with a name and a type                  *)
  Items,           (* objects that scripts create                          *)
  Limit,           (* how many environments there are: 16                  *)
  MaxTimers, MaxReloads, MaxDeeds  (* bounds                               *)

VARIABLES
  creatureEvents,  (* by name: type, whether it is loaded, scriptId        *)
  table,           (* the functions of the interface, by script id         *)
  eventsList,      (* the events registered with a creature                *)
  scriptEnv,       (* the environments in use                              *)
  tempItems,       (* pairs of an environment and an item                  *)
  object,          (* the items: parent, times released, out of tempItems  *)
  timerEvents,     (* the timers the environment knows                     *)
  refs,            (* registry references that each timer has              *)
  waiting, ready,  (* tasks of timers: in the scheduler, the dispatcher    *)
  think,           (* the chain of GlobalEvents::think                     *)
  derailed, reloads, deeds

scriptVars == <<creatureEvents, table, eventsList, scriptEnv, tempItems, object,
                timerEvents, refs, waiting, ready, think, derailed, reloads, deeds>>

EventTypes == {"login", "think"}
Timers == 1..MaxTimers
Functions == [name : Names, type : EventTypes]
Nothing == [name |-> "nothing", type |-> "none"]
Unknown == [type |-> "none", loaded |-> FALSE, id |-> 0]

TypeOK ==
  /\ creatureEvents \in [Names -> [type : EventTypes \union {"none"}, loaded : BOOLEAN, id : Nat]]
  /\ table \in Seq(Functions)
  /\ eventsList \subseteq Names
  /\ Len(scriptEnv) <= Limit
  /\ tempItems \subseteq (1..Limit) \X Items
  /\ object \in [Items -> [parent : {"none", "virtual", "placed", "null"},
                           released : {0, 1}, forgotten : BOOLEAN]]
  /\ timerEvents \subseteq Timers /\ refs \in [Timers -> Int]
  /\ waiting \subseteq Timers /\ ready \subseteq Timers
  /\ think \in [map : BOOLEAN, known : BOOLEAN, strays : Nat, ready : Nat, raced : Nat]
  /\ derailed \in {"no", "cleared", "overflow"}
  /\ reloads \in 0..MaxReloads /\ deeds \in 0..MaxDeeds

-----------------------------------------------------------------------------
(* The registry of creature events as a record, which loading goes over.   *)
Registry == [events |-> creatureEvents, table |-> table]

(* clearEvent; reInitState, after which script ids start again             *)
StillLoaded(e) == e
ClearEvent(e) == [e EXCEPT !.loaded = FALSE, !.id = 0]
ReInitState == <<>>
Cleared(w) == [events |-> [n \in Names |-> ClearEvent(w.events[n])], table |-> ReInitState]

(* loadScript and getEvent: the next id, and the function in the table     *)
LoadScript(w, f) == [w EXCEPT !.table = Append(@, f)]

(* One node of the file: its script is loaded, which takes a script id     *)
(* from getEvent, and then registerEvent takes the event, or what it says  *)
(* for the one that is there and not loaded, or neither.                   *)
RegisterEvent(w, f) ==
  LET id == Len(w.table) + 1
      old == w.events[f.name]
      new == [type |-> f.type, loaded |-> TRUE, id |-> id]
      v == LoadScript(w, f)
  IN  IF old.type = "none" \/ (~old.loaded /\ old.type = f.type)
      THEN [v EXCEPT !.events[f.name] = new] ELSE v

LoadFromXml(w, file) ==
  LET loaded[k \in 0..Len(file)] ==
        IF k = 0 THEN w ELSE RegisterEvent(loaded[k - 1], file[k])
  IN  loaded[Len(file)]

Init ==
  /\ \E file \in Files :
       LET w == LoadFromXml([events |-> [n \in Names |-> Unknown], table |-> ReInitState], file)
       IN  creatureEvents = w.events /\ table = w.table
  /\ eventsList = {} /\ scriptEnv = <<>> /\ tempItems = {}
  /\ object = [i \in Items |-> [parent |-> "none", released |-> 0, forgotten |-> FALSE]]
  /\ timerEvents = {} /\ refs = [t \in Timers |-> 0] /\ waiting = {} /\ ready = {}
  /\ think = [map |-> TRUE, known |-> TRUE, strays |-> 0, ready |-> 0, raced |-> 0]
  /\ derailed = "no" /\ reloads = 0 /\ deeds = 0
-----------------------------------------------------------------------------
Idle == derailed = "no" /\ scriptEnv = <<>>
Running == derailed = "no" /\ scriptEnv # <<>> /\ deeds < MaxDeeds
Depth == Len(scriptEnv)

(* reserveScriptEnv, which has counted by the time it finds no room        *)
Enter(env) ==
  IF Depth = Limit
  THEN derailed' = "overflow" /\ UNCHANGED scriptEnv
  ELSE scriptEnv' = Append(scriptEnv, env) /\ UNCHANGED derailed

(* pushFunction: what the script id stands for now                         *)
FunctionOf(e) == IF e.id \in DOMAIN table THEN table[e.id] ELSE Nothing

(* The executeOn... of an event, whether it is loaded or not               *)
Execute(n) ==
  LET e == creatureEvents[n] IN
  IF ~e.loaded /\ Depth < Limit
  THEN derailed' = "cleared" /\ UNCHANGED scriptEnv
  ELSE Enter([kind |-> "event", wanted |-> [name |-> n, type |-> e.type],
              called |-> FunctionOf(e), timer |-> 0])

(* playerLogin and its like: all that have the type.                       *)
Login(n) ==
  /\ Idle /\ deeds < MaxDeeds /\ creatureEvents[n].type = "login"
  /\ Execute(n) /\ deeds' = deeds + 1
  /\ UNCHANGED <<creatureEvents, table, eventsList, tempItems, object, timerEvents,
                 refs, waiting, ready, think, reloads>>

(* getCreatureEvents, loaded or not                                        *)
CreatureEventsOf(type) == {n \in eventsList : creatureEvents[n].type = type}

(* onKill, onHealthChange and their like: those the creature registered    *)
(* that have the type; scripts set them off too.                           *)
Happen(n) ==
  /\ Idle \/ Running
  /\ deeds < MaxDeeds /\ n \in CreatureEventsOf("think")
  /\ Execute(n) /\ deeds' = deeds + 1
  /\ UNCHANGED <<creatureEvents, table, eventsList, tempItems, object, timerEvents,
                 refs, waiting, ready, think, reloads>>

(* The methods of class Events: a question of the game, which a script     *)
(* answers; it has its function for as long as the server runs.            *)
Ask ==
  /\ Idle \/ Running
  /\ deeds < MaxDeeds /\ deeds' = deeds + 1
  /\ Enter([kind |-> "answer", wanted |-> Nothing, called |-> Nothing, timer |-> 0])
  /\ UNCHANGED <<creatureEvents, table, eventsList, tempItems, object, timerEvents,
                 refs, waiting, ready, think, reloads>>

(* executeTimerEvent: the call; its references are freed as it returns.    *)
ExecuteTimerEvent(t) ==
  /\ Idle /\ t \in ready /\ ready' = ready \ {t}
  /\ timerEvents' = timerEvents \ {t}
  /\ IF t \in timerEvents
     THEN Enter([kind |-> "timer", wanted |-> Nothing, called |-> Nothing, timer |-> t])
     ELSE UNCHANGED <<scriptEnv, derailed>>
  /\ UNCHANGED <<creatureEvents, table, eventsList, tempItems, object, refs,
                 waiting, think, reloads, deeds>>

(* GlobalEvents::think: the scripts that are due; what follows them is in  *)
(* the end of the script.                                                  *)
Think ==
  /\ Idle /\ think.ready > 0
  /\ think' = [think EXCEPT !.ready = @ - 1]
  /\ IF think.map
     THEN Enter([kind |-> "global", wanted |-> Nothing, called |-> Nothing, timer |-> 0])
     ELSE UNCHANGED <<scriptEnv, derailed>>
  /\ UNCHANGED <<creatureEvents, table, eventsList, tempItems, object, timerEvents,
                 refs, waiting, ready, reloads, deeds>>

(* The scheduler hands what is due to the dispatcher.                      *)
TimerIsDue(t) ==
  /\ t \in waiting /\ waiting' = waiting \ {t} /\ ready' = ready \union {t}
  /\ UNCHANGED <<creatureEvents, table, eventsList, scriptEnv, tempItems, object,
                 timerEvents, refs, think, derailed, reloads, deeds>>

ThinkIsDue ==
  /\ \/ think.known /\ think' = [think EXCEPT !.known = FALSE, !.ready = @ + 1]
     \/ think.strays > 0 /\ think' = [think EXCEPT !.strays = @ - 1, !.ready = @ + 1]
  /\ UNCHANGED <<creatureEvents, table, eventsList, scriptEnv, tempItems, object,
                 timerEvents, refs, waiting, ready, derailed, reloads, deeds>>

(* resetEnv: what still is in the virtual cylinder is released.            *)
Released(i) == [object[i] EXCEPT !.released = @ + 1]
ResetEnv ==
  /\ object' = [i \in Items |->
       IF <<Depth, i>> \in tempItems /\ object[i].parent = "virtual"
       THEN Released(i) ELSE object[i]]
  /\ tempItems' = {x \in tempItems : x[1] # Depth}
  /\ scriptEnv' = Front(scriptEnv)

(* A new task of the chain; the one known so far is known no more.         *)
Rescheduled ==
  [think EXCEPT !.known = TRUE, !.strays = @ + (IF think.known THEN 1 ELSE 0)]

(* The script returns or fails.                                            *)
EndOfScript ==
  /\ derailed = "no" /\ scriptEnv # <<>>
  /\ LET env == Last(scriptEnv) IN
     /\ refs' = IF env.kind = "timer" THEN [refs EXCEPT ![env.timer] = @ - 1] ELSE refs
     /\ think' = IF env.kind = "global" /\ think.map THEN Rescheduled ELSE think
  /\ ResetEnv
  /\ UNCHANGED <<creatureEvents, table, eventsList, timerEvents, waiting, ready,
                 derailed, reloads, deeds>>

-----------------------------------------------------------------------------
(* What a script does.                                                     *)
Deed == Running /\ deeds' = deeds + 1

(* Game.createItem without a position, item:clone                          *)
CreateItem(i) ==
  /\ Deed /\ object[i].parent = "none"
  /\ object' = [object EXCEPT ![i].parent = "virtual"]
  /\ tempItems' = tempItems \union {<<Depth, i>>}
  /\ UNCHANGED <<creatureEvents, table, eventsList, scriptEnv, timerEvents, refs,
                 waiting, ready, think, derailed, reloads>>

RemoveTempItem(i) == tempItems' = {x \in tempItems : x[2] # i}

(* Item::onRemoved of an item that merged with another                     *)
OnRemoved(i) == RemoveTempItem(i)

(* addItemEx and moveTo: internalAddItem puts the item somewhere, merges   *)
(* it with another and releases it, or merges a part, the rest being a new *)
(* item; addItemEx then takes it off tempItems.                            *)
AddItemEx(i, takesOff) ==
  /\ Deed /\ object[i].parent = "virtual" /\ object[i].released = 0
  /\ \/ /\ object' = [object EXCEPT ![i].parent = "placed", ![i].forgotten = FALSE]
        /\ IF takesOff THEN RemoveTempItem(i) ELSE UNCHANGED tempItems
     \/ /\ object' = [object EXCEPT ![i] = Released(i)]
        /\ OnRemoved(i)
     \/ /\ object' = [object EXCEPT ![i].forgotten = @ \/ takesOff]
        /\ IF takesOff THEN RemoveTempItem(i) ELSE UNCHANGED tempItems
  /\ UNCHANGED <<creatureEvents, table, eventsList, scriptEnv, timerEvents, refs,
                 waiting, ready, think, derailed, reloads>>

(* item:remove: an item in the virtual cylinder stays there.               *)
RemoveItem(i) ==
  /\ Deed /\ object[i].parent \in {"virtual", "placed"} /\ object[i].released = 0
  /\ object' = [object EXCEPT ![i] =
       IF object[i].parent = "placed" THEN [Released(i) EXCEPT !.parent = "null"]
       ELSE [object[i] EXCEPT !.forgotten = TRUE]]
  /\ RemoveTempItem(i)
  /\ UNCHANGED <<creatureEvents, table, eventsList, scriptEnv, timerEvents, refs,
                 waiting, ready, think, derailed, reloads>>

(* addEvent takes references of its function and parameters.               *)
AddEvent(t) ==
  /\ Deed /\ \A s \in Timers : s < t => refs[s] > 0 \/ s \notin waiting \union ready
  /\ refs[t] = 0 /\ t \notin timerEvents \union waiting \union ready
  /\ refs' = [refs EXCEPT ![t] = @ + 1]
  /\ timerEvents' = timerEvents \union {t} /\ waiting' = waiting \union {t}
  /\ UNCHANGED <<creatureEvents, table, eventsList, scriptEnv, tempItems, object,
                 ready, think, derailed, reloads>>

(* stopEvent: a task that the dispatcher has finds the timer gone.         *)
StopEvent(t) ==
  /\ Deed /\ t \in timerEvents
  /\ timerEvents' = timerEvents \ {t} /\ waiting' = waiting \ {t}
  /\ refs' = [refs EXCEPT ![t] = @ - 1]
  /\ UNCHANGED <<creatureEvents, table, eventsList, scriptEnv, tempItems, object,
                 ready, think, derailed, reloads>>

(* registerCreatureEvent and unregisterCreatureEvent, for a loaded event   *)
RegisterCreatureEvent(n) ==
  /\ Deed /\ creatureEvents[n].loaded
  /\ \/ eventsList' = eventsList \union {n}
     \/ eventsList' = eventsList \ {n}
  /\ UNCHANGED <<creatureEvents, table, scriptEnv, tempItems, object, timerEvents,
                 refs, waiting, ready, think, derailed, reloads>>
-----------------------------------------------------------------------------
(* /reload creaturescripts                                                 *)
ReloadCreatureEvents ==
  /\ Idle /\ reloads < MaxReloads /\ reloads' = reloads + 1
  /\ \E file \in Files :
       LET w == LoadFromXml(Cleared(Registry), file)
       IN  creatureEvents' = w.events /\ table' = w.table
  /\ UNCHANGED <<eventsList, scriptEnv, tempItems, object, timerEvents, refs,
                 waiting, ready, think, derailed, deeds>>

(* GlobalEvents::clear: the task that is known is stopped, if it still is  *)
(* in the scheduler.                                                       *)
ClearThink(c) ==
  [c EXCEPT !.map = FALSE, !.known = FALSE, !.raced = @ + (IF c.known THEN 0 ELSE 1)]

(* GlobalEvents::registerEvent: the first one starts a task.               *)
RegisterThink(c) == [c EXCEPT !.map = TRUE, !.known = TRUE]

(* /reload globalevents                                                    *)
ReloadGlobalEvents ==
  /\ Idle /\ reloads < MaxReloads /\ reloads' = reloads + 1
  /\ \/ think' = ClearThink(think)
     \/ think' = RegisterThink(ClearThink(think))
  /\ UNCHANGED <<creatureEvents, table, eventsList, scriptEnv, tempItems, object,
                 timerEvents, refs, waiting, ready, derailed, deeds>>

Next ==
  \/ \E n \in Names : Login(n) \/ Happen(n) \/ RegisterCreatureEvent(n)
  \/ \E t \in Timers :
       ExecuteTimerEvent(t) \/ TimerIsDue(t) \/ AddEvent(t) \/ StopEvent(t)
  \/ \E i \in Items :
       CreateItem(i) \/ RemoveItem(i) \/ \E off \in BOOLEAN : AddItemEx(i, off)
  \/ Ask \/ Think \/ ThinkIsDue \/ EndOfScript
  \/ ReloadCreatureEvents \/ ReloadGlobalEvents

Spec == Init /\ [][Next]_scriptVars
-----------------------------------------------------------------------------
(* Script ids start again with every reload: an event that kept its id     *)
(* would call what another event now has there.                            *)
EventsRunTheirOwn ==
  /\ \A n \in Names : creatureEvents[n].loaded =>
       FunctionOf(creatureEvents[n]) = [name |-> n, type |-> creatureEvents[n].type]
  /\ \A d \in DOMAIN scriptEnv : scriptEnv[d].called = scriptEnv[d].wanted
  /\ \A n \in eventsList : creatureEvents[n].type # "none"

(* A timer that is known will run; it has its references until it has run  *)
(* or was stopped, and gives them back once.                               *)
RunningTimers == {scriptEnv[d].timer : d \in {e \in DOMAIN scriptEnv : scriptEnv[e].kind = "timer"}}
TimersAreKept ==
  /\ timerEvents \subseteq waiting \union ready
  /\ waiting \subseteq timerEvents
  /\ timerEvents \intersect RunningTimers = {}
  /\ \A t \in Timers : refs[t] = IF t \in timerEvents \union RunningTimers THEN 1 ELSE 0

(* What scripts created is released once, and nothing is left over of what *)
(* they neither placed nor made the environment forget.                    *)
ItemsAreReleased ==
  /\ \A i \in Items :
       /\ object[i].released <= 1
       /\ object[i].parent = "virtual" /\ object[i].released = 0 /\ ~object[i].forgotten =>
            \E d \in 1..Depth : <<d, i>> \in tempItems
  /\ \A x \in tempItems : x[1] <= Depth /\ object[x[2]].released = 0

(* While there are global events a task is on its way to them; there is    *)
(* one only, but for reloads that came too late to stop it.                *)
Tasks == (IF think.known THEN 1 ELSE 0) + think.strays + think.ready
InThink == \E d \in DOMAIN scriptEnv : scriptEnv[d].kind = "global"
ChainGoesOn ==
  /\ derailed = "no" /\ think.map /\ ~InThink => Tasks > 0
  /\ Tasks <= 1 + think.raced

(* Invariant: scripts call the functions they were loaded with, timers run *)
(* once and give back their references, items that a script created are    *)
(* placed or released once, and the chain of the global events goes on.    *)
ScriptsAreSound == EventsRunTheirOwn /\ TimersAreKept /\ ItemsAreReleased /\ ChainGoesOn
-----------------------------------------------------------------------------
(***************************************************************************)
(* The second section: when the global events run (globalevent.cpp).       *)
(* There is one task for those that think at an interval and one for those *)
(* of a time of day; each time it runs what is due and adds the next task, *)
(* reckoned from when it ran.  A reload stops the tasks, unless they are   *)
(* in the hands of the dispatcher already, and starts anew.                *)
(***************************************************************************)
CONSTANTS
  Thinkers, Daily, (* the events                                           *)
  Interval,        (* of each thinker                                      *)
  Day, Hour,       (* how long a day is, and the time of each daily event  *)
  MinTicks,        (* SCHEDULER_MINTICKS                                   *)
  Lists,           (* what globalevents.xml may list: sets of events       *)
  MaxClock, MaxLoads (* bounds                                             *)

VARIABLES
  clock,
  listed,          (* thinkMap and timerMap                                *)
  nextExecution,   (* of each event                                        *)
  tasks,           (* each with its id, when it is due, whether the        *)
                   (* dispatcher has it                                    *)
  eventId,         (* thinkEventId and timerEventId, 0 for none            *)
  lag,             (* history: how late the tasks of each kind have run    *)
  since, executed, (* history: since when an event is listed, and which of *)
                   (* its times it was executed for                        *)
  loads

clockVars == <<clock, listed, nextExecution, tasks, eventId, lag, since, executed, loads>>

Kinds == {"think", "timer"}
KindOf(e) == IF e \in Thinkers THEN "think" ELSE "timer"
Globals == Thinkers \union Daily
Ids == Nat \ {0}

ClockTypeOK ==
  /\ clock \in Nat /\ listed \subseteq Globals /\ loads \in 1..MaxLoads
  /\ nextExecution \in [Globals -> Nat] /\ since \in [Globals -> Nat]
  /\ tasks \subseteq [id : Ids, kind : Kinds, due : Nat, posted : BOOLEAN]
  /\ eventId \in [Kinds -> Ids \union {0}] /\ lag \in [Kinds -> Nat]
  /\ \A e \in Globals : executed[e] \subseteq Nat

(* addEvent, with an id that is new                                        *)
FreeId(w) ==
  CHOOSE i \in 1..(Cardinality(w.tasks) + Cardinality(Kinds) + 1) :
    /\ \A t \in w.tasks : t.id # i
    /\ \A k \in Kinds : w.eventId[k] # i
AddTask(w, kind, due) ==
  [w EXCEPT !.tasks = @ \union {[id |-> FreeId(w), kind |-> kind, due |-> due, posted |-> FALSE]},
            !.eventId[kind] = FreeId(w)]

(* configureEvent: the next time of the day that is not over               *)
FirstExecution(e, now) ==
  IF e \in Thinkers THEN now + Interval[e]
  ELSE now + ((Hour[e] - now) % Day)

(* registerEvent for all that the file lists: the first of a kind starts   *)
(* its chain of tasks.                                                     *)
RegisterKind(w, k, file, now) ==
  IF (\E e \in file : KindOf(e) = k) /\ w.eventId[k] = 0
  THEN AddTask(w, k, now + MinTicks) ELSE w
Registered(w, file, now) ==
  RegisterKind(RegisterKind(w, "think", file, now), "timer", file, now)

(* clear: who is in the dispatcher's queue cannot be stopped.              *)
StopEvents(w) ==
  {t \in w.tasks : t.posted \/ t.id # w.eventId[t.kind]}
Forgotten(w) == [tasks |-> StopEvents(w), eventId |-> [k \in Kinds |-> 0]]

Loaded(w, file, now) ==
  LET v == Registered(w, file, now)
  IN  /\ tasks' = v.tasks /\ eventId' = v.eventId
      /\ listed' = file
      /\ nextExecution' = [e \in Globals |->
           IF e \in file THEN FirstExecution(e, now) ELSE nextExecution[e]]
      /\ since' = [e \in Globals |-> now] /\ executed' = [e \in Globals |-> {}]
      /\ lag' = [k \in Kinds |-> MinTicks]

ClockInit ==
  \E file \in Lists :
    LET v == Registered([tasks |-> {}, eventId |-> [k \in Kinds |-> 0]], file, 0) IN
      /\ tasks = v.tasks /\ eventId = v.eventId /\ listed = file /\ clock = 0
      /\ nextExecution = [e \in Globals |-> FirstExecution(e, 0)]
      /\ since = [e \in Globals |-> 0] /\ executed = [e \in Globals |-> {}]
      /\ lag = [k \in Kinds |-> MinTicks] /\ loads = 1

ReloadAll ==
  /\ loads < MaxLoads /\ loads' = loads + 1
  /\ \E file \in Lists :
       Loaded(Forgotten([tasks |-> tasks, eventId |-> eventId]), file, clock)
  /\ UNCHANGED clock

Pass ==
  /\ clock < MaxClock /\ clock' = clock + 1
  /\ UNCHANGED <<listed, nextExecution, tasks, eventId, lag, since, executed, loads>>

(* The scheduler hands over what is due, sooner or later.                  *)
Post(t) ==
  /\ ~t.posted /\ t.due <= clock
  /\ tasks' = (tasks \ {t}) \union {[t EXCEPT !.posted = TRUE]}
  /\ UNCHANGED <<clock, listed, nextExecution, eventId, lag, since, executed, loads>>

DueOf(kind) == {e \in listed : KindOf(e) = kind /\ nextExecution[e] <= clock}
Period(e) == IF e \in Thinkers THEN Interval[e] ELSE Day
AfterExecution(e) == nextExecution[e] + Period(e)

(* GlobalEvents::timer and think; the scripts may take a moment, and one   *)
(* of a daily event that fails takes it off the list.                      *)
Wake(t, failed, took) ==
  LET k == t.kind
      due == DueOf(k)
      mine == {e \in listed : KindOf(e) = k} \ failed
      untilNext == {IF e \in due THEN Period(e) ELSE nextExecution[e] - clock : e \in mine}
      w == [tasks |-> tasks \ {t}, eventId |-> eventId]
      now == clock + took
  IN  /\ t.posted /\ failed \subseteq due \intersect Daily /\ (took > 0 => due # {})
      /\ clock' = now
      /\ listed' = listed \ failed
      /\ nextExecution' = [e \in Globals |->
           IF e \in due \ failed THEN AfterExecution(e) ELSE nextExecution[e]]
      /\ executed' = [e \in Globals |->
           IF e \in due THEN executed[e] \union {nextExecution[e]} ELSE executed[e]]
      /\ LET v == IF mine = {} THEN w
                  ELSE AddTask(w, k, now + (CHOOSE n \in untilNext : \A m \in untilNext : n <= m))
         IN  tasks' = v.tasks /\ eventId' = v.eventId
      /\ lag' = [lag EXCEPT ![k] = @ + (IF t.due < clock THEN clock - t.due ELSE 0) + took]
      /\ UNCHANGED <<since, loads>>

ClockNext ==
  \/ ReloadAll \/ Pass
  \/ \E t \in tasks : Post(t) \/ \E failed \in SUBSET Daily, took \in 0..1 : Wake(t, failed, took)

ClockSpec == ClockInit /\ [][ClockNext]_clockVars
-----------------------------------------------------------------------------
(* Whatever is listed, a task is on its way that comes no later for it     *)
(* than the tasks were late themselves: no event waits for a task that     *)
(* was reckoned for another, or for one that a reload stopped.             *)
NoneWaitsInVain ==
  \A e \in listed : \E t \in tasks :
    t.kind = KindOf(e) /\ t.due <= nextExecution[e] + lag[t.kind]

(* No daily event passes over one of its days, is early, or leaves its     *)
(* hour, however late the tasks are.                                       *)
EveryDay ==
  \A e \in listed \intersect Daily :
    /\ executed[e] = {i \in since[e] .. nextExecution[e] - 1 : i % Day = Hour[e]}
    /\ \A i \in executed[e] : i <= clock

ClockIsSound == NoneWaitsInVain /\ EveryDay
===============================================================================
