-------------------------------- MODULE Walking --------------------------------
(***************************************************************************)
(* A player who walks, and who wants to do something at the end of it.     *)
(* Steps are taken by an event of the scheduler that renews itself         *)
(* (Creature::addEventWalk, onWalk); what is wanted out of reach waits as  *)
(* the walkTask until the walk is over, and what is wanted too early waits *)
(* as an event of its own.  There is one of each: a new one takes the      *)
(* place of the old one, which is stopped.  But an event that the          *)
(* scheduler has handed to the dispatcher can no longer be stopped.        *)
(* The cells lie on a line; time is left out but for what it makes end.    *)
(***************************************************************************)
EXTENDS Integers, Sequences, FiniteSets

CONSTANTS
  LastCell,        (* the cells are 0..LastCell                                *)
  Wishes,          (* what may be wanted                                   *)
  Target,          (* the cell of each                                     *)
  Moves,           (* those that move a thing: too early is seen before    *)
                   (* too far, for the others the other way round          *)
  MaxAsked,        (* how often the client asks for anything: a bound      *)
  None

VARIABLES
  pos, online,
  alive,           (* health > 0                                           *)
  walkDelay, busy, (* the step is not over; it is before nextAction        *)
  list,            (* listWalkDir, as differences                          *)
  cancelNextWalk,
  eventWalk, walkTaskEvent, actionTaskEvent,
  walkTask,
  scheduled,       (* the events that wait in the scheduler                *)
  queue,           (* the dispatcher's tasks about this player             *)
  asked,
  derailed         (* teleported, or found dead by an event of the walk    *)

walkVars == <<pos, online, alive, walkDelay, busy, list, cancelNextWalk,
              eventWalk, walkTaskEvent, actionTaskEvent, walkTask, scheduled,
              queue, asked, derailed>>

Cells == 0..LastCell
Kinds == {"walk", "walkTask", "action"}
EventIds == 1..MaxAsked + 4
Events == [kind : Kinds, wish : Wishes \union {None}, id : EventIds]

TypeOK ==
  /\ pos \in Cells /\ online \in BOOLEAN /\ alive \in BOOLEAN
  /\ walkDelay \in BOOLEAN /\ busy \in BOOLEAN /\ cancelNextWalk \in BOOLEAN
  /\ list \in Seq({-1, 1}) /\ Len(list) < LastCell
  /\ {eventWalk, walkTaskEvent, actionTaskEvent} \subseteq EventIds \union {0}
  /\ walkTask \in Wishes \union {None}
  /\ scheduled \subseteq Events
  /\ \A i \in DOMAIN queue :
       queue[i].kind = "autoWalk" \/ queue[i] \in Events
  /\ asked \in 0..MaxAsked /\ derailed \in BOOLEAN

Init ==
  /\ pos = 0 /\ online = TRUE /\ alive = TRUE /\ walkDelay = FALSE /\ busy = FALSE
  /\ list = <<>> /\ cancelNextWalk = FALSE
  /\ eventWalk = 0 /\ walkTaskEvent = 0 /\ actionTaskEvent = 0 /\ walkTask = None
  /\ scheduled = {} /\ queue = <<>> /\ asked = 0 /\ derailed = FALSE
-----------------------------------------------------------------------------
(* The player as a record, which the operators below pass on.              *)
Self ==
  [pos |-> pos, delay |-> walkDelay, busy |-> busy, list |-> list,
   cancel |-> cancelNextWalk, walk |-> eventWalk, task |-> walkTaskEvent,
   action |-> actionTaskEvent, walkTask |-> walkTask, scheduled |-> scheduled,
   queue |-> queue, derailed |-> derailed]

Becomes(w) ==
  /\ pos' = w.pos /\ walkDelay' = w.delay /\ busy' = w.busy /\ list' = w.list
  /\ cancelNextWalk' = w.cancel /\ eventWalk' = w.walk /\ walkTaskEvent' = w.task
  /\ actionTaskEvent' = w.action /\ walkTask' = w.walkTask
  /\ scheduled' = w.scheduled /\ queue' = w.queue /\ derailed' = w.derailed

(* addEvent gives ids that are not in use.                                 *)
FreeId(w) ==
  LET used == {w.walk, w.task, w.action} \union {e.id : e \in w.scheduled}
                \union {w.queue[i].id : i \in DOMAIN w.queue}
  IN  CHOOSE n \in EventIds : n \notin used /\ \A m \in EventIds \ used : n <= m

(* stopEvent: what is no longer in the scheduler is not found.             *)
Stopped(w, id) == [w EXCEPT !.scheduled = {e \in @ : e.id # id}]

Added(w, kind, wish) ==
  [w EXCEPT !.scheduled = @ \union {[kind |-> kind, wish |-> wish, id |-> FreeId(w)]}]

StopEventWalk(w) == [Stopped(w, w.walk) EXCEPT !.walk = 0]

KeepingTheEvent(w, wish) == [w EXCEPT !.walkTask = wish]

(* setNextWalkActionTask                                                   *)
SetNextWalkActionTask(w, wish) ==
  [Stopped(w, w.task) EXCEPT !.task = 0, !.walkTask = wish]

(* setNextActionTask                                                       *)
SetNextActionTask(w, wish) ==
  LET v == [Stopped(w, w.action) EXCEPT !.action = 0]
  IN  IF wish = None THEN v ELSE [Added(v, "action", wish) EXCEPT !.action = FreeId(v)]

(* Player::onWalkComplete                                                  *)
OnWalkComplete(w) ==
  IF w.walkTask = None THEN w
  ELSE [Added(w, "walkTask", w.walkTask) EXCEPT !.task = FreeId(w), !.walkTask = None]

(* A step that is taken, which makes the player busy, or that is not: then *)
(* the walk goes on with the next.                                         *)
OneStep(w, free) ==
  LET v == SetNextActionTask([w EXCEPT !.list = Tail(@), !.busy = TRUE], None)
      to == w.pos + Head(w.list)
  IN  IF free /\ to \in Cells THEN [v EXCEPT !.pos = to, !.delay = TRUE] ELSE v

(* Creature::onWalk up to the renewal of the event; free: no obstacle.     *)
Walked(w, free) ==
  LET v == IF w.delay THEN w
           ELSE IF w.list # <<>> THEN OneStep(w, free)
           ELSE StopEventWalk(OnWalkComplete(w))
  IN  IF v.cancel
      THEN [SetNextWalkActionTask(v, None) EXCEPT !.list = <<>>, !.cancel = FALSE]
      ELSE v

WalkEventAdded(w) == [Added(w, "walk", None) EXCEPT !.walk = FreeId(w)]

(* addEventWalk: a single step is taken at once, by an onWalk that has no  *)
(* event to renew; checkCreatureWalk leaves the dead alone.                *)
AddEventWalk(w, firstStep, free) ==
  LET v == [w EXCEPT !.cancel = FALSE]
  IN  IF w.walk # 0 THEN v
      ELSE WalkEventAdded(IF firstStep /\ ~w.delay /\ alive THEN Walked(v, free) ELSE v)

(* checkCreatureWalk for one who is alive.                                 *)
OnWalk(w, free) ==
  LET v == Walked(w, free)
  IN  IF v.walk = 0 THEN v ELSE AddEventWalk([v EXCEPT !.walk = 0], FALSE, free)

StartAutoWalk(w, l, free) == AddEventWalk([w EXCEPT !.list = l], Len(l) = 1, free)

(* The way to a cell next to the target.                                   *)
Distance(c, d) == IF c > d THEN c - d ELSE d - c
Path(w, c) ==
  [i \in 1..Distance(w.pos, c) - 1 |-> IF c > w.pos THEN 1 ELSE -1]

(* A wish out of reach: the walk is a task of the dispatcher.              *)
WalkFirst(w, wish) ==
  [SetNextWalkActionTask(w, wish) EXCEPT
    !.queue = Append(@, [kind |-> "autoWalk", list |-> Path(w, Target[wish]), id |-> 0])]

(* Done: useItem makes busy and ends the walk; a move does neither.        *)
Done(w, wish) ==
  LET v == SetNextActionTask(w, None)
  IN  IF wish \in Moves THEN v ELSE [v EXCEPT !.busy = TRUE, !.cancel = TRUE]

(* playerUseItem and playerMoveItem; way: getPathTo finds one.             *)
Attempted(w, wish, way) ==
  LET far == Distance(w.pos, Target[wish]) > 1
      early == w.busy /\ (wish \in Moves \/ ~far)
      v == IF wish \in Moves THEN SetNextActionTask(w, None) ELSE w
  IN  IF early THEN SetNextActionTask(w, wish)
      ELSE IF ~far THEN Done(w, wish)
      ELSE IF way THEN WalkFirst(v, wish)
      ELSE v
-----------------------------------------------------------------------------
Others == <<online, alive, asked>>

Ask == online /\ asked < MaxAsked /\ asked' = asked + 1 /\ UNCHANGED <<online, alive>>

(* What the client asks for.                                               *)
AskForWish == \E wish \in Wishes, way \in BOOLEAN : Ask /\ Becomes(Attempted(Self, wish, way))

PlayerMove ==
  \E d \in {-1, 1}, free \in BOOLEAN :
    Ask /\ Becomes(StartAutoWalk(SetNextWalkActionTask(Self, None), <<d>>, free))

(* The client's own path; the walkTask stays.                              *)
PlayerAutoWalk ==
  \E c \in Cells, free \in BOOLEAN :
    /\ Ask /\ Distance(pos, c) > 1
    /\ Becomes(StartAutoWalk(Self, Path(Self, c), free))

PlayerStopAutoWalk == Ask /\ Becomes([Self EXCEPT !.cancel = TRUE])

(* onCreatureMove of a teleport: the list and the walkTask stay.           *)
Teleport ==
  \E c \in Cells :
    /\ Ask
    /\ Becomes([StopEventWalk(Self) EXCEPT !.pos = c, !.derailed = TRUE])

(* The scheduler hands over an event; in which order is up to the delays.  *)
HandOver ==
  \E e \in scheduled :
    /\ Becomes([Self EXCEPT !.scheduled = @ \ {e}, !.queue = Append(@, e)])
    /\ UNCHANGED Others

(* The dispatcher executes the next task about the player.                 *)
Execute ==
  \E free, way \in BOOLEAN :
    LET t == Head(queue)
        w == [Self EXCEPT !.queue = Tail(@)]
    IN  /\ queue # <<>>
        /\ Becomes(
             IF ~online THEN w
             ELSE CASE t.kind = "autoWalk" -> StartAutoWalk(w, t.list, free)
                    [] t.kind = "walk" -> IF alive THEN OnWalk(w, free)
                                          ELSE [w EXCEPT !.derailed = TRUE]
                    [] OTHER -> Attempted(w, t.wish, way))
        /\ UNCHANGED Others

(* The step is over; nextAction has come.                                  *)
StepOver ==
  /\ walkDelay /\ Becomes([Self EXCEPT !.delay = FALSE]) /\ UNCHANGED Others
NotBusy ==
  /\ busy /\ Becomes([Self EXCEPT !.busy = FALSE]) /\ UNCHANGED Others

Fall ==
  /\ online /\ alive /\ alive' = FALSE
  /\ Becomes(Self) /\ UNCHANGED <<online, asked>>

(* checkCreatures: death takes the player out of the game, or in the arena *)
(* to the temple; a level gained before it revives.                        *)
Rise ==
  /\ online /\ ~alive /\ alive' = TRUE
  /\ \/ Becomes(Self)
     \/ Becomes([StopEventWalk(Self) EXCEPT !.pos = 0, !.derailed = TRUE])
  /\ UNCHANGED <<online, asked>>

(* The events remain, and will not find the player.                        *)
Leave ==
  /\ online /\ online' = FALSE
  /\ Becomes(Self) /\ UNCHANGED <<alive, asked>>

Next ==
  \/ AskForWish \/ PlayerMove \/ PlayerAutoWalk \/ PlayerStopAutoWalk \/ Teleport
  \/ HandOver \/ Execute \/ StepOver \/ NotBusy \/ Fall \/ Rise \/ Leave

Spec == Init /\ [][Next]_walkVars
-----------------------------------------------------------------------------
Waiting(kind) == {e \in scheduled : e.kind = kind}
Pending(id) ==
  (\E e \in scheduled : e.id = id) \/ (\E i \in DOMAIN queue : queue[i].id = id)

(* Invariant: however walks, stops and wishes follow each other, only the  *)
(* last wish for the end of the walk and the last for the end of the delay *)
(* wait to be done, those they replaced do not (setNextWalkActionTask,     *)
(* setNextActionTask, onWalkComplete); a walk that is under way has its    *)
(* next event, so that the player is not stuck; and a wish that waits for  *)
(* the end of a walk has a walk to wait for - unless the player was        *)
(* teleported or fell meanwhile.                                           *)
WalksAreSound ==
  online =>
    /\ \A e \in Waiting("walkTask") : e.id = walkTaskEvent /\ walkTask = None
    /\ \A e \in Waiting("action") : e.id = actionTaskEvent
    /\ ~derailed =>
         /\ eventWalk # 0 => Pending(eventWalk)
         /\ walkTask # None =>
              eventWalk # 0 \/ \E i \in DOMAIN queue : queue[i].kind = "autoWalk"
================================================================================
