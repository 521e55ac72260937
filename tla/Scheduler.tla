----------------------------- MODULE Scheduler ------------------------------
(***************************************************************************)
(* The scheduler thread (scheduler.h, scheduler.cpp): events with a        *)
(* deadline wait in a priority queue; the thread sleeps until the earliest *)
(* deadline, hands the event to the dispatcher and goes back to sleep.     *)
(* stopEvent() takes the identifier of an event out of eventIds and leaves *)
(* the event in the queue, to be dropped when its deadline comes.          *)
(*                                                                         *)
(* A critical section of eventLock is one action.  What happens without    *)
(* the lock is an action of its own: the read of threadState, the          *)
(* notify_one of addEvent, the call of g_dispatcher.addTask, and the two   *)
(* ends of shutdown().  A deadline that has passed may be noticed late, and*)
(* a wakeup may be spurious.  The clock is monotonic and counts to MaxTime.*)
(***************************************************************************)
EXTENDS Naturals

CONSTANTS
  Callers,     (* the threads that call addEvent                           *)
  Events,      (* the SchedulerTask objects                                *)
  Delays,      (* the delays they are created with                         *)
  MaxTime,     (* bound: the clock stops here                              *)
  MaxId        (* the largest event identifier, 2^32 - 1 in the code       *)

ASSUME SchedulerAssumption ==
  /\ Delays \subseteq Nat
  /\ MaxTime \in Nat
  /\ MaxId \in Nat \ {0}

VARIABLES
  threadState, (* ThreadHolder::threadState                                *)
  eventList,   (* the events in the priority queue                         *)
  eventIds,    (* the identifiers of the events that were not stopped      *)
  lastEventId, (* the last identifier given                                *)
  id,          (* SchedulerTask::eventId                                   *)
  cycle,       (* SchedulerTask::getCycle(), the deadline                  *)
  pc,          (* where threadMain is                                      *)
  deadline,    (* what the thread waits for, Never without a timeout       *)
  notifying,   (* callers that left addEvent's lock owing a notify_one     *)
  shutting,    (* where shutdown() is                                      *)
  fate,        (* what has become of each event                            *)
  stopped,     (* the events a stopEvent() that returned true was about    *)
  now

vars == <<threadState, eventList, eventIds, lastEventId, id, cycle, pc,
          deadline, notifying, shutting, fate, stopped, now>>
queueVars == <<eventList, eventIds, lastEventId, id, cycle, fate, stopped>>

Never == MaxTime + 1
Waiting == {"waiting", "notified", "expired"}

TypeOK ==
  /\ threadState \in {"RUNNING", "CLOSING", "TERMINATED"}
  /\ eventList \in SUBSET Events
  /\ eventIds \in SUBSET (1..MaxId)
  /\ lastEventId \in 0..MaxId
  /\ id \in [Events -> 0..MaxId]
  /\ cycle \in [Events -> 0..MaxTime]
  /\ pc \in Waiting \union
       {"loop", "locking", "dispatching", "exited", "undefined"}
  /\ deadline \in 0..Never
  /\ notifying \in SUBSET Callers
  /\ shutting \in {"no", "terminated", "cleared", "done"}
  /\ fate \in [Events -> {"new", "pending", "dispatching", "dispatched",
                          "dropped", "deleted"}]
  /\ stopped \in SUBSET Events
  /\ now \in 0..MaxTime

Init ==
  /\ threadState = "RUNNING"
  /\ eventList = {}
  /\ eventIds = {}
  /\ lastEventId = 0
  /\ id = [e \in Events |-> 0]
  /\ cycle = [e \in Events |-> 0]
  /\ pc = "loop"
  /\ deadline = Never
  /\ notifying = {}
  /\ shutting = "no"
  /\ fate = [e \in Events |-> "new"]
  /\ stopped = {}
  /\ now = 0

(* An event that top() may return: the heap does not order equal deadlines.*)
IsTop(e) == e \in eventList /\ \A f \in eventList : cycle[e] <= cycle[f]
-----------------------------------------------------------------------------
(* The tests and the counter of scheduler.cpp, each with a fault that a    *)
(* careless edit could bring in; no specification uses the faults.         *)

WokenUp == pc \in {"notified", "expired"}
TimedOut == pc \in {"notified", "expired"} /\ deadline <= now

IsActiveAlways(e) == TRUE
IsActive(e) == id[e] \in eventIds

NextId == IF lastEventId = MaxId THEN 1 ELSE lastEventId + 1

MustSignalIfEmpty(time) == eventList = {}
(* do_signal: the new event is the only top.                               *)
MustSignal(time) == \A f \in eventList : time < cycle[f]

NotSignalled == pc
(* notify_one reaches the thread only if it is waiting at that moment.     *)
Signalled == IF pc = "waiting" THEN "notified" ELSE pc
-----------------------------------------------------------------------------
(* threadMain *)

CheckState ==
  /\ pc = "loop"
  /\ pc' = IF threadState = "TERMINATED" THEN "exited" ELSE "locking"
  /\ UNCHANGED <<threadState, queueVars, deadline, notifying, shutting, now>>
(* wait() on an empty queue, wait_until() the deadline of the top.         *)
Sleep ==
  /\ pc = "locking"
  /\ \/ eventList = {} /\ deadline' = Never
     \/ \E e \in eventList : IsTop(e) /\ deadline' = cycle[e]
  /\ pc' = "waiting"
  /\ UNCHANGED <<threadState, queueVars, notifying, shutting, now>>

Expire ==
  /\ pc = "waiting"
  /\ deadline <= now
  /\ pc' = "expired"
  /\ UNCHANGED <<threadState, queueVars, deadline, notifying, shutting, now>>

SpuriousWakeup ==
  /\ pc = "waiting"
  /\ pc' = "notified"
  /\ UNCHANGED <<threadState, queueVars, deadline, notifying, shutting, now>>

(* With the lock held again, wait_until() compares the clock with the      *)
(* deadline: what it returns says whether the deadline has passed, not     *)
(* what ended the wait.                                                    *)
NoTimeout ==
  /\ pc = "notified"
  /\ now < deadline
  /\ pc' = "loop"
  /\ UNCHANGED <<threadState, queueVars, deadline, notifying, shutting, now>>

Pop(e) ==
  /\ TimedOut
  /\ IsTop(e)
  /\ eventList' = eventList \ {e}
  /\ UNCHANGED <<threadState, lastEventId, id, cycle, deadline, notifying,
                 shutting, stopped, now>>

(* The event was not stopped: it leaves the lock to be dispatched.         *)
PopActive(e) ==
  /\ Pop(e)
  /\ IsActive(e)
  /\ eventIds' = eventIds \ {id[e]}
  /\ fate' = [fate EXCEPT ![e] = "dispatching"]
  /\ pc' = "dispatching"

PopStopped(e) ==
  /\ Pop(e)
  /\ ~IsActive(e)
  /\ fate' = [fate EXCEPT ![e] = "dropped"]
  /\ pc' = "loop"
  /\ UNCHANGED eventIds

(* top() and pop() of an empty priority_queue: undefined behaviour.        *)
PopFromEmpty ==
  /\ TimedOut
  /\ eventList = {}
  /\ pc' = "undefined"
  /\ UNCHANGED <<threadState, queueVars, deadline, notifying, shutting, now>>

(* setDontExpire(), g_dispatcher.addTask(task, true).                      *)
Dispatch ==
  /\ pc = "dispatching"
  /\ fate' = [e \in Events |->
                IF fate[e] = "dispatching" THEN "dispatched" ELSE fate[e]]
  /\ pc' = "loop"
  /\ UNCHANGED <<threadState, eventList, eventIds, lastEventId, id, cycle,
                 deadline, notifying, shutting, stopped, now>>
-----------------------------------------------------------------------------
(* The operations of the other threads *)

(* createSchedulerTask(delay, f) and addEvent; the event has no id before. *)
AddEvent(c, e, delay) ==
  /\ c \notin notifying
  /\ fate[e] = "new"
  /\ threadState = "RUNNING"
  /\ now + delay <= MaxTime
  /\ lastEventId' = NextId
  /\ id' = [id EXCEPT ![e] = NextId]
  /\ cycle' = [cycle EXCEPT ![e] = now + delay]
  /\ eventIds' = eventIds \union {NextId}
  /\ eventList' = eventList \union {e}
  /\ fate' = [fate EXCEPT ![e] = "pending"]
  /\ notifying' = IF MustSignal(now + delay)
                  THEN notifying \union {c} ELSE notifying
  /\ UNCHANGED <<threadState, pc, deadline, shutting, stopped, now>>

RefuseEvent(c, e) ==
  /\ c \notin notifying
  /\ fate[e] = "new"
  /\ threadState # "RUNNING"
  /\ fate' = [fate EXCEPT ![e] = "deleted"]
  /\ UNCHANGED <<threadState, eventList, eventIds, lastEventId, id, cycle,
                 pc, deadline, notifying, shutting, stopped, now>>

Notify(c) ==
  /\ c \in notifying
  /\ notifying' = notifying \ {c}
  /\ pc' = Signalled
  /\ UNCHANGED <<threadState, queueVars, deadline, shutting, now>>

(* stopEvent(i) for the identifier of a live or a long finished event.     *)
StopEvent(i) ==
  /\ i # 0
  /\ i \in eventIds
  /\ eventIds' = eventIds \ {i}
  /\ stopped' = stopped \union {e \in eventList : id[e] = i}
  /\ UNCHANGED <<threadState, eventList, lastEventId, id, cycle, pc,
                 deadline, notifying, shutting, fate, now>>

(* ThreadHolder::stop, before shutdown().                                  *)
Stop ==
  /\ shutting = "no"
  /\ threadState = "RUNNING"
  /\ threadState' = "CLOSING"
  /\ UNCHANGED <<queueVars, pc, deadline, notifying, shutting, now>>

(* shutdown(): the state first, without the lock ...                       *)
Terminate ==
  /\ shutting = "no"
  /\ threadState' = "TERMINATED"
  /\ shutting' = "terminated"
  /\ UNCHANGED <<queueVars, pc, deadline, notifying, now>>

(* ... then the events and their identifiers under the lock ...            *)
Clear ==
  /\ shutting = "terminated"
  /\ fate' = [e \in Events |-> IF e \in eventList THEN "deleted" ELSE fate[e]]
  /\ eventList' = {}
  /\ eventIds' = {}
  /\ shutting' = "cleared"
  /\ UNCHANGED <<threadState, lastEventId, id, cycle, pc, deadline,
                 notifying, stopped, now>>

(* ... and a notify_one that only a thread already asleep can hear.        *)
Signal ==
  /\ shutting = "cleared"
  /\ pc' = Signalled
  /\ shutting' = "done"
  /\ UNCHANGED <<threadState, queueVars, deadline, notifying, now>>

Tick ==
  /\ now < MaxTime
  /\ now' = now + 1
  /\ UNCHANGED <<threadState, queueVars, pc, deadline, notifying, shutting>>
-----------------------------------------------------------------------------
ThreadMain ==
  \/ CheckState
  \/ Sleep
  \/ Expire
  \/ NoTimeout
  \/ \E e \in Events : PopActive(e) \/ PopStopped(e)
  \/ PopFromEmpty
  \/ Dispatch

ShutdownCall == Terminate \/ Clear \/ Signal

Next ==
  \/ ThreadMain
  \/ SpuriousWakeup
  \/ \E c \in Callers, e \in Events :
       RefuseEvent(c, e) \/ \E delay \in Delays : AddEvent(c, e, delay)
  \/ \E c \in Callers : Notify(c)
  \/ \E e \in Events : StopEvent(id[e])
  \/ Stop
  \/ ShutdownCall
  \/ Tick

(* threadMain runs, calls that were begun return, and time passes.         *)
Fairness ==
  /\ WF_vars(ThreadMain)
  /\ \A c \in Callers : WF_vars(Notify(c))
  /\ WF_vars(Clear \/ Signal)
  /\ WF_vars(Tick)

Spec == Init /\ [][Next]_vars /\ Fairness
-----------------------------------------------------------------------------
(* No event is handed to the dispatcher before its deadline, although the  *)
(* thread pops the top of a queue that may have changed while it slept and *)
(* compares nothing but the time it had decided to sleep until.            *)
NeverEarly ==
  \A e \in Events :
    fate[e] \in {"dispatching", "dispatched"} => cycle[e] <= now

(* The thread never oversleeps: an event due before the time it waits for  *)
(* has a notify_one on its way, although addEvent signals only for an      *)
(* event that is the first of the whole queue.                             *)
NeverOversleeps ==
  \A e \in eventList :
    pc = "waiting" /\ cycle[e] < deadline => notifying # {}

(* stopEvent() is exact: an event it was about is never dispatched, and no *)
(* other one is dropped, as long as the 32 bit counter gave no two events  *)
(* the same identifier.                                                    *)
SharesId(e) == \E f \in Events \ {e} : id[f] = id[e]

StopIsExact ==
  \A e \in Events : ~SharesId(e) =>
    /\ e \in stopped => fate[e] \notin {"dispatching", "dispatched"}
    /\ fate[e] = "dropped" => e \in stopped

(* An event that nobody stops is dispatched, unless the scheduler is shut  *)
(* down or an identifier was reused.                                       *)
EventuallyDispatched ==
  \A e \in Events :
    fate[e] = "pending" ~>
      \/ fate[e] = "dispatched"
      \/ e \in stopped \/ SharesId(e)
      \/ shutting # "no"

(* The comment in threadMain: "we had a timeout, so there has to be an     *)
(* event we have to execute".  shutdown() may have emptied the queue       *)
(* between the end of the wait and the reacquisition of the lock.          *)
TimeoutFindsEvent == pc # "undefined"
=============================================================================
