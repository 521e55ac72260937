-------------------------- MODULE SchedulerProofs ---------------------------
(***************************************************************************)
(* Proofs about Scheduler: no event is dispatched early, the thread never  *)
(* sleeps past a deadline without a signal on its way, and stopEvent() is  *)
(* exact while identifiers are distinct.                                   *)
(***************************************************************************)
EXTENDS Scheduler, TLAPS

(* The queue holds the pending events; identifiers belong to accepted ones.*)
QueueInv ==
  \A e \in Events :
    /\ fate[e] = "pending" <=> e \in eventList
    /\ fate[e] = "new" => id[e] = 0 /\ e \notin stopped
    /\ fate[e] \in {"pending", "dispatching", "dispatched", "dropped"}
         => id[e] # 0

(* eventIds tells the pending events that were stopped from the others.    *)
IdsInv ==
  \A e \in eventList : ~SharesId(e) => (id[e] \in eventIds <=> e \notin stopped)

(* While the thread sleeps the queue only gains events, or is emptied once *)
(* and for all: an event due at the deadline it chose, or before, is there.*)
SleepInv ==
  /\ pc = "expired" => deadline <= now
  /\ pc \in Waiting /\ deadline # Never =>
       \/ shutting \in {"cleared", "done"}
       \/ \E e \in eventList : cycle[e] <= deadline

ShutdownInv ==
  /\ shutting # "no" => threadState = "TERMINATED"
  /\ shutting \in {"cleared", "done"} => eventList = {}

IInv ==
  /\ TypeOK
  /\ QueueInv
  /\ IdsInv
  /\ SleepInv
  /\ ShutdownInv
  /\ NeverEarly
  /\ NeverOversleeps
  /\ StopIsExact
-----------------------------------------------------------------------------
LEMMA InitInv == Init => IInv
<1> SUFFICES ASSUME Init PROVE IInv
  OBVIOUS
<1> USE SchedulerAssumption
<1>1. TypeOK
  BY DEF Init, TypeOK, Never, Waiting
<1>2. QED
  BY <1>1 DEF Init, IInv, QueueInv, IdsInv, SleepInv, ShutdownInv, NeverEarly,
              NeverOversleeps, StopIsExact, Waiting

(* A new event: the identifier is fresh, or shared from now on.            *)
LEMMA AddEventStep ==
  ASSUME IInv, NEW c \in Callers, NEW e \in Events, NEW delay \in Delays,
         AddEvent(c, e, delay)
  PROVE  IInv'
<1> USE SchedulerAssumption
<1>1. /\ NextId \in 1..MaxId
      /\ delay \in Nat
      /\ now + delay \in 0..MaxTime
  BY DEF AddEvent, IInv, TypeOK, NextId
<1>2. /\ fate[e] = "new"
      /\ e \notin eventList
      /\ id[e] = 0
      /\ id' = [id EXCEPT ![e] = NextId]
      /\ cycle' = [cycle EXCEPT ![e] = now + delay]
      /\ eventIds' = eventIds \union {NextId}
      /\ eventList' = eventList \union {e}
      /\ fate' = [fate EXCEPT ![e] = "pending"]
      /\ UNCHANGED <<threadState, pc, deadline, shutting, stopped, now>>
      /\ notifying' = IF \A f \in eventList : now + delay < cycle[f]
                      THEN notifying \union {c} ELSE notifying
  BY DEF AddEvent, MustSignal, IInv, QueueInv
<1>3. /\ id \in [Events -> 0..MaxId]
      /\ cycle \in [Events -> 0..MaxTime]
      /\ fate \in [Events -> {"new", "pending", "dispatching", "dispatched",
                              "dropped", "deleted"}]
      /\ eventList \subseteq Events
      /\ deadline \in 0..Never
  BY DEF IInv, TypeOK
<1>4. \A f \in Events \ {e} :
        id'[f] = id[f] /\ cycle'[f] = cycle[f] /\ fate'[f] = fate[f]
  BY <1>2, <1>3
<1>5. id'[e] = NextId /\ cycle'[e] = now + delay /\ fate'[e] = "pending"
  BY <1>2, <1>3
<1>6. TypeOK'
  <2>1. lastEventId' \in 0..MaxId
    BY <1>1 DEF AddEvent
  <2>2. id' \in [Events -> 0..MaxId] /\ cycle' \in [Events -> 0..MaxTime]
    BY <1>1, <1>2, <1>3
  <2>3. eventIds' \in SUBSET (1..MaxId)
    BY <1>1, <1>2 DEF IInv, TypeOK
  <2>4. QED
    BY <1>2, <1>3, <2>1, <2>2, <2>3 DEF IInv, TypeOK, Never
<1>7. QueueInv'
  <2>1. NextId # 0
    BY <1>1
  <2>2. QED
    BY <1>2, <1>4, <1>5, <2>1 DEF IInv, QueueInv
<1>8. \A f \in Events \ {e} : id[f] # 0 /\ ~SharesId(f)' =>
        ~SharesId(f) /\ id[f] # NextId
  BY <1>2, <1>4, <1>5 DEF SharesId
<1>9. IdsInv'
  <2> SUFFICES ASSUME NEW f \in eventList', ~SharesId(f)'
               PROVE  id'[f] \in eventIds' <=> f \notin stopped'
    BY DEF IdsInv
  <2>1. CASE f = e
    BY <2>1, <1>2, <1>5 DEF IInv, QueueInv
  <2>2. CASE f # e
    <3>1. f \in Events \ {e} /\ f \in eventList /\ id[f] # 0
      BY <2>2, <1>2, <1>3 DEF IInv, QueueInv
    <3>2. ~SharesId(f) /\ id[f] # NextId /\ id'[f] = id[f]
      BY <3>1, <1>4, <1>8
    <3>3. QED
      BY <3>1, <3>2, <1>2 DEF IInv, IdsInv
  <2>3. QED
    BY <2>1, <2>2
<1>10. SleepInv' /\ ShutdownInv'
  <2>1. shutting = "no"
    BY DEF AddEvent, IInv, ShutdownInv
  <2>2. ASSUME NEW f \in eventList, cycle[f] <= deadline
        PROVE  f \in eventList' /\ cycle'[f] <= deadline
    BY <2>2, <1>2, <1>3, <1>4
  <2>3. QED
    BY <2>1, <2>2, <1>2 DEF IInv, SleepInv, ShutdownInv
<1>11. NeverEarly'
  BY <1>2, <1>4, <1>5 DEF IInv, NeverEarly
<1>12. NeverOversleeps'
  <2> SUFFICES ASSUME NEW f \in eventList', pc = "waiting",
                      cycle'[f] < deadline, notifying' = {}
               PROVE  FALSE
    BY <1>2 DEF NeverOversleeps
  <2>1. notifying' = notifying /\ ~\A g \in eventList : now + delay < cycle[g]
    BY <1>2
  <2>2. PICK g \in eventList : ~(now + delay < cycle[g])
    BY <2>1
  <2>3. cycle[g] \in Nat /\ deadline \in Nat /\ cycle[g] <= now + delay
    BY <2>2, <1>1, <1>3 DEF IInv, TypeOK, Never
  <2>4. CASE f = e
    <3>1. cycle[g] < deadline
      BY <2>3, <2>4, <1>1, <1>5 DEF IInv, TypeOK
    <3>2. QED
      BY <3>1, <2>1 DEF IInv, NeverOversleeps
  <2>5. CASE f # e
    BY <2>1, <2>5, <1>2, <1>3, <1>4 DEF IInv, NeverOversleeps
  <2>6. QED
    BY <2>4, <2>5
<1>13. StopIsExact'
  BY <1>2, <1>4, <1>5, <1>8 DEF IInv, StopIsExact, QueueInv
<1>14. QED
  BY <1>6, <1>7, <1>9, <1>10, <1>11, <1>12, <1>13 DEF IInv

LEMMA InductiveStep == IInv /\ [Next]_vars => IInv'
<1> SUFFICES ASSUME IInv, [Next]_vars
             PROVE  IInv'
  OBVIOUS
<1> USE SchedulerAssumption
<1>0. /\ id \in [Events -> 0..MaxId]
      /\ cycle \in [Events -> 0..MaxTime]
      /\ fate \in [Events -> {"new", "pending", "dispatching", "dispatched",
                              "dropped", "deleted"}]
      /\ eventList \subseteq Events
      /\ deadline \in Nat /\ now \in Nat /\ Never \in Nat
      /\ now < Never
      /\ \A e \in Events : cycle[e] \in Nat
  BY DEF IInv, TypeOK, Never
<1>1. ASSUME UNCHANGED queueVars
      PROVE  QueueInv' /\ IdsInv' /\ StopIsExact'
  BY <1>1 DEF queueVars, IInv, QueueInv, IdsInv, StopIsExact, SharesId
<1>2. CASE CheckState
  BY <1>1, <1>2 DEF CheckState, queueVars, IInv, TypeOK, SleepInv, ShutdownInv,
     NeverEarly, NeverOversleeps, Waiting
<1>3. CASE Sleep
  <2>1. /\ pc' = "waiting"
        /\ \/ eventList = {} /\ deadline' = Never
           \/ \E e \in eventList : IsTop(e) /\ deadline' = cycle[e]
        /\ UNCHANGED <<threadState, queueVars, notifying, shutting, now>>
    BY <1>3 DEF Sleep
  <2>2. TypeOK'
    BY <2>1, <1>0 DEF queueVars, IInv, TypeOK, Never, Waiting
  <2>3. \/ eventList = {} /\ deadline' = Never
        \/ \E e \in eventList : /\ deadline' = cycle[e]
                                /\ \A f \in eventList : cycle[e] <= cycle[f]
    BY <2>1 DEF IsTop
  <2>4. SleepInv' /\ NeverOversleeps'
    BY <2>1, <2>3, <1>0 DEF queueVars, SleepInv, NeverOversleeps
  <2>5. QED
    BY <2>1, <2>2, <2>4, <1>1 DEF queueVars, IInv, ShutdownInv, NeverEarly
<1>4. CASE Expire
  BY <1>0, <1>1, <1>4 DEF Expire, queueVars, IInv, TypeOK, SleepInv,
     ShutdownInv, NeverEarly, NeverOversleeps, Waiting
<1>5. CASE SpuriousWakeup
  BY <1>1, <1>5 DEF SpuriousWakeup, queueVars, IInv, TypeOK, SleepInv,
     ShutdownInv, NeverEarly, NeverOversleeps, Waiting
<1>6. CASE NoTimeout
  BY <1>1, <1>6 DEF NoTimeout, queueVars, IInv, TypeOK, SleepInv,
     ShutdownInv, NeverEarly, NeverOversleeps, Waiting
<1>7. ASSUME NEW e \in Events, Pop(e)
      PROVE  /\ cycle[e] <= now
             /\ e \in eventList
             /\ fate[e] = "pending"
             /\ id[e] # 0
  <2>1. /\ pc \in Waiting /\ deadline <= now
        /\ e \in eventList
        /\ \A f \in eventList : cycle[e] <= cycle[f]
    BY <1>7 DEF Pop, TimedOut, IsTop, Waiting
  <2>2. deadline # Never
    BY <2>1, <1>0
  <2>3. PICK f \in eventList : cycle[f] <= deadline
    BY <2>1, <2>2 DEF IInv, SleepInv, ShutdownInv
  <2>4. cycle[e] <= cycle[f] /\ f \in Events
    BY <2>1, <1>0
  <2>5. QED
    BY <2>1, <2>3, <2>4, <1>0 DEF IInv, QueueInv
<1>8. ASSUME NEW e \in Events, PopActive(e)
      PROVE  IInv'
  <2>1. /\ eventList' = eventList \ {e}
        /\ id[e] \in eventIds
        /\ eventIds' = eventIds \ {id[e]}
        /\ fate' = [fate EXCEPT ![e] = "dispatching"]
        /\ pc' = "dispatching"
        /\ UNCHANGED <<threadState, lastEventId, id, cycle, deadline, notifying,
                       shutting, stopped, now>>
        /\ Pop(e)
    BY <1>8 DEF PopActive, Pop, IsActive
  <2>2. TypeOK'
    BY <2>1, <1>0 DEF IInv, TypeOK
  <2>3. QueueInv'
    BY <2>1, <1>0, <1>7 DEF IInv, QueueInv
  <2>4. IdsInv'
    <3>1. \A f \in eventList : f # e /\ ~SharesId(f) => id[f] # id[e]
      BY <1>0 DEF SharesId
    <3>2. QED
      BY <2>1, <3>1 DEF IInv, IdsInv, SharesId
  <2>5. SleepInv' /\ ShutdownInv' /\ NeverOversleeps'
    BY <2>1 DEF IInv, SleepInv, ShutdownInv, NeverOversleeps, Waiting
  <2>6. NeverEarly'
    BY <2>1, <1>0, <1>7 DEF IInv, NeverEarly
  <2>7. StopIsExact'
    <3>1. ~SharesId(e) => e \notin stopped
      BY <2>1, <1>7 DEF IInv, IdsInv
    <3>2. QED
      BY <2>1, <3>1, <1>0 DEF IInv, StopIsExact, SharesId
  <2>8. QED
    BY <2>2, <2>3, <2>4, <2>5, <2>6, <2>7 DEF IInv
<1>9. ASSUME NEW e \in Events, PopStopped(e)
      PROVE  IInv'
  <2>1. /\ eventList' = eventList \ {e}
        /\ id[e] \notin eventIds
        /\ eventIds' = eventIds
        /\ fate' = [fate EXCEPT ![e] = "dropped"]
        /\ pc' = "loop"
        /\ UNCHANGED <<threadState, lastEventId, id, cycle, deadline, notifying,
                       shutting, stopped, now>>
        /\ Pop(e)
    BY <1>9 DEF PopStopped, Pop, IsActive
  <2>2. TypeOK'
    BY <2>1, <1>0 DEF IInv, TypeOK
  <2>3. QueueInv'
    BY <2>1, <1>0, <1>7 DEF IInv, QueueInv
  <2>4. IdsInv'
    BY <2>1 DEF IInv, IdsInv, SharesId
  <2>5. SleepInv' /\ ShutdownInv' /\ NeverOversleeps' /\ NeverEarly'
    BY <2>1 DEF IInv, SleepInv, ShutdownInv, NeverOversleeps, NeverEarly, Waiting
  <2>6. StopIsExact'
    <3>1. ~SharesId(e) => e \in stopped
      BY <2>1, <1>7 DEF IInv, IdsInv
    <3>2. QED
      BY <2>1, <3>1, <1>0 DEF IInv, StopIsExact, SharesId
  <2>7. QED
    BY <2>2, <2>3, <2>4, <2>5, <2>6 DEF IInv
<1>10. CASE PopFromEmpty
  BY <1>1, <1>10 DEF PopFromEmpty, queueVars, IInv, TypeOK, SleepInv,
     ShutdownInv, NeverEarly, NeverOversleeps, Waiting
<1>11. CASE Dispatch
  BY <1>0, <1>11 DEF Dispatch, IInv, TypeOK, QueueInv, IdsInv, SleepInv,
     ShutdownInv, NeverEarly, NeverOversleeps, StopIsExact, SharesId, Waiting
<1>12. ASSUME NEW c \in Callers, NEW e \in Events, RefuseEvent(c, e)
       PROVE  IInv'
  BY <1>0, <1>12 DEF RefuseEvent, IInv, TypeOK, QueueInv, IdsInv, SleepInv,
     ShutdownInv, NeverEarly, NeverOversleeps, StopIsExact, SharesId
<1>13. ASSUME NEW c \in Callers, Notify(c)
       PROVE  IInv'
  BY <1>1, <1>13 DEF Notify, Signalled, queueVars, IInv, TypeOK, SleepInv, ShutdownInv,
     NeverEarly, NeverOversleeps, Waiting
<1>14. ASSUME NEW e \in Events, StopEvent(id[e])
       PROVE  IInv'
  <2> DEFINE i == id[e]
  <2>1. /\ i # 0
        /\ eventIds' = eventIds \ {i}
        /\ stopped' = stopped \union {f \in eventList : id[f] = i}
        /\ UNCHANGED <<threadState, eventList, lastEventId, id, cycle, pc,
                       deadline, notifying, shutting, fate, now>>
    BY <1>14 DEF StopEvent
  <2>2. TypeOK'
    BY <2>1, <1>0 DEF IInv, TypeOK
  <2>3. QueueInv'
    BY <2>1, <1>0 DEF IInv, QueueInv
  <2>4. IdsInv' /\ StopIsExact'
    BY <2>1, <1>0 DEF IInv, IdsInv, QueueInv, StopIsExact, SharesId
  <2>5. SleepInv' /\ ShutdownInv' /\ NeverOversleeps' /\ NeverEarly'
    BY <2>1 DEF IInv, SleepInv, ShutdownInv, NeverOversleeps, NeverEarly
  <2>6. QED
    BY <2>2, <2>3, <2>4, <2>5 DEF IInv
<1>15. CASE Stop
  BY <1>1, <1>15 DEF Stop, queueVars, IInv, TypeOK, SleepInv, ShutdownInv,
     NeverEarly, NeverOversleeps
<1>16. CASE Terminate
  BY <1>1, <1>16 DEF Terminate, queueVars, IInv, TypeOK, SleepInv,
     ShutdownInv, NeverEarly, NeverOversleeps
<1>17. CASE Clear
  <2>1. threadState = "TERMINATED"
    BY <1>17 DEF Clear, IInv, ShutdownInv
  <2>2. QED
    BY <2>1, <1>0, <1>17 DEF Clear, IInv, TypeOK, QueueInv, IdsInv, SleepInv,
       ShutdownInv, NeverEarly, NeverOversleeps, StopIsExact, SharesId
<1>18. CASE Signal
  BY <1>1, <1>18 DEF Signal, Signalled, queueVars, IInv, TypeOK, SleepInv, ShutdownInv,
     NeverEarly, NeverOversleeps, Waiting
<1>19. CASE Tick
  BY <1>0, <1>1, <1>19 DEF Tick, queueVars, IInv, TypeOK, SleepInv,
     ShutdownInv, NeverEarly, NeverOversleeps, Never
<1>20. CASE UNCHANGED vars
  BY <1>1, <1>20 DEF vars, queueVars, IInv, TypeOK, SleepInv, ShutdownInv,
     NeverEarly, NeverOversleeps
<1>21. QED
  BY <1>2, <1>3, <1>4, <1>5, <1>6, <1>8, <1>9, <1>10, <1>11, <1>12, <1>13,
     <1>14, <1>15, <1>16, <1>17, <1>18, <1>19, <1>20, AddEventStep
     DEF Next, ThreadMain, ShutdownCall

LEMMA InvariantHolds == Spec => []IInv
BY InitInv, InductiveStep, PTL DEF Spec
-----------------------------------------------------------------------------
(* The variables keep their types in every behaviour of the scheduler.     *)
THEOREM TypeCorrect == Spec => []TypeOK
BY InvariantHolds, PTL DEF IInv

(* Whatever the number of events, callers and delays, an event reaches the *)
(* dispatcher only after its deadline: the event the thread pops need not  *)
(* be the one it slept for, but it is never a later one.                   *)
THEOREM NoEventIsEarly == Spec => []NeverEarly
BY InvariantHolds, PTL DEF IInv

(* addEvent may signal only for a new first event and still never leaves   *)
(* the thread asleep past a deadline.                                      *)
THEOREM NoOversleeping == Spec => []NeverOversleeps
BY InvariantHolds, PTL DEF IInv

(* stopEvent() stops the event it was called for and no other one, for     *)
(* every event whose identifier is its own.                                *)
THEOREM ExactStops == Spec => []StopIsExact
BY InvariantHolds, PTL DEF IInv
=============================================================================
