----------------------------- MODULE Dispatcher -----------------------------
(***************************************************************************)
(* The dispatcher thread (tasks.h, tasks.cpp): every change of the game    *)
(* world is a Task executed by this one thread.  Other threads (network,   *)
(* scheduler, database) and the tasks themselves add to taskList under     *)
(* taskLock; the thread sleeps on taskSignal while the list is empty.      *)
(*                                                                         *)
(* A critical section of taskLock is one action.  What happens outside the *)
(* lock is an action of its own: the read of threadState at the head of    *)
(* the loop, the notify_one after addTask has released the lock, and the   *)
(* execution of a task.  A wakeup may be spurious.                         *)
(***************************************************************************)
EXTENDS Naturals, Sequences

CONSTANTS
  Callers,       (* the other threads that call addTask                    *)
  Self,          (* the dispatcher thread, which its tasks run on          *)
  Tasks,         (* the Task objects                                       *)
  Expiring,      (* those created with an expiration, createTask(ms, f)    *)
  ShutdownTask   (* the task that shutdown() appends                       *)

ASSUME DispatcherAssumption ==
  /\ Self \notin Callers
  /\ Expiring \subseteq Tasks
  /\ ShutdownTask \notin Tasks

Threads == Callers \union {Self}
Jobs == Tasks \union {ShutdownTask}

VARIABLES
  threadState,   (* ThreadHolder::threadState                              *)
  taskList,      (* Dispatcher::taskList                                   *)
  pc,            (* where threadMain is                                    *)
  current,       (* the tasks threadMain has taken and not deleted: a set  *)
                 (* of at most one                                         *)
  notifying,     (* threads that left addTask's lock owing a notify_one    *)
  fate,          (* what has become of each Task object                    *)
  stopped        (* has stop() been called?                                *)

vars == <<threadState, taskList, pc, current, notifying, fate, stopped>>

ThreadStates == {"RUNNING", "CLOSING", "TERMINATED"}
Locations ==
  {"loop", "locking", "waiting", "woken", "taken", "executing", "exited"}
Fates == {"new", "queued", "running", "executed", "expired", "deleted"}

TypeOK ==
  /\ threadState \in ThreadStates
  /\ taskList \in Seq(Jobs)
  /\ pc \in Locations
  /\ current \in SUBSET Jobs
  /\ notifying \in SUBSET Threads
  /\ fate \in [Jobs -> Fates]
  /\ {j \in Jobs : fate[j] = "expired"} \subseteq Expiring
  /\ stopped \in BOOLEAN

Init ==
  /\ threadState = "RUNNING"
  /\ taskList = <<>>
  /\ pc = "loop"
  /\ current = {}
  /\ notifying = {}
  /\ fate = [j \in Jobs |-> "new"]
  /\ stopped = FALSE
-----------------------------------------------------------------------------
(* The tests and the list operations of tasks.cpp, some preceded by a      *)
(* fault that a careless edit could bring in; no specification uses the    *)
(* faults.                                                                 *)

WaitAnyway == TRUE
MustWait == taskList = <<>>

Popped == Tail(taskList)

(* hasExpired(): only a task with an expiration, never after setDontExpire.*)
MayHaveExpired == current \subseteq Expiring

AcceptsUntilTerminated == threadState # "TERMINATED"
AcceptsTasks == threadState = "RUNNING"

MustSignalIfBusy == taskList # <<>>
(* do_signal, computed before the task is pushed.                          *)
MustSignal == taskList = <<>>

(* notify_one reaches the thread only if it is waiting at that moment.     *)
Signalled == IF pc = "waiting" THEN "woken" ELSE pc

WithTerminatorFirst == <<ShutdownTask>> \o taskList
WithTerminator == Append(taskList, ShutdownTask)
-----------------------------------------------------------------------------
(* threadMain *)

(* The loop condition, read without the lock.                              *)
CheckState ==
  /\ pc = "loop"
  /\ pc' = IF threadState = "TERMINATED" THEN "exited" ELSE "locking"
  /\ UNCHANGED <<threadState, taskList, current, notifying, fate, stopped>>

(* Under the lock with a task in the list: take it and release the lock.   *)
Take ==
  /\ taskList # <<>>
  /\ current' = {Head(taskList)}
  /\ taskList' = Popped
  /\ fate' = [fate EXCEPT ![Head(taskList)] = "running"]
  /\ pc' = "taken"
  /\ UNCHANGED <<threadState, notifying, stopped>>

(* The lock is acquired; wait() releases it again if the list is empty.    *)
LockAndWait ==
  /\ pc = "locking"
  /\ MustWait
  /\ pc' = "waiting"
  /\ UNCHANGED <<threadState, taskList, current, notifying, fate, stopped>>

LockAndTake == pc = "locking" /\ Take

(* wait() has returned with the lock held again.                           *)
WakeAndTake == pc = "woken" /\ Take

WakeToEmptyList ==
  /\ pc = "woken"
  /\ taskList = <<>>
  /\ pc' = "loop"
  /\ UNCHANGED <<threadState, taskList, current, notifying, fate, stopped>>

SpuriousWakeup ==
  /\ pc = "waiting"
  /\ pc' = "woken"
  /\ UNCHANGED <<threadState, taskList, current, notifying, fate, stopped>>

(* hasExpired() is false: the task body starts.  The body of shutdown()'s  *)
(* task sets the state and signals a thread that is not waiting.           *)
Execute ==
  /\ pc = "taken"
  /\ pc' = "executing"
  /\ threadState' =
       IF current = {ShutdownTask} THEN "TERMINATED" ELSE threadState
  /\ UNCHANGED <<taskList, current, notifying, fate, stopped>>

(* hasExpired() is true: the Task object is deleted unexecuted.            *)
DropExpired ==
  /\ pc = "taken"
  /\ MayHaveExpired
  /\ fate' = [j \in Jobs |-> IF j \in current THEN "expired" ELSE fate[j]]
  /\ current' = {}
  /\ pc' = "loop"
  /\ UNCHANGED <<threadState, taskList, notifying, stopped>>

(* The body returns and the Task object is deleted.                        *)
Finish ==
  /\ pc = "executing"
  /\ Self \notin notifying
  /\ fate' = [j \in Jobs |-> IF j \in current THEN "executed" ELSE fate[j]]
  /\ current' = {}
  /\ pc' = "loop"
  /\ UNCHANGED <<threadState, taskList, notifying, stopped>>
-----------------------------------------------------------------------------
(* The other operations.  A thread calls one when it is not inside another *)
(* call; the dispatcher thread only from the body of a task.               *)
MayCall(c) ==
  /\ c \notin notifying
  /\ c = Self => pc = "executing"

AddTask(c, t, pushFront) ==
  /\ MayCall(c)
  /\ fate[t] = "new"
  /\ \/ /\ AcceptsTasks
        /\ taskList' = IF pushFront THEN <<t>> \o taskList
                                    ELSE Append(taskList, t)
        /\ fate' = [fate EXCEPT ![t] = "queued"]
        /\ notifying' =
             IF MustSignal THEN notifying \union {c} ELSE notifying
     \/ /\ ~AcceptsTasks
        /\ fate' = [fate EXCEPT ![t] = "deleted"]
        /\ UNCHANGED <<taskList, notifying>>
  /\ UNCHANGED <<threadState, pc, current, stopped>>

(* notify_one, after the lock is released.                                 *)
Notify(c) ==
  /\ c \in notifying
  /\ notifying' = notifying \ {c}
  /\ pc' = Signalled
  /\ UNCHANGED <<threadState, taskList, current, fate, stopped>>

(* ThreadHolder::stop: a store without the lock, before any shutdown().    *)
Stop(c) ==
  /\ MayCall(c)
  /\ ~stopped
  /\ fate[ShutdownTask] = "new"
  /\ threadState' = "CLOSING"
  /\ stopped' = TRUE
  /\ UNCHANGED <<taskList, pc, current, notifying, fate>>

(* shutdown() pushes whatever the state is and signals under the lock.     *)
Shutdown(c) ==
  /\ MayCall(c)
  /\ fate[ShutdownTask] = "new"
  /\ taskList' = WithTerminator
  /\ fate' = [fate EXCEPT ![ShutdownTask] = "queued"]
  /\ pc' = Signalled
  /\ UNCHANGED <<threadState, current, notifying, stopped>>
-----------------------------------------------------------------------------
ThreadMain ==
  \/ CheckState
  \/ LockAndWait
  \/ LockAndTake
  \/ WakeAndTake
  \/ WakeToEmptyList
  \/ Execute
  \/ DropExpired
  \/ Finish

Next ==
  \/ ThreadMain
  \/ SpuriousWakeup
  \/ \E c \in Threads :
       \/ \E t \in Tasks, pushFront \in BOOLEAN : AddTask(c, t, pushFront)
       \/ Notify(c)
       \/ Stop(c)
       \/ Shutdown(c)

(* threadMain runs on; a thread that left addTask's lock returns from it.  *)
(* Nothing obliges a thread to add a task, to stop or to shut down, and    *)
(* no wakeup is owed beyond the notifications.                             *)
Fairness ==
  /\ WF_vars(ThreadMain)
  /\ \A c \in Threads : WF_vars(Notify(c))

Spec == Init /\ [][Next]_vars /\ Fairness
-----------------------------------------------------------------------------
(* No wakeup is lost: the thread never sleeps on a list that holds a task  *)
(* unless a thread still owes it the notify_one that will wake it.  The    *)
(* list is tested under the lock and the signal is sent after it, and only *)
(* when the list was empty.                                                *)
NoLostWakeup ==
  pc = "waiting" /\ taskList # <<>> => notifying # {}

(* When stop() came before shutdown(), as in Game::setGameState, the task  *)
(* that terminates the thread is the last one of the list, so nothing that *)
(* was accepted is left behind when the thread exits.                      *)
NothingLeftBehind ==
  pc = "exited" /\ stopped => \A j \in Jobs : fate[j] # "queued"

(* A Task object is deleted by the thread that executed it or by the       *)
(* addTask that refused it, never by both and never twice: once it reached *)
(* one of its ends it stays there, and it is executed only from the list.  *)
OneFate ==
  [][\A j \in Jobs :
       /\ fate[j] \in {"executed", "expired", "deleted"} => fate'[j] = fate[j]
       /\ fate'[j] = "running" /\ fate[j] # "running" => j = Head(taskList)
    ]_vars

(* A task that was in the list before shutdown() was called is executed,   *)
(* or found expired: no producer is forgotten, whatever else is pushed to  *)
(* the front.                                                              *)
Served ==
  \A t \in Tasks :
    (fate[t] = "queued" /\ fate[ShutdownTask] = "new")
      ~> fate[t] \in {"executed", "expired"}

(* The dispatcher implements the abstract queue with one worker.           *)
Abstract ==
  INSTANCE WorkQueue WITH
    Sentinels <- {ShutdownTask},
    Workers <- {Self},
    queue <- taskList,
    held <- [w \in {Self} |-> current],
    open <- threadState = "RUNNING",
    halted <- pc = "exited"

AbstractSpec == Abstract!Spec
=============================================================================
