--------------------------- MODULE DatabaseTasks ----------------------------
(***************************************************************************)
(* The database thread (databasetasks.h, databasetasks.cpp): queries are   *)
(* executed one after the other by a thread of their own, and the callback *)
(* of a query is posted to the dispatcher.  shutdown() executes what is    *)
(* left in the list on the thread that calls it, with taskLock held, while *)
(* the worker may still be executing the query it took before.             *)
(*                                                                         *)
(* A critical section of taskLock is one action, except flush(), which     *)
(* holds the lock over all its queries.  runTask is one action of either   *)
(* thread, the query and the call of g_dispatcher.addTask: what the other  *)
(* thread may do between the two it may do before both as well.            *)
(* Whether the dispatcher still takes the callback see Dispatcher.         *)
(***************************************************************************)
EXTENDS Naturals, Sequences

CONSTANTS
  Clients,        (* the threads that call addTask                         *)
  Worker,         (* the database thread                                   *)
  Flusher,        (* the thread that calls shutdown()                      *)
  Queries,        (* the DatabaseTask objects                              *)
  WithCallback    (* those that have a callback                            *)

ASSUME DatabaseTasksAssumption ==
  /\ Worker # Flusher
  /\ WithCallback \subseteq Queries

Runners == {Worker, Flusher}

VARIABLES
  workerState,    (* ThreadHolder::threadState                             *)
  tasks,          (* DatabaseTasks::tasks                                  *)
  workerAt,       (* where threadMain is                                   *)
  held,           (* the query each runner is in runTask with              *)
  signalling,     (* callers that left addTask's lock owing a notify_one   *)
  shutting,       (* where shutdown() is                                   *)
  outcome,        (* what has become of each query                         *)
  accepted,       (* history: the queries in the order addTask took them   *)
  posted          (* the callbacks given to g_dispatcher.addTask, in order *)

queryVars == <<workerState, tasks, workerAt, held, signalling, shutting,
               outcome, accepted, posted>>

QueriesTypeOK ==
  /\ workerState \in {"RUNNING", "CLOSING", "TERMINATED"}
  /\ tasks \in Seq(Queries)
  /\ workerAt \in {"loop", "locking", "waiting", "woken", "running", "exited"}
  /\ held \in [Runners -> SUBSET Queries]
  /\ signalling \in SUBSET Clients
  /\ shutting \in {"no", "flushing", "unlocked", "done"}
  /\ outcome \in [Queries -> {"new", "queued", "running", "executed", "deleted"}]
  /\ accepted \in Seq(Queries)
  /\ posted \in Seq(WithCallback)

QueriesInit ==
  /\ workerState = "RUNNING"
  /\ tasks = <<>>
  /\ workerAt = "loop"
  /\ held = [r \in Runners |-> {}]
  /\ signalling = {}
  /\ shutting = "no"
  /\ outcome = [q \in Queries |-> "new"]
  /\ accepted = <<>>
  /\ posted = <<>>

(* The tests and the list operations of databasetasks.cpp, some preceded   *)
(* by a fault that a careless edit could bring in; no specification uses   *)
(* the faults.                                                             *)

LockFree == shutting # "flushing"

HasCallback(q) == q \in WithCallback

PostedFirst(q) == <<q>> \o posted
(* createTask and addTask: push_front is left at its default.              *)
Posted(q) == Append(posted, q)

AcceptsQueriesUntilTerminated == workerState # "TERMINATED"
AcceptsQueries == workerState = "RUNNING"

WithTaskFirst(q) == <<q>> \o tasks
WithTask(q) == Append(tasks, q)

MustSignalWorker == tasks = <<>>

FlushedOnce == TRUE
Flushed == tasks = <<>>

(* notify_one reaches the thread only if it is waiting at that moment.     *)
WorkerSignalled == IF workerAt = "waiting" THEN "woken" ELSE workerAt
-----------------------------------------------------------------------------
(* runTask, which the worker and the flusher share *)

TakeFront(r) ==
  /\ tasks # <<>>
  /\ held' = [held EXCEPT ![r] = {Head(tasks)}]
  /\ tasks' = Tail(tasks)
  /\ outcome' = [outcome EXCEPT ![Head(tasks)] = "running"]

(* storeQuery or executeQuery returned, and the callback is posted; a      *)
(* query without a callback has nothing more to do.                        *)
RunTask(r, q) ==
  /\ held[r] = {q}
  /\ outcome' = [outcome EXCEPT ![q] = "executed"]
  /\ posted' = IF HasCallback(q) THEN Posted(q) ELSE posted
  /\ held' = [held EXCEPT ![r] = {}]
-----------------------------------------------------------------------------
(* threadMain *)

WorkerChecks ==
  /\ workerAt = "loop"
  /\ workerAt' = IF workerState = "TERMINATED" THEN "exited" ELSE "locking"
  /\ UNCHANGED <<workerState, tasks, held, signalling, shutting, outcome,
                 accepted, posted>>

WorkerWaits ==
  /\ workerAt = "locking"
  /\ LockFree
  /\ tasks = <<>>
  /\ workerAt' = "waiting"
  /\ UNCHANGED <<workerState, tasks, held, signalling, shutting, outcome,
                 accepted, posted>>

WorkerLocksAndTakes ==
  /\ workerAt \in {"locking", "woken"}
  /\ LockFree
  /\ TakeFront(Worker)
  /\ workerAt' = "running"
  /\ UNCHANGED <<workerState, signalling, shutting, accepted, posted>>

WorkerWakesForNothing ==
  /\ workerAt = "woken"
  /\ LockFree
  /\ tasks = <<>>
  /\ workerAt' = "loop"
  /\ UNCHANGED <<workerState, tasks, held, signalling, shutting, outcome,
                 accepted, posted>>

WorkerWakes ==
  /\ workerAt = "waiting"
  /\ workerAt' = "woken"
  /\ UNCHANGED <<workerState, tasks, held, signalling, shutting, outcome,
                 accepted, posted>>

WorkerRuns(q) ==
  /\ RunTask(Worker, q)
  /\ workerAt' = "loop"
  /\ UNCHANGED <<workerState, tasks, signalling, shutting, accepted>>
-----------------------------------------------------------------------------
(* The operations of the other threads *)

AddQuery(c, q) ==
  /\ c \notin signalling
  /\ LockFree
  /\ outcome[q] = "new"
  /\ \/ /\ AcceptsQueries
        /\ tasks' = WithTask(q)
        /\ accepted' = Append(accepted, q)
        /\ outcome' = [outcome EXCEPT ![q] = "queued"]
        /\ signalling' = IF MustSignalWorker THEN signalling \union {c} ELSE signalling
     \/ /\ ~AcceptsQueries
        /\ outcome' = [outcome EXCEPT ![q] = "deleted"]
        /\ UNCHANGED <<tasks, accepted, signalling>>
  /\ UNCHANGED <<workerState, workerAt, held, shutting, posted>>

NotifyWorker(c) ==
  /\ c \in signalling
  /\ signalling' = signalling \ {c}
  /\ workerAt' = WorkerSignalled
  /\ UNCHANGED <<workerState, tasks, held, shutting, outcome, accepted, posted>>

(* ThreadHolder::stop, before shutdown().                                  *)
StopWorker ==
  /\ shutting = "no"
  /\ workerState = "RUNNING"
  /\ workerState' = "CLOSING"
  /\ UNCHANGED <<tasks, workerAt, held, signalling, shutting, outcome, accepted, posted>>

(* shutdown(): lock, terminate, flush() query by query, unlock, signal.    *)
BeginShutdown ==
  /\ shutting = "no"
  /\ workerState' = "TERMINATED"
  /\ shutting' = "flushing"
  /\ UNCHANGED <<tasks, workerAt, held, signalling, outcome, accepted, posted>>

FlushNext ==
  /\ shutting = "flushing"
  /\ held[Flusher] = {}
  /\ TakeFront(Flusher)
  /\ UNCHANGED <<workerState, workerAt, signalling, shutting, accepted, posted>>

FlusherRuns(q) ==
  /\ RunTask(Flusher, q)
  /\ UNCHANGED <<workerState, tasks, workerAt, signalling, shutting, accepted>>

EndFlush ==
  /\ shutting = "flushing"
  /\ held[Flusher] = {}
  /\ Flushed
  /\ shutting' = "unlocked"
  /\ UNCHANGED <<workerState, tasks, workerAt, held, signalling, outcome, accepted,
                 posted>>

Signal ==
  /\ shutting = "unlocked"
  /\ shutting' = "done"
  /\ workerAt' = WorkerSignalled
  /\ UNCHANGED <<workerState, tasks, held, signalling, outcome, accepted, posted>>
-----------------------------------------------------------------------------
WorkerMain ==
  \/ WorkerChecks
  \/ WorkerWaits
  \/ WorkerLocksAndTakes
  \/ WorkerWakesForNothing
  \/ \E q \in Queries : WorkerRuns(q)

ShutdownRuns ==
  \/ FlushNext
  \/ \E q \in Queries : FlusherRuns(q)
  \/ EndFlush
  \/ Signal

QueriesNext ==
  \/ WorkerMain
  \/ WorkerWakes
  \/ \E c \in Clients : NotifyWorker(c) \/ \E q \in Queries : AddQuery(c, q)
  \/ StopWorker
  \/ BeginShutdown
  \/ ShutdownRuns

(* threadMain runs, a shutdown() that was called and an addTask that left  *)
(* the lock run on; the database answers.                                  *)
QueriesFairness ==
  /\ WF_queryVars(WorkerMain)
  /\ WF_queryVars(ShutdownRuns)
  /\ \A c \in Clients : WF_queryVars(NotifyWorker(c))

QueriesSpec == QueriesInit /\ [][QueriesNext]_queryVars /\ QueriesFairness
-----------------------------------------------------------------------------
(* Queries are executed in the order they were accepted, but for one: the  *)
(* query the worker holds while flush() executes those behind it.          *)
OnlyTheHeldIsOvertaken ==
  \A i, j \in 1..Len(accepted) :
    i < j /\ outcome[accepted[j]] = "executed" /\ outcome[accepted[i]] # "executed"
      => accepted[i] \in held[Worker] /\ shutting # "no"

(* The callbacks reach the dispatcher once each, when their queries were   *)
(* executed, and until shutdown() begins in the order these were accepted. *)
CallbacksInOrder ==
  /\ \A i \in 1..Len(posted) : outcome[posted[i]] = "executed"
  /\ \A i, j \in 1..Len(posted) : posted[i] = posted[j] => i = j
  /\ shutting = "no" =>
       \A i, j \in 1..Len(accepted), m, n \in 1..Len(posted) :
         i < j /\ posted[m] = accepted[i] /\ posted[n] = accepted[j] => m < n

(* Every query that was accepted is executed and its callback posted, by   *)
(* the worker or by flush(), even when the worker never leaves its wait.   *)
AcceptedIsExecuted ==
  \A q \in Queries :
    outcome[q] = "queued" ~>
      /\ outcome[q] = "executed"
      /\ q \in WithCallback => \E i \in 1..Len(posted) : posted[i] = q

(* The two runners together implement the abstract queue.                  *)
QueryQueue ==
  INSTANCE WorkQueue WITH
    Jobs <- Queries,
    fate <- outcome,
    Sentinels <- {},
    Workers <- Runners,
    queue <- tasks,
    open <- workerState = "RUNNING",
    halted <- workerAt = "exited" /\ shutting = "done"

QueryQueueSpec == QueryQueue!Spec
=============================================================================
