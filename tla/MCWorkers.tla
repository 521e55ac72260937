----------------------------- MODULE MCWorkers ------------------------------
(***************************************************************************)
(* The two threads that take work from a list, the dispatcher and the      *)
(* database thread, with small sets of callers and of tasks.  They share   *)
(* no state here, so each initial state is one where only the one or the   *)
(* other runs: TLC explores one beside the other instead of their product. *)
(***************************************************************************)
EXTENDS Dispatcher, DatabaseTasks

VARIABLE part     (* which of the two threads runs                         *)

allVars == <<vars, queryVars, part>>

MCInit ==
  /\ Init
  /\ QueriesInit
  /\ part \in {"dispatcher", "database"}

MCNext ==
  /\ part' = part
  /\ \/ /\ part = "dispatcher"
        /\ Next
        /\ UNCHANGED queryVars
     \/ /\ part = "database"
        /\ QueriesNext
        /\ UNCHANGED vars

(* Fairness and QueriesFairness, of the thread that runs.                  *)
MCFairness ==
  /\ WF_vars(part = "dispatcher" /\ ThreadMain)
  /\ \A c \in Threads : WF_vars(part = "dispatcher" /\ Notify(c))
  /\ WF_queryVars(part = "database" /\ WorkerMain)
  /\ WF_queryVars(part = "database" /\ ShutdownRuns)
  /\ \A c \in Clients : WF_queryVars(part = "database" /\ NotifyWorker(c))

MCSpec == MCInit /\ [][MCNext]_allVars /\ MCFairness
=============================================================================
