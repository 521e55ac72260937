------------------------------ MODULE WorkQueue ------------------------------
(***************************************************************************)
(* What a queue of jobs served by a thread of its own promises to the      *)
(* threads that submit to it: a job is accepted or refused once and for    *)
(* all, an accepted job is begun when it reaches the front, at most once,  *)
(* a worker executes one job at a time, and nothing is begun after the     *)
(* queue has halted.                                                       *)
(*                                                                         *)
(* The module knows nothing of mutexes, condition variables and wakeups:   *)
(* those belong to Dispatcher (tasks.cpp) and DatabaseTasks                *)
(* (databasetasks.cpp), which are shown to implement it.                   *)
(***************************************************************************)
EXTENDS Naturals, Sequences

CONSTANTS
  Jobs,      (* every job a behaviour may submit                           *)
  Sentinels, (* the jobs that are accepted by a closed queue too           *)
  Workers    (* the threads that execute jobs                              *)

VARIABLES
  queue,     (* accepted jobs, the next one to begin at the front          *)
  fate,      (* what has become of each job                                *)
  held,      (* the jobs each worker is executing                          *)
  open,      (* does the queue still accept jobs?                          *)
  halted     (* has it halted?                                             *)

absVars == <<queue, fate, held, open, halted>>

Init ==
  /\ queue = <<>>
  /\ fate = [j \in Jobs |-> "new"]
  /\ held = [w \in Workers |-> {}]
  /\ open = TRUE
  /\ halted = FALSE

Submit(j) ==
  /\ open \/ j \in Sentinels
  /\ fate[j] = "new"
  /\ fate' = [fate EXCEPT ![j] = "queued"]
  /\ \/ queue' = Append(queue, j)
     \/ queue' = <<j>> \o queue
  /\ UNCHANGED <<held, open, halted>>

Refuse(j) ==
  /\ ~open
  /\ fate[j] = "new"
  /\ fate' = [fate EXCEPT ![j] = "deleted"]
  /\ UNCHANGED <<queue, held, open, halted>>

Begin(w) ==
  /\ ~halted
  /\ queue # <<>>
  /\ held[w] = {}
  /\ held' = [held EXCEPT ![w] = {Head(queue)}]
  /\ fate' = [fate EXCEPT ![Head(queue)] = "running"]
  /\ queue' = Tail(queue)
  /\ UNCHANGED <<open, halted>>

End(w, j) ==
  /\ held[w] = {j}
  /\ held' = [held EXCEPT ![w] = {}]
  /\ \E outcome \in {"executed", "expired"} :
       fate' = [fate EXCEPT ![j] = outcome]
  /\ UNCHANGED <<queue, open, halted>>

Close ==
  /\ open' = FALSE
  /\ UNCHANGED <<queue, fate, held, halted>>

Halt ==
  /\ ~open
  /\ \A w \in Workers : held[w] = {}
  /\ halted' = TRUE
  /\ UNCHANGED <<queue, fate, held, open>>

Next ==
  \/ \E j \in Jobs : Submit(j) \/ Refuse(j)
  \/ \E w \in Workers : Begin(w) \/ \E j \in Jobs : End(w, j)
  \/ Close
  \/ Halt

Spec == Init /\ [][Next]_absVars
=============================================================================
