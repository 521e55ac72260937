------------------------- MODULE DatabaseTasksProofs -------------------------
(***************************************************************************)
(* Proofs about DatabaseTasks: the queries are executed in the order in    *)
(* which they were accepted, but for the one the worker holds when flush() *)
(* begins; callbacks come once each, after their queries, and in order;    *)
(* and the two threads that may execute queries are workers of one         *)
(* abstract queue.                                                         *)
(***************************************************************************)
EXTENDS DatabaseTasks, SequenceTheorems, TLAPS

(* push_back keeps the elements where they are and adds one at the end.    *)
LEMMA PushBack ==
  ASSUME NEW S, NEW s \in Seq(S), NEW e \in S
  PROVE  /\ Append(s, e) \in Seq(S)
         /\ Len(Append(s, e)) = Len(s) + 1
         /\ \A i \in 1..Len(s) : Append(s, e)[i] = s[i]
         /\ Append(s, e)[Len(s) + 1] = e
         /\ Append(s, e) # <<>>
  OBVIOUS

(* pop_front takes the first element and moves the others one place ahead. *)
LEMMA PopFront ==
  ASSUME NEW S, NEW s \in Seq(S), s # <<>>
  PROVE  /\ Head(s) \in S
         /\ Head(s) = s[1]
         /\ Tail(s) \in Seq(S)
         /\ Len(s) \in Nat \ {0}
         /\ Len(Tail(s)) = Len(s) - 1
         /\ \A i \in 1..(Len(s) - 1) : Tail(s)[i] = s[i + 1]
         /\ Len(s) = 1 => Tail(s) = <<>>
<1>1. /\ Head(s) \in S
      /\ Tail(s) \in Seq(S)
      /\ Len(Tail(s)) = Len(s) - 1
      /\ \A i \in 1..Len(Tail(s)) : Tail(s)[i] = s[i + 1]
  BY HeadTailProperties
<1>2. Len(s) \in Nat \ {0}
  BY EmptySeq
<1>3. Head(s) = s[1]
  OBVIOUS
<1>4. Len(s) = 1 => Tail(s) = <<>>
  <2> SUFFICES ASSUME Len(s) = 1, Tail(s) # <<>>
               PROVE  FALSE
    OBVIOUS
  <2>1. Len(Tail(s)) = 0
    BY <1>1
  <2>2. Len(Tail(s)) \in Nat \ {0}
    BY <1>1, EmptySeq
  <2>3. QED
    BY <2>1, <2>2
<1>5. QED
  BY <1>1, <1>2, <1>3, <1>4
-----------------------------------------------------------------------------
(* The number of accepted queries that were taken out of the list.         *)
Taken == Len(accepted) - Len(tasks)

(* A query is in execution exactly when one of the two runners holds it;   *)
(* flush() holds queries only while it has the lock.                       *)
HeldInv ==
  /\ \A r \in Runners : \A p, q \in held[r] : p = q
  /\ held[Worker] \cap held[Flusher] = {}
  /\ \A q \in Queries : outcome[q] = "running" <=> \E r \in Runners : q \in held[r]
  /\ held[Worker] # {} <=> workerAt = "running"
  /\ held[Flusher] # {} => shutting = "flushing"
  /\ shutting # "no" => workerState = "TERMINATED"

(* The list is what is left of the accepted queries, which are all         *)
(* different: those before it were taken, those in it are queued.          *)
ListInv ==
  /\ Len(tasks) <= Len(accepted)
  /\ \A i \in 1..Len(tasks) : tasks[i] = accepted[Taken + i]
  /\ \A i, j \in 1..Len(accepted) : accepted[i] = accepted[j] => i = j
  /\ \A i \in 1..Len(accepted) :
       i <= Taken => outcome[accepted[i]] \in {"running", "executed"}
  /\ \A i \in 1..Len(accepted) : i > Taken => outcome[accepted[i]] = "queued"
  /\ \A q \in Queries : outcome[q] \in {"queued", "running", "executed"} =>
       \E i \in 1..Len(accepted) : accepted[i] = q

(* What flush() holds was taken last, and until shutdown() begins so was   *)
(* what the worker holds.                                                  *)
LastInv ==
  /\ \A q \in held[Flusher] : Taken > 0 /\ q = accepted[Taken]
  /\ shutting = "no" => \A q \in held[Worker] : Taken > 0 /\ q = accepted[Taken]

IInv == QueriesTypeOK /\ HeldInv /\ ListInv /\ LastInv /\ CallbacksInOrder
-----------------------------------------------------------------------------
(* The list without its first query, which a runner takes.                 *)
LEMMA TakeList ==
  ASSUME IInv, NEW r \in Runners, held[r] = {}, TakeFront(r),
         UNCHANGED <<accepted, posted, shutting, workerState>>
  PROVE  /\ Head(tasks) \in Queries
         /\ outcome[Head(tasks)] = "queued"
         /\ tasks' \in Seq(Queries)
         /\ ListInv'
         /\ CallbacksInOrder'
         /\ Taken' > 0
         /\ Head(tasks) = accepted'[Taken']
<1> DEFINE h == Head(tasks)
<1>1. /\ tasks # <<>>
      /\ tasks \in Seq(Queries) /\ accepted \in Seq(Queries)
      /\ posted \in Seq(WithCallback)
      /\ outcome \in [Queries -> {"new", "queued", "running", "executed", "deleted"}]
      /\ tasks' = Tail(tasks)
      /\ outcome' = [outcome EXCEPT ![h] = "running"]
      /\ accepted' = accepted /\ posted' = posted
  BY DEF TakeFront, IInv, QueriesTypeOK
<1>2. /\ h \in Queries
      /\ h = tasks[1]
      /\ tasks' \in Seq(Queries)
      /\ Len(tasks) \in Nat \ {0}
      /\ Len(tasks') = Len(tasks) - 1
      /\ \A i \in 1..(Len(tasks) - 1) : tasks'[i] = tasks[i + 1]
  BY <1>1, PopFront
<1>3. Len(accepted) \in Nat /\ Len(tasks) <= Len(accepted) /\ Len(posted) \in Nat
  BY <1>1, LenProperties DEF IInv, ListInv
<1>4. Taken' = Taken + 1 /\ Taken \in Nat /\ Len(accepted') = Len(accepted)
  BY <1>1, <1>2, <1>3 DEF Taken
<1> HIDE DEF h
<1>5. h = accepted[Taken + 1] /\ Taken + 1 \in 1..Len(accepted)
  BY <1>2, <1>3, <1>4 DEF IInv, ListInv, Taken
<1>6. outcome[h] = "queued"
  BY <1>4, <1>5 DEF IInv, ListInv
<1>7. ListInv'
  <2>1. Len(tasks') <= Len(accepted')
    BY <1>2, <1>3, <1>4
  <2>2. ASSUME NEW i \in 1..Len(tasks')
        PROVE  tasks'[i] = accepted'[Taken' + i]
    <3>1. i + 1 \in 1..Len(tasks) /\ tasks'[i] = tasks[i + 1]
      BY <1>2
    <3>2. tasks[i + 1] = accepted[Taken + (i + 1)]
      BY <3>1 DEF IInv, ListInv
    <3>3. Taken + (i + 1) = Taken' + i
      BY <1>2, <1>4
    <3>4. QED
      BY <3>1, <3>2, <3>3, <1>1
  <2>3. \A i, j \in 1..Len(accepted') : accepted'[i] = accepted'[j] => i = j
    BY <1>1 DEF IInv, ListInv
  <2>4. \A i \in 1..Len(accepted) : accepted[i] \in Queries
    BY <1>1, ElementOfSeq
  <2>5. \A i \in 1..Len(accepted) : accepted[i] = h <=> i = Taken + 1
    BY <1>5 DEF IInv, ListInv
  <2>6. \A i \in 1..Len(accepted') :
          i <= Taken' => outcome'[accepted'[i]] \in {"running", "executed"}
    BY <1>1, <1>2, <1>4, <2>4, <2>5 DEF IInv, ListInv
  <2>7. \A i \in 1..Len(accepted') : i > Taken' => outcome'[accepted'[i]] = "queued"
    BY <1>1, <1>2, <1>4, <2>4, <2>5 DEF IInv, ListInv
  <2>8. \A q \in Queries : outcome'[q] \in {"queued", "running", "executed"} =>
          \E i \in 1..Len(accepted') : accepted'[i] = q
    BY <1>1, <1>2, <1>6 DEF IInv, ListInv
  <2>9. QED
    BY <2>1, <2>2, <2>3, <2>6, <2>7, <2>8 DEF ListInv
<1>8. CallbacksInOrder'
  <2>1. \A m \in 1..Len(posted) : posted[m] \in Queries /\ posted[m] # h
    BY <1>1, <1>6, ElementOfSeq, DatabaseTasksAssumption DEF IInv, CallbacksInOrder
  <2>2. \A m \in 1..Len(posted') : outcome'[posted'[m]] = "executed"
    BY <1>1, <1>2, <2>1 DEF IInv, CallbacksInOrder
  <2>3. QED
    BY <1>1, <2>2 DEF IInv, CallbacksInOrder
<1>9. QED
  BY <1>1, <1>2, <1>4, <1>5, <1>6, <1>7, <1>8 DEF h

(* The worker takes a query.                                               *)
LEMMA WorkerTakes == IInv /\ WorkerLocksAndTakes => IInv'
<1> SUFFICES ASSUME IInv, WorkerLocksAndTakes PROVE IInv'
  OBVIOUS
<1>1. /\ workerAt \in {"locking", "woken"} /\ workerAt' = "running"
      /\ shutting # "flushing"
      /\ TakeFront(Worker)
      /\ UNCHANGED <<workerState, signalling, shutting, accepted, posted>>
      /\ Worker \in Runners /\ Flusher \in Runners /\ Worker # Flusher
      /\ held[Worker] = {} /\ held[Flusher] = {}
  BY DatabaseTasksAssumption DEF WorkerLocksAndTakes, LockFree, IInv, HeldInv, Runners
<1>2. /\ Head(tasks) \in Queries /\ outcome[Head(tasks)] = "queued"
      /\ tasks' \in Seq(Queries)
      /\ ListInv' /\ CallbacksInOrder'
      /\ Taken' > 0 /\ Head(tasks) = accepted'[Taken']
  BY <1>1, TakeList
<1>3. /\ held' = [held EXCEPT ![Worker] = {Head(tasks)}]
      /\ outcome' = [outcome EXCEPT ![Head(tasks)] = "running"]
  BY <1>1 DEF TakeFront
<1>4. QueriesTypeOK'
  BY <1>1, <1>2, <1>3 DEF IInv, QueriesTypeOK
<1>5. held'[Worker] = {Head(tasks)} /\ held'[Flusher] = {}
  BY <1>1, <1>3 DEF IInv, QueriesTypeOK
<1>6. HeldInv'
  BY <1>1, <1>2, <1>3, <1>5 DEF IInv, HeldInv, Runners, QueriesTypeOK
<1>7. LastInv'
  BY <1>2, <1>5 DEF LastInv
<1>8. QED
  BY <1>2, <1>4, <1>6, <1>7 DEF IInv

(* flush() takes the next query.                                           *)
LEMMA FlusherTakes == IInv /\ FlushNext => IInv'
<1> SUFFICES ASSUME IInv, FlushNext PROVE IInv'
  OBVIOUS
<1>1. /\ workerAt' = workerAt
      /\ shutting = "flushing"
      /\ TakeFront(Flusher)
      /\ UNCHANGED <<workerState, signalling, shutting, accepted, posted>>
      /\ Worker \in Runners /\ Flusher \in Runners /\ Worker # Flusher
      /\ held[Flusher] = {}
  BY DatabaseTasksAssumption DEF FlushNext, Runners
<1>2. /\ Head(tasks) \in Queries /\ outcome[Head(tasks)] = "queued"
      /\ tasks' \in Seq(Queries)
      /\ ListInv' /\ CallbacksInOrder'
      /\ Taken' > 0 /\ Head(tasks) = accepted'[Taken']
  BY <1>1, TakeList
<1>3. /\ held' = [held EXCEPT ![Flusher] = {Head(tasks)}]
      /\ outcome' = [outcome EXCEPT ![Head(tasks)] = "running"]
  BY <1>1 DEF TakeFront
<1>4. QueriesTypeOK'
  BY <1>1, <1>2, <1>3 DEF IInv, QueriesTypeOK
<1>5. held'[Flusher] = {Head(tasks)} /\ held'[Worker] = held[Worker]
  BY <1>1, <1>3 DEF IInv, QueriesTypeOK
<1>6. HeldInv'
  <2>1. Head(tasks) \notin held[Worker]
    BY <1>1, <1>2 DEF IInv, HeldInv
  <2>2. QED
    BY <1>1, <1>2, <1>3, <1>5, <2>1 DEF IInv, HeldInv, Runners, QueriesTypeOK
<1>7. LastInv'
  BY <1>1, <1>2, <1>5 DEF LastInv
<1>8. QED
  BY <1>2, <1>4, <1>6, <1>7 DEF IInv

(* A runner has executed the query it holds.                               *)
LEMMA RunStep ==
  ASSUME IInv, NEW r \in Runners, NEW q \in Queries, RunTask(r, q),
         r = Worker => workerAt' = "loop",
         r = Flusher => workerAt' = workerAt,
         UNCHANGED <<workerState, tasks, signalling, shutting, accepted>>
  PROVE  IInv'
<1>1. /\ Worker # Flusher /\ Runners = {Worker, Flusher}
      /\ held[r] = {q} /\ outcome[q] = "running"
      /\ held' = [held EXCEPT ![r] = {}]
      /\ outcome' = [outcome EXCEPT ![q] = "executed"]
      /\ posted' = IF q \in WithCallback THEN Append(posted, q) ELSE posted
      /\ outcome \in [Queries -> {"new", "queued", "running", "executed", "deleted"}]
      /\ held \in [Runners -> SUBSET Queries]
      /\ posted \in Seq(WithCallback)
      /\ accepted \in Seq(Queries) /\ tasks \in Seq(Queries)
  <2>1. Worker # Flusher /\ Runners = {Worker, Flusher}
    BY DatabaseTasksAssumption DEF Runners
  <2>2. /\ held[r] = {q}
        /\ held' = [held EXCEPT ![r] = {}]
        /\ outcome' = [outcome EXCEPT ![q] = "executed"]
        /\ posted' = IF q \in WithCallback THEN Append(posted, q) ELSE posted
    BY DEF RunTask, HasCallback, Posted
  <2>3. outcome[q] = "running"
    BY <2>2 DEF IInv, HeldInv
  <2>4. QED
    BY <2>1, <2>2, <2>3 DEF IInv, QueriesTypeOK
<1>2. QueriesTypeOK'
  BY <1>1 DEF IInv, QueriesTypeOK
<1>3. HeldInv'
  <2>1. CASE r = Worker
    BY <1>1, <2>1 DEF IInv, HeldInv
  <2>2. CASE r = Flusher
    BY <1>1, <2>2 DEF IInv, HeldInv
  <2>3. QED
    BY <1>1, <2>1, <2>2
<1>4. Len(accepted) \in Nat /\ Len(tasks) \in Nat /\ Len(posted) \in Nat
      /\ Taken' = Taken /\ Taken \in Nat /\ Taken <= Len(accepted)
  BY <1>1, LenProperties DEF Taken, IInv, ListInv
<1>5. \A i \in 1..Len(accepted) : accepted[i] \in Queries
  BY <1>1, ElementOfSeq
<1>6. ListInv'
  BY <1>1, <1>4, <1>5 DEF IInv, ListInv
<1>7. LastInv'
  BY <1>1, <1>4 DEF IInv, LastInv, Runners
<1>8. \A m \in 1..Len(posted) : posted[m] \in Queries /\ posted[m] # q
  BY <1>1, ElementOfSeq, DatabaseTasksAssumption DEF IInv, CallbacksInOrder
<1>9. CASE q \notin WithCallback
  <2>1. CallbacksInOrder'
    BY <1>1, <1>4, <1>8, <1>9 DEF IInv, CallbacksInOrder
  <2>2. QED
    BY <1>2, <1>3, <1>6, <1>7, <2>1 DEF IInv
<1>10. CASE q \in WithCallback
  <2>1. /\ posted' = Append(posted, q)
        /\ Len(posted') = Len(posted) + 1
        /\ \A m \in 1..Len(posted) : posted'[m] = posted[m]
        /\ posted'[Len(posted) + 1] = q
    BY <1>1, <1>10, PushBack
  <2>2. \A m \in 1..Len(posted') : m \in 1..Len(posted) \/ m = Len(posted) + 1
    BY <1>4, <2>1
  <2>3. \A m \in 1..Len(posted') : outcome'[posted'[m]] = "executed"
    BY <1>1, <1>8, <2>1, <2>2 DEF IInv, CallbacksInOrder
  <2>4. \A m, n \in 1..Len(posted') : posted'[m] = posted'[n] => m = n
    BY <1>8, <2>1, <2>2 DEF IInv, CallbacksInOrder
  <2>5. ASSUME shutting = "no", NEW i \in 1..Len(accepted), NEW j \in 1..Len(accepted),
               NEW m \in 1..Len(posted'), NEW n \in 1..Len(posted'),
               i < j, posted'[m] = accepted[i], posted'[n] = accepted[j]
        PROVE  m < n
    <3>1. q = accepted[Taken] /\ Taken \in 1..Len(accepted)
      <4>1. r = Worker
        BY <1>1, <2>5 DEF IInv, HeldInv
      <4>2. q \in held[Worker]
        BY <1>1, <4>1
      <4>3. Taken > 0 /\ q = accepted[Taken]
        BY <4>2, <2>5 DEF IInv, LastInv
      <4>4. QED
        BY <1>4, <4>3
    <3>2. CASE m = Len(posted) + 1
      <4>1. i = Taken
        BY <3>1, <3>2, <2>1, <2>5 DEF IInv, ListInv
      <4>2. outcome[accepted[j]] = "queued"
        BY <4>1, <1>4, <2>5 DEF IInv, ListInv
      <4>3. accepted[j] # q
        BY <3>1, <4>1, <2>5, <1>1, <4>2
      <4>4. n \in 1..Len(posted) /\ posted[n] = accepted[j]
        BY <2>1, <2>2, <2>5, <4>3
      <4>5. QED
        BY <4>2, <4>4 DEF IInv, CallbacksInOrder
    <3>3. CASE m \in 1..Len(posted) /\ n = Len(posted) + 1
      BY <3>3, <1>4
    <3>4. CASE m \in 1..Len(posted) /\ n \in 1..Len(posted)
      BY <3>4, <2>1, <2>5 DEF IInv, CallbacksInOrder
    <3>5. QED
      BY <2>2, <3>2, <3>3, <3>4
  <2>6. shutting = "no" =>
          \A i, j \in 1..Len(accepted), m, n \in 1..Len(posted') :
            i < j /\ posted'[m] = accepted[i] /\ posted'[n] = accepted[j] => m < n
    BY <2>5
  <2>7. accepted' = accepted /\ shutting' = shutting
    OBVIOUS
  <2>8. CallbacksInOrder'
    BY <2>3, <2>4, <2>6, <2>7 DEF CallbacksInOrder
  <2>9. QED
    BY <1>2, <1>3, <1>6, <1>7, <2>8 DEF IInv
<1>11. QED
  BY <1>9, <1>10

(* A query is accepted at the end of the list, or refused.                 *)
LEMMA AddTaskStep ==
  ASSUME IInv, NEW c \in Clients, NEW q \in Queries, AddQuery(c, q)
  PROVE  IInv'
<1>1. /\ shutting # "flushing"
      /\ outcome[q] = "new"
      /\ outcome \in [Queries -> {"new", "queued", "running", "executed", "deleted"}]
      /\ held \in [Runners -> SUBSET Queries]
      /\ tasks \in Seq(Queries) /\ accepted \in Seq(Queries)
      /\ posted \in Seq(WithCallback)
      /\ UNCHANGED <<workerState, workerAt, held, shutting, posted>>
      /\ outcome' = [outcome EXCEPT ![q] = outcome'[q]]
      /\ outcome'[q] \in {"queued", "deleted"}
  BY DEF AddQuery, LockFree, IInv, QueriesTypeOK
<1>2. /\ Len(accepted) \in Nat /\ Len(tasks) \in Nat /\ Len(posted) \in Nat
      /\ Taken \in Nat /\ Taken = Len(accepted) - Len(tasks)
  BY <1>1, LenProperties DEF Taken, IInv, ListInv
<1>3. /\ \A i \in 1..Len(accepted) : accepted[i] \in Queries /\ accepted[i] # q
      /\ \A i \in 1..Len(posted) : posted[i] \in Queries /\ posted[i] # q
  <2>1. \A i \in 1..Len(accepted) : outcome[accepted[i]] # "new"
    BY <1>2 DEF IInv, ListInv
  <2>2. \A i \in 1..Len(accepted) : accepted[i] \in Queries
    BY <1>1, ElementOfSeq
  <2>3. \A i \in 1..Len(posted) : posted[i] \in WithCallback
    BY <1>1, ElementOfSeq
  <2>4. \A i \in 1..Len(posted) : outcome[posted[i]] = "executed"
    BY DEF IInv, CallbacksInOrder
  <2>5. QED
    BY <1>1, <2>1, <2>2, <2>3, <2>4, DatabaseTasksAssumption
<1>4. HeldInv'
  <2>1. \A p \in Queries : outcome'[p] = "running" <=> outcome[p] = "running"
    BY <1>1
  <2>2. QED
    BY <1>1, <2>1 DEF IInv, HeldInv
<1>5. \A i \in 1..Len(posted') : outcome'[posted'[i]] = "executed"
  BY <1>1, <1>3 DEF IInv, CallbacksInOrder
<1>6. CASE ~AcceptsQueries
  <2>1. /\ outcome' = [outcome EXCEPT ![q] = "deleted"]
        /\ UNCHANGED <<tasks, accepted, signalling>>
    BY <1>6 DEF AddQuery
  <2>2. QueriesTypeOK'
    BY <1>1, <2>1 DEF IInv, QueriesTypeOK
  <2>3. ListInv' /\ LastInv' /\ CallbacksInOrder'
    BY <1>1, <1>3, <2>1
       DEF IInv, ListInv, LastInv, CallbacksInOrder, Taken
  <2>4. QED
    BY <1>4, <1>5, <2>2, <2>3 DEF IInv, CallbacksInOrder
<1>7. CASE AcceptsQueries
  <2>1. /\ outcome' = [outcome EXCEPT ![q] = "queued"]
        /\ tasks' = Append(tasks, q)
        /\ accepted' = Append(accepted, q)
        /\ signalling' \in {signalling, signalling \cup {c}}
    BY <1>7 DEF AddQuery, WithTask
  <2>2. /\ tasks' \in Seq(Queries) /\ accepted' \in Seq(Queries)
        /\ Len(tasks') = Len(tasks) + 1
        /\ Len(accepted') = Len(accepted) + 1
        /\ \A i \in 1..Len(tasks) : tasks'[i] = tasks[i]
        /\ \A i \in 1..Len(accepted) : accepted'[i] = accepted[i]
        /\ tasks'[Len(tasks) + 1] = q
        /\ accepted'[Len(accepted) + 1] = q
    BY <1>1, <2>1, PushBack
  <2>3. Taken' = Taken
    BY <1>2, <2>2 DEF Taken
  <2>4. QueriesTypeOK'
    BY <1>1, <2>1, <2>2 DEF IInv, QueriesTypeOK
  <2>5. ListInv'
    <3>1. Len(tasks') <= Len(accepted')
      BY <1>2, <2>2
    <3>2. \A i \in 1..Len(tasks') : tasks'[i] = accepted'[Taken' + i]
      <4> SUFFICES ASSUME NEW i \in 1..Len(tasks')
                   PROVE  tasks'[i] = accepted'[Taken' + i]
        OBVIOUS
      <4>1. CASE i = Len(tasks) + 1
        <5>1. Taken' + i = Len(accepted) + 1
          BY <4>1, <1>2, <2>3
        <5>2. QED
          BY <4>1, <5>1, <2>2
      <4>2. CASE i # Len(tasks) + 1
        <5>1. i \in 1..Len(tasks) /\ Taken + i \in 1..Len(accepted)
          BY <4>2, <1>2, <2>2
        <5>2. tasks[i] = accepted[Taken + i]
          BY <5>1 DEF IInv, ListInv
        <5>3. QED
          BY <5>1, <5>2, <2>2, <2>3
      <4>3. QED
        BY <4>1, <4>2
    <3>3. \A i \in 1..Len(accepted') : i \in 1..Len(accepted) \/ i = Len(accepted) + 1
      BY <1>2, <2>2
    <3>4. \A i, j \in 1..Len(accepted') : accepted'[i] = accepted'[j] => i = j
      BY <1>3, <2>2, <3>3 DEF IInv, ListInv
    <3>5. Taken <= Len(accepted)
      BY <1>2
    <3>6. \A i \in 1..Len(accepted') :
            i <= Taken' => outcome'[accepted'[i]] \in {"running", "executed"}
      BY <1>1, <1>2, <1>3, <2>1, <2>2, <2>3, <3>3, <3>5 DEF IInv, ListInv
    <3>7. \A i \in 1..Len(accepted') : i > Taken' => outcome'[accepted'[i]] = "queued"
      BY <1>1, <1>3, <2>1, <2>2, <2>3, <3>3 DEF IInv, ListInv
    <3>8. \A p \in Queries : outcome'[p] \in {"queued", "running", "executed"} =>
            \E i \in 1..Len(accepted') : accepted'[i] = p
      <4> SUFFICES ASSUME NEW p \in Queries,
                          outcome'[p] \in {"queued", "running", "executed"}
                   PROVE  \E i \in 1..Len(accepted') : accepted'[i] = p
        OBVIOUS
      <4>1. CASE p = q
        BY <4>1, <1>2, <2>2
      <4>2. CASE p # q
        <5>1. outcome'[p] = outcome[p]
          BY <4>2, <1>1, <2>1
        <5>2. PICK i \in 1..Len(accepted) : accepted[i] = p
          BY <5>1 DEF IInv, ListInv
        <5>3. i \in 1..Len(accepted') /\ accepted'[i] = p
          BY <5>2, <1>2, <2>2
        <5>4. QED
          BY <5>3
      <4>3. QED
        BY <4>1, <4>2
    <3>9. QED
      BY <3>1, <3>2, <3>4, <3>6, <3>7, <3>8 DEF ListInv
  <2>6. LastInv'
    <3>1. Taken > 0 => accepted'[Taken] = accepted[Taken]
      BY <1>2, <2>2
    <3>2. QED
      BY <1>1, <2>3, <3>1 DEF IInv, LastInv
  <2>7. CallbacksInOrder'
    <3>1. \A i \in 1..Len(accepted'), m \in 1..Len(posted) :
            posted[m] = accepted'[i] => i \in 1..Len(accepted)
      BY <1>2, <1>3, <2>2
    <3>2. /\ \A i, j \in 1..Len(posted) : posted[i] = posted[j] => i = j
          /\ shutting = "no" =>
               \A i, j \in 1..Len(accepted), m, n \in 1..Len(posted) :
                 i < j /\ posted[m] = accepted[i] /\ posted[n] = accepted[j] => m < n
      BY DEF IInv, CallbacksInOrder
    <3>3. \A i, j \in 1..Len(accepted'), m, n \in 1..Len(posted) :
            shutting = "no" /\ i < j /\ posted[m] = accepted'[i] /\ posted[n] = accepted'[j]
              => m < n
      BY <2>2, <3>1, <3>2
    <3>4. posted' = posted /\ shutting' = shutting
      BY <1>1
    <3>5. \A i, j \in 1..Len(posted') : posted'[i] = posted'[j] => i = j
      BY <3>2, <3>4
    <3>6. shutting' = "no" =>
            \A i, j \in 1..Len(accepted'), m, n \in 1..Len(posted') :
              i < j /\ posted'[m] = accepted'[i] /\ posted'[n] = accepted'[j] => m < n
      BY <3>3, <3>4
    <3>7. QED
      BY <1>5, <3>5, <3>6, Zenon DEF CallbacksInOrder
  <2>8. QED
    BY <1>4, <2>4, <2>5, <2>6, <2>7 DEF IInv
<1>8. QED
  BY <1>6, <1>7

(* The inductive step, one case per action.                                *)
LEMMA InductiveStep == IInv /\ [QueriesNext]_queryVars => IInv'
<1> SUFFICES ASSUME IInv, [QueriesNext]_queryVars PROVE IInv'
  OBVIOUS
<1>1. ASSUME UNCHANGED <<tasks, held, outcome, accepted, posted>>,
             workerState' \in {"RUNNING", "CLOSING", "TERMINATED"},
             workerAt' \in {"loop", "locking", "waiting", "woken", "running", "exited"},
             workerAt' = "running" <=> workerAt = "running",
             signalling' \in SUBSET Clients,
             shutting' \in {"no", "flushing", "unlocked", "done"},
             shutting' = "no" => shutting = "no",
             shutting' # "no" => workerState' = "TERMINATED",
             held[Flusher] # {} => shutting' = "flushing"
      PROVE  IInv'
  <2>1. UNCHANGED <<tasks, outcome, accepted, posted>> /\ Taken' = Taken
    BY <1>1 DEF Taken
  <2>2. QueriesTypeOK' /\ HeldInv'
    BY <1>1, <2>1 DEF IInv, QueriesTypeOK, HeldInv
  <2>3. ListInv'
    BY <2>1 DEF IInv, ListInv
  <2>4. LastInv'
    BY <1>1, <2>1 DEF IInv, LastInv
  <2>5. CallbacksInOrder'
    BY <1>1, <2>1 DEF IInv, CallbacksInOrder
  <2>6. QED
    BY <2>2, <2>3, <2>4, <2>5 DEF IInv
<1>2. /\ workerState \in {"RUNNING", "CLOSING", "TERMINATED"}
      /\ workerAt \in {"loop", "locking", "waiting", "woken", "running", "exited"}
      /\ signalling \in SUBSET Clients
      /\ shutting \in {"no", "flushing", "unlocked", "done"}
      /\ held[Flusher] # {} => shutting = "flushing"
      /\ shutting # "no" => workerState = "TERMINATED"
  BY DEF IInv, QueriesTypeOK, HeldInv
<1>3. CASE WorkerChecks
  BY <1>1, <1>2, <1>3 DEF WorkerChecks
<1>4. CASE WorkerWaits
  BY <1>1, <1>2, <1>4 DEF WorkerWaits
<1>5. CASE WorkerWakesForNothing
  BY <1>1, <1>2, <1>5 DEF WorkerWakesForNothing
<1>6. CASE WorkerWakes
  BY <1>1, <1>2, <1>6 DEF WorkerWakes
<1>7. ASSUME NEW q \in Queries, WorkerRuns(q) PROVE IInv'
  BY <1>7, RunStep, DatabaseTasksAssumption DEF WorkerRuns, Runners
<1>8. ASSUME NEW q \in Queries, FlusherRuns(q) PROVE IInv'
  BY <1>8, RunStep, DatabaseTasksAssumption DEF FlusherRuns, Runners
<1>9. ASSUME NEW c \in Clients, NotifyWorker(c) PROVE IInv'
  BY <1>1, <1>2, <1>9 DEF NotifyWorker, WorkerSignalled
<1>10. CASE StopWorker
  BY <1>1, <1>2, <1>10 DEF StopWorker
<1>11. CASE BeginShutdown
  BY <1>1, <1>2, <1>11 DEF BeginShutdown
<1>12. CASE EndFlush
  BY <1>1, <1>2, <1>12 DEF EndFlush
<1>13. CASE Signal
  BY <1>1, <1>2, <1>13 DEF Signal, WorkerSignalled
<1>14. CASE UNCHANGED queryVars
  BY <1>1, <1>2, <1>14 DEF queryVars
<1>15. QED
  BY <1>3, <1>4, <1>5, <1>6, <1>7, <1>8, <1>9, <1>10, <1>11, <1>12, <1>13,
     <1>14, WorkerTakes, FlusherTakes, AddTaskStep
     DEF QueriesNext, WorkerMain, ShutdownRuns

LEMMA InvariantHolds == QueriesSpec => []IInv
<1>1. QueriesInit => IInv
  <2> SUFFICES ASSUME QueriesInit PROVE IInv
    OBVIOUS
  <2>1. /\ tasks = <<>> /\ accepted = <<>> /\ posted = <<>>
        /\ Len(tasks) = 0 /\ Len(accepted) = 0 /\ Len(posted) = 0
        /\ \A q \in Queries : outcome[q] = "new"
        /\ \A r \in Runners : held[r] = {}
    BY DEF QueriesInit
  <2>2. QueriesTypeOK
    BY <2>1 DEF QueriesInit, QueriesTypeOK
  <2>3. Worker \in Runners /\ Flusher \in Runners
    BY DEF Runners
  <2>4. HeldInv
    BY <2>1, <2>3 DEF QueriesInit, HeldInv
  <2>5. ListInv /\ LastInv /\ CallbacksInOrder
    BY <2>1, <2>3 DEF ListInv, LastInv, CallbacksInOrder, Taken
  <2>6. QED
    BY <2>2, <2>4, <2>5 DEF IInv
<1>2. QED
  BY <1>1, InductiveStep, PTL DEF QueriesSpec
-----------------------------------------------------------------------------
(* The variables keep their types in every behaviour.                      *)
THEOREM TypeCorrect == QueriesSpec => []QueriesTypeOK
BY InvariantHolds, PTL DEF IInv

(* Whatever the number of queries and callers, flush() overtakes at most   *)
(* the query that the worker holds, and the worker itself overtakes none.  *)
THEOREM ExecutionOrder == QueriesSpec => []OnlyTheHeldIsOvertaken
<1>1. IInv => OnlyTheHeldIsOvertaken
  <2> SUFFICES ASSUME IInv, NEW i \in 1..Len(accepted), NEW j \in 1..Len(accepted),
                      i < j, outcome[accepted[j]] = "executed",
                      outcome[accepted[i]] # "executed"
               PROVE  accepted[i] \in held[Worker] /\ shutting # "no"
    BY DEF OnlyTheHeldIsOvertaken
  <2>1. Len(accepted) \in Nat /\ Len(tasks) \in Nat /\ Taken \in Int
    BY LenProperties DEF IInv, QueriesTypeOK, Taken
  <2>2. j <= Taken
    BY <2>1 DEF IInv, ListInv
  <2>3. i <= Taken /\ i # Taken
    BY <2>1, <2>2
  <2>4. outcome[accepted[i]] = "running"
    BY <2>3 DEF IInv, ListInv
  <2>5. accepted[i] \in Queries
    BY ElementOfSeq DEF IInv, QueriesTypeOK
  <2>6. PICK r \in Runners : accepted[i] \in held[r]
    BY <2>4, <2>5 DEF IInv, HeldInv
  <2>7. accepted[i] # accepted[Taken]
    <3>1. Taken \in 1..Len(accepted)
      BY <2>1, <2>2 DEF IInv, ListInv, Taken
    <3>2. QED
      BY <2>3, <3>1 DEF IInv, ListInv
  <2>8. QED
    BY <2>6, <2>7 DEF IInv, LastInv, Runners
<1>2. QED
  BY <1>1, InvariantHolds, PTL

(* A callback is given to the dispatcher only after its query was executed *)
(* and never twice, and until shutdown() begins none comes before that of  *)
(* a query that was accepted earlier.                                      *)
THEOREM CallbackOrder == QueriesSpec => []CallbacksInOrder
BY InvariantHolds, PTL DEF IInv, CallbacksInOrder
-----------------------------------------------------------------------------
(* A step of the two runners is one of the abstract queue, or leaves it as *)
(* it is.                                                                  *)
LEMMA StepSimulation == IInv /\ [QueriesNext]_queryVars => [QueryQueue!Next]_(QueryQueue!absVars)
<1> SUFFICES ASSUME IInv, [QueriesNext]_queryVars
             PROVE  [QueryQueue!Next]_(QueryQueue!absVars)
  OBVIOUS
<1>1. /\ Worker \in Runners /\ Flusher \in Runners /\ Worker # Flusher
      /\ shutting # "no" => workerState = "TERMINATED"
      /\ held[Flusher] # {} => shutting = "flushing"
      /\ held[Worker] # {} <=> workerAt = "running"
  BY DatabaseTasksAssumption DEF Runners, IInv, HeldInv
<1>2. ASSUME UNCHANGED <<tasks, outcome, held, workerState>>,
             (workerAt' = "exited" /\ shutting' = "done")
               = (workerAt = "exited" /\ shutting = "done")
      PROVE  UNCHANGED QueryQueue!absVars
  BY <1>2 DEF QueryQueue!absVars
<1>3. ASSUME UNCHANGED <<tasks, outcome, held, workerState>>,
             workerAt' = "exited", shutting' = "done", workerState # "RUNNING",
             workerAt # "running", shutting # "flushing"
      PROVE  QueryQueue!Next
  <2>1. \A r \in Runners : held[r] = {}
    BY <1>1, <1>3 DEF Runners
  <2>2. QueryQueue!Halt
    BY <1>3, <2>1 DEF QueryQueue!Halt
  <2>3. QED
    BY <2>2 DEF QueryQueue!Next
<1>4. ASSUME NEW r \in Runners, held[r] = {}, TakeFront(r),
             UNCHANGED <<workerState, shutting>>, workerAt # "exited" \/ shutting # "done",
             workerAt' # "exited" \/ shutting # "done"
      PROVE  QueryQueue!Next
  <2>1. QueryQueue!Begin(r)
    BY <1>4 DEF TakeFront, QueryQueue!Begin
  <2>2. QED
    BY <2>1 DEF QueryQueue!Next
<1>5. ASSUME NEW r \in Runners, NEW q \in Queries, RunTask(r, q),
             UNCHANGED <<tasks, workerState, shutting>>,
             (workerAt' = "exited" /\ shutting = "done")
               = (workerAt = "exited" /\ shutting = "done")
      PROVE  QueryQueue!Next
  <2>1. QueryQueue!End(r, q)
    BY <1>5 DEF RunTask, QueryQueue!End
  <2>2. QED
    BY <2>1 DEF QueryQueue!Next
<1>6. CASE WorkerChecks
  <2>1. CASE workerAt' = "exited" /\ shutting' = "done"
    BY <1>3, <1>6, <2>1 DEF WorkerChecks
  <2>2. CASE ~(workerAt' = "exited" /\ shutting' = "done")
    BY <1>2, <1>6, <2>2 DEF WorkerChecks
  <2>3. QED
    BY <2>1, <2>2
<1>7. CASE WorkerWaits \/ WorkerWakesForNothing \/ WorkerWakes
  BY <1>2, <1>7 DEF WorkerWaits, WorkerWakesForNothing, WorkerWakes
<1>8. CASE WorkerLocksAndTakes
  BY <1>1, <1>4, <1>8 DEF WorkerLocksAndTakes
<1>9. ASSUME NEW q \in Queries, WorkerRuns(q)
      PROVE  QueryQueue!Next
  <2>1. workerAt = "running"
    BY <1>1, <1>9 DEF WorkerRuns, RunTask
  <2>2. QED
    BY <1>1, <1>5, <1>9, <2>1 DEF WorkerRuns
<1>10. ASSUME NEW q \in Queries, FlusherRuns(q)
       PROVE  QueryQueue!Next
  BY <1>1, <1>5, <1>10 DEF FlusherRuns
<1>11. ASSUME NEW c \in Clients, NEW q \in Queries, AddQuery(c, q)
       PROVE  QueryQueue!Next
  <2>1. CASE workerState = "RUNNING"
    <3>1. QueryQueue!Submit(q)
      BY <1>11, <2>1 DEF AddQuery, AcceptsQueries, WithTask, QueryQueue!Submit
    <3>2. QED
      BY <3>1 DEF QueryQueue!Next
  <2>2. CASE workerState # "RUNNING"
    <3>1. QueryQueue!Refuse(q)
      BY <1>11, <2>2 DEF AddQuery, AcceptsQueries, QueryQueue!Refuse
    <3>2. QED
      BY <3>1 DEF QueryQueue!Next
  <2>3. QED
    BY <2>1, <2>2
<1>12. ASSUME NEW c \in Clients, NotifyWorker(c)
       PROVE  UNCHANGED QueryQueue!absVars
  BY <1>2, <1>12 DEF NotifyWorker, WorkerSignalled
<1>13. CASE StopWorker \/ BeginShutdown
  <2>1. QueryQueue!Close
    BY <1>13 DEF StopWorker, BeginShutdown, QueryQueue!Close
  <2>2. QED
    BY <2>1 DEF QueryQueue!Next
<1>14. CASE FlushNext
  BY <1>1, <1>4, <1>14 DEF FlushNext
<1>15. CASE EndFlush
  BY <1>2, <1>15 DEF EndFlush
<1>16. CASE Signal
  <2>1. CASE workerAt' = "exited"
    BY <1>1, <1>3, <1>16, <2>1 DEF Signal, WorkerSignalled
  <2>2. CASE workerAt' # "exited"
    BY <1>2, <1>16, <2>2 DEF Signal, WorkerSignalled
  <2>3. QED
    BY <2>1, <2>2
<1>17. CASE UNCHANGED queryVars
  BY <1>2, <1>17 DEF queryVars
<1>18. QED
  BY <1>6, <1>7, <1>8, <1>9, <1>10, <1>11, <1>12, <1>13, <1>14, <1>15, <1>16,
     <1>17 DEF QueriesNext, WorkerMain, ShutdownRuns

(* The database thread and the thread that calls shutdown() implement the  *)
(* abstract queue with two workers, for any number of queries and callers. *)
THEOREM ImplementsWorkQueue == QueriesSpec => QueryQueueSpec
<1>1. QueriesInit => QueryQueue!Init
  BY DEF QueriesInit, QueryQueue!Init
<1>2. QED
  BY <1>1, StepSimulation, InvariantHolds, PTL
     DEF QueriesSpec, QueryQueueSpec, QueryQueue!Spec
=============================================================================
