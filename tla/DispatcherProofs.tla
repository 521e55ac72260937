-------------------------- MODULE DispatcherProofs --------------------------
(***************************************************************************)
(* Proofs about Dispatcher: the thread never sleeps on a task nobody will  *)
(* wake it for, an orderly shutdown leaves no task behind, and every       *)
(* behaviour of the dispatcher is one of the abstract work queue.          *)
(***************************************************************************)
EXTENDS Dispatcher, SequenceTheorems, TLAPS

(* push_back keeps the elements where they are and adds one at the end.    *)
LEMMA PushBack ==
  ASSUME NEW S, NEW s \in Seq(S), NEW e \in S
  PROVE  /\ Append(s, e) \in Seq(S)
         /\ Len(Append(s, e)) = Len(s) + 1
         /\ \A i \in 1..Len(s) : Append(s, e)[i] = s[i]
         /\ Append(s, e)[Len(s) + 1] = e
         /\ Append(s, e) # <<>>
  OBVIOUS

(* push_front moves every element one place back.                          *)
LEMMA PushFront ==
  ASSUME NEW S, NEW s \in Seq(S), NEW e \in S
  PROVE  /\ <<e>> \o s \in Seq(S)
         /\ Len(<<e>> \o s) = Len(s) + 1
         /\ (<<e>> \o s)[1] = e
         /\ \A i \in 1..Len(s) : (<<e>> \o s)[i + 1] = s[i]
         /\ <<e>> \o s # <<>>
  OBVIOUS

(* pop_front takes the first element and moves the others one place ahead. *)
LEMMA PopFront ==
  ASSUME NEW S, NEW s \in Seq(S), s # <<>>
  PROVE  /\ Head(s) \in S
         /\ Head(s) = s[1]
         /\ Tail(s) \in Seq(S)
         /\ Len(s) \in Nat \ {0}
         /\ Len(Tail(s)) = Len(s) - 1
         /\ \A i \in 1..(Len(s) - 1) : Tail(s)[i] = s[i + 1]
         /\ Len(s) = 1 => Tail(s) = <<>>
<1>1. /\ Head(s) \in S
      /\ Tail(s) \in Seq(S)
      /\ Len(Tail(s)) = Len(s) - 1
      /\ \A i \in 1..Len(Tail(s)) : Tail(s)[i] = s[i + 1]
  BY HeadTailProperties
<1>2. Len(s) \in Nat \ {0}
  BY EmptySeq
<1>3. Head(s) = s[1]
  OBVIOUS
<1>4. Len(s) = 1 => Tail(s) = <<>>
  <2> SUFFICES ASSUME Len(s) = 1, Tail(s) # <<>>
               PROVE  FALSE
    OBVIOUS
  <2>1. Len(Tail(s)) = 0
    BY <1>1
  <2>2. Len(Tail(s)) \in Nat \ {0}
    BY <1>1, EmptySeq
  <2>3. QED
    BY <2>1, <2>2
<1>5. QED
  BY <1>1, <1>2, <1>3, <1>4
-----------------------------------------------------------------------------
(* A job is in execution exactly when threadMain holds it.                 *)
HeldInv ==
  /\ \A j \in Jobs : fate[j] = "running" <=> j \in current
  /\ \A i, j \in current : i = j
  /\ current # {} <=> pc \in {"taken", "executing"}

(* The list holds exactly the queued jobs, each at one place.              *)
ListInv ==
  /\ \A i \in 1..Len(taskList) : fate[taskList[i]] = "queued"
  /\ \A j \in Jobs : fate[j] = "queued" =>
       \E i \in 1..Len(taskList) : taskList[i] = j
  /\ \A i, k \in 1..Len(taskList) : taskList[i] = taskList[k] => i = k

(* After stop() the terminator closes the list, and only its execution     *)
(* ends the loop.                                                          *)
ShutdownInv ==
  /\ stopped => threadState # "RUNNING"
  /\ fate[ShutdownTask] \in {"new", "queued", "running", "executed"}
  /\ stopped /\ fate[ShutdownTask] = "queued" =>
       taskList # <<>> /\ taskList[Len(taskList)] = ShutdownTask
  /\ stopped /\ fate[ShutdownTask] \in {"running", "executed"} =>
       taskList = <<>>
  /\ threadState = "TERMINATED" =>
       fate[ShutdownTask] \in {"running", "executed"}
  /\ pc = "exited" => fate[ShutdownTask] = "executed"

IInv == TypeOK /\ HeldInv /\ ListInv /\ NoLostWakeup /\ ShutdownInv
-----------------------------------------------------------------------------
(* Taking the first job of the list, shared by the two ways of taking it.  *)
LEMMA TakeStep ==
  ASSUME IInv, pc \in {"locking", "woken"}, Take
  PROVE  IInv'
<1> USE DispatcherAssumption DEF Jobs, MustWait, Popped, MayHaveExpired,
                                AcceptsTasks, MustSignal, Signalled,
                                WithTerminator
<1> DEFINE h == Head(taskList)
<1>1. /\ taskList # <<>>
      /\ taskList \in Seq(Jobs)
      /\ taskList' = Tail(taskList)
      /\ fate' = [fate EXCEPT ![h] = "running"]
      /\ fate \in [Jobs -> Fates]
      /\ current' = {h}
      /\ current = {}
      /\ pc' = "taken"
  BY DEF Take, IInv, TypeOK, HeldInv
<1>2. /\ h \in Jobs
      /\ h = taskList[1]
      /\ taskList' \in Seq(Jobs)
      /\ Len(taskList) \in Nat \ {0}
      /\ Len(taskList') = Len(taskList) - 1
      /\ \A i \in 1..(Len(taskList) - 1) : taskList'[i] = taskList[i + 1]
      /\ Len(taskList) = 1 => taskList' = <<>>
  BY <1>1, PopFront
<1> HIDE DEF h
<1>3. TypeOK'
  BY <1>1, <1>2 DEF Take, IInv, TypeOK, Locations, Fates
<1>4. HeldInv'
  BY <1>1, <1>2 DEF IInv, HeldInv, Fates
<1>5. ListInv'
  <2>1. fate[h] = "queued"
    BY <1>2 DEF IInv, ListInv
  <2>2. \A i \in 1..Len(taskList') : taskList'[i] # h
    BY <1>2 DEF IInv, ListInv
  <2>3. \A i \in 1..Len(taskList') : fate'[taskList'[i]] = "queued"
    <3> SUFFICES ASSUME NEW i \in 1..Len(taskList')
                 PROVE  fate'[taskList'[i]] = "queued"
      OBVIOUS
    <3>1. /\ taskList'[i] = taskList[i + 1]
          /\ i + 1 \in 1..Len(taskList)
      BY <1>2
    <3>2. fate[taskList[i + 1]] = "queued" /\ taskList[i + 1] \in Jobs
      BY <3>1, <1>1, ElementOfSeq DEF IInv, ListInv
    <3>3. QED
      BY <3>1, <3>2, <2>2, <1>1
  <2>4. \A j \in Jobs : fate'[j] = "queued" =>
          \E i \in 1..Len(taskList') : taskList'[i] = j
    <3> SUFFICES ASSUME NEW j \in Jobs, fate'[j] = "queued"
                 PROVE  \E i \in 1..Len(taskList') : taskList'[i] = j
      OBVIOUS
    <3>1. j # h /\ fate[j] = "queued"
      BY <1>1, <1>2
    <3>2. PICK k \in 1..Len(taskList) : taskList[k] = j
      BY <3>1 DEF IInv, ListInv
    <3>3. k # 1
      BY <3>1, <3>2, <1>2
    <3>4. k - 1 \in 1..Len(taskList') /\ taskList'[k - 1] = j
      BY <3>2, <3>3, <1>2
    <3>5. QED
      BY <3>4
  <2>5. \A i, k \in 1..Len(taskList') : taskList'[i] = taskList'[k] => i = k
    <3> SUFFICES ASSUME NEW i \in 1..Len(taskList'), NEW k \in 1..Len(taskList'),
                        taskList'[i] = taskList'[k]
                 PROVE  i = k
      OBVIOUS
    <3>1. taskList[i + 1] = taskList[k + 1]
      BY <1>2
    <3>2. i + 1 \in 1..Len(taskList) /\ k + 1 \in 1..Len(taskList)
      BY <1>2
    <3>3. i + 1 = k + 1
      BY <3>1, <3>2 DEF IInv, ListInv
    <3>4. QED
      BY <3>3
  <2>6. QED
    BY <2>3, <2>4, <2>5 DEF ListInv
<1>6. NoLostWakeup'
  BY <1>1 DEF NoLostWakeup
<1>7. ShutdownInv'
  <2>1. stopped' = stopped /\ threadState' = threadState
    BY DEF Take
  <2>2. CASE h = ShutdownTask
    <3>1. fate'[ShutdownTask] = "running"
      BY <2>2, <1>1, <1>2
    <3>2. fate[ShutdownTask] = "queued"
      BY <2>2, <1>2 DEF IInv, ListInv
    <3>3. stopped => taskList[Len(taskList)] = taskList[1]
      BY <2>2, <3>2, <1>2 DEF IInv, ShutdownInv
    <3>4. stopped => Len(taskList) = 1
      BY <3>3, <1>2 DEF IInv, ListInv
    <3>5. QED
      BY <3>1, <3>2, <3>4, <2>1, <1>1, <1>2 DEF IInv, ShutdownInv
  <2>3. CASE h # ShutdownTask
    <3>1. fate'[ShutdownTask] = fate[ShutdownTask]
      BY <2>3, <1>1, <1>2
    <3>2. stopped /\ fate[ShutdownTask] = "queued" =>
            taskList' # <<>> /\ taskList'[Len(taskList')] = ShutdownTask
      <4> SUFFICES ASSUME stopped, fate[ShutdownTask] = "queued"
                   PROVE  taskList' # <<>> /\ taskList'[Len(taskList')] = ShutdownTask
        OBVIOUS
      <4>1. taskList[Len(taskList)] = ShutdownTask
        BY DEF IInv, ShutdownInv
      <4>2. Len(taskList) # 1
        BY <4>1, <2>3, <1>2
      <4>3. Len(taskList') \in 1..(Len(taskList) - 1)
        BY <4>2, <1>2
      <4>4. taskList'[Len(taskList')] = ShutdownTask
        BY <4>1, <4>3, <1>2
      <4>5. taskList' # <<>>
        BY <4>3, EmptySeq
      <4>6. QED
        BY <4>4, <4>5
    <3>3. QED
      BY <3>1, <3>2, <2>1, <1>1, <1>2 DEF IInv, ShutdownInv
  <2>4. QED
    BY <2>2, <2>3
<1>8. QED
  BY <1>3, <1>4, <1>5, <1>6, <1>7 DEF IInv

(* An accepted task joins the list at one of its ends.                     *)
LEMMA AddTaskStep ==
  ASSUME IInv, NEW c \in Threads, NEW t \in Tasks, NEW pushFront \in BOOLEAN,
         AddTask(c, t, pushFront)
  PROVE  IInv'
<1> USE DispatcherAssumption DEF Jobs, MustWait, Popped, MayHaveExpired,
                                AcceptsTasks, MustSignal, Signalled,
                                WithTerminator
<1>1. /\ taskList \in Seq(Jobs)
      /\ fate \in [Jobs -> Fates]
      /\ t \in Jobs
      /\ t # ShutdownTask
      /\ fate[t] = "new"
      /\ Len(taskList) \in Nat
      /\ pc' = pc /\ current' = current /\ stopped' = stopped
      /\ threadState' = threadState
  BY DEF AddTask, IInv, TypeOK
<1>2. \A i \in 1..Len(taskList) : taskList[i] # t
  BY <1>1 DEF IInv, ListInv
<1>3. CASE threadState # "RUNNING"
  <2>1. /\ fate' = [fate EXCEPT ![t] = "deleted"]
        /\ taskList' = taskList
        /\ notifying' = notifying
    BY <1>3 DEF AddTask
  <2>2. TypeOK'
    BY <1>1, <2>1 DEF IInv, TypeOK, Fates
  <2>3. HeldInv'
    BY <1>1, <2>1 DEF IInv, HeldInv
  <2>4. ListInv'
    <3>1. \A i \in 1..Len(taskList) : taskList[i] \in Jobs
      BY <1>1, ElementOfSeq
    <3>2. QED
      BY <1>1, <1>2, <2>1, <3>1 DEF IInv, ListInv
  <2>5. NoLostWakeup' /\ ShutdownInv'
    BY <1>1, <2>1 DEF IInv, NoLostWakeup, ShutdownInv
  <2>6. QED
    BY <2>2, <2>3, <2>4, <2>5 DEF IInv
<1>4. CASE threadState = "RUNNING"
  <2>1. /\ fate' = [fate EXCEPT ![t] = "queued"]
        /\ taskList' = IF pushFront THEN <<t>> \o taskList
                                    ELSE Append(taskList, t)
        /\ notifying' = IF taskList = <<>> THEN notifying \union {c}
                                           ELSE notifying
    BY <1>4 DEF AddTask
  <2>2. ~stopped
    BY <1>4 DEF IInv, ShutdownInv
  <2>3. /\ taskList' \in Seq(Jobs)
        /\ Len(taskList') = Len(taskList) + 1
        /\ \E at \in {1, Len(taskList) + 1} :
             /\ taskList'[at] = t
             /\ \A i \in 1..Len(taskList) :
                  taskList'[IF at = 1 THEN i + 1 ELSE i] = taskList[i]
    <3>1. CASE pushFront
      BY <3>1, <2>1, <1>1, PushFront
    <3>2. CASE ~pushFront
      <4>1. /\ taskList' \in Seq(Jobs)
            /\ Len(taskList') = Len(taskList) + 1
            /\ \A i \in 1..Len(taskList) : taskList'[i] = taskList[i]
            /\ taskList'[Len(taskList) + 1] = t
        BY <3>2, <2>1, <1>1, PushBack
      <4>2. Len(taskList) + 1 = 1 =>
              \A i \in 1..Len(taskList) : taskList'[i + 1] = taskList[i]
        BY <1>1
      <4>3. QED
        BY <4>1, <4>2
    <3>3. QED
      BY <3>1, <3>2
  <2>4. PICK at \in {1, Len(taskList) + 1} :
             /\ taskList'[at] = t
             /\ \A i \in 1..Len(taskList) :
                  taskList'[IF at = 1 THEN i + 1 ELSE i] = taskList[i]
    BY <2>3
  <2> DEFINE old(i) == IF at = 1 THEN i - 1 ELSE i
  <2>5. \A i \in 1..Len(taskList') :
          \/ i = at /\ taskList'[i] = t
          \/ /\ i # at
             /\ old(i) \in 1..Len(taskList)
             /\ taskList'[i] = taskList[old(i)]
    <3> SUFFICES ASSUME NEW i \in 1..Len(taskList'), i # at
                 PROVE  /\ old(i) \in 1..Len(taskList)
                        /\ taskList'[i] = taskList[old(i)]
      BY <2>4
    <3>1. old(i) \in 1..Len(taskList)
      BY <2>3, <2>4, <1>1
    <3>2. (IF at = 1 THEN old(i) + 1 ELSE old(i)) = i
      BY <3>1, <1>1
    <3>3. QED
      BY <3>1, <3>2, <2>4
  <2>6. TypeOK'
    BY <1>1, <2>1, <2>3 DEF IInv, TypeOK, Fates
  <2>7. HeldInv'
    BY <1>1, <2>1 DEF IInv, HeldInv
  <2>8. ListInv'
    <3>1. \A i \in 1..Len(taskList') : fate'[taskList'[i]] = "queued"
      <4> SUFFICES ASSUME NEW i \in 1..Len(taskList')
                   PROVE  fate'[taskList'[i]] = "queued"
        OBVIOUS
      <4>1. CASE i = at
        BY <4>1, <2>1, <2>4, <1>1
      <4>2. CASE i # at
        <5>1. /\ old(i) \in 1..Len(taskList)
              /\ taskList'[i] = taskList[old(i)]
          BY <4>2, <2>5
        <5> HIDE DEF old
        <5>2. taskList[old(i)] \in Jobs /\ fate[taskList[old(i)]] = "queued"
          BY <5>1, <1>1, ElementOfSeq DEF IInv, ListInv
        <5>3. QED
          BY <5>1, <5>2, <2>1, <1>1, <1>2
      <4>3. QED
        BY <4>1, <4>2
    <3>2. \A j \in Jobs : fate'[j] = "queued" =>
            \E i \in 1..Len(taskList') : taskList'[i] = j
      <4> SUFFICES ASSUME NEW j \in Jobs, fate'[j] = "queued"
                   PROVE  \E i \in 1..Len(taskList') : taskList'[i] = j
        OBVIOUS
      <4>1. CASE j = t
        BY <4>1, <2>3, <2>4, <1>1
      <4>2. CASE j # t
        <5>1. fate[j] = "queued"
          BY <4>2, <2>1, <1>1
        <5>2. PICK k \in 1..Len(taskList) : taskList[k] = j
          BY <5>1 DEF IInv, ListInv
        <5>3. taskList'[IF at = 1 THEN k + 1 ELSE k] = j
          BY <5>2, <2>4
        <5>4. (IF at = 1 THEN k + 1 ELSE k) \in 1..Len(taskList')
          BY <2>3, <1>1
        <5>5. QED
          BY <5>3, <5>4
      <4>3. QED
        BY <4>1, <4>2
    <3>3. \A i, k \in 1..Len(taskList') : taskList'[i] = taskList'[k] => i = k
      <4> SUFFICES ASSUME NEW i \in 1..Len(taskList'),
                          NEW k \in 1..Len(taskList'),
                          taskList'[i] = taskList'[k], i # k
                   PROVE  FALSE
        OBVIOUS
      <4>1. i # at /\ k # at
        BY <2>4, <2>5, <1>2
      <4>2. old(i) \in 1..Len(taskList) /\ old(k) \in 1..Len(taskList)
        BY <4>1, <2>5
      <4>3. taskList[old(i)] = taskList[old(k)]
        BY <4>1, <2>5
      <4>4. old(i) # old(k)
        BY <2>3, <1>1
      <4> HIDE DEF old
      <4>5. QED
        BY <4>2, <4>3, <4>4 DEF IInv, ListInv
    <3>4. QED
      BY <3>1, <3>2, <3>3 DEF ListInv
  <2>9. NoLostWakeup'
    <3>1. CASE taskList = <<>>
      BY <3>1, <2>1 DEF NoLostWakeup
    <3>2. CASE taskList # <<>>
      BY <3>2, <2>1, <1>1 DEF IInv, NoLostWakeup
    <3>3. QED
      BY <3>1, <3>2
  <2>10. ShutdownInv'
    BY <1>1, <2>1, <2>2 DEF IInv, ShutdownInv
  <2>11. QED
    BY <2>6, <2>7, <2>8, <2>9, <2>10 DEF IInv
<1>5. QED
  BY <1>3, <1>4

(* shutdown() appends the terminator behind everything accepted so far.    *)
LEMMA ShutdownStep ==
  ASSUME IInv, NEW c \in Threads, Shutdown(c)
  PROVE  IInv'
<1> USE DispatcherAssumption DEF Jobs, MustWait, Popped, MayHaveExpired,
                                AcceptsTasks, MustSignal, Signalled,
                                WithTerminator
<1>1. /\ taskList \in Seq(Jobs)
      /\ fate \in [Jobs -> Fates]
      /\ fate[ShutdownTask] = "new"
      /\ Len(taskList) \in Nat
      /\ taskList' = Append(taskList, ShutdownTask)
      /\ fate' = [fate EXCEPT ![ShutdownTask] = "queued"]
      /\ current' = current /\ stopped' = stopped
      /\ threadState' = threadState /\ notifying' = notifying
      /\ pc' = IF pc = "waiting" THEN "woken" ELSE pc
  BY DEF Shutdown, IInv, TypeOK
<1>2. \A i \in 1..Len(taskList) : taskList[i] # ShutdownTask
  BY <1>1 DEF IInv, ListInv
<1>3. /\ taskList' \in Seq(Jobs)
      /\ Len(taskList') = Len(taskList) + 1
      /\ \A i \in 1..Len(taskList) : taskList'[i] = taskList[i]
      /\ taskList'[Len(taskList')] = ShutdownTask
      /\ taskList' # <<>>
  BY <1>1, PushBack
<1>4. TypeOK'
  BY <1>1, <1>3 DEF IInv, TypeOK, Fates, Locations
<1>5. HeldInv'
  BY <1>1 DEF IInv, HeldInv
<1>6. ListInv'
  <2>1. \A i \in 1..Len(taskList') : fate'[taskList'[i]] = "queued"
    <3>1. \A i \in 1..Len(taskList) : taskList[i] \in Jobs
      BY <1>1, ElementOfSeq
    <3>2. QED
      BY <1>1, <1>2, <1>3, <3>1 DEF IInv, ListInv
  <2>2. \A j \in Jobs : fate'[j] = "queued" =>
          \E i \in 1..Len(taskList') : taskList'[i] = j
    <3> SUFFICES ASSUME NEW j \in Jobs, fate'[j] = "queued"
                 PROVE  \E i \in 1..Len(taskList') : taskList'[i] = j
      OBVIOUS
    <3>1. CASE j = ShutdownTask
      BY <3>1, <1>1, <1>3
    <3>2. CASE j # ShutdownTask
      <4>1. PICK k \in 1..Len(taskList) : taskList[k] = j
        BY <3>2, <1>1 DEF IInv, ListInv
      <4>2. k \in 1..Len(taskList') /\ taskList'[k] = j
        BY <4>1, <1>1, <1>3
      <4>3. QED
        BY <4>2
    <3>3. QED
      BY <3>1, <3>2
  <2>3. \A i, k \in 1..Len(taskList') : taskList'[i] = taskList'[k] => i = k
    BY <1>1, <1>2, <1>3 DEF IInv, ListInv
  <2>4. QED
    BY <2>1, <2>2, <2>3 DEF ListInv
<1>7. NoLostWakeup'
  BY <1>1 DEF NoLostWakeup
<1>8. ShutdownInv'
  BY <1>1, <1>3 DEF IInv, ShutdownInv
<1>9. QED
  BY <1>4, <1>5, <1>6, <1>7, <1>8 DEF IInv

(* The inductive step, one case per action.                                *)
LEMMA InductiveStep == IInv /\ [Next]_vars => IInv'
<1> SUFFICES ASSUME IInv, [Next]_vars
             PROVE  IInv'
  OBVIOUS
<1> USE DispatcherAssumption DEF Jobs, MustWait, Popped, MayHaveExpired,
                                AcceptsTasks, MustSignal, Signalled,
                                WithTerminator
<1>1. CASE CheckState
  BY <1>1 DEF CheckState, IInv, TypeOK, HeldInv, ListInv, NoLostWakeup,
              ShutdownInv, Locations
<1>2. CASE LockAndWait
  BY <1>2 DEF LockAndWait, IInv, TypeOK, HeldInv, ListInv, NoLostWakeup,
              ShutdownInv, Locations
<1>3. CASE LockAndTake \/ WakeAndTake
  BY <1>3, TakeStep DEF LockAndTake, WakeAndTake
<1>4. CASE WakeToEmptyList
  BY <1>4 DEF WakeToEmptyList, IInv, TypeOK, HeldInv, ListInv, NoLostWakeup,
              ShutdownInv, Locations
<1>5. CASE SpuriousWakeup
  BY <1>5 DEF SpuriousWakeup, IInv, TypeOK, HeldInv, ListInv, NoLostWakeup,
              ShutdownInv, Locations
<1>6. CASE Execute
  <2>1. current = {ShutdownTask} => fate[ShutdownTask] = "running"
    BY DEF IInv, HeldInv
  <2>2. QED
    BY <1>6, <2>1 DEF Execute, IInv, TypeOK, HeldInv, ListInv, NoLostWakeup,
              ShutdownInv, Locations, ThreadStates
<1>7. CASE DropExpired
  <2>1. /\ pc = "taken" /\ pc' = "loop"
        /\ current \subseteq Expiring /\ current' = {}
        /\ fate' = [j \in Jobs |-> IF j \in current THEN "expired" ELSE fate[j]]
        /\ UNCHANGED <<threadState, taskList, notifying, stopped>>
    BY <1>7 DEF DropExpired
  <2>2. \A j \in Jobs : fate[j] = "queued" => fate'[j] = fate[j]
    BY <2>1 DEF IInv, HeldInv
  <2>3. TypeOK'
    <3>1. \A j \in Jobs : fate'[j] = "expired" => j \in Expiring
      BY <2>1 DEF IInv, TypeOK
    <3>2. QED
      BY <2>1, <3>1 DEF IInv, TypeOK, Fates, Locations
  <2>7. HeldInv' /\ NoLostWakeup'
    BY <2>1 DEF IInv, HeldInv, NoLostWakeup
  <2>4. ListInv'
    <3>1. \A i \in 1..Len(taskList) : taskList[i] \in Jobs
      BY ElementOfSeq DEF IInv, TypeOK
    <3>2. QED
      BY <2>1, <2>2, <3>1 DEF IInv, ListInv, HeldInv
  <2>5. ShutdownInv'
    <3>1. ShutdownTask \notin current
      BY <2>1
    <3>2. QED
      BY <2>1, <3>1 DEF IInv, ShutdownInv
  <2>6. QED
    BY <2>3, <2>4, <2>5, <2>7 DEF IInv
<1>8. CASE Finish
  <2>1. /\ pc = "executing" /\ pc' = "loop"
        /\ current \subseteq Jobs /\ current' = {}
        /\ fate' = [j \in Jobs |-> IF j \in current THEN "executed" ELSE fate[j]]
        /\ UNCHANGED <<threadState, taskList, notifying, stopped>>
    BY <1>8 DEF Finish, IInv, TypeOK
  <2>2. \A j \in Jobs : fate[j] = "queued" => fate'[j] = fate[j]
    BY <2>1 DEF IInv, HeldInv
  <2>3. TypeOK'
    <3>1. \A j \in Jobs : fate'[j] = "expired" => fate[j] = "expired"
      BY <2>1
    <3>2. QED
      BY <2>1, <3>1 DEF IInv, TypeOK, Fates, Locations
  <2>7. HeldInv' /\ NoLostWakeup'
    BY <2>1 DEF IInv, HeldInv, NoLostWakeup
  <2>4. ListInv'
    <3>1. \A i \in 1..Len(taskList) : taskList[i] \in Jobs
      BY ElementOfSeq DEF IInv, TypeOK
    <3>2. QED
      BY <2>1, <2>2, <3>1 DEF IInv, ListInv, HeldInv
  <2>5. ShutdownInv'
    <3>1. ShutdownTask \in current => fate[ShutdownTask] = "running"
      BY DEF IInv, HeldInv
    <3>2. QED
      BY <2>1, <3>1 DEF IInv, ShutdownInv
  <2>6. QED
    BY <2>3, <2>4, <2>5, <2>7 DEF IInv
<1>9. ASSUME NEW c \in Threads, NEW t \in Tasks, NEW pushFront \in BOOLEAN,
             AddTask(c, t, pushFront)
      PROVE  IInv'
  BY <1>9, AddTaskStep
<1>10. ASSUME NEW c \in Threads, Notify(c)
       PROVE  IInv'
  BY <1>10 DEF Notify, IInv, TypeOK, HeldInv, ListInv, NoLostWakeup,
               ShutdownInv, Locations
<1>11. ASSUME NEW c \in Threads, Stop(c)
       PROVE  IInv'
  BY <1>11 DEF Stop, IInv, TypeOK, HeldInv, ListInv, NoLostWakeup,
               ShutdownInv, ThreadStates
<1>12. ASSUME NEW c \in Threads, Shutdown(c)
       PROVE  IInv'
  BY <1>12, ShutdownStep
<1>13. CASE UNCHANGED vars
  BY <1>13 DEF vars, IInv, TypeOK, HeldInv, ListInv, NoLostWakeup, ShutdownInv
<1>14. QED
  BY <1>1, <1>2, <1>3, <1>4, <1>5, <1>6, <1>7, <1>8, <1>9, <1>10, <1>11,
     <1>12, <1>13 DEF Next, ThreadMain

LEMMA InvariantHolds == Spec => []IInv
<1>1. Init => IInv
  <2> SUFFICES ASSUME Init PROVE IInv
    OBVIOUS
  <2>1. taskList = <<>> /\ Len(taskList) = 0 /\ taskList \in Seq(Jobs)
    BY DEF Init
  <2>2. \A j \in Jobs : fate[j] = "new"
    BY DEF Init
  <2>3. TypeOK
    BY <2>1 DEF Init, TypeOK, Fates, Locations, ThreadStates
  <2>4. HeldInv
    BY <2>2 DEF Init, HeldInv
  <2>5. ListInv
    BY <2>1, <2>2 DEF ListInv
  <2>6. ShutdownTask \in Jobs
    BY DEF Jobs
  <2>7. NoLostWakeup /\ ShutdownInv
    BY <2>2, <2>6 DEF Init, NoLostWakeup, ShutdownInv
  <2>8. QED
    BY <2>3, <2>4, <2>5, <2>7 DEF IInv
<1>2. QED
  BY <1>1, InductiveStep, PTL DEF Spec
-----------------------------------------------------------------------------
(* The variables keep their types in every behaviour of the dispatcher.    *)
THEOREM TypeCorrect == Spec => []TypeOK
BY InvariantHolds, PTL DEF IInv

(* Whatever the number of threads and tasks, threadMain never sleeps on a  *)
(* list that holds a task without a notify_one still to come.              *)
THEOREM WakeupSafety == Spec => []NoLostWakeup
BY InvariantHolds, PTL DEF IInv

(* An orderly shutdown (stop() before shutdown(), as Game::setGameState    *)
(* and Game::shutdown do) executes everything the list accepted.           *)
THEOREM OrderlyShutdown == Spec => []NothingLeftBehind
<1>1. IInv => NothingLeftBehind
  <2> SUFFICES ASSUME IInv, pc = "exited", stopped, NEW j \in Jobs,
                      fate[j] = "queued"
               PROVE  FALSE
    BY DEF NothingLeftBehind
  <2>1. taskList = <<>>
    BY DEF IInv, ShutdownInv
  <2>2. Len(taskList) = 0
    BY <2>1
  <2>3. \E i \in 1..Len(taskList) : taskList[i] = j
    BY DEF IInv, ListInv
  <2>4. QED
    BY <2>2, <2>3
<1>2. QED
  BY <1>1, InvariantHolds, PTL

(* A Task object meets one end, and runs only from the front of the list.  *)
THEOREM EachTaskOnce == Spec => OneFate
<1> DEFINE Step ==
      \A j \in Jobs :
        /\ fate[j] \in {"executed", "expired", "deleted"} => fate'[j] = fate[j]
        /\ fate'[j] = "running" /\ fate[j] # "running" => j = Head(taskList)
<1> USE DispatcherAssumption DEF Jobs, MustWait, Popped, MayHaveExpired,
                                AcceptsTasks, MustSignal, Signalled,
                                WithTerminator
<1>1. IInv /\ [Next]_vars => [Step]_vars
  <2> SUFFICES ASSUME IInv, [Next]_vars PROVE [Step]_vars
    OBVIOUS
  <2>1. fate \in [Jobs -> Fates]
    BY DEF IInv, TypeOK
  <2>2. ASSUME Take PROVE Step
    <3>1. Head(taskList) \in Jobs /\ Head(taskList) = taskList[1]
      BY <2>2, PopFront DEF Take, IInv, TypeOK
    <3>2. Len(taskList) \in Nat \ {0}
      BY <2>2, PopFront DEF Take, IInv, TypeOK
    <3>3. fate[Head(taskList)] = "queued"
      BY <3>1, <3>2 DEF IInv, ListInv
    <3>4. QED
      BY <2>1, <2>2, <3>1, <3>3 DEF Take
  <2>3. ASSUME DropExpired \/ Finish PROVE Step
    BY <2>1, <2>3 DEF DropExpired, Finish, IInv, HeldInv
  <2>4. ASSUME NEW c \in Threads, NEW t \in Tasks, NEW b \in BOOLEAN,
               AddTask(c, t, b)
        PROVE  Step
    BY <2>1, <2>4 DEF AddTask
  <2>5. ASSUME NEW c \in Threads, Shutdown(c) PROVE Step
    BY <2>1, <2>5 DEF Shutdown
  <2>6. ASSUME fate' = fate PROVE Step
    BY <2>6
  <2>7. CASE UNCHANGED vars
    BY <2>7
  <2> HIDE DEF Step
  <2>8. CASE ThreadMain
    BY <2>2, <2>3, <2>6, <2>8 DEF ThreadMain, CheckState, LockAndWait,
       LockAndTake, WakeAndTake, WakeToEmptyList, Execute
  <2>9. CASE ~ThreadMain /\ Next
    BY <2>4, <2>5, <2>6, <2>9 DEF Next, SpuriousWakeup, Notify, Stop
  <2>10. QED
    BY <2>7, <2>8, <2>9
<1>2. QED
  BY <1>1, InvariantHolds, PTL DEF Spec, OneFate
-----------------------------------------------------------------------------
(* A step of the dispatcher is one of the abstract queue, or leaves it as  *)
(* it is.                                                                  *)
LEMMA StepSimulation == IInv /\ [Next]_vars => [Abstract!Next]_(Abstract!absVars)
<1> SUFFICES ASSUME IInv, [Next]_vars
             PROVE  [Abstract!Next]_(Abstract!absVars)
  OBVIOUS
<1> USE DispatcherAssumption DEF Jobs, MustWait, Popped, MayHaveExpired,
                                AcceptsTasks, MustSignal, Signalled,
                                WithTerminator
<1>1. /\ fate \in [Jobs -> Fates]
      /\ taskList \in Seq(Jobs)
  BY DEF IInv, TypeOK
<1>3. CASE CheckState
  <2>1. threadState = "TERMINATED" => threadState # "RUNNING"
    OBVIOUS
  <2>2. current = {}
    BY <1>3 DEF CheckState, IInv, HeldInv
  <2>3. CASE threadState = "TERMINATED"
    BY <1>3, <2>2, <2>3 DEF CheckState, Abstract!Next, Abstract!Halt
  <2>4. CASE threadState # "TERMINATED"
    BY <1>3, <2>4 DEF CheckState, Abstract!absVars
  <2>5. QED
    BY <2>3, <2>4
<1>4. ASSUME pc \in {"locking", "woken"}, Take
      PROVE  Abstract!Next
  <2>1. current = {} /\ current' = {Head(taskList)}
    BY <1>4 DEF Take, IInv, HeldInv
  <2>2. ~(pc = "exited") /\ (pc' = "exited") = (pc = "exited")
    BY <1>4 DEF Take
  <2>3. [w \in {Self} |-> current']
          = [[w \in {Self} |-> current] EXCEPT ![Self] = {Head(taskList)}]
    BY <2>1
  <2>4. Abstract!Begin(Self)
    BY <1>4, <2>1, <2>2, <2>3 DEF Take, Abstract!Begin
  <2>5. QED
    BY <2>4 DEF Abstract!Next
<1>5. CASE Execute
  <2>1. CASE threadState' = threadState
    BY <1>5, <2>1 DEF Execute, Abstract!absVars
  <2>2. CASE threadState' # threadState
    <3>1. Abstract!Close
      BY <1>5, <2>2 DEF Execute, Abstract!Close
    <3>2. QED
      BY <3>1 DEF Abstract!Next
  <2>3. QED
    BY <2>1, <2>2
<1>6. ASSUME NEW outcome \in {"executed", "expired"},
             pc \in {"taken", "executing"}, pc' = "loop",
             fate' = [j \in Jobs |-> IF j \in current THEN outcome ELSE fate[j]],
             current' = {}, UNCHANGED <<threadState, taskList>>
      PROVE  Abstract!Next
  <2>1. PICK j \in Jobs : current = {j}
    BY <1>6 DEF IInv, HeldInv, TypeOK
  <2>2. [w \in {Self} |-> current']
          = [[w \in {Self} |-> current] EXCEPT ![Self] = {}]
    BY <1>6
  <2>3. fate' = [fate EXCEPT ![j] = outcome]
    BY <1>1, <1>6, <2>1
  <2>4. Abstract!End(Self, j)
    BY <1>6, <2>1, <2>2, <2>3 DEF Abstract!End
  <2>5. QED
    BY <2>4 DEF Abstract!Next
<1>7. CASE DropExpired
  BY <1>6, <1>7 DEF DropExpired
<1>8. CASE Finish
  BY <1>6, <1>8 DEF Finish
<1>9. ASSUME NEW c \in Threads, NEW t \in Tasks, NEW b \in BOOLEAN,
             AddTask(c, t, b)
      PROVE  Abstract!Next
  <2>1. CASE threadState = "RUNNING"
    <3>1. Abstract!Submit(t)
      BY <1>9, <2>1 DEF AddTask, Abstract!Submit
    <3>2. QED
      BY <3>1 DEF Abstract!Next
  <2>2. CASE threadState # "RUNNING"
    <3>1. Abstract!Refuse(t)
      BY <1>9, <2>2 DEF AddTask, Abstract!Refuse
    <3>2. QED
      BY <3>1 DEF Abstract!Next
  <2>3. QED
    BY <2>1, <2>2
<1>10. ASSUME NEW c \in Threads, Stop(c)
       PROVE  Abstract!Next
  <2>1. Abstract!Close
    BY <1>10 DEF Stop, Abstract!Close
  <2>2. QED
    BY <2>1 DEF Abstract!Next
<1>11. ASSUME NEW c \in Threads, Shutdown(c)
       PROVE  Abstract!Next
  <2>1. (pc' = "exited") = (pc = "exited")
    BY <1>11 DEF Shutdown
  <2>2. Abstract!Submit(ShutdownTask)
    BY <1>11, <2>1 DEF Shutdown, Abstract!Submit
  <2>3. QED
    BY <2>2 DEF Abstract!Next
<1>12. CASE LockAndWait \/ WakeToEmptyList \/ SpuriousWakeup
  BY <1>12 DEF LockAndWait, WakeToEmptyList, SpuriousWakeup, Abstract!absVars
<1>13. ASSUME NEW c \in Threads, Notify(c)
       PROVE  UNCHANGED Abstract!absVars
  BY <1>13 DEF Notify, Abstract!absVars
<1>14. CASE UNCHANGED vars
  BY <1>14 DEF vars, Abstract!absVars
<1>15. QED
  BY <1>3, <1>4, <1>5, <1>7, <1>8, <1>9, <1>10, <1>11, <1>12, <1>13, <1>14
     DEF Next, ThreadMain, LockAndTake, WakeAndTake

(* Whatever the numbers of threads and tasks, the dispatcher implements    *)
(* the abstract queue with one worker: its mutex, its condition variable   *)
(* and its deferred notifications change nothing that a caller can see.    *)
THEOREM ImplementsWorkQueue == Spec => AbstractSpec
<1>1. Init => Abstract!Init
  BY DEF Init, Abstract!Init
<1>2. QED
  BY <1>1, StepSimulation, InvariantHolds, PTL
     DEF Spec, AbstractSpec, Abstract!Spec
=============================================================================
