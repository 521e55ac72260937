------------------------ MODULE PlayerSessionProofs --------------------------
(***************************************************************************)
(* Proofs about PlayerSession: a protocol plays a player exactly if it is  *)
(* the client of that player, the reference counter of a Player counts,    *)
(* and the output of every protocol that logged in is sent.                *)
(***************************************************************************)
EXTENDS PlayerSession, SequenceTheorems, FiniteSetTheorems, TLAPS

(* push_back keeps the elements where they are and adds one at the end.    *)
LEMMA PushBack ==
  ASSUME NEW S, NEW s \in Seq(S), NEW e \in S
  PROVE  /\ Append(s, e) \in Seq(S)
         /\ Len(Append(s, e)) = Len(s) + 1
         /\ \A i \in 1..Len(s) : Append(s, e)[i] = s[i]
         /\ Append(s, e)[Len(s) + 1] = e
         /\ Append(s, e) # <<>>
  OBVIOUS

(* pop_front takes the first element and moves the others one place ahead. *)
LEMMA PopFront ==
  ASSUME NEW S, NEW s \in Seq(S), s # <<>>
  PROVE  /\ Head(s) \in S
         /\ Head(s) = s[1]
         /\ Tail(s) \in Seq(S)
         /\ Len(s) \in Nat \ {0}
         /\ Len(Tail(s)) = Len(s) - 1
         /\ \A i \in 1..(Len(s) - 1) : Tail(s)[i] = s[i + 1]
         /\ Len(s) = 1 => Tail(s) = <<>>
<1>1. /\ Head(s) \in S
      /\ Tail(s) \in Seq(S)
      /\ Len(Tail(s)) = Len(s) - 1
      /\ \A i \in 1..Len(Tail(s)) : Tail(s)[i] = s[i + 1]
  BY HeadTailProperties
<1>2. Len(s) \in Nat \ {0}
  BY EmptySeq
<1>3. Head(s) = s[1]
  OBVIOUS
<1>4. Len(s) = 1 => Tail(s) = <<>>
  <2> SUFFICES ASSUME Len(s) = 1, Tail(s) # <<>>
               PROVE  FALSE
    OBVIOUS
  <2>1. Len(Tail(s)) = 0
    BY <1>1
  <2>2. Len(Tail(s)) \in Nat \ {0}
    BY <1>1, EmptySeq
  <2>3. QED
    BY <2>1, <2>2
<1>5. QED
  BY <1>1, <1>2, <1>3, <1>4
-----------------------------------------------------------------------------
(* A task is in a queue; a login is in it once, and before the release of  *)
(* its protocol.                                                           *)
Within(t, q) == \E k \in 1..Len(q) : q[k] = t
LoginsFirst(q) ==
  \A k, m \in 1..Len(q) :
    q[k].op = "login" =>
      /\ q[m] = q[k] => m = k
      /\ q[m] = Task("release", q[k].of) => k < m

(* A login waits only for a protocol that asked for it and has not been    *)
(* released, and a release is for a connection that is closed.             *)
QueueInv ==
  /\ LoginsFirst(tasks)
  /\ \A p \in Protocols :
       /\ Within(Task("login", p), tasks) => asked[p] /\ ~released[p]
       /\ released[p] \/ Within(Task("release", p), tasks) => conn[p] # "open"

(* A protocol whose login did not run yet: neither it nor its Player has   *)
(* been used.                                                              *)
Unused(p) == ~asked[p] \/ Within(Task("login", p), tasks)
LoginInv ==
  \A p \in Protocols :
    Unused(p) => player[p] = None /\ eventConnect[p] = None /\ life[p] = "none"

(* A protocol that waits for its connect event plays nobody.               *)
EventInv == \A p \in Protocols : eventConnect[p] # None => player[p] = None

(* The references to a Player: that of its client and that of the game.    *)
One(condition) == IF condition THEN 1 ELSE 0
CountInv ==
  \A i \in Protocols :
    /\ refs[i] = One(client[i] # None)
               + One(life[i] = "inGame" \/ i \in toRelease)
    /\ life[i] \in {"none", "freed"} <=> refs[i] = 0
    /\ i \in toRelease => life[i] = "removed"

ObjectInv ==
  /\ player \in [Protocols -> Protocols \cup {None}]
  /\ eventConnect \in [Protocols -> Protocols \cup {None}]
  /\ life \in [Protocols -> {"none", "offline", "inGame", "removed", "freed"}]
  /\ client \in [Protocols -> Protocols \cup {None}]
  /\ refs \in [Protocols -> 0..2]
  /\ toRelease \subseteq Protocols
  /\ LoginInv /\ EventInv /\ MutualControl /\ CountInv

IInv == TypeOK /\ QueueInv /\ ObjectInv /\ AutosendRuns
-----------------------------------------------------------------------------
(* What taking the first task leaves in the queue ...                      *)
LEMMA PopTask ==
  ASSUME NEW q \in Seq(Tasks), q # <<>>, LoginsFirst(q)
  PROVE  /\ Tail(q) \in Seq(Tasks)
         /\ LoginsFirst(Tail(q))
         /\ Within(Head(q), q)
         /\ \A t \in Tasks : Within(t, Tail(q)) => Within(t, q)
         /\ \A p \in Protocols :
              Head(q) \in {Task("login", p), Task("release", p)} =>
                ~Within(Task("login", p), Tail(q))
<1>1. /\ Head(q) = q[1]
      /\ Tail(q) \in Seq(Tasks)
      /\ Len(q) \in Nat \ {0}
      /\ Len(Tail(q)) = Len(q) - 1
      /\ \A i \in 1..(Len(q) - 1) : Tail(q)[i] = q[i + 1]
  BY PopFront
<1>2. \A i \in 1..Len(Tail(q)) : Tail(q)[i] = q[i + 1] /\ i + 1 \in 2..Len(q)
  BY <1>1
<1>3. LoginsFirst(Tail(q))
  <2> SUFFICES ASSUME NEW k \in 1..Len(Tail(q)), NEW m \in 1..Len(Tail(q)),
                      Tail(q)[k].op = "login"
               PROVE  /\ Tail(q)[m] = Tail(q)[k] => m = k
                      /\ Tail(q)[m] = Task("release", Tail(q)[k].of) => k < m
    BY DEF LoginsFirst
  <2>1. /\ k + 1 \in 1..Len(q) /\ m + 1 \in 1..Len(q)
        /\ Tail(q)[k] = q[k + 1] /\ Tail(q)[m] = q[m + 1]
    BY <1>1, <1>2
  <2>2. /\ q[m + 1] = q[k + 1] => m + 1 = k + 1
        /\ q[m + 1] = Task("release", q[k + 1].of) => k + 1 < m + 1
    BY <2>1 DEF LoginsFirst
  <2>3. QED
    BY <2>1, <2>2
<1>4. Within(Head(q), q)
  BY <1>1 DEF Within
<1>5. \A t \in Tasks : Within(t, Tail(q)) => Within(t, q)
  BY <1>1, <1>2 DEF Within
<1>6. ASSUME NEW p \in Protocols,
             Head(q) \in {Task("login", p), Task("release", p)},
             Within(Task("login", p), Tail(q))
      PROVE  FALSE
  <2>1. PICK k \in 1..Len(Tail(q)) : Tail(q)[k] = Task("login", p)
    BY <1>6 DEF Within
  <2>2. k + 1 \in 2..Len(q) /\ q[k + 1] = Task("login", p) /\ 1 \in 1..Len(q)
    BY <1>1, <1>2, <2>1
  <2>3. q[k + 1].op = "login" /\ q[k + 1].of = p
    BY <2>2 DEF Task
  <2>4. CASE q[1] = Task("login", p)
    BY <2>2, <2>3, <2>4 DEF LoginsFirst
  <2>5. CASE q[1] = Task("release", p)
    BY <2>2, <2>3, <2>5 DEF LoginsFirst
  <2>6. QED
    BY <1>1, <1>6, <2>4, <2>5
<1>7. QED
  BY <1>1, <1>3, <1>4, <1>5, <1>6

(* ... and what a task at its end adds.                                    *)
LEMMA PushTask ==
  ASSUME NEW q \in Seq(Tasks), LoginsFirst(q), NEW t \in Tasks,
         t.op = "login" =>
           ~Within(t, q) /\ ~Within(Task("release", t.of), q)
  PROVE  /\ Append(q, t) \in Seq(Tasks)
         /\ LoginsFirst(Append(q, t))
         /\ \A u \in Tasks : Within(u, Append(q, t)) <=> Within(u, q) \/ u = t
<1> DEFINE r == Append(q, t)
<1>1. /\ r \in Seq(Tasks)
      /\ Len(q) \in Nat
      /\ Len(r) = Len(q) + 1
      /\ \A i \in 1..Len(q) : r[i] = q[i]
      /\ r[Len(q) + 1] = t
  BY PushBack
<1>2. \A i \in 1..Len(r) : i \in 1..Len(q) \/ i = Len(q) + 1
  BY <1>1
<1> HIDE DEF r
<1>3. \A u \in Tasks : Within(u, r) <=> Within(u, q) \/ u = t
  <2>1. ASSUME NEW u \in Tasks, Within(u, r) PROVE Within(u, q) \/ u = t
    BY <1>1, <1>2, <2>1 DEF Within
  <2>2. ASSUME NEW u \in Tasks, Within(u, q) PROVE Within(u, r)
    <3>1. PICK k \in 1..Len(q) : q[k] = u
      BY <2>2 DEF Within
    <3>2. k \in 1..Len(r) /\ r[k] = u
      BY <1>1, <3>1
    <3>3. QED
      BY <3>2 DEF Within
  <2>3. Within(t, r)
    BY <1>1 DEF Within
  <2>4. QED
    BY <2>1, <2>2, <2>3
<1>4. LoginsFirst(r)
  <2> SUFFICES ASSUME NEW k \in 1..Len(r), NEW m \in 1..Len(r), r[k].op = "login"
               PROVE  /\ r[m] = r[k] => m = k
                      /\ r[m] = Task("release", r[k].of) => k < m
    BY DEF LoginsFirst
  <2>1. CASE k \in 1..Len(q) /\ m \in 1..Len(q)
    BY <1>1, <2>1 DEF LoginsFirst
  <2>2. CASE k \in 1..Len(q) /\ m = Len(q) + 1
    <3>1. Within(r[k], q) /\ r[m] = t /\ k < m
      BY <1>1, <2>2 DEF Within
    <3>2. r[m] # r[k]
      BY <3>1
    <3>3. QED
      BY <3>1, <3>2
  <2>3. CASE k = Len(q) + 1 /\ m \in 1..Len(q)
    <3>1. Within(r[m], q) /\ r[k] = t
      BY <1>1, <2>3 DEF Within
    <3>2. QED
      BY <3>1
  <2>4. CASE k = Len(q) + 1 /\ m = Len(q) + 1
    <3>1. r[m] = t /\ r[k] = t
      BY <1>1, <2>4
    <3>2. t # Task("release", t.of)
      BY <3>1 DEF Task
    <3>3. QED
      BY <2>4, <3>1, <3>2
  <2>5. QED
    BY <1>2, <2>1, <2>2, <2>3, <2>4
<1>5. QED
  BY <1>1, <1>3, <1>4 DEF r

(* Closing a connection posts at most its release.                         *)
LEMMA DisconnectStep ==
  ASSUME TypeOK, QueueInv, NEW p \in Protocols, NEW q \in Seq(Tasks),
         LoginsFirst(q), \A t \in Tasks : Within(t, q) => Within(t, tasks),
         Disconnect(p, q)
  PROVE  /\ conn' \in [Protocols -> {"open", "closed", "gone"}]
         /\ tasks' \in Seq(Tasks)
         /\ LoginsFirst(tasks')
         /\ \A x \in Protocols :
              /\ conn'[x] = "open" => conn[x] = "open"
              /\ Within(Task("login", x), tasks') => Within(Task("login", x), q)
              /\ Within(Task("release", x), tasks') => conn'[x] # "open"
<1>1. \A x \in Protocols : Task("login", x) \in Tasks /\ Task("release", x) \in Tasks
  BY DEF Tasks, Task
<1>2. /\ conn \in [Protocols -> {"open", "closed", "gone"}]
      /\ conn' = [conn EXCEPT ![p] = IF @ = "open" THEN "closed" ELSE @]
      /\ conn' \in [Protocols -> {"open", "closed", "gone"}]
      /\ conn'[p] # "open"
      /\ \A x \in Protocols : conn'[x] = "open" => conn[x] = "open"
  BY DEF TypeOK, Disconnect
<1>3. \A x \in Protocols : Within(Task("release", x), q) => conn'[x] # "open"
  BY <1>1, <1>2 DEF QueueInv
<1>4. CASE conn[p] = "open"
  <2>1. tasks' = Append(q, Task("release", p))
    BY <1>4 DEF Disconnect, MustRelease
  <2>2. Task("release", p).op # "login"
    BY DEF Task
  <2>3. /\ tasks' \in Seq(Tasks)
        /\ LoginsFirst(tasks')
        /\ \A u \in Tasks : Within(u, tasks') <=> Within(u, q) \/ u = Task("release", p)
    BY <1>1, <2>1, <2>2, PushTask
  <2>4. \A x \in Protocols :
          /\ Task("login", x) # Task("release", p)
          /\ Task("release", x) = Task("release", p) => x = p
    BY DEF Task
  <2>5. QED
    BY <1>1, <1>2, <1>3, <2>3, <2>4
<1>5. CASE conn[p] # "open"
  BY <1>1, <1>2, <1>3, <1>5 DEF Disconnect, MustRelease
<1>6. QED
  BY <1>4, <1>5

(* The queue after a task, or after nothing but the closing of a           *)
(* connection.                                                             *)
LEMMA QueueStep ==
  ASSUME IInv, NEW q \in Seq(Tasks), LoginsFirst(q),
         \A t \in Tasks : Within(t, q) => Within(t, tasks),
         UNCHANGED <<asked, released>>,
         \/ tasks' = q /\ conn' = conn
         \/ \E x \in Protocols : Disconnect(x, q)
  PROVE  /\ conn' \in [Protocols -> {"open", "closed", "gone"}]
         /\ tasks' \in Seq(Tasks)
         /\ QueueInv'
         /\ \A x \in Protocols :
              /\ Within(Task("login", x), tasks') => Within(Task("login", x), q)
              /\ Unused(x)' => Unused(x)
<1>1. \A x \in Protocols : Task("login", x) \in Tasks /\ Task("release", x) \in Tasks
  BY DEF Tasks, Task
<1>2. /\ conn' \in [Protocols -> {"open", "closed", "gone"}]
      /\ tasks' \in Seq(Tasks)
      /\ LoginsFirst(tasks')
      /\ \A x \in Protocols :
           /\ conn'[x] = "open" => conn[x] = "open"
           /\ Within(Task("login", x), tasks') => Within(Task("login", x), q)
           /\ Within(Task("release", x), tasks') => conn'[x] # "open"
  <2>1. CASE tasks' = q /\ conn' = conn
    BY <1>1, <2>1 DEF IInv, TypeOK, QueueInv
  <2>2. CASE \E x \in Protocols : Disconnect(x, q)
    BY <2>2, DisconnectStep DEF IInv
  <2>3. QED
    BY <2>1, <2>2
<1>3. \A x \in Protocols : Within(Task("login", x), tasks') => Within(Task("login", x), tasks)
  BY <1>1, <1>2
<1>4. QueueInv'
  BY <1>2, <1>3 DEF IInv, QueueInv
<1>5. QED
  BY <1>2, <1>3, <1>4 DEF Unused

(* The task at the front is run.                                           *)
LEMMA RunStep ==
  ASSUME IInv, NEW p \in Protocols, NEW op \in {"login", "logout", "release"},
         IsNext(op, p)
  PROVE  /\ Tail(tasks) \in Seq(Tasks)
         /\ LoginsFirst(Tail(tasks))
         /\ Within(Task(op, p), tasks)
         /\ \A t \in Tasks : Within(t, Tail(tasks)) => Within(t, tasks)
         /\ op \in {"login", "release"} => ~Within(Task("login", p), Tail(tasks))
BY PopTask DEF IsNext, IInv, TypeOK, QueueInv
-----------------------------------------------------------------------------
(* What happens to the Player objects.  They stay as they are, ...         *)
LEMMA ObjectsKept ==
  ASSUME ObjectInv, \A x \in Protocols : Unused(x)' => Unused(x),
         UNCHANGED <<player, eventConnect, life, client, refs, toRelease>>
  PROVE  ObjectInv'
BY DEF ObjectInv, LoginInv, EventInv, MutualControl, CountInv

(* ... a login makes one, ...                                              *)
LEMMA ObjectMade ==
  ASSUME ObjectInv, NEW p \in Protocols, Unused(p), ~Unused(p)',
         \A x \in Protocols : Unused(x)' => Unused(x),
         NEW l \in {"offline", "inGame", "removed"},
         life' = [life EXCEPT ![p] = l],
         refs' = [refs EXCEPT ![p] = IF l = "offline" THEN 1 ELSE 2],
         player' = [player EXCEPT ![p] = p],
         client' = [client EXCEPT ![p] = p],
         toRelease' = IF l = "removed" THEN toRelease \cup {p} ELSE toRelease,
         eventConnect' = eventConnect
  PROVE  ObjectInv'
<1> USE NoneAssumption
<1>1. /\ player[p] = None /\ eventConnect[p] = None /\ life[p] = "none"
      /\ refs[p] = 0 /\ client[p] = None /\ p \notin toRelease
  BY DEF ObjectInv, LoginInv, CountInv, One
<1>2. LoginInv' /\ EventInv'
  BY <1>1 DEF ObjectInv, LoginInv, EventInv
<1>3. MutualControl'
  BY <1>1 DEF ObjectInv, MutualControl
<1>4. CountInv'
  BY <1>1 DEF ObjectInv, CountInv, One
<1>5. QED
  BY <1>2, <1>3, <1>4 DEF ObjectInv

(* ... connect() takes one over that has no client, ...                    *)
LEMMA ObjectTaken ==
  ASSUME ObjectInv, NEW p \in Protocols, NEW i \in Protocols, ~Refused(i),
         player[p] = None, ~Unused(p)',
         \A x \in Protocols : Unused(x)' => Unused(x),
         player' = [player EXCEPT ![p] = i],
         client' = [client EXCEPT ![i] = p],
         refs' = [refs EXCEPT ![i] = @ + 1],
         eventConnect' = [eventConnect EXCEPT ![p] = None],
         UNCHANGED <<life, toRelease>>
  PROVE  ObjectInv'
<1> USE NoneAssumption
<1>1. life[i] = "inGame" /\ client[i] = None /\ i \notin toRelease /\ refs[i] = 1
  BY DEF Refused, ObjectInv, CountInv, One
<1>2. LoginInv' /\ EventInv'
  BY <1>1 DEF ObjectInv, LoginInv, EventInv
<1>3. MutualControl'
  BY <1>1 DEF ObjectInv, MutualControl
<1>4. CountInv'
  BY <1>1 DEF ObjectInv, CountInv, One
<1>5. QED
  BY <1>1, <1>2, <1>3, <1>4 DEF ObjectInv

(* ... one leaves the game, ...                                            *)
LEMMA ObjectRemoved ==
  ASSUME ObjectInv, NEW i \in Protocols, RemoveCreature(i),
         \A x \in Protocols : Unused(x)' => Unused(x),
         UNCHANGED <<player, eventConnect, client, refs>>
  PROVE  ObjectInv'
<1>1. CASE AlreadyRemoved(i)
  BY <1>1, ObjectsKept DEF RemoveCreature
<1>2. CASE ~AlreadyRemoved(i)
  <2>1. /\ life[i] = "inGame"
        /\ life' = [life EXCEPT ![i] = "removed"]
        /\ toRelease' = toRelease \cup {i}
    BY <1>2 DEF RemoveCreature, AlreadyRemoved
  <2>2. LoginInv' /\ EventInv' /\ MutualControl'
    BY <2>1 DEF ObjectInv, LoginInv, EventInv, MutualControl
  <2>3. CountInv'
    BY <2>1 DEF ObjectInv, CountInv, One
  <2>4. QED
    BY <2>1, <2>2, <2>3 DEF ObjectInv
<1>3. QED
  BY <1>1, <1>2

(* ... its client lets it go, ...                                          *)
LEMMA ObjectReleased ==
  ASSUME ObjectInv, NEW p \in Protocols, NEW i \in Protocols,
         player[p] = i, client[i] = p,
         \A x \in Protocols : Unused(x)' => Unused(x),
         client' = [client EXCEPT ![i] = None],
         player' = [player EXCEPT ![p] = None],
         refs' = Dropped(i),
         life' = LifeAfterDrop(i),
         UNCHANGED <<eventConnect, toRelease>>
  PROVE  ObjectInv'
<1> USE NoneAssumption
<1>1. /\ refs[i] = 1 + One(life[i] = "inGame" \/ i \in toRelease)
      /\ refs[i] # 0
      /\ life[i] \notin {"none", "freed"}
      /\ ~Unused(p)
  BY DEF ObjectInv, CountInv, LoginInv, One
<1>2. /\ refs' = [refs EXCEPT ![i] = One(life[i] = "inGame" \/ i \in toRelease)]
      /\ refs' \in [Protocols -> 0..2]
  BY <1>1 DEF Dropped, ObjectInv, One
<1>3. /\ life' \in [Protocols -> {"none", "offline", "inGame", "removed", "freed"}]
      /\ \A x \in Protocols : x # i => life'[x] = life[x]
      /\ life'[i] = IF life[i] = "inGame" \/ i \in toRelease
                    THEN life[i] ELSE "freed"
  BY <1>1 DEF LifeAfterDrop, LastReference, ObjectInv, One
<1>4. LoginInv' /\ EventInv'
  BY <1>1, <1>3 DEF ObjectInv, LoginInv, EventInv
<1>5. MutualControl'
  BY DEF ObjectInv, MutualControl
<1>6. CountInv'
  BY <1>1, <1>2, <1>3 DEF ObjectInv, CountInv, One
<1>7. QED
  BY <1>2, <1>3, <1>4, <1>5, <1>6 DEF ObjectInv

(* ... and the game gives up the references it kept.                       *)
LEMMA ObjectsCleaned ==
  ASSUME IInv, Cleanup
  PROVE  ObjectInv'
<1>1. /\ UNCHANGED <<player, eventConnect, client, asked, tasks>>
      /\ toRelease' = {}
      /\ \A x \in Protocols : Unused(x)' = Unused(x)
  BY DEF Cleanup, netVars, Unused
<1>2. \A i \in toRelease :
        /\ i \in Protocols /\ life[i] = "removed"
        /\ refs[i] = One(client[i] # None) + 1
  BY DEF IInv, ObjectInv, CountInv, One
<1>3. \A i \in Protocols :
        /\ i \in toRelease => /\ refs'[i] = One(client[i] # None)
                              /\ life'[i] = IF client[i] = None THEN "freed" ELSE "removed"
        /\ i \notin toRelease => refs'[i] = refs[i] /\ life'[i] = life[i]
  BY <1>2 DEF Cleanup, LastReference, One
<1>4. /\ refs' \in [Protocols -> 0..2]
      /\ life' \in [Protocols -> {"none", "offline", "inGame", "removed", "freed"}]
  <2>1. \A i \in Protocols :
          /\ refs'[i] \in 0..2
          /\ life'[i] \in {"none", "offline", "inGame", "removed", "freed"}
    BY <1>3 DEF IInv, ObjectInv, One
  <2>2. /\ refs' = [i \in Protocols |-> refs'[i]]
        /\ life' = [i \in Protocols |-> life'[i]]
    BY DEF Cleanup
  <2>3. QED
    BY <2>1, <2>2
<1>5. LoginInv' /\ EventInv' /\ MutualControl'
  BY <1>1, <1>2, <1>3 DEF IInv, ObjectInv, LoginInv, EventInv, MutualControl
<1>6. CountInv'
  BY <1>1, <1>2, <1>3 DEF IInv, ObjectInv, CountInv, One
<1>7. QED
  BY <1>1, <1>4, <1>5, <1>6 DEF IInv, ObjectInv
-----------------------------------------------------------------------------
(* The output pool: a protocol is added by its login, which comes before   *)
(* its release.                                                            *)
LEMMA Buffered ==
  ASSUME IInv, NEW p \in Protocols, ~released[p], released' = released,
         AddProtocolToAutosend(p)
  PROVE  /\ bufferedProtocols' \subseteq Protocols
         /\ sendAlls' \in 0..MaxSendAlls
         /\ AutosendRuns'
<1>1. /\ MaxSendAlls \in Nat \ {0} /\ sendAlls \in 0..MaxSendAlls
      /\ bufferedProtocols \subseteq Protocols
      /\ bufferedProtocols' = bufferedProtocols \cup {p}
      /\ sendAlls' = IF bufferedProtocols = {} /\ sendAlls < MaxSendAlls
                     THEN sendAlls + 1 ELSE sendAlls
  BY SendAllAssumption DEF AddProtocolToAutosend, NoneBuffered, IInv, TypeOK
<1>2. sendAlls' \in 0..MaxSendAlls /\ sendAlls' > 0
  BY <1>1 DEF IInv, AutosendRuns
<1>3. \A x \in bufferedProtocols' : ~released'[x]
  BY <1>1 DEF IInv, AutosendRuns
<1>4. QED
  BY <1>1, <1>2, <1>3 DEF AutosendRuns

(* The three parts of the invariant make the whole.                        *)
LEMMA Whole ==
  ASSUME conn' \in [Protocols -> {"open", "closed", "gone"}],
         asked' \in [Protocols -> BOOLEAN],
         tasks' \in Seq(Tasks),
         released' \in [Protocols -> BOOLEAN],
         isConnecting' \in [Protocols -> BOOLEAN],
         bufferedProtocols' \subseteq Protocols,
         sendAlls' \in 0..MaxSendAlls,
         QueueInv', ObjectInv', AutosendRuns'
  PROVE  IInv'
BY DEF IInv, TypeOK, ObjectInv

LEMMA Typed ==
  IInv => /\ conn \in [Protocols -> {"open", "closed", "gone"}]
          /\ asked \in [Protocols -> BOOLEAN]
          /\ tasks \in Seq(Tasks)
          /\ released \in [Protocols -> BOOLEAN]
          /\ isConnecting \in [Protocols -> BOOLEAN]
          /\ bufferedProtocols \subseteq Protocols
          /\ sendAlls \in 0..MaxSendAlls
          /\ player \in [Protocols -> Protocols \cup {None}]
          /\ client \in [Protocols -> Protocols \cup {None}]
          /\ eventConnect \in [Protocols -> Protocols \cup {None}]
          /\ LoginsFirst(tasks)
          /\ ObjectInv /\ AutosendRuns
BY DEF IInv, TypeOK, QueueInv
-----------------------------------------------------------------------------
(* A login that makes a Player.                                            *)
LEMMA LoginMakes ==
  ASSUME IInv, NEW p \in Protocols, LoginRefused(p) \/ LoginPlaced(p)
  PROVE  IInv'
<1>1. /\ IsNext("login", p) /\ UNCHANGED <<asked, released, isConnecting>>
      /\ eventConnect' = eventConnect
      /\ player' = [player EXCEPT ![p] = p] /\ client' = [client EXCEPT ![p] = p]
      /\ \/ tasks' = Tail(tasks) /\ conn' = conn
         \/ Disconnect(p, Tail(tasks))
  BY DEF LoginRefused, LoginPlaced
<1>2. /\ Tail(tasks) \in Seq(Tasks) /\ LoginsFirst(Tail(tasks))
      /\ Within(Task("login", p), tasks)
      /\ \A t \in Tasks : Within(t, Tail(tasks)) => Within(t, tasks)
      /\ ~Within(Task("login", p), Tail(tasks))
  BY <1>1, RunStep
<1>3. /\ conn' \in [Protocols -> {"open", "closed", "gone"}]
      /\ tasks' \in Seq(Tasks)
      /\ QueueInv'
      /\ ~Within(Task("login", p), tasks')
      /\ \A x \in Protocols : Unused(x)' => Unused(x)
  BY <1>1, <1>2, QueueStep
<1>4. Unused(p) /\ ~Unused(p)' /\ ~released[p]
  BY <1>1, <1>2, <1>3 DEF Unused, IInv, QueueInv
<1>5. ObjectInv'
  <2>1. CASE LoginRefused(p)
    BY <1>1, <1>3, <1>4, <2>1, Typed, ObjectMade DEF LoginRefused
  <2>2. CASE LoginPlaced(p)
    BY <1>1, <1>3, <1>4, <2>2, Typed, ObjectMade DEF LoginPlaced
  <2>3. QED
    BY <2>1, <2>2 DEF LoginRefused, LoginPlaced
<1>6. /\ bufferedProtocols' \subseteq Protocols /\ sendAlls' \in 0..MaxSendAlls
      /\ AutosendRuns'
  <2>1. CASE LoginRefused(p)
    BY <1>1, <2>1, Typed DEF LoginRefused, outVars, AutosendRuns
  <2>2. CASE LoginPlaced(p)
    BY <1>1, <1>4, <2>2, Buffered DEF LoginPlaced
  <2>3. QED
    BY <2>1, <2>2
<1>7. QED
  BY <1>1, <1>3, <1>5, <1>6, Whole, Typed

(* connect() for a protocol that plays nobody and has no login to come.    *)
LEMMA ConnectStep ==
  ASSUME IInv, NEW p \in Protocols, NEW i \in Protocols,
         NEW q \in Seq(Tasks), LoginsFirst(q),
         \A t \in Tasks : Within(t, q) => Within(t, tasks),
         Connect(p, i, q), UNCHANGED <<asked, released, toRelease>>,
         player[p] = None, asked[p], ~Within(Task("login", p), q),
         eventConnect' = [eventConnect EXCEPT ![p] = None]
  PROVE  /\ conn' \in [Protocols -> {"open", "closed", "gone"}]
         /\ tasks' \in Seq(Tasks)
         /\ isConnecting' \in [Protocols -> BOOLEAN]
         /\ QueueInv' /\ ObjectInv'
<1>1. \/ tasks' = q /\ conn' = conn
      \/ Disconnect(p, q)
  BY DEF Connect, Attach
<1>2. /\ conn' \in [Protocols -> {"open", "closed", "gone"}]
      /\ tasks' \in Seq(Tasks)
      /\ QueueInv'
      /\ ~Within(Task("login", p), tasks')
      /\ \A x \in Protocols : Unused(x)' => Unused(x)
  BY <1>1, QueueStep
<1>3. ~Unused(p)'
  BY <1>2 DEF Unused
<1>4. isConnecting' \in [Protocols -> BOOLEAN]
  BY Typed DEF Connect, Attach, ConnectingAfter
<1>5. CASE UNCHANGED <<player, client, refs, life>>
  <2>1. LoginInv' /\ EventInv' /\ MutualControl' /\ CountInv'
    BY <1>2, <1>3, <1>5, Typed
       DEF ObjectInv, LoginInv, EventInv, MutualControl, CountInv
  <2>2. QED
    BY <1>2, <1>4, <1>5, <2>1, Typed DEF ObjectInv
<1>6. CASE ~Refused(i) /\ Attach(p, i, q)
  BY <1>2, <1>3, <1>4, <1>6, Typed, ObjectTaken DEF Attach
<1>7. QED
  BY <1>2, <1>4, <1>5, <1>6 DEF Connect

(* A login that finds the character in the game.                           *)
LEMMA LoginFinds ==
  ASSUME IInv, NEW p \in Protocols,
         LoginDenied(p) \/ LoginReplaces(p) \/ LoginResumes(p)
  PROVE  IInv'
<1>1. IsNext("login", p) /\ UNCHANGED <<asked, released>>
  BY DEF LoginDenied, LoginReplaces, LoginResumes
<1>2. /\ Tail(tasks) \in Seq(Tasks) /\ LoginsFirst(Tail(tasks))
      /\ Within(Task("login", p), tasks)
      /\ \A t \in Tasks : Within(t, Tail(tasks)) => Within(t, tasks)
      /\ ~Within(Task("login", p), Tail(tasks))
  BY <1>1, RunStep
<1>3. /\ asked[p] /\ ~released[p]
      /\ player[p] = None /\ eventConnect[p] = None /\ life[p] = "none"
  BY <1>2 DEF IInv, QueueInv, ObjectInv, LoginInv, Unused
<1>4. CASE LoginDenied(p)
  <2>1. /\ conn' \in [Protocols -> {"open", "closed", "gone"}]
        /\ tasks' \in Seq(Tasks) /\ QueueInv'
        /\ \A x \in Protocols : Unused(x)' => Unused(x)
    BY <1>1, <1>2, <1>4, QueueStep DEF LoginDenied
  <2>2. ObjectInv'
    BY <1>4, <2>1, Typed, ObjectsKept DEF LoginDenied
  <2>3. QED
    BY <1>1, <1>4, <2>1, <2>2, Typed, Whole DEF LoginDenied, outVars, AutosendRuns
<1>5. CASE LoginReplaces(p)
  <2>1. PICK i \in Protocols :
          /\ client[i] # None
          /\ Disconnect(client[i], Tail(tasks))
          /\ isConnecting' = [isConnecting EXCEPT ![i] = TRUE]
          /\ eventConnect' = [eventConnect EXCEPT ![p] = i]
    BY <1>5 DEF LoginReplaces, InGame
  <2>2. client[i] \in Protocols
    BY <2>1, Typed
  <2>3. /\ conn' \in [Protocols -> {"open", "closed", "gone"}]
        /\ tasks' \in Seq(Tasks) /\ QueueInv'
        /\ ~Within(Task("login", p), tasks')
        /\ \A x \in Protocols : Unused(x)' => Unused(x)
    BY <1>1, <1>2, <2>1, <2>2, QueueStep
  <2>4. ~Unused(p)'
    BY <1>1, <1>3, <2>3 DEF Unused
  <2>5. UNCHANGED <<player, life, client, refs, toRelease>>
    BY <1>5 DEF LoginReplaces
  <2>6. LoginInv' /\ EventInv' /\ MutualControl' /\ CountInv'
    BY <1>3, <2>1, <2>3, <2>4, <2>5, Typed
       DEF ObjectInv, LoginInv, EventInv, MutualControl, CountInv
  <2>7. ObjectInv'
    BY <2>1, <2>5, <2>6, Typed DEF ObjectInv
  <2>8. isConnecting' \in [Protocols -> BOOLEAN]
    BY <2>1, Typed
  <2>9. /\ bufferedProtocols' \subseteq Protocols /\ sendAlls' \in 0..MaxSendAlls
        /\ AutosendRuns'
    BY <1>1, <1>3, <1>5, Buffered DEF LoginReplaces
  <2>10. QED
    BY <1>1, <2>3, <2>7, <2>8, <2>9, Typed, Whole
<1>6. CASE LoginResumes(p)
  <2>1. PICK i \in Protocols : Connect(p, i, Tail(tasks))
    BY <1>6 DEF LoginResumes, InGame
  <2>2. eventConnect' = [eventConnect EXCEPT ![p] = None] /\ toRelease' = toRelease
    BY <1>3, <1>6, Typed DEF LoginResumes
  <2>3. /\ conn' \in [Protocols -> {"open", "closed", "gone"}]
        /\ tasks' \in Seq(Tasks)
        /\ isConnecting' \in [Protocols -> BOOLEAN]
        /\ QueueInv' /\ ObjectInv'
    BY <1>1, <1>2, <1>3, <2>1, <2>2, ConnectStep
  <2>4. /\ bufferedProtocols' \subseteq Protocols /\ sendAlls' \in 0..MaxSendAlls
        /\ AutosendRuns'
    BY <1>1, <1>3, <1>6, Buffered DEF LoginResumes
  <2>5. QED
    BY <1>1, <2>3, <2>4, Typed, Whole
<1>7. QED
  BY <1>4, <1>5, <1>6

(* The event of connect().                                                 *)
LEMMA EventStep ==
  ASSUME IInv, NEW p \in Protocols, ConnectEvent(p)
  PROVE  IInv'
<1>1. /\ eventConnect[p] \in Protocols /\ player[p] = None
      /\ asked[p] /\ ~Within(Task("login", p), tasks)
  BY DEF ConnectEvent, IInv, ObjectInv, EventInv, LoginInv, Unused
<1>2. /\ Connect(p, eventConnect[p], tasks)
      /\ eventConnect' = [eventConnect EXCEPT ![p] = None]
      /\ UNCHANGED <<asked, released, toRelease, bufferedProtocols, sendAlls>>
  BY DEF ConnectEvent, outVars
<1>3. /\ conn' \in [Protocols -> {"open", "closed", "gone"}]
      /\ tasks' \in Seq(Tasks)
      /\ isConnecting' \in [Protocols -> BOOLEAN]
      /\ QueueInv' /\ ObjectInv'
  BY <1>1, <1>2, ConnectStep, Typed
<1>4. AutosendRuns'
  BY <1>2, Typed DEF AutosendRuns
<1>5. QED
  BY <1>2, <1>3, <1>4, Typed, Whole

(* The client asks for its login.                                          *)
LEMMA AskStep ==
  ASSUME IInv, NEW p \in Protocols, RecvFirstMessage(p)
  PROVE  IInv'
<1> DEFINE t == Task("login", p)
<1>1. /\ conn[p] = "open" /\ ~asked[p]
      /\ asked' = [asked EXCEPT ![p] = TRUE]
      /\ tasks' = Append(tasks, t)
      /\ UNCHANGED <<conn, released, player, eventConnect, life, client, refs,
                     isConnecting, toRelease, bufferedProtocols, sendAlls>>
  BY DEF RecvFirstMessage, outVars
<1>2. /\ t \in Tasks /\ t.op = "login" /\ t.of = p
      /\ \A x \in Protocols :
           /\ Task("login", x) \in Tasks /\ Task("release", x) \in Tasks
           /\ Task("login", x) = t => x = p
           /\ Task("release", x) # t
  BY DEF Task, Tasks
<1>3. ~Within(t, tasks) /\ ~Within(Task("release", p), tasks) /\ ~released[p]
  BY <1>1 DEF IInv, QueueInv
<1> HIDE DEF t
<1>4. /\ tasks' \in Seq(Tasks) /\ LoginsFirst(tasks')
      /\ \A u \in Tasks : Within(u, tasks') <=> Within(u, tasks) \/ u = t
  BY <1>1, <1>2, <1>3, PushTask, Typed
<1>5. QueueInv'
  BY <1>1, <1>2, <1>3, <1>4, Typed DEF IInv, QueueInv
<1>6. \A x \in Protocols : Unused(x)' => Unused(x)
  BY <1>1, <1>2, <1>4, Typed DEF Unused
<1>7. ObjectInv'
  BY <1>1, <1>6, ObjectsKept, Typed
<1>8. AutosendRuns'
  BY <1>1, Typed DEF AutosendRuns
<1>9. QED
  BY <1>1, <1>4, <1>5, <1>7, <1>8, Typed, Whole

(* The client asks to log out.                                             *)
LEMMA AskLogoutStep ==
  ASSUME IInv, NEW p \in Protocols, RecvLogout(p)
  PROVE  IInv'
<1> DEFINE t == Task("logout", p)
<1>1. /\ tasks' = Append(tasks, t)
      /\ UNCHANGED <<conn, asked, released, player, eventConnect, life, client,
                     refs, isConnecting, toRelease, bufferedProtocols, sendAlls>>
  BY DEF RecvLogout, outVars, netVars
<1>2. /\ t \in Tasks /\ t.op # "login"
      /\ \A x \in Protocols :
           /\ Task("login", x) \in Tasks /\ Task("release", x) \in Tasks
           /\ Task("login", x) # t /\ Task("release", x) # t
  BY DEF Task, Tasks
<1> HIDE DEF t
<1>3. /\ tasks' \in Seq(Tasks) /\ LoginsFirst(tasks')
      /\ \A u \in Tasks : Within(u, tasks') <=> Within(u, tasks) \/ u = t
  BY <1>1, <1>2, PushTask, Typed
<1>4. QueueInv'
  BY <1>1, <1>2, <1>3 DEF IInv, QueueInv
<1>5. \A x \in Protocols : Unused(x)' => Unused(x)
  BY <1>1, <1>2, <1>3 DEF Unused
<1>6. ObjectInv'
  BY <1>1, <1>5, ObjectsKept, Typed
<1>7. AutosendRuns'
  BY <1>1, Typed DEF AutosendRuns
<1>8. QED
  BY <1>1, <1>3, <1>4, <1>6, <1>7, Typed, Whole

(* A connection ends.                                                      *)
LEMMA CloseStep ==
  ASSUME IInv, NEW p \in Protocols, ConnectionCloses(p) \/ ConnectionDestroyed(p)
  PROVE  IInv'
<1>1. UNCHANGED <<asked, released, player, eventConnect, life, client, refs,
                  isConnecting, toRelease, bufferedProtocols, sendAlls>>
  BY DEF ConnectionCloses, ConnectionDestroyed, outVars
<1>2. /\ conn' \in [Protocols -> {"open", "closed", "gone"}]
      /\ tasks' \in Seq(Tasks) /\ QueueInv'
      /\ \A x \in Protocols : Unused(x)' => Unused(x)
  <2>1. CASE ConnectionCloses(p)
    BY <1>1, <2>1, QueueStep, Typed DEF ConnectionCloses
  <2>2. CASE ConnectionDestroyed(p)
    BY <1>1, <2>2, Typed DEF ConnectionDestroyed, IInv, QueueInv, Unused
  <2>3. QED
    BY <2>1, <2>2
<1>3. ObjectInv'
  BY <1>1, <1>2, ObjectsKept, Typed
<1>4. AutosendRuns'
  BY <1>1, Typed DEF AutosendRuns
<1>5. QED
  BY <1>1, <1>2, <1>3, <1>4, Typed, Whole

(* A player logs out, is kicked or dies.                                   *)
LEMMA LeaveStep ==
  ASSUME IInv, NEW i \in Protocols,
         \/ \E p \in Protocols : Logout(p) /\ i = player[p]
         \/ KickPlayer(i)
         \/ Death(i)
  PROVE  IInv'
<1>1. /\ RemoveCreature(i)
      /\ UNCHANGED <<asked, released, player, eventConnect, client, refs,
                     isConnecting, bufferedProtocols, sendAlls>>
  BY DEF Logout, KickPlayer, Death, netVars, outVars
<1>2. /\ conn' \in [Protocols -> {"open", "closed", "gone"}]
      /\ tasks' \in Seq(Tasks) /\ QueueInv'
      /\ \A x \in Protocols : Unused(x)' => Unused(x)
  <2>1. CASE \E p \in Protocols : Logout(p) /\ i = player[p]
    <3>1. PICK p \in Protocols : IsNext("logout", p) /\ Disconnect(p, Tail(tasks))
      BY <2>1 DEF Logout
    <3>2. /\ Tail(tasks) \in Seq(Tasks) /\ LoginsFirst(Tail(tasks))
          /\ \A t \in Tasks : Within(t, Tail(tasks)) => Within(t, tasks)
      BY <3>1, RunStep
    <3>3. QED
      BY <1>1, <3>1, <3>2, QueueStep
  <2>2. CASE KickPlayer(i)
    <3>1. \/ tasks' = tasks /\ conn' = conn
          \/ client[i] \in Protocols /\ Disconnect(client[i], tasks)
      BY <2>2, Typed DEF KickPlayer
    <3>2. QED
      BY <1>1, <3>1, QueueStep, Typed
  <2>3. CASE Death(i)
    BY <1>1, <2>3, QueueStep, Typed DEF Death, netVars
  <2>4. QED
    BY <2>1, <2>2, <2>3
<1>3. ObjectInv'
  BY <1>1, <1>2, ObjectRemoved, Typed
<1>4. AutosendRuns'
  BY <1>1, Typed DEF AutosendRuns
<1>5. QED
  BY <1>1, <1>2, <1>3, <1>4, Typed, Whole

(* A logout is refused.                                                    *)
LEMMA StayStep ==
  ASSUME IInv, NEW p \in Protocols, LogoutRefused(p)
  PROVE  IInv'
<1>1. /\ IsNext("logout", p) /\ tasks' = Tail(tasks)
      /\ UNCHANGED <<conn, asked, released, player, eventConnect, life, client,
                     refs, isConnecting, toRelease, bufferedProtocols, sendAlls>>
  BY DEF LogoutRefused, netVars, outVars
<1>2. /\ Tail(tasks) \in Seq(Tasks) /\ LoginsFirst(Tail(tasks))
      /\ \A t \in Tasks : Within(t, Tail(tasks)) => Within(t, tasks)
  BY <1>1, RunStep
<1>3. /\ tasks' \in Seq(Tasks) /\ QueueInv'
      /\ \A x \in Protocols : Unused(x)' => Unused(x)
  BY <1>1, <1>2, QueueStep
<1>4. ObjectInv'
  BY <1>1, <1>3, ObjectsKept, Typed
<1>5. AutosendRuns'
  BY <1>1, Typed DEF AutosendRuns
<1>6. QED
  BY <1>1, <1>3, <1>4, <1>5, Typed, Whole

(* Protocol::release                                                       *)
LEMMA ReleaseStep ==
  ASSUME IInv, NEW p \in Protocols, Release(p)
  PROVE  IInv'
<1>1. /\ IsNext("release", p) /\ tasks' = Tail(tasks)
      /\ released' = [released EXCEPT ![p] = TRUE]
      /\ bufferedProtocols' = bufferedProtocols \ {p}
      /\ UNCHANGED <<conn, asked, eventConnect, isConnecting, toRelease, sendAlls>>
  BY DEF Release, netVars
<1>2. /\ Tail(tasks) \in Seq(Tasks) /\ LoginsFirst(Tail(tasks))
      /\ Within(Task("release", p), tasks)
      /\ ~Within(Task("login", p), Tail(tasks))
      /\ \A t \in Tasks : Within(t, Tail(tasks)) => Within(t, tasks)
  BY <1>1, RunStep
<1>3. \A x \in Protocols : Task("login", x) \in Tasks /\ Task("release", x) \in Tasks
  BY DEF Tasks, Task
<1>4. QueueInv'
  BY <1>1, <1>2, <1>3, Typed DEF IInv, QueueInv
<1>5. \A x \in Protocols : Unused(x)' => Unused(x)
  BY <1>1, <1>2, <1>3 DEF Unused
<1>6. ObjectInv'
  <2>1. CASE player[p] # None /\ client[player[p]] = p
    <3>1. /\ player[p] \in Protocols
          /\ client' = [client EXCEPT ![player[p]] = None]
          /\ player' = [player EXCEPT ![p] = None]
          /\ refs' = Dropped(player[p]) /\ life' = LifeAfterDrop(player[p])
      BY <2>1, Typed DEF Release, Detached
    <3>2. QED
      BY <1>1, <1>5, <2>1, <3>1, ObjectReleased, Typed
  <2>2. CASE ~(player[p] # None /\ client[player[p]] = p)
    BY <1>1, <1>5, <2>2, ObjectsKept, Typed DEF Release
  <2>3. QED
    BY <2>1, <2>2
<1>7. AutosendRuns'
  BY <1>1, Typed DEF AutosendRuns
<1>8. QED
  BY <1>1, <1>2, <1>4, <1>6, <1>7, Typed, Whole

(* The inductive step, one case per action.                                *)
LEMMA InductiveStep == IInv /\ [Next]_vars => IInv'
<1> SUFFICES ASSUME IInv, [Next]_vars PROVE IInv'
  OBVIOUS
<1>1. ASSUME NEW p \in Protocols, Logout(p) PROVE IInv'
  BY <1>1, LeaveStep, Typed DEF Logout
<1>2. CASE RunTask
  BY <1>1, <1>2, LoginMakes, LoginFinds, StayStep, ReleaseStep DEF RunTask
<1>3. CASE Cleanup
  <2>1. ObjectInv'
    BY <1>3, ObjectsCleaned
  <2>2. QueueInv' /\ AutosendRuns'
    BY <1>3, Typed DEF Cleanup, netVars, outVars, IInv, QueueInv, AutosendRuns
  <2>3. QED
    BY <1>3, <2>1, <2>2, Typed, Whole DEF Cleanup, netVars, outVars
<1>4. ASSUME UNCHANGED <<netVars, tasks, released, player, eventConnect, life,
                         client, refs, isConnecting, toRelease>>,
             bufferedProtocols' = bufferedProtocols,
             sendAlls' \in 0..MaxSendAlls,
             bufferedProtocols # {} => sendAlls' = sendAlls
      PROVE  IInv'
  <2>1. QueueInv' /\ \A x \in Protocols : Unused(x)' => Unused(x)
    BY <1>4 DEF netVars, IInv, QueueInv, Unused
  <2>2. ObjectInv'
    BY <1>4, <2>1, ObjectsKept, Typed
  <2>3. AutosendRuns'
    BY <1>4, Typed DEF AutosendRuns
  <2>4. QED
    BY <1>4, <2>1, <2>2, <2>3, Typed, Whole DEF netVars
<1>5. CASE SendAll
  BY <1>4, <1>5, SendAllAssumption, Typed DEF SendAll, NoneBuffered
<1>6. CASE UNCHANGED vars
  BY <1>4, <1>6, Typed DEF vars, outVars
<1>7. QED
  BY <1>2, <1>3, <1>5, <1>6, AskStep, AskLogoutStep, CloseStep, EventStep,
     LeaveStep DEF Next, PingTimeout

LEMMA InvariantHolds == Spec => []IInv
<1>1. Init => IInv
  <2> SUFFICES ASSUME Init PROVE IInv
    OBVIOUS
  <2>1. tasks = <<>> /\ Len(tasks) = 0 /\ tasks \in Seq(Tasks)
    BY DEF Init
  <2>2. \A t : ~Within(t, tasks)
    BY <2>1 DEF Within
  <2>3. TypeOK
    BY <2>1, SendAllAssumption DEF Init, TypeOK
  <2>4. QueueInv
    BY <2>1, <2>2 DEF Init, QueueInv, LoginsFirst
  <2>5. LoginInv /\ EventInv /\ MutualControl /\ CountInv
    BY NoneAssumption
       DEF Init, LoginInv, EventInv, MutualControl, CountInv, One
  <2>6. AutosendRuns
    BY DEF Init, AutosendRuns
  <2>7. QED
    BY <2>3, <2>4, <2>5, <2>6 DEF IInv, ObjectInv, TypeOK
<1>2. QED
  BY <1>1, InductiveStep, PTL DEF Spec
-----------------------------------------------------------------------------
(* However many protocols want to play the character, and however logins,  *)
(* takeovers, logouts, kicks and closes follow each other: control is      *)
(* mutual and exclusive, and a Player object is kept exactly as long as    *)
(* something refers to it.                                                 *)
THEOREM Control == Spec => []ControlIsSound
<1>1. ASSUME IInv, NEW i \in Protocols
      PROVE  Cardinality({p \in Protocols : player[p] = i}) = One(client[i] # None)
  <2>1. CASE client[i] = None
    <3>1. {p \in Protocols : player[p] = i} = {}
      BY <1>1, <2>1, NoneAssumption DEF IInv, ObjectInv, MutualControl
    <3>2. QED
      BY <2>1, <3>1, FS_EmptySet DEF One
  <2>2. CASE client[i] # None
    <3>1. {p \in Protocols : player[p] = i} = {client[i]}
      BY <1>1, <2>2 DEF IInv, ObjectInv, MutualControl
    <3>2. QED
      BY <2>2, <3>1, FS_Singleton DEF One
  <2>3. QED
    BY <2>1, <2>2
<1>2. IInv => ControlIsSound
  <2> SUFFICES ASSUME IInv PROVE RefsExact
    BY DEF ControlIsSound, IInv, ObjectInv
  <2>1. QED
    BY <1>1 DEF RefsExact, IInv, ObjectInv, CountInv, One
<1>3. QED
  BY <1>2, InvariantHolds, PTL

(* A protocol is buffered only until it is released, and as long as any is *)
(* buffered the next sendAll is in the scheduler.                          *)
THEOREM Autosend == Spec => []AutosendRuns
BY InvariantHolds, PTL DEF IInv
=============================================================================
