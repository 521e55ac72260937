---------------------------- MODULE PlayerSession -----------------------------
(***************************************************************************)
(* One character and the game protocols that want to play it               *)
(* (protocolgame.cpp: login, connect, logout, release; outputmessage.cpp). *)
(* All of it runs on the dispatcher thread, one task at a time; what       *)
(* interleaves is the order of the tasks, the scheduler event of connect,  *)
(* which overtakes the queue, and the life of the Connection below, which  *)
(* the network thread ends.                                                *)
(*                                                                         *)
(* A protocol logs in at most once, and that may make one Player object,   *)
(* so the objects bear the names of the protocols that made them.  Two     *)
(* sessions of one character at a time (ALLOW_CLONES) are not modelled.    *)
(***************************************************************************)
EXTENDS Naturals, Sequences, FiniteSets

CONSTANTS
  Protocols,
  None,
  MaxSendAlls           (* bound: sendAll events are counted up to this    *)

ASSUME NoneAssumption == None \notin Protocols
ASSUME SendAllAssumption == MaxSendAlls \in Nat \ {0}

VARIABLES
  conn,            (* the Connection of a protocol                         *)
  asked,           (* has it posted its login task?                        *)
  tasks,           (* the tasks of the dispatcher, oldest first            *)
  released,        (* has Protocol::release run?                           *)
  player,          (* ProtocolGame::player                                 *)
  eventConnect,    (* the player its connect event is for                  *)
  life,            (* of a Player object                                   *)
  client,          (* Player::client                                       *)
  refs,            (* its reference counter                                *)
  isConnecting,
  toRelease,       (* Game::ToReleaseCreatures                             *)
  bufferedProtocols,
  sendAlls         (* sendAll events in the scheduler                      *)

netVars == <<conn, asked>>
outVars == <<bufferedProtocols, sendAlls>>
vars == <<netVars, tasks, released, player, eventConnect, life, client, refs,
          isConnecting, toRelease, outVars>>

Tasks == [op : {"login", "logout", "release"}, of : Protocols]

TypeOK ==
  /\ conn \in [Protocols -> {"open", "closed", "gone"}]
  /\ asked \in [Protocols -> BOOLEAN]
  /\ tasks \in Seq(Tasks)
  /\ released \in [Protocols -> BOOLEAN]
  /\ player \in [Protocols -> Protocols \cup {None}]
  /\ eventConnect \in [Protocols -> Protocols \cup {None}]
  /\ life \in [Protocols -> {"none", "offline", "inGame", "removed", "freed"}]
  /\ client \in [Protocols -> Protocols \cup {None}]
  /\ refs \in [Protocols -> 0..2]
  /\ isConnecting \in [Protocols -> BOOLEAN]
  /\ toRelease \subseteq Protocols
  /\ bufferedProtocols \subseteq Protocols
  /\ sendAlls \in 0..MaxSendAlls

Init ==
  /\ conn = [p \in Protocols |-> "open"]
  /\ asked = [p \in Protocols |-> FALSE]
  /\ tasks = <<>>
  /\ released = [p \in Protocols |-> FALSE]
  /\ player = [p \in Protocols |-> None]
  /\ eventConnect = [p \in Protocols |-> None]
  /\ life = [p \in Protocols |-> "none"]
  /\ client = [p \in Protocols |-> None]
  /\ refs = [p \in Protocols |-> 0]
  /\ isConnecting = [p \in Protocols |-> FALSE]
  /\ toRelease = {}
  /\ bufferedProtocols = {}
  /\ sendAlls = 0

Task(op, p) == [op |-> op, of |-> p]
InGame == {i \in Protocols : life[i] = "inGame"}
-----------------------------------------------------------------------------
(* The tests of these functions, each preceded by a fault that a careless  *)
(* edit could bring in; no specification uses the faults.                  *)

Refused(i) == life[i] # "inGame" \/ client[i] # None

DetachedLater(p) == player[p]
Detached(p) == None

AlreadyRemoved(i) == life[i] # "inGame"

ConnectingAfter(i) == FALSE

LastReference(i) == refs[i] = 1

NoneActive == \A p \in bufferedProtocols : conn[p] # "open"
NoneBuffered == bufferedProtocols = {}

MustReleaseOnlyPlayers(p) == conn[p] = "open" /\ player[p] # None
MustRelease(p) == conn[p] = "open"
-----------------------------------------------------------------------------
(* What the functions of the code are made of.  Each is the effect on some *)
(* of the variables; q is the queue of tasks without the current one.      *)

(* Connection::close: the first call posts Protocol::release.              *)
Disconnect(p, q) ==
  /\ conn' = [conn EXCEPT ![p] = IF @ = "open" THEN "closed" ELSE @]
  /\ tasks' = IF MustRelease(p) THEN Append(q, Task("release", p)) ELSE q

(* Game::removeCreature: the object leaves the game and is put on the list *)
(* of those to release.                                                    *)
RemoveCreature(i) ==
  IF AlreadyRemoved(i)
  THEN UNCHANGED <<life, toRelease>>
  ELSE /\ life' = [life EXCEPT ![i] = "removed"]
       /\ toRelease' = toRelease \cup {i}

(* OutputMessagePool::addProtocolToAutosend                                *)
AddProtocolToAutosend(p) ==
  /\ bufferedProtocols' = bufferedProtocols \cup {p}
  /\ sendAlls' = IF NoneBuffered /\ sendAlls < MaxSendAlls
                 THEN sendAlls + 1 ELSE sendAlls

(* A reference is given up; the last one deletes the object.               *)
Dropped(i) == [refs EXCEPT ![i] = @ - 1]
LifeAfterDrop(i) ==
  IF LastReference(i) THEN [life EXCEPT ![i] = "freed"] ELSE life

(* connect(): takes over a player that has no client.  A protocol whose    *)
(* Connection object is gone leaves it alone.                              *)
Attach(p, i, q) ==
  /\ player' = [player EXCEPT ![p] = i]
  /\ client' = [client EXCEPT ![i] = p]
  /\ refs' = [refs EXCEPT ![i] = @ + 1]
  /\ isConnecting' = [isConnecting EXCEPT ![i] = ConnectingAfter(i)]
  /\ tasks' = q
  /\ UNCHANGED <<conn, life>>

Connect(p, i, q) ==
  \/ /\ Refused(i)
     /\ Disconnect(p, q)
     /\ UNCHANGED <<player, client, refs, isConnecting, life>>
  \/ /\ ~Refused(i)
     /\ conn[p] = "gone"
     /\ tasks' = q
     /\ UNCHANGED <<conn, player, client, refs, isConnecting, life>>
  \/ /\ ~Refused(i)
     /\ conn[p] # "gone"
     /\ Attach(p, i, q)
-----------------------------------------------------------------------------
(* The network thread *)

(* onRecvFirstMessage, for a client that is who it says it is.             *)
RecvFirstMessage(p) ==
  /\ conn[p] = "open"
  /\ ~asked[p]
  /\ asked' = [asked EXCEPT ![p] = TRUE]
  /\ tasks' = Append(tasks, Task("login", p))
  /\ UNCHANGED <<conn, released, player, eventConnect, life, client, refs,
                 isConnecting, toRelease, outVars>>

(* The client asks to log out: parsePacket, opcode 0x14.                   *)
RecvLogout(p) ==
  /\ conn[p] = "open"
  /\ player[p] # None
  /\ \A k \in 1..Len(tasks) : tasks[k] # Task("logout", p)
  /\ tasks' = Append(tasks, Task("logout", p))
  /\ UNCHANGED <<netVars, released, player, eventConnect, life, client, refs,
                 isConnecting, toRelease, outVars>>

(* The peer goes, or a timeout or an error closes the connection.          *)
ConnectionCloses(p) ==
  /\ conn[p] = "open"
  /\ Disconnect(p, tasks)
  /\ UNCHANGED <<asked, released, player, eventConnect, life, client, refs,
                 isConnecting, toRelease, outVars>>

(* The last handler of a closed connection is gone, and so is the object.  *)
ConnectionDestroyed(p) ==
  /\ conn[p] = "closed"
  /\ conn' = [conn EXCEPT ![p] = "gone"]
  /\ UNCHANGED <<asked, tasks, released, player, eventConnect, life, client,
                 refs, isConnecting, toRelease, outVars>>
-----------------------------------------------------------------------------
(* The dispatcher thread *)

IsNext(op, p) == tasks # <<>> /\ Head(tasks) = Task(op, p)

(* login() of a character that is not in the game: a Player object, which  *)
(* is refused (a ban, a full server, ...), placed in the game, or placed   *)
(* and sent away by the login script.                                      *)
LoginRefused(p) ==
  /\ IsNext("login", p)
  /\ InGame = {}
  /\ life' = [life EXCEPT ![p] = "offline"]
  /\ refs' = [refs EXCEPT ![p] = 1]
  /\ player' = [player EXCEPT ![p] = p]
  /\ client' = [client EXCEPT ![p] = p]
  /\ Disconnect(p, Tail(tasks))
  /\ UNCHANGED <<asked, released, eventConnect, isConnecting, toRelease,
                 outVars>>

LoginPlaced(p) ==
  /\ IsNext("login", p)
  /\ InGame = {}
  /\ refs' = [refs EXCEPT ![p] = 2]
  /\ player' = [player EXCEPT ![p] = p]
  /\ client' = [client EXCEPT ![p] = p]
  /\ \/ /\ life' = [life EXCEPT ![p] = "inGame"]
        /\ tasks' = Tail(tasks)
        /\ UNCHANGED <<conn, toRelease>>
     \/ /\ life' = [life EXCEPT ![p] = "removed"]    \* the script refuses
        /\ toRelease' = toRelease \cup {p}
        /\ Disconnect(p, Tail(tasks))
  /\ AddProtocolToAutosend(p)
  /\ UNCHANGED <<asked, released, eventConnect, isConnecting>>

(* login() of a character that is in the game.  REPLACE_KICK_ON_LOGIN may  *)
(* be switched while the server runs; when it is off the login is denied.  *)
LoginDenied(p) ==
  /\ IsNext("login", p)
  /\ InGame # {}
  /\ Disconnect(p, Tail(tasks))
  /\ UNCHANGED <<asked, released, player, eventConnect, life, client, refs,
                 isConnecting, toRelease, outVars>>

(* Else the old client is sent away and connect() comes a second later ... *)
LoginReplaces(p) ==
  /\ IsNext("login", p)
  /\ \E i \in InGame :
       /\ client[i] # None
       /\ Disconnect(client[i], Tail(tasks))
       /\ isConnecting' = [isConnecting EXCEPT ![i] = TRUE]
       /\ eventConnect' = [eventConnect EXCEPT ![p] = i]
  /\ AddProtocolToAutosend(p)
  /\ UNCHANGED <<asked, released, player, life, client, refs, toRelease>>

(* ... or at once, when there is none.                                     *)
LoginResumes(p) ==
  /\ IsNext("login", p)
  /\ \E i \in InGame :
       /\ client[i] = None
       /\ Connect(p, i, Tail(tasks))
  /\ AddProtocolToAutosend(p)
  /\ UNCHANGED <<asked, released, eventConnect, toRelease>>

(* The event of connect(); the scheduler puts it before all other tasks.   *)
ConnectEvent(p) ==
  /\ eventConnect[p] # None
  /\ eventConnect' = [eventConnect EXCEPT ![p] = None]
  /\ Connect(p, eventConnect[p], tasks)
  /\ UNCHANGED <<asked, released, toRelease, outVars>>

(* logout(): refused in a fight, by the tile or by a script, or forced.    *)
LogoutRefused(p) ==
  /\ IsNext("logout", p)
  /\ player[p] = None \/ life[player[p]] = "inGame"
  /\ tasks' = Tail(tasks)
  /\ UNCHANGED <<netVars, released, player, eventConnect, life, client, refs,
                 isConnecting, toRelease, outVars>>

Logout(p) ==
  /\ IsNext("logout", p)
  /\ player[p] # None
  /\ Disconnect(p, Tail(tasks))
  /\ RemoveCreature(player[p])
  /\ UNCHANGED <<asked, released, player, eventConnect, client, refs,
                 isConnecting, outVars>>

(* Protocol::release                                                       *)
Release(p) ==
  /\ IsNext("release", p)
  /\ tasks' = Tail(tasks)
  /\ released' = [released EXCEPT ![p] = TRUE]
  /\ IF player[p] # None /\ client[player[p]] = p
     THEN /\ client' = [client EXCEPT ![player[p]] = None]
          /\ refs' = Dropped(player[p])
          /\ life' = LifeAfterDrop(player[p])
          /\ player' = [player EXCEPT ![p] = Detached(p)]
     ELSE UNCHANGED <<client, refs, life, player>>
  /\ bufferedProtocols' = bufferedProtocols \ {p}
  /\ UNCHANGED <<netVars, eventConnect, isConnecting, toRelease, sendAlls>>

(* kickPlayer: idleness, a command, a ban, the server closing.             *)
KickPlayer(i) ==
  /\ life[i] = "inGame"
  /\ \/ /\ client[i] # None
        /\ Disconnect(client[i], tasks)
     \/ /\ client[i] = None
        /\ UNCHANGED <<conn, tasks>>
  /\ RemoveCreature(i)
  /\ UNCHANGED <<asked, released, player, eventConnect, client, refs,
                 isConnecting, outVars>>

(* sendPing: no answer for a minute.  It spares a player that is about to  *)
(* be taken over (canLogout).                                              *)
PingTimeout(i) ==
  /\ ~isConnecting[i]
  /\ KickPlayer(i)

(* The player dies: the creature is removed, the connection stays.         *)
Death(i) ==
  /\ life[i] = "inGame"
  /\ RemoveCreature(i)
  /\ UNCHANGED <<netVars, tasks, released, player, eventConnect, client, refs,
                 isConnecting, outVars>>

(* Game::cleanup drops the game's references.                              *)
Cleanup ==
  /\ toRelease # {}
  /\ toRelease' = {}
  /\ refs' = [i \in Protocols |-> IF i \in toRelease THEN refs[i] - 1
                                                     ELSE refs[i]]
  /\ life' = [i \in Protocols |-> IF i \in toRelease /\ LastReference(i)
                                  THEN "freed" ELSE life[i]]
  /\ UNCHANGED <<netVars, tasks, released, player, eventConnect, client,
                 isConnecting, outVars>>

(* sendAll: sends the buffers and comes again while there are any.         *)
SendAll ==
  /\ sendAlls > 0
  /\ sendAlls' = IF NoneBuffered THEN sendAlls - 1 ELSE sendAlls
  /\ UNCHANGED <<netVars, tasks, released, player, eventConnect, life, client,
                 refs, isConnecting, toRelease, bufferedProtocols>>
-----------------------------------------------------------------------------
RunTask ==
  \E p \in Protocols :
    \/ LoginRefused(p) \/ LoginPlaced(p) \/ LoginDenied(p)
    \/ LoginReplaces(p) \/ LoginResumes(p)
    \/ LogoutRefused(p) \/ Logout(p) \/ Release(p)

Next ==
  \/ RunTask
  \/ \E p \in Protocols :
       \/ RecvFirstMessage(p) \/ RecvLogout(p)
       \/ ConnectionCloses(p) \/ ConnectionDestroyed(p)
       \/ ConnectEvent(p)
       \/ KickPlayer(p) \/ PingTimeout(p) \/ Death(p)
  \/ Cleanup
  \/ SendAll

(* The dispatcher runs its tasks, the events come, and Game::checkCreatures*)
(* calls cleanup() again and again.                                        *)
Fairness ==
  /\ WF_vars(RunTask)
  /\ WF_vars(Cleanup)
  /\ WF_vars(SendAll)
  /\ \A p \in Protocols : WF_vars(ConnectEvent(p))

Spec == Init /\ [][Next]_vars /\ Fairness
-----------------------------------------------------------------------------
(* A protocol plays a player exactly if it is the client of that player:   *)
(* however logins, takeovers and closes follow each other, no two          *)
(* protocols play one player and none keeps one that it has lost.          *)
MutualControl ==
  \A p, i \in Protocols : player[p] = i <=> client[i] = p

(* The reference counter counts: the protocol that plays the object, and   *)
(* the game until cleanup().  Nothing refers to an object that is freed.   *)
RefsExact ==
  \A i \in Protocols :
    /\ refs[i] = Cardinality({p \in Protocols : player[p] = i})
                 + (IF life[i] = "inGame" \/ i \in toRelease THEN 1 ELSE 0)
    /\ life[i] \in {"none", "freed"} <=> refs[i] = 0

(* Who plays a player and who refers to it agree: control is mutual and    *)
(* exclusive, and the counter keeps the object as long as it is in use.    *)
ControlIsSound == TypeOK /\ MutualControl /\ RefsExact

(* The output of a protocol that logged in is sent: a sendAll event waits  *)
(* as long as any protocol is buffered, and none is buffered that has been *)
(* released.                                                               *)
AutosendRuns ==
  /\ bufferedProtocols # {} => sendAlls > 0
  /\ \A p \in bufferedProtocols : ~released[p]

(* Every protocol whose connection closes is released in the end, wherever *)
(* in its login it was.                                                    *)
ClosedIsReleased ==
  \A p \in Protocols : conn[p] # "open" ~> released[p]

(* The comment in connect(): a protocol that release() has been called for *)
(* takes no player over, "to prevent leakage of the Player".               *)
NoLeak == \A p \in Protocols : released[p] => player[p] = None
=============================================================================
