------------------------------- MODULE Packets --------------------------------
(***************************************************************************)
(* What a client sends, from the packet to the act: the network's thread   *)
(* parses it under the lock of its connection (Connection::parsePacket,    *)
(* ProtocolGame::parsePacket and the parse... of each kind) and adds a     *)
(* task, which the dispatcher runs later, if it has not expired by then    *)
(* (tasks.h).  Meanwhile the dispatcher may close the connection, let the  *)
(* protocol release the player, or hand the player over to another client. *)
(*                                                                         *)
(* The first protocol is in control of the player; another client may log  *)
(* in and take it (see PlayerSession for the whole of that).  What the     *)
(* acts do is left out: they find the player by its id, or they do nothing.*)
(***************************************************************************)
EXTENDS Integers, Sequences, FiniteSets

CONSTANTS
  Kinds,           (* of the packets that are sent                         *)
  Expiration,      (* DISPATCHER_TASK_EXPIRATION, in ticks                 *)
  MaxPackets, MaxTicks (* bounds                                           *)

VARIABLES
  open,            (* the protocols whose connection is open               *)
  parsing,         (* the packet the network's thread is at                *)
  acceptPackets, holds, (* each protocol: may packets come, and has it a   *)
                   (* player, which its reference keeps?                   *)
  client,          (* the protocol in control                              *)
  connecting,      (* is there an event that will connect the second?      *)
  life,            (* of the player: "dead" has no health                  *)
  shutdown,        (* GAME_STATE_SHUTDOWN                                  *)
  debugAssertSent,
  tasks,           (* of the dispatcher                                    *)
  sent, ticks,
  last,            (* history: which packet was acted on last              *)
  disorder, late,  (* history: was one acted on out of order, or too late? *)
  grace            (* history: how many may still act though he is dead    *)

netVars == <<open, parsing, acceptPackets, debugAssertSent, sent>>
playerVars == <<holds, client, connecting, life, shutdown>>
historyVars == <<last, disorder, late>>
packetVars == <<netVars, playerVars, tasks, ticks, historyVars, grace>>

Protocols == {"first", "second"}
None == "none"
Quiet == [of |-> None, at |-> None, kind |-> None]

(* ProtocolGame::parsePacket: the kinds whose task expires, those whose    *)
(* task does not, and those that are not always obeyed: a path without     *)
(* steps, what is too long to say, what is thrown to where it lies.        *)
Uses == {"useItem", "useItemEx", "useWithCreature", "throw", "rotateItem"}
Looks == {"lookAt", "lookInBattleList"}
Deals == {"lookInShop", "purchase", "sale", "lookInTrade"}
Timed == Uses \union Looks \union Deals \union {"turn", "questLog"}
Channels == {"channelInvite", "channelExclude", "openChannel", "closeChannel",
             "openPrivateChannel"}
Speech == {"say"}
Walks == {"ping", "move", "autoWalk"}
Appearance == {"setOutfit", "toggleMount"}
Container == {"closeContainer", "upArrowContainer", "updateContainer", "browseField",
              "seekInContainer"}
Fighting == {"fightModes", "attack", "follow"}
Windows == {"textWindow", "houseWindow", "modalWindowAnswer", "requestTrade"}
Friends == {"addVip", "removeVip", "editVip"}
InParty == {"inviteToParty", "joinParty", "revokePartyInvite", "passPartyLeadership",
            "enableSharedPartyExperience"}
Reports == {"bugReport", "debugAssert", "questLine", "extendedOpcode"}
Untimed == Channels \union Speech \union Walks \union Appearance \union Container \union Fighting \union Windows
           \union Friends \union InParty \union Reports
MayBeRefused == {"autoWalk", "say", "throw"}

TypeOK ==
  /\ Kinds \subseteq Timed \union Untimed \union {"logout", "leave"}
  /\ open \subseteq Protocols
  /\ parsing \in {Quiet} \union [of : Protocols, at : {"player", "health", "task", "end"},
                                 kind : Kinds]
  /\ acceptPackets \subseteq Protocols /\ holds \subseteq Protocols
  /\ client \in Protocols \union {None} /\ connecting \in BOOLEAN
  /\ life \in {"alive", "dead", "removed"}
  /\ shutdown \in BOOLEAN /\ debugAssertSent \subseteq Protocols
  /\ sent \in 0..MaxPackets /\ ticks \in 0..MaxTicks /\ last \in 0..MaxPackets
  /\ disorder \in BOOLEAN /\ late \in BOOLEAN /\ grace \in 0..(MaxPackets + 1)

Init ==
  /\ open = Protocols /\ parsing = Quiet
  /\ acceptPackets = {"first"} /\ holds = {"first"} /\ client = "first"
  /\ connecting = FALSE /\ life = "alive" /\ shutdown = FALSE /\ debugAssertSent = {}
  /\ tasks = <<[op |-> "login", of |-> "second", nr |-> 0, age |-> 0, timed |-> FALSE]>>
  /\ sent = 0 /\ ticks = 0 /\ last = 0 /\ disorder = FALSE /\ late = FALSE /\ grace = 0
-----------------------------------------------------------------------------
Job(op, p) == [op |-> op, of |-> p, nr |-> 0, age |-> 0, timed |-> FALSE]
Act(kind, p) == [op |-> "act", of |-> p, nr |-> sent, age |-> 0, timed |-> kind \in Timed]
IsAct(t) == t.op = "act"

(* Connection::close; the lock is held by the packet that is being parsed, *)
(* or free                                                                 *)
Unlocked(p) == FALSE  \* any thread at any time
Locked(p) == parsing.of = p
Closed(p, queue) ==
  /\ open' = open \ {p}
  /\ tasks' = IF p \in open THEN Append(queue, Job("release", p)) ELSE queue
-----------------------------------------------------------------------------
(* The network: a packet arrives; is there a player, is he alive?          *)
Receive(p, kind) ==
  /\ parsing = Quiet /\ p \in open /\ p \in acceptPackets /\ ~shutdown /\ sent < MaxPackets
  /\ sent' = sent + 1 /\ parsing' = [of |-> p, at |-> "player", kind |-> kind]
  /\ UNCHANGED <<open, acceptPackets, debugAssertSent, playerVars, tasks, ticks, historyVars, grace>>

Go(at) == parsing' = [parsing EXCEPT !.at = at]
ReadPlayer ==
  /\ parsing.at = "player"
  /\ IF parsing.of \in holds
     THEN Go("health") /\ UNCHANGED <<open, tasks>>
     ELSE /\ parsing' = Quiet
          /\ IF parsing.kind = "leave" THEN Closed(parsing.of, tasks) ELSE UNCHANGED <<open, tasks>>
  /\ UNCHANGED <<acceptPackets, debugAssertSent, sent, playerVars, ticks, historyVars, grace>>

ReadHealth ==
  /\ parsing.at = "health"
  /\ CASE life = "alive" \/ parsing.kind = "logout" -> Go("task") /\ UNCHANGED <<open, tasks>>
       [] life # "alive" /\ parsing.kind = "leave" ->
            parsing' = Quiet /\ Closed(parsing.of, tasks)
       [] OTHER -> parsing' = Quiet /\ UNCHANGED <<open, tasks>>
  /\ UNCHANGED <<acceptPackets, debugAssertSent, sent, playerVars, ticks, historyVars, grace>>

AddTask(refused) ==
  /\ parsing.at = "task" /\ (refused => parsing.kind \in MayBeRefused) /\ Go("end")
  /\ LET ignored == \/ refused \/ parsing.kind = "leave"
                    \/ parsing.kind = "debugAssert" /\ parsing.of \in debugAssertSent
         task == IF parsing.kind = "logout" THEN Job("logout", parsing.of)
                 ELSE Act(parsing.kind, parsing.of)
     IN  tasks' = IF ignored THEN tasks ELSE Append(tasks, task)
  /\ debugAssertSent' = IF parsing.kind = "debugAssert" THEN debugAssertSent \union {parsing.of}
                        ELSE debugAssertSent
  /\ UNCHANGED <<open, acceptPackets, sent, playerVars, ticks, historyVars, grace>>

(* A packet that is shorter than what was read of it ends the connection.  *)
EndOfPacket(overrun) ==
  /\ parsing.at = "end" /\ parsing' = Quiet
  /\ IF overrun THEN Closed(parsing.of, tasks) ELSE UNCHANGED <<open, tasks>>
  /\ UNCHANGED <<acceptPackets, debugAssertSent, sent, playerVars, ticks, historyVars, grace>>

(* Connection::parseHeader: the client is gone, or sends too much.         *)
Break(p) ==
  /\ parsing = Quiet /\ p \in open /\ Closed(p, tasks)
  /\ UNCHANGED <<parsing, acceptPackets, debugAssertSent, sent, playerVars, ticks, historyVars, grace>>
-----------------------------------------------------------------------------
Head1(op) == tasks # <<>> /\ Head(tasks).op = op
Done == tasks' = Tail(tasks)

(* Dispatcher: an act, if its time has not run out (Task::hasExpired)      *)
HasExpired(t) == t.timed /\ t.age > Expiration
Alive == IF life = "dead" THEN grace' = grace - 1 ELSE grace' = grace
Perform ==
  /\ Head1("act") /\ Done
  /\ LET t == Head(tasks)
     IN  IF HasExpired(t) \/ life = "removed"
         THEN UNCHANGED historyVars /\ Alive
         ELSE /\ last' = t.nr /\ disorder' = (disorder \/ t.nr <= last) /\ Alive
              /\ late' = (late \/ (t.timed /\ t.age > Expiration))
  /\ UNCHANGED <<netVars, playerVars, ticks>>

(* ProtocolGame::logout: who is in the game may have to stay               *)
Logout(refused) ==
  /\ Head1("logout") /\ (refused => life # "removed")
  /\ LET p == Head(tasks).of
     IN  IF refused \/ p \notin holds
         THEN Done /\ UNCHANGED <<open, life, grace>>
         ELSE /\ ~Locked(p) /\ Closed(p, Tail(tasks))
              /\ life' = "removed" /\ grace' = 0
  /\ UNCHANGED <<parsing, acceptPackets, debugAssertSent, sent, holds, client, connecting,
                 shutdown, ticks, historyVars>>

(* ProtocolGame::release *)
Release ==
  /\ Head1("release") /\ Done
  /\ LET p == Head(tasks).of
     IN  IF p \in holds /\ client = p THEN client' = None /\ holds' = holds \ {p}
         ELSE UNCHANGED <<client, holds>>
  /\ UNCHANGED <<netVars, connecting, life, shutdown, ticks, historyVars, grace>>

(* ProtocolGame::connect *)
Connected(p) ==
  /\ holds' = holds \union {p} /\ client' = p /\ acceptPackets' = acceptPackets \union {p}

(* ProtocolGame::login of the player that is in the game                   *)
Login ==
  /\ Head1("login") /\ life # "removed" /\ (client # None => ~Locked(client))
  /\ IF client = None
     THEN Done /\ Connected("second") /\ UNCHANGED <<open, connecting>>
     ELSE Closed(client, Tail(tasks)) /\ connecting' = TRUE /\ UNCHANGED <<holds, client, acceptPackets>>
  /\ UNCHANGED <<parsing, debugAssertSent, sent, life, shutdown, ticks, historyVars, grace>>

LoginAnew ==
  /\ Head1("login") /\ life = "removed" /\ Done
  /\ UNCHANGED <<netVars, playerVars, ticks, historyVars, grace>>

(* The event comes to the front of the queue, and runs next.               *)
Connect(expired) ==
  /\ connecting /\ ~Locked("second") /\ (expired => "second" \notin open) /\ connecting' = FALSE
  /\ IF life = "removed" \/ client # None
     THEN Closed("second", tasks) /\ UNCHANGED <<holds, client, acceptPackets>>
     ELSE /\ IF expired THEN UNCHANGED <<holds, client, acceptPackets>> ELSE Connected("second")
          /\ UNCHANGED <<open, tasks>>
  /\ UNCHANGED <<parsing, debugAssertSent, sent, life, shutdown, ticks, historyVars, grace>>

(* His health is gone, and soon he is.                                     *)
Acts(queue) == Cardinality({i \in 1..Len(queue) : IsAct(queue[i])})
Die ==
  /\ life = "alive" /\ life' = "dead"
  /\ grace' = Acts(tasks) + (IF parsing.at = "task" THEN 1 ELSE 0)
  /\ UNCHANGED <<netVars, holds, client, connecting, shutdown, tasks, ticks, historyVars>>
ExecuteDeath ==
  /\ life = "dead" /\ life' = "removed" /\ grace' = 0
  /\ UNCHANGED <<netVars, holds, client, connecting, shutdown, tasks, ticks, historyVars>>

Shutdown ==
  /\ ~shutdown /\ shutdown' = TRUE
  /\ UNCHANGED <<netVars, holds, client, connecting, life, tasks, ticks, historyVars, grace>>

Pass ==
  /\ ticks < MaxTicks /\ ticks' = ticks + 1
  /\ tasks' = [i \in 1..Len(tasks) |->
                 IF tasks[i].timed THEN [tasks[i] EXCEPT !.age = @ + 1] ELSE tasks[i]]
  /\ UNCHANGED <<netVars, playerVars, historyVars, grace>>

Next ==
  \/ \E p \in Protocols : Break(p) \/ \E kind \in Kinds : Receive(p, kind)
  \/ ReadPlayer \/ ReadHealth \/ Perform \/ Release \/ Login \/ LoginAnew
  \/ \E fails \in BOOLEAN : \/ AddTask(fails) \/ EndOfPacket(fails) \/ Logout(fails)
                            \/ Connect(fails)
  \/ Die \/ ExecuteDeath \/ Shutdown \/ Pass

Spec == Init /\ [][Next]_packetVars
-----------------------------------------------------------------------------
(* Between the check and the task the player is not taken from a protocol  *)
(* whose packet is being parsed, and the object is there.                  *)
PlayerIsThere == parsing.at \in {"health", "task"} => parsing.of \in holds

(* Packets are acted on in the order in which they came, those of a client *)
(* that lost control before those of the one that took it; none after its  *)
(* time; and a dead player does no more than was asked for while he lived. *)
PacketsAreSound ==
  /\ PlayerIsThere
  /\ ~disorder /\ ~late
  /\ life = "dead" => grace >= Acts(tasks)
                              + (IF parsing.at = "task" /\ parsing.kind # "logout" THEN 1 ELSE 0)
===============================================================================
