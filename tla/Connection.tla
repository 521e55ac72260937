---------------------------- MODULE Connection ------------------------------
(***************************************************************************)
(* One client connection (connection.h, connection.cpp) from the accept to *)
(* its destructor.  The network thread runs the completion handlers of the *)
(* socket and of the two timers; the dispatcher thread sends and closes.   *)
(* Both work under connectionLock, so a handler is one action; parsePacket *)
(* is two, because the protocol it calls sends and closes on its own.      *)
(*                                                                         *)
(* An asynchronous operation that was started completes some time, with an *)
(* error or without; the peer may keep it pending for ever as long as the  *)
(* socket is open.  A timer that has fired has posted its handler, which   *)
(* cancel() does not call back.  Starting an operation or a timer may fail *)
(* with an exception (the catch blocks).                                   *)
(***************************************************************************)
EXTENDS Naturals, Sequences

CONSTANT Messages         (* the OutputMessage objects                     *)

VARIABLES
  phase,         (* where ServicePort::onAccept is with the connection     *)
  connectionState,
  socketOpen,
  inManager,     (* is it in ConnectionManager::connections?               *)
  protocol,      (* has a Protocol been made for it?                       *)
  releases,      (* Protocol::release tasks given to the dispatcher        *)
  reading,       (* the read that is pending, or whose handler is posted   *)
  parsing,       (* is parsePacket calling the protocol?                   *)
  messageQueue,
  writes,        (* async_writes whose handler has not run                 *)
  written,       (* did the one that was started last complete?            *)
  readTimer,     (* is the timer running?                                  *)
  writeTimer,
  timeouts,      (* is a handler of a timer that fired posted?             *)
  accepted,      (* history: messages send() took                          *)
  wire,          (* history: messages given to async_write                 *)
  lossy,         (* history: a write failed, or a forced close took effect *)
  destroyed

vars == <<phase, connectionState, socketOpen, inManager, protocol, releases,
          reading, parsing, messageQueue, writes, written, readTimer,
          writeTimer, timeouts, accepted, wire, lossy, destroyed>>
closeVars == <<connectionState, socketOpen, inManager, releases, lossy>>
sendVars == <<messageQueue, writes, written, accepted, wire>>

StatesOK ==
  /\ phase \in {"accepting", "greeting", "accepted", "failed"}
  /\ connectionState \in {"OPEN", "CLOSED"}
  /\ releases \in 0..1
  /\ reading \in {"none", "header", "parseHeader", "body", "parsePacket"}

FlagsOK ==
  /\ socketOpen \in BOOLEAN /\ inManager \in BOOLEAN /\ protocol \in BOOLEAN
  /\ parsing \in BOOLEAN /\ written \in BOOLEAN /\ readTimer \in BOOLEAN
  /\ writeTimer \in BOOLEAN /\ timeouts \in BOOLEAN /\ lossy \in BOOLEAN
  /\ destroyed \in BOOLEAN

QueueOK ==
  /\ messageQueue \in Seq(Messages)
  /\ writes \in 0..1
  /\ accepted \in Seq(Messages)
  /\ wire \in Seq(Messages)

TypeOK == StatesOK /\ FlagsOK /\ QueueOK

(* createConnection, and async_accept into its socket.                     *)
Init ==
  /\ phase = "accepting"
  /\ connectionState = "OPEN"
  /\ socketOpen = TRUE
  /\ inManager = TRUE
  /\ protocol = FALSE
  /\ releases = 0
  /\ reading = "none"
  /\ parsing = FALSE
  /\ messageQueue = <<>>
  /\ writes = 0
  /\ written = FALSE
  /\ readTimer = FALSE
  /\ writeTimer = FALSE
  /\ timeouts = FALSE
  /\ accepted = <<>>
  /\ wire = <<>>
  /\ lossy = FALSE
  /\ destroyed = FALSE
-----------------------------------------------------------------------------
(* The tests of connection.cpp, each with a fault that a careless edit     *)
(* could bring in; no specification uses the faults.                       *)

IsOpen == connectionState = "OPEN"

MustRelease == IsOpen /\ protocol

KeptWhileQueued == inManager /\ messageQueue # <<>>
KeptByManager == FALSE

NoSecondWrite == Len(messageQueue) <= 1
NoPendingWrite == messageQueue = <<>>

ClosesAlways(force) == TRUE
ClosesNow(force) == NoPendingWrite \/ force

NewestToSend(queue) == queue[Len(queue)]
NextToSend(queue) == Head(queue)

ReadTimerForgotten == readTimer
ReadTimerStarted == TRUE

WriteTimerStarted == TRUE
-----------------------------------------------------------------------------
(* close(force): the first call closes and posts Protocol::release; the    *)
(* socket goes at once, or after the queue when the close is graceful.     *)
ClosesSocket(force) == IsOpen /\ ClosesNow(force)

Close(force) ==
  /\ inManager' = KeptByManager
  /\ connectionState' = "CLOSED"
  /\ releases' = IF MustRelease THEN releases + 1 ELSE releases
  /\ socketOpen' = (socketOpen /\ ~ClosesSocket(force))
  /\ lossy' = (lossy \/ (IsOpen /\ force))

(* The same, when a write failed before.                                   *)
CloseAfterLoss ==
  /\ inManager' = KeptByManager
  /\ connectionState' = "CLOSED"
  /\ releases' = IF MustRelease THEN releases + 1 ELSE releases
  /\ socketOpen' = (socketOpen /\ ~IsOpen)
  /\ lossy' = TRUE

(* closeSocket() cancels both timers, if the socket is open.               *)
CancelledBy(force, timer) == timer /\ ~(socketOpen /\ ClosesSocket(force))

(* internalSend: a timer and an async_write, or close(FORCE_CLOSE) if they *)
(* cannot be started.                                                      *)
InternalSend(m) ==
  \/ /\ writes' = writes + 1
     /\ written' = FALSE
     /\ wire' = Append(wire, m)
     /\ writeTimer' = WriteTimerStarted
     /\ UNCHANGED <<closeVars, readTimer>>
  \/ /\ Close(TRUE)
     /\ readTimer' = CancelledBy(TRUE, readTimer)
     /\ UNCHANGED <<writes, written, wire, writeTimer>>

(* The next asynchronous read and its timer, or close(FORCE_CLOSE).        *)
StartRead(part) ==
  \/ /\ reading' = part
     /\ readTimer' = ReadTimerStarted
     /\ UNCHANGED <<closeVars, writeTimer>>
  \/ /\ reading' = "none"
     /\ readTimer' = FALSE
     /\ writeTimer' = CancelledBy(TRUE, writeTimer)
     /\ Close(TRUE)

(* A handler ends the chain of reads by closing.                           *)
StopReading(force) ==
  /\ reading' = "none"
  /\ readTimer' = FALSE
  /\ writeTimer' = CancelledBy(force, writeTimer)
  /\ Close(force)
-----------------------------------------------------------------------------
(* ServicePort::onAccept *)

(* accept(protocol): a single socket service speaks first.  The protocol   *)
(* may answer its onConnect task before the first read is started.         *)
AcceptProtocol ==
  /\ phase = "accepting"
  /\ phase' = "greeting"
  /\ protocol' = TRUE
  /\ UNCHANGED <<closeVars, sendVars, reading, parsing, readTimer, writeTimer,
                 timeouts, destroyed>>

(* accept(), whatever has become of the connection by then.                *)
Accept ==
  /\ phase \in {"accepting", "greeting"}
  /\ phase' = "accepted"
  /\ StartRead("header")
  /\ UNCHANGED <<protocol, parsing, sendVars, timeouts, destroyed>>

(* A banned or unknown address: close(FORCE_CLOSE).                        *)
Reject ==
  /\ phase = "accepting"
  /\ phase' = "accepted"
  /\ StopReading(TRUE)
  /\ UNCHANGED <<protocol, parsing, sendVars, timeouts, destroyed>>

(* The accept failed, or the port has no service: nobody will close it.    *)
AcceptFails ==
  /\ phase = "accepting"
  /\ phase' = "failed"
  /\ UNCHANGED <<closeVars, sendVars, protocol, reading, parsing, readTimer,
                 writeTimer, timeouts, destroyed>>
-----------------------------------------------------------------------------
(* The network thread *)

ReadCompletes ==
  /\ reading \in {"header", "body"}
  /\ socketOpen
  /\ reading' = IF reading = "header" THEN "parseHeader" ELSE "parsePacket"
  /\ UNCHANGED <<phase, closeVars, sendVars, protocol, parsing, readTimer,
                 writeTimer, timeouts, destroyed>>

(* The handlers agree on what to do about an error.                        *)
ReadFails ==
  /\ reading \in {"header", "body"}
  /\ StopReading(TRUE)
  /\ UNCHANGED <<phase, protocol, parsing, sendVars, timeouts, destroyed>>

(* A handler that finds the connection closed reads no further.            *)
ReadAfterClose ==
  /\ ~IsOpen
  /\ reading' = "none"
  /\ readTimer' = FALSE
  /\ UNCHANGED <<closeVars, writeTimer>>

ParseHeader ==
  /\ reading = "parseHeader"
  /\ \/ ReadAfterClose
     \/ IsOpen /\ StopReading(FALSE)            \* too many packets
     \/ IsOpen /\ StopReading(TRUE)             \* a bad size
     \/ IsOpen /\ StartRead("body")
  /\ UNCHANGED <<phase, protocol, parsing, sendVars, timeouts, destroyed>>

(* parsePacket up to the call of the protocol, made on the first packet.   *)
ParsePacket ==
  /\ reading = "parsePacket"
  /\ \/ /\ ReadAfterClose
        /\ UNCHANGED <<protocol, parsing>>
     \/ /\ IsOpen /\ ~protocol                 \* no protocol for it
        /\ StopReading(TRUE)
        /\ UNCHANGED <<protocol, parsing>>
     \/ /\ IsOpen
        /\ protocol' = TRUE
        /\ parsing' = TRUE
        /\ reading' = "none"
        /\ readTimer' = FALSE
        /\ UNCHANGED <<closeVars, writeTimer>>
  /\ UNCHANGED <<phase, sendVars, timeouts, destroyed>>

(* The protocol returns and the next header is read, closed or not.        *)
ParsePacketReturns ==
  /\ parsing
  /\ parsing' = FALSE
  /\ StartRead("header")
  /\ UNCHANGED <<phase, protocol, sendVars, timeouts, destroyed>>

WriteCompletes ==
  /\ writes > 0
  /\ ~written
  /\ socketOpen
  /\ written' = TRUE
  /\ UNCHANGED <<phase, closeVars, protocol, reading, parsing, messageQueue,
                 writes, readTimer, writeTimer, timeouts, accepted, wire,
                 destroyed>>

(* onWriteOperation: the next message, or the end of a graceful close.     *)
WriteNext ==
  /\ wire' = Append(wire, NextToSend(messageQueue'))
  /\ written' = FALSE
  /\ writeTimer' = WriteTimerStarted
  /\ UNCHANGED <<closeVars, writes, readTimer>>

WriteNextFails ==
  /\ CloseAfterLoss
  /\ writes' = writes - 1
  /\ writeTimer' = FALSE
  /\ readTimer' = CancelledBy(TRUE, readTimer)
  /\ UNCHANGED <<written, wire>>

WriteLast ==
  /\ writes' = writes - 1
  /\ writeTimer' = FALSE
  /\ socketOpen' = (socketOpen /\ IsOpen)
  /\ readTimer' = (readTimer /\ (IsOpen \/ ~socketOpen))
  /\ UNCHANGED <<connectionState, inManager, releases, lossy, written, wire>>

WriteSucceeds ==
  /\ writes > 0
  /\ written
  /\ ~parsing
  /\ messageQueue' = Tail(messageQueue)
  /\ \/ messageQueue' # <<>> /\ (WriteNext \/ WriteNextFails)
     \/ messageQueue' = <<>> /\ WriteLast
  /\ UNCHANGED <<phase, protocol, reading, parsing, timeouts, accepted,
                 destroyed>>

WriteFails ==
  /\ writes > 0
  /\ ~written
  /\ ~parsing
  /\ writes' = writes - 1
  /\ messageQueue' = <<>>
  /\ writeTimer' = FALSE
  /\ readTimer' = CancelledBy(TRUE, readTimer)
  /\ CloseAfterLoss
  /\ UNCHANGED <<phase, protocol, reading, parsing, written, timeouts,
                 accepted, wire, destroyed>>

(* A running timer reaches its end and posts handleTimeout.                *)
ReadTimerFires ==
  /\ readTimer
  /\ readTimer' = FALSE
  /\ timeouts' = TRUE
  /\ UNCHANGED <<phase, closeVars, sendVars, protocol, reading, parsing,
                 writeTimer, destroyed>>

WriteTimerFires ==
  /\ writeTimer
  /\ writeTimer' = FALSE
  /\ timeouts' = TRUE
  /\ UNCHANGED <<phase, closeVars, sendVars, protocol, reading, parsing,
                 readTimer, destroyed>>

HandleTimeout ==
  /\ timeouts
  /\ ~parsing
  /\ timeouts' = FALSE
  /\ \/ /\ destroyed
        /\ UNCHANGED <<closeVars, readTimer, writeTimer>>
     \/ /\ ~destroyed
        /\ Close(TRUE)
        /\ readTimer' = CancelledBy(TRUE, readTimer)
        /\ writeTimer' = CancelledBy(TRUE, writeTimer)
  /\ UNCHANGED <<phase, sendVars, protocol, reading, parsing, destroyed>>

(* The last handler that held the connection is gone: ~Connection.         *)
Destroy ==
  /\ ~destroyed
  /\ phase = "accepted"
  /\ ~inManager
  /\ reading = "none" /\ writes = 0 /\ ~parsing
  /\ destroyed' = TRUE
  /\ socketOpen' = FALSE
  /\ readTimer' = FALSE
  /\ writeTimer' = FALSE
  /\ UNCHANGED <<phase, connectionState, inManager, releases, lossy, sendVars,
                 protocol, reading, parsing, timeouts>>
-----------------------------------------------------------------------------
(* The protocol, from the dispatcher thread or from within parsePacket,    *)
(* through the weak pointer it has to the connection.                      *)

Send(m) ==
  /\ protocol
  /\ ~destroyed
  /\ \A i \in 1..Len(accepted) : accepted[i] # m
  /\ IsOpen
  /\ messageQueue' = Append(messageQueue, m)
  /\ accepted' = Append(accepted, m)
  /\ \/ NoPendingWrite /\ InternalSend(m)
     \/ /\ ~NoPendingWrite
        /\ UNCHANGED <<closeVars, writes, written, wire, readTimer, writeTimer>>
  /\ UNCHANGED <<phase, protocol, reading, parsing, timeouts, destroyed>>

Disconnect ==
  /\ protocol
  /\ ~destroyed
  /\ Close(FALSE)
  /\ readTimer' = CancelledBy(FALSE, readTimer)
  /\ writeTimer' = CancelledBy(FALSE, writeTimer)
  /\ UNCHANGED <<phase, sendVars, protocol, reading, parsing, timeouts,
                 destroyed>>

(* ConnectionManager::closeAll, at shutdown: without connectionLock, and   *)
(* without a word to the connection or its protocol.                       *)
CloseAll ==
  /\ inManager
  /\ inManager' = FALSE
  /\ socketOpen' = FALSE
  /\ lossy' = TRUE
  /\ UNCHANGED <<phase, connectionState, releases, sendVars, protocol,
                 reading, parsing, readTimer, writeTimer, timeouts, destroyed>>
-----------------------------------------------------------------------------
Next ==
  \/ AcceptProtocol \/ Accept \/ Reject \/ AcceptFails
  \/ ReadCompletes \/ ReadFails
  \/ ParseHeader \/ ParsePacket \/ ParsePacketReturns
  \/ WriteCompletes \/ WriteSucceeds \/ WriteFails
  \/ ReadTimerFires \/ WriteTimerFires \/ HandleTimeout
  \/ Destroy
  \/ \E m \in Messages : Send(m)
  \/ Disconnect
  \/ CloseAll

(* Operations pending on a closed socket are aborted, timers reach their   *)
(* end, and the network thread runs the handlers that are posted, first    *)
(* come first served: one that it keeps putting off for parsePacket is     *)
(* run.  Nothing is assumed of the peer, the dispatcher or the acceptor.   *)
Fairness ==
  /\ WF_vars(phase = "greeting" /\ Accept)
  /\ WF_vars(~socketOpen /\ ReadFails)
  /\ WF_vars(~socketOpen /\ WriteFails)
  /\ WF_vars(ParseHeader \/ ParsePacket \/ ParsePacketReturns)
  /\ SF_vars(WriteSucceeds)
  /\ WF_vars(ReadTimerFires)
  /\ WF_vars(WriteTimerFires)
  /\ SF_vars(HandleTimeout)
  /\ WF_vars(Destroy)

Spec == Init /\ [][Next]_vars /\ Fairness
-----------------------------------------------------------------------------
(* Composed writes must not overlap: there is at most one async_write, and *)
(* there is none once the queue is empty.                                  *)
OneWriteAtATime ==
  /\ writes <= 1
  /\ messageQueue = <<>> => writes = 0

(* The peer receives the messages in the order the protocol sent them,     *)
(* each at most once: what was written is a prefix of what was accepted.   *)
InOrder ==
  /\ Len(wire) <= Len(accepted)
  /\ \A i \in 1..Len(wire) : wire[i] = accepted[i]

(* The protocol is told of the end of its connection exactly once, whoever *)
(* closes first and however often.                                         *)
ReleasedOnce ==
  releases = IF protocol /\ connectionState = "CLOSED" THEN 1 ELSE 0

(* An open connection is never deaf: a read is pending on it, or about to  *)
(* be started, so that the end of the peer is noticed.                     *)
NeverDeaf ==
  phase = "accepted" /\ connectionState = "OPEN" =>
    reading # "none" \/ parsing

(* A silent peer is noticed too: a read that is pending on an open         *)
(* connection has a timer running, or its handler posted.                  *)
SilenceIsTimed ==
  connectionState = "OPEN" /\ reading # "none" => readTimer \/ timeouts

(* Together: whatever a peer stops doing, an open connection finds out.    *)
Attentive == NeverDeaf /\ SilenceIsTimed

(* disconnect() lets the peer read what was sent before: unless a write    *)
(* fails or the connection was closed by force, the socket stays open      *)
(* until the queue is empty, and later timeouts do not cut it off.         *)
GracefulCloseFlushes ==
  connectionState = "CLOSED" /\ ~lossy /\ ~socketOpen => messageQueue = <<>>

(* A peer that stops reading or writing cannot hold an open connection:    *)
(* whatever it leaves pending, the connection is closed in the end.        *)
StalledPeerIsClosed ==
  /\ phase = "accepted" /\ reading = "header" /\ connectionState = "OPEN"
       ~> reading # "header" \/ connectionState = "CLOSED"
  /\ writes = 1 /\ connectionState = "OPEN"
       ~> writes = 0 \/ connectionState = "CLOSED" \/ Len(wire) > 1

(* A connection whose socket was closed is destroyed.                      *)
ClosedIsDestroyed ==
  connectionState = "CLOSED" /\ ~socketOpen ~> destroyed

(* Together: whatever a peer stops doing, its connection comes to an end.  *)
ConnectionsEnd == StalledPeerIsClosed /\ ClosedIsDestroyed

(* The comment in close(): a connection closed with messages in its queue  *)
(* "will be closed by the destructor or onWriteOperation".                 *)
GracefulCloseEnds == connectionState = "CLOSED" ~> ~socketOpen
=============================================================================
