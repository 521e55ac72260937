---------------------------- MODULE NetworkProofs ---------------------------
(***************************************************************************)
(* What the modules of MCNetwork promise, for every value of their         *)
(* constants: one connection, for any number of messages; the scripts and  *)
(* the clock that runs them, for any number of names, items, timers and    *)
(* events, any hours of the day and any reloads; and how players come in:  *)
(* the server and the watchdog, the throttle, premium days, bans and       *)
(* logins, packets, and the VIP lists, for any ports, players and bounds.  *)
(***************************************************************************)
EXTENDS MCNetwork, SequenceTheorems, FiniteSetTheorems, WellFoundedInduction, TLAPS

(* While a write is pending the queue is the end of what was accepted,     *)
(* beginning with the message that is being written; an open connection    *)
(* without one has written everything.                                     *)
Backlog ==
  /\ writes = 1 =>
       /\ Len(wire) >= 1
       /\ Len(accepted) = Len(wire) - 1 + Len(messageQueue)
       /\ \A i \in 1..Len(messageQueue) :
            messageQueue[i] = accepted[Len(wire) - 1 + i]
  /\ writes = 0 /\ connectionState = "OPEN" => Len(wire) = Len(accepted)

(* Nothing has happened to a connection that is not accepted yet.          *)
Fresh ==
  phase = "accepting" =>
    /\ connectionState = "OPEN"
    /\ reading = "none" /\ ~parsing /\ ~timeouts
    /\ ~protocol /\ writes = 0 /\ ~readTimer /\ ~writeTimer

(* What keeps the socket: an open connection that closeAll() has not       *)
(* reached, or the write that a graceful close waits for.                  *)
Keeper ==
  /\ ~socketOpen /\ ~lossy => connectionState = "CLOSED"
  /\ ~inManager /\ ~lossy => connectionState = "CLOSED"
  /\ connectionState = "CLOSED" /\ ~lossy /\ socketOpen => writes = 1
  /\ connectionState = "OPEN" /\ writes = 0 => messageQueue = <<>>

(* A destroyed connection has no handler left.                             *)
Gone == destroyed => phase = "accepted" /\ reading = "none" /\ ~parsing

States ==
  /\ StatesOK
  /\ Fresh
  /\ ReleasedOnce
  /\ NeverDeaf
  /\ Gone
  /\ SilenceIsTimed

Socket ==
  /\ OneWriteAtATime
  /\ GracefulCloseFlushes
  /\ Keeper

IInv == TypeOK /\ States /\ Socket /\ InOrder /\ Backlog

(* The flags are booleans whatever happens to them.                        *)
LEMMA FlagsTyped ==
  FlagsOK /\ [Next]_vars => FlagsOK'
<1> SUFFICES ASSUME FlagsOK, [Next]_vars
             PROVE  FlagsOK'
  OBVIOUS
<1> USE DEF IsOpen, MustRelease, KeptByManager, NoPendingWrite, ClosesNow,
  ClosesSocket, CancelledBy, ReadTimerStarted, WriteTimerStarted, closeVars,
  sendVars, FlagsOK
<1>1. CASE UNCHANGED vars
  BY <1>1 DEF vars
<1>2. CASE AcceptProtocol
  BY <1>2 DEF AcceptProtocol
<1>3. CASE Accept
  BY <1>3 DEF Accept, StartRead, Close
<1>4. CASE Reject
  BY <1>4 DEF Reject, StopReading, Close
<1>5. CASE AcceptFails
  BY <1>5 DEF AcceptFails
<1>6. CASE ReadCompletes
  BY <1>6 DEF ReadCompletes
<1>7. CASE ReadFails
  BY <1>7 DEF ReadFails, StopReading, Close
<1>8. CASE ParseHeader
  BY <1>8 DEF ParseHeader, ReadAfterClose, StopReading, StartRead, Close
<1>9. CASE ParsePacket
  BY <1>9 DEF ParsePacket, ReadAfterClose, StopReading, Close
<1>10. CASE ParsePacketReturns
  BY <1>10 DEF ParsePacketReturns, StartRead, Close
<1>11. CASE WriteCompletes
  BY <1>11 DEF WriteCompletes
<1>12. CASE WriteSucceeds
  <2>1. /\ writes > 0
        /\ UNCHANGED <<phase, protocol, reading, parsing, timeouts, accepted,
                       destroyed>>
    BY <1>12 DEF WriteSucceeds
  <2>2. CASE messageQueue' # <<>> /\ WriteNext
    BY <2>1, <2>2 DEF WriteNext
  <2>3. CASE messageQueue' # <<>> /\ WriteNextFails
    BY <2>1, <2>3 DEF WriteNextFails, CloseAfterLoss
  <2>4. CASE messageQueue' = <<>> /\ WriteLast
    BY <2>1, <2>4 DEF WriteLast
  <2> QED BY <1>12, <2>2, <2>3, <2>4 DEF WriteSucceeds
<1>13. CASE WriteFails
  BY <1>13 DEF WriteFails, Close, CloseAfterLoss
<1>14. CASE ReadTimerFires
  BY <1>14 DEF ReadTimerFires
<1>15. CASE WriteTimerFires
  BY <1>15 DEF WriteTimerFires
<1>16. CASE HandleTimeout
  BY <1>16 DEF HandleTimeout, Close
<1>17. CASE Destroy
  BY <1>17 DEF Destroy
<1>18. ASSUME NEW m \in Messages, Send(m)
      PROVE  FlagsOK'
  BY <1>18 DEF Send, InternalSend, Close
<1>19. CASE Disconnect
  BY <1>19 DEF Disconnect, Close
<1>20. CASE CloseAll
  BY <1>20 DEF CloseAll
<1> QED BY <1>1, <1>2, <1>3, <1>4, <1>5, <1>6, <1>7, <1>8, <1>9, <1>10,
  <1>11, <1>12, <1>13, <1>14, <1>15, <1>16, <1>17, <1>18, <1>19, <1>20 DEF
  Next

(* A handler starts the next operation with its timer, or closes; once.    *)
LEMMA StatesStep ==
  FlagsOK /\ QueueOK /\ States /\ [Next]_vars => States'
<1> SUFFICES ASSUME FlagsOK, QueueOK, States, [Next]_vars
             PROVE  States'
  OBVIOUS
<1> USE DEF IsOpen, MustRelease, KeptByManager, NoPendingWrite, ClosesNow,
  ClosesSocket, CancelledBy, ReadTimerStarted, WriteTimerStarted, closeVars,
  sendVars, States, FlagsOK, StatesOK, QueueOK, Fresh, ReleasedOnce,
  NeverDeaf, Gone, SilenceIsTimed
<1>1. CASE UNCHANGED vars
  BY <1>1 DEF vars
<1>2. CASE AcceptProtocol
  BY <1>2 DEF AcceptProtocol
<1>3. CASE Accept
  BY <1>3 DEF Accept, StartRead, Close
<1>4. CASE Reject
  BY <1>4 DEF Reject, StopReading, Close
<1>5. CASE AcceptFails
  BY <1>5 DEF AcceptFails
<1>6. CASE ReadCompletes
  BY <1>6 DEF ReadCompletes
<1>7. CASE ReadFails
  BY <1>7 DEF ReadFails, StopReading, Close
<1>8. CASE ParseHeader
  BY <1>8 DEF ParseHeader, ReadAfterClose, StopReading, StartRead, Close
<1>9. CASE ParsePacket
  BY <1>9 DEF ParsePacket, ReadAfterClose, StopReading, Close
<1>10. CASE ParsePacketReturns
  BY <1>10 DEF ParsePacketReturns, StartRead, Close
<1>11. CASE WriteCompletes
  BY <1>11 DEF WriteCompletes
<1>12. CASE WriteSucceeds
  <2>1. /\ writes > 0
        /\ UNCHANGED <<phase, protocol, reading, parsing, timeouts, accepted,
                       destroyed>>
    BY <1>12 DEF WriteSucceeds
  <2>2. CASE messageQueue' # <<>> /\ WriteNext
    BY <2>1, <2>2 DEF WriteNext
  <2>3. CASE messageQueue' # <<>> /\ WriteNextFails
    BY <2>1, <2>3 DEF WriteNextFails, CloseAfterLoss
  <2>4. CASE messageQueue' = <<>> /\ WriteLast
    BY <2>1, <2>4 DEF WriteLast
  <2> QED BY <1>12, <2>2, <2>3, <2>4 DEF WriteSucceeds
<1>13. CASE WriteFails
  BY <1>13 DEF WriteFails, Close, CloseAfterLoss
<1>14. CASE ReadTimerFires
  BY <1>14 DEF ReadTimerFires
<1>15. CASE WriteTimerFires
  BY <1>15 DEF WriteTimerFires
<1>16. CASE HandleTimeout
  BY <1>16 DEF HandleTimeout, Close
<1>17. CASE Destroy
  BY <1>17 DEF Destroy
<1>18. ASSUME NEW m \in Messages, Send(m)
      PROVE  States'
  BY <1>18 DEF Send, InternalSend, Close
<1>19. CASE Disconnect
  BY <1>19 DEF Disconnect, Close
<1>20. CASE CloseAll
  BY <1>20 DEF CloseAll
<1> QED BY <1>1, <1>2, <1>3, <1>4, <1>5, <1>6, <1>7, <1>8, <1>9, <1>10,
  <1>11, <1>12, <1>13, <1>14, <1>15, <1>16, <1>17, <1>18, <1>19, <1>20 DEF
  Next

(* A write begins when there is none; an early close is a loss.            *)
LEMMA SocketStep ==
  TypeOK /\ Fresh /\ Socket /\ [Next]_vars => Socket'
<1> SUFFICES ASSUME TypeOK, Fresh, Socket, [Next]_vars
             PROVE  Socket'
  OBVIOUS
<1> USE DEF IsOpen, MustRelease, KeptByManager, NoPendingWrite, ClosesNow,
  ClosesSocket, CancelledBy, ReadTimerStarted, WriteTimerStarted, closeVars,
  sendVars, Socket, TypeOK, FlagsOK, StatesOK, QueueOK, Fresh,
  OneWriteAtATime, GracefulCloseFlushes, Keeper
<1>1. CASE UNCHANGED vars
  BY <1>1 DEF vars
<1>2. CASE AcceptProtocol
  BY <1>2 DEF AcceptProtocol
<1>3. CASE Accept
  BY <1>3 DEF Accept, StartRead, Close
<1>4. CASE Reject
  BY <1>4 DEF Reject, StopReading, Close
<1>5. CASE AcceptFails
  BY <1>5 DEF AcceptFails
<1>6. CASE ReadCompletes
  BY <1>6 DEF ReadCompletes
<1>7. CASE ReadFails
  BY <1>7 DEF ReadFails, StopReading, Close
<1>8. CASE ParseHeader
  BY <1>8 DEF ParseHeader, ReadAfterClose, StopReading, StartRead, Close
<1>9. CASE ParsePacket
  BY <1>9 DEF ParsePacket, ReadAfterClose, StopReading, Close
<1>10. CASE ParsePacketReturns
  BY <1>10 DEF ParsePacketReturns, StartRead, Close
<1>11. CASE WriteCompletes
  BY <1>11 DEF WriteCompletes
<1>12. CASE WriteSucceeds
  <2>1. /\ writes > 0
        /\ UNCHANGED <<phase, protocol, reading, parsing, timeouts, accepted,
                       destroyed>>
    BY <1>12 DEF WriteSucceeds
  <2>2. CASE messageQueue' # <<>> /\ WriteNext
    BY <2>1, <2>2 DEF WriteNext
  <2>3. CASE messageQueue' # <<>> /\ WriteNextFails
    BY <2>1, <2>3 DEF WriteNextFails, CloseAfterLoss
  <2>4. CASE messageQueue' = <<>> /\ WriteLast
    BY <2>1, <2>4 DEF WriteLast
  <2> QED BY <1>12, <2>2, <2>3, <2>4 DEF WriteSucceeds
<1>13. CASE WriteFails
  BY <1>13 DEF WriteFails, Close, CloseAfterLoss
<1>14. CASE ReadTimerFires
  BY <1>14 DEF ReadTimerFires
<1>15. CASE WriteTimerFires
  BY <1>15 DEF WriteTimerFires
<1>16. CASE HandleTimeout
  BY <1>16 DEF HandleTimeout, Close
<1>17. CASE Destroy
  BY <1>17 DEF Destroy
<1>18. ASSUME NEW m \in Messages, Send(m)
      PROVE  Socket'
  BY <1>18 DEF Send, InternalSend, Close
<1>19. CASE Disconnect
  BY <1>19 DEF Disconnect, Close
<1>20. CASE CloseAll
  BY <1>20 DEF CloseAll
<1> QED BY <1>1, <1>2, <1>3, <1>4, <1>5, <1>6, <1>7, <1>8, <1>9, <1>10,
  <1>11, <1>12, <1>13, <1>14, <1>15, <1>16, <1>17, <1>18, <1>19, <1>20 DEF
  Next
-----------------------------------------------------------------------------
(* Only a send and the completion of a write touch the queue and the wire. *)
LEMMA QueueFrame ==
  ASSUME [Next]_vars
  PROVE  \/ /\ UNCHANGED sendVars
            /\ connectionState' \in {connectionState, "CLOSED"}
         \/ UNCHANGED connectionState /\ WriteCompletes
         \/ WriteSucceeds
         \/ WriteFails
         \/ \E m \in Messages : Send(m)
<1>1. CASE UNCHANGED vars
  BY <1>1 DEF vars, sendVars
<1>2. CASE AcceptProtocol \/ AcceptFails \/ ReadCompletes \/ ReadTimerFires
           \/ WriteTimerFires
  BY <1>2 DEF AcceptProtocol, AcceptFails, ReadCompletes, ReadTimerFires,
     WriteTimerFires, closeVars
<1>3. CASE Accept \/ ParsePacketReturns
  BY <1>3 DEF Accept, ParsePacketReturns, StartRead, Close, closeVars
<1>4. CASE Reject \/ ReadFails
  BY <1>4 DEF Reject, ReadFails, StopReading, Close
<1>5. CASE ParseHeader
  BY <1>5 DEF ParseHeader, ReadAfterClose, StopReading, StartRead, Close,
     closeVars
<1>6. CASE ParsePacket
  BY <1>6 DEF ParsePacket, ReadAfterClose, StopReading, Close, closeVars
<1>7. CASE HandleTimeout \/ Disconnect
  BY <1>7 DEF HandleTimeout, Disconnect, Close, closeVars
<1>8. CASE Destroy \/ CloseAll
  BY <1>8 DEF Destroy, CloseAll
<1>9. CASE WriteCompletes
  BY <1>9 DEF WriteCompletes, closeVars
<1> QED
  BY <1>1, <1>2, <1>3, <1>4, <1>5, <1>6, <1>7, <1>8, <1>9 DEF Next

LEMMA QueueTyped ==
  QueueOK /\ OneWriteAtATime /\ [Next]_vars => QueueOK'
<1> SUFFICES ASSUME QueueOK, OneWriteAtATime, [Next]_vars
             PROVE  QueueOK'
  OBVIOUS
<1>1. CASE UNCHANGED sendVars
  BY <1>1 DEF sendVars, QueueOK
<1>2. CASE WriteCompletes
  BY <1>2 DEF WriteCompletes, QueueOK
<1>3. CASE WriteSucceeds
  <2>1. /\ messageQueue # <<>>
        /\ messageQueue' = Tail(messageQueue)
        /\ writes = 1
        /\ accepted' = accepted
    BY <1>3 DEF WriteSucceeds, OneWriteAtATime, QueueOK
  <2>2. messageQueue' \in Seq(Messages)
    BY <2>1 DEF QueueOK
  <2>3. CASE messageQueue' # <<>> /\ WriteNext
    <3>1. NextToSend(messageQueue') \in Messages
      BY <2>2, <2>3 DEF NextToSend
    <3> QED BY <2>1, <2>2, <2>3, <3>1 DEF WriteNext, QueueOK
  <2>4. CASE WriteNextFails
    BY <2>1, <2>2, <2>4 DEF WriteNextFails, QueueOK
  <2>5. CASE WriteLast
    BY <2>1, <2>2, <2>5 DEF WriteLast, QueueOK
  <2> QED BY <1>3, <2>3, <2>4, <2>5 DEF WriteSucceeds
<1>4. CASE WriteFails
  BY <1>4 DEF WriteFails, QueueOK
<1>5. ASSUME NEW m \in Messages, Send(m)
      PROVE  QueueOK'
  <2>1. CASE NoPendingWrite /\ InternalSend(m)
    <3>1. writes = 0
      BY <2>1 DEF NoPendingWrite, OneWriteAtATime
    <3>2. messageQueue' \in Seq(Messages) /\ accepted' \in Seq(Messages)
      BY <1>5 DEF Send, QueueOK
    <3>3. CASE writes' = writes + 1 /\ wire' = Append(wire, m)
      BY <3>1, <3>2, <3>3 DEF QueueOK
    <3>4. CASE UNCHANGED <<writes, wire>>
      BY <3>2, <3>4 DEF QueueOK
    <3> QED BY <2>1, <3>3, <3>4 DEF InternalSend
  <2>2. CASE ~NoPendingWrite
    BY <1>5, <2>2 DEF Send, QueueOK
  <2> QED BY <1>5, <2>1, <2>2 DEF Send
<1> QED BY QueueFrame, <1>1, <1>2, <1>3, <1>4, <1>5

LEMMA OrderStep ==
  QueueOK /\ OneWriteAtATime /\ Keeper /\ InOrder /\ Backlog /\ [Next]_vars
    => InOrder' /\ Backlog'
<1> SUFFICES ASSUME QueueOK, OneWriteAtATime, Keeper, InOrder, Backlog,
                    [Next]_vars
             PROVE  InOrder' /\ Backlog'
  OBVIOUS
<1>1. CASE UNCHANGED sendVars /\ connectionState' \in {connectionState, "CLOSED"}
  BY <1>1 DEF sendVars, InOrder, Backlog
<1>2. CASE UNCHANGED connectionState /\ WriteCompletes
  BY <1>2 DEF WriteCompletes, InOrder, Backlog
<1>3. CASE WriteSucceeds
  <2>1. /\ messageQueue # <<>>
        /\ messageQueue' = Tail(messageQueue)
        /\ writes = 1
        /\ accepted' = accepted
    BY <1>3 DEF WriteSucceeds, OneWriteAtATime, QueueOK
  <2>2. /\ Len(messageQueue') = Len(messageQueue) - 1
        /\ \A i \in 1..Len(messageQueue') :
             messageQueue'[i] = messageQueue[i + 1]
    BY <2>1 DEF QueueOK
  <2>3. CASE messageQueue' # <<>> /\ WriteNext
    <3>1. /\ wire' = Append(wire, messageQueue'[1])
          /\ writes' = 1
      BY <2>1, <2>3 DEF WriteNext, NextToSend, QueueOK
    <3>2. Len(messageQueue') >= 1
      BY <2>1, <2>3 DEF QueueOK
    <3>3. messageQueue'[1] = accepted[Len(wire) + 1]
      BY <2>1, <2>2, <3>2 DEF Backlog, QueueOK
    <3>4. /\ Len(wire') = Len(wire) + 1
          /\ wire'[Len(wire) + 1] = messageQueue'[1]
          /\ \A i \in 1..Len(wire) : wire'[i] = wire[i]
      BY <2>1, <3>1, <3>2, QueueTyped DEF QueueOK
    <3>5. InOrder'
      BY <2>1, <2>2, <3>2, <3>3, <3>4 DEF InOrder, Backlog, QueueOK
    <3>6. Len(accepted) = Len(wire) - 1 + Len(messageQueue)
      BY <2>1 DEF Backlog
    <3>7. ASSUME NEW i \in 1..Len(messageQueue')
          PROVE  messageQueue'[i] = accepted'[Len(wire') - 1 + i]
      <4>1. i + 1 \in 1..Len(messageQueue)
        BY <2>1, <2>2 DEF QueueOK
      <4>2. messageQueue[i + 1] = accepted[Len(wire) - 1 + (i + 1)]
        BY <2>1, <4>1 DEF Backlog
      <4>3. Len(wire) - 1 + (i + 1) = Len(wire') - 1 + i
        BY <3>4 DEF QueueOK
      <4> QED BY <2>1, <2>2, <4>2, <4>3
    <3>8. Backlog'
      BY <2>1, <2>2, <3>1, <3>4, <3>6, <3>7 DEF Backlog, QueueOK
    <3> QED BY <3>5, <3>8
  <2>4. CASE WriteNextFails
    BY <2>1, <2>4 DEF WriteNextFails, CloseAfterLoss, InOrder, Backlog
  <2>5. CASE messageQueue' = <<>> /\ WriteLast
    <3>1. Len(wire) = Len(accepted)
      <4>1. Len(messageQueue') = 0
        BY <2>5
      <4>2. Len(messageQueue) = 1
        BY <2>1, <2>2, <4>1 DEF QueueOK
      <4> QED BY <2>1, <4>2 DEF Backlog, QueueOK
    <3> QED BY <2>1, <2>5, <3>1 DEF WriteLast, InOrder, Backlog
  <2> QED BY <1>3, <2>3, <2>4, <2>5 DEF WriteSucceeds
<1>4. CASE WriteFails
  <2>1. writes' = 0
    BY <1>4 DEF WriteFails, QueueOK
  <2> QED BY <1>4, <2>1 DEF WriteFails, CloseAfterLoss, InOrder, Backlog
<1>5. ASSUME NEW m \in Messages, Send(m)
      PROVE  InOrder' /\ Backlog'
  <2>1. /\ messageQueue' = Append(messageQueue, m)
        /\ accepted' = Append(accepted, m)
        /\ connectionState = "OPEN"
    BY <1>5 DEF Send, IsOpen
  <2>2. /\ Len(messageQueue') = Len(messageQueue) + 1
        /\ messageQueue'[Len(messageQueue) + 1] = m
        /\ \A i \in 1..Len(messageQueue) : messageQueue'[i] = messageQueue[i]
    BY <2>1 DEF QueueOK
  <2>3. /\ Len(accepted') = Len(accepted) + 1
        /\ accepted'[Len(accepted) + 1] = m
        /\ \A i \in 1..Len(accepted) : accepted'[i] = accepted[i]
    BY <2>1 DEF QueueOK
  <2>4. CASE NoPendingWrite /\ InternalSend(m)
    <3>1. /\ messageQueue = <<>>
          /\ writes = 0
          /\ Len(wire) = Len(accepted)
      BY <2>1, <2>4 DEF NoPendingWrite, OneWriteAtATime, Backlog
    <3>2. CASE writes' = writes + 1 /\ wire' = Append(wire, m)
      <4>1. /\ Len(wire') = Len(wire) + 1
            /\ wire'[Len(wire) + 1] = m
            /\ \A i \in 1..Len(wire) : wire'[i] = wire[i]
        BY <3>2 DEF QueueOK
      <4>2. Len(messageQueue') = 1 /\ messageQueue'[1] = m
        BY <2>2, <3>1
      <4>3. InOrder'
        BY <2>3, <3>1, <4>1 DEF InOrder, QueueOK
      <4>4. Backlog'
        BY <2>3, <3>1, <3>2, <4>1, <4>2 DEF Backlog, QueueOK
      <4> QED BY <4>3, <4>4
    <3>3. CASE Close(TRUE) /\ UNCHANGED <<writes, wire>>
      <4>1. InOrder'
        BY <2>3, <3>1, <3>3 DEF InOrder, QueueOK
      <4>2. Backlog'
        BY <3>1, <3>3 DEF Close, Backlog
      <4> QED BY <4>1, <4>2
    <3> QED BY <2>4, <3>2, <3>3 DEF InternalSend
  <2>5. CASE ~NoPendingWrite
    <3>1. UNCHANGED <<writes, wire, connectionState>>
      BY <1>5, <2>5 DEF Send, closeVars
    <3>2. writes = 1
      BY <2>1, <2>5 DEF NoPendingWrite, Keeper, QueueOK
    <3>3. InOrder'
      BY <2>3, <3>1 DEF InOrder, QueueOK
    <3>4. /\ Len(wire) >= 1
          /\ Len(accepted) = Len(wire) - 1 + Len(messageQueue)
      BY <3>2 DEF Backlog
    <3>5. ASSUME NEW i \in 1..Len(messageQueue')
          PROVE  messageQueue'[i] = accepted'[Len(wire) - 1 + i]
      <4>1. CASE i = Len(messageQueue) + 1
        BY <2>2, <2>3, <3>4, <4>1 DEF QueueOK
      <4>2. CASE i \in 1..Len(messageQueue)
        <5>1. messageQueue[i] = accepted[Len(wire) - 1 + i]
          BY <3>2, <4>2 DEF Backlog
        <5>2. Len(wire) - 1 + i \in 1..Len(accepted)
          BY <3>4, <4>2 DEF QueueOK
        <5> QED BY <2>2, <2>3, <4>2, <5>1, <5>2
      <4> QED BY <2>2, <4>1, <4>2 DEF QueueOK
    <3>6. Backlog'
      BY <2>2, <2>3, <3>1, <3>2, <3>4, <3>5 DEF Backlog, QueueOK
    <3> QED BY <3>3, <3>6
  <2> QED BY <1>5, <2>4, <2>5 DEF Send
<1> QED BY QueueFrame, <1>1, <1>2, <1>3, <1>4, <1>5
-----------------------------------------------------------------------------
(* The inductive invariant: each invariant needs the others, and the four  *)
(* facts above that tie the queue, the sockets and the handlers together.  *)
LEMMA Inductive == Spec => []IInv
<1>1. Init => IInv
  <2> SUFFICES ASSUME Init PROVE IInv
    OBVIOUS
  <2>1. StatesOK
    BY DEF Init, StatesOK
  <2>2. FlagsOK
    BY DEF Init, FlagsOK
  <2>3. QueueOK
    BY DEF Init, QueueOK
  <2>4. States
    BY <2>1 DEF Init, States, Fresh, ReleasedOnce, NeverDeaf, Gone,
       SilenceIsTimed
  <2>5. Socket
    BY DEF Init, Socket, OneWriteAtATime, GracefulCloseFlushes, Keeper
  <2>6. InOrder /\ Backlog
    BY DEF Init, InOrder, Backlog
  <2> QED BY <2>1, <2>2, <2>3, <2>4, <2>5, <2>6 DEF IInv, TypeOK
<1>2. IInv /\ [Next]_vars => IInv'
  <2> SUFFICES ASSUME IInv, [Next]_vars PROVE IInv'
    OBVIOUS
  <2>1. States'
    BY StatesStep DEF IInv, TypeOK
  <2>2. Socket'
    BY SocketStep DEF IInv, States
  <2>3. InOrder' /\ Backlog'
    BY OrderStep DEF IInv, TypeOK, Socket
  <2>4. TypeOK'
    BY <2>1, FlagsTyped, QueueTyped DEF IInv, TypeOK, States, Socket
  <2> QED BY <2>1, <2>2, <2>3, <2>4 DEF IInv
<1> QED BY <1>1, <1>2, PTL DEF Spec

(* The variables of a connection keep their types.                         *)
THEOREM TypeCorrect == Spec => []TypeOK
<1>1. IInv => TypeOK
  BY DEF IInv
<1> QED BY <1>1, Inductive, PTL

(* Whatever the two threads and the timers do, composed writes never       *)
(* overlap (Connection::send and onWriteOperation).                        *)
THEOREM WritesNeverOverlap == Spec => []OneWriteAtATime
<1>1. IInv => OneWriteAtATime
  BY DEF IInv, States, Socket
<1> QED BY <1>1, Inductive, PTL

(* What goes on the wire is a prefix of what send() accepted, for any      *)
(* number of messages and any way the connection ends.                     *)
THEOREM OrderKept == Spec => []InOrder
<1>1. IInv => InOrder
  BY DEF IInv
<1> QED BY <1>1, Inductive, PTL

(* Connection::close posts Protocol::release once, whoever calls it and    *)
(* however often.                                                          *)
THEOREM ReleaseOnce == Spec => []ReleasedOnce
<1>1. IInv => ReleasedOnce
  BY DEF IInv, States, Socket
<1> QED BY <1>1, Inductive, PTL

(* An open connection reads, and the read has a timer: a peer that falls   *)
(* silent is noticed.                                                      *)
THEOREM SilenceIsNoticed == Spec => []Attentive
<1>1. IInv => Attentive
  BY DEF IInv, States, Socket, Attentive
<1> QED BY <1>1, Inductive, PTL

(* Unless a write fails or somebody forces the close, the socket is not    *)
(* closed before the last message has been written.                        *)
THEOREM GracefulClose == Spec => []GracefulCloseFlushes
<1>1. IInv => GracefulCloseFlushes
  BY DEF IInv, States, Socket
<1> QED BY <1>1, Inductive, PTL

-----------------------------------------------------------------------------
(* The stack of the environments (luascript.cpp).                          *)

(* A set of natural numbers has a least one, ...                           *)
LEMMA LeastNatural ==
  ASSUME NEW T \in SUBSET Nat, T # {}
  PROVE  \E n \in T : \A m \in T : n <= m
<1> DEFINE R == OpToRel(<, Nat)
<1>0. IsWellFoundedOn(R, Nat)
  BY NatLessThanWellFounded
<1>3. \A m \in Nat, n \in Nat : m < n => <<m, n>> \in R
  BY DEF OpToRel
<1>1. PICK n \in T : \A m \in T : <<m, n>> \notin R
  <2> HIDE DEF R
  <2> QED BY <1>0, WFMin
<1> HIDE DEF R
<1>2. \A m \in T : ~(m < n)
  BY <1>1, <1>3
<1> QED BY <1>2

(* ... so that there is induction up to a bound.                           *)
LEMMA UpTo ==
  ASSUME NEW N \in Nat, NEW T, 0 \in T,
         \A n \in 0..N : n \in T /\ n < N => n + 1 \in T
  PROVE  0..N \subseteq T
<1> DEFINE Rest == (0..N) \ T
<1> SUFFICES ASSUME Rest # {} PROVE FALSE
  OBVIOUS
<1>0. Rest \in SUBSET Nat
  OBVIOUS
<1>1. PICK n \in Rest : \A m \in Rest : n <= m
  <2> HIDE DEF Rest
  <2> QED BY <1>0, LeastNatural
<1>2. n \in Nat /\ n <= N /\ n # 0 /\ n \notin T
  OBVIOUS
<1>3. n - 1 \in 0..N /\ n - 1 < n
  BY <1>2
<1>4. n - 1 \in T
  BY <1>1, <1>3
<1> QED BY <1>2, <1>3, <1>4

(* What an environment on the stack wants called, and what was called.     *)
Wanted == [name : Names, type : Sc!EventTypes \union {"none"}] \union {Sc!Nothing}
Envs == [kind : {"event", "answer", "timer", "global"}, wanted : Wanted,
         called : Wanted, timer : 0..MaxTimers]

(* Timers and global events are called from the dispatcher, not by scripts.*)
Stack ==
  /\ scriptEnv \in Seq(Envs) /\ Len(scriptEnv) <= Environments
  /\ \A d \in 1..Len(scriptEnv) :
       /\ scriptEnv[d].kind \in {"timer", "global"} => d = 1
       /\ scriptEnv[d].kind = "timer" => scriptEnv[d].timer \in Sc!Timers
       /\ scriptEnv[d].called = scriptEnv[d].wanted

(* What every proof about a step of the scripts begins with.               *)
ScriptTypes == Sc!TypeOK /\ Stack

(* reserveScriptEnv puts one environment on the stack, or there is no room.*)
LEMMA EnterEffect ==
  ASSUME ScriptTypes, NEW env \in Envs, Sc!Enter(env)
  PROVE  \/ /\ astray' = "overflow" /\ scriptEnv' = scriptEnv
            /\ Len(scriptEnv) = Environments
         \/ /\ astray' = astray /\ scriptEnv' = Append(scriptEnv, env)
            /\ Len(scriptEnv) < Environments
<1>1. Len(scriptEnv) \in Nat /\ Environments \in Nat
  BY ScriptsAssumption DEF ScriptTypes, Stack
<1> QED BY <1>1 DEF Sc!Enter, Sc!Depth, ScriptTypes, Stack

(* A call on top keeps the order of the stack, ...                         *)
LEMMA AppendKeepsStack ==
  ASSUME Stack, NEW env \in Envs, Len(scriptEnv) < Environments,
         scriptEnv' = Append(scriptEnv, env),
         env.kind \in {"timer", "global"} => scriptEnv = <<>>,
         env.kind = "timer" => env.timer \in Sc!Timers,
         env.called = env.wanted
  PROVE  Stack'
<1>1. /\ scriptEnv' \in Seq(Envs) /\ Len(scriptEnv') = Len(scriptEnv) + 1
      /\ \A d \in 1..Len(scriptEnv) : scriptEnv'[d] = scriptEnv[d]
      /\ scriptEnv'[Len(scriptEnv) + 1] = env
      /\ Len(scriptEnv) \in Nat /\ Environments \in Nat
  BY ScriptsAssumption DEF Stack
<1>2. Len(scriptEnv') <= Environments
  BY <1>1
<1>3. ASSUME NEW d \in 1..Len(scriptEnv')
      PROVE  /\ scriptEnv'[d].kind \in {"timer", "global"} => d = 1
             /\ scriptEnv'[d].kind = "timer" => scriptEnv'[d].timer \in Sc!Timers
             /\ scriptEnv'[d].called = scriptEnv'[d].wanted
  <2>1. CASE d \in 1..Len(scriptEnv)
    BY <1>1, <2>1 DEF Stack
  <2>2. CASE d = Len(scriptEnv) + 1
    BY <1>1, <2>2
  <2> QED BY <1>1, <2>1, <2>2
<1>4. Sc!Timers' = Sc!Timers
  BY DEF Sc!Timers
<1> QED BY <1>1, <1>2, <1>3, <1>4 DEF Stack

(* ... and so does the end of the topmost one.                             *)
LEMMA FrontOfStack ==
  ASSUME Stack, scriptEnv # <<>>, scriptEnv' = Sc!Front(scriptEnv)
  PROVE  /\ Stack' /\ Len(scriptEnv) \in Nat \ {0}
         /\ Len(scriptEnv') = Len(scriptEnv) - 1
         /\ \A d \in 1..Len(scriptEnv') : scriptEnv'[d] = scriptEnv[d]
         /\ Sc!Last(scriptEnv) = scriptEnv[Len(scriptEnv)]
<1>1. Len(scriptEnv) \in Nat \ {0} /\ scriptEnv \in Seq(Envs) /\ Environments \in Nat
  BY ScriptsAssumption DEF Stack
<1>2. /\ scriptEnv' \in Seq(Envs)
      /\ Len(scriptEnv') = Len(scriptEnv) - 1
      /\ \A d \in 1..Len(scriptEnv') : scriptEnv'[d] = scriptEnv[d]
  <2>1. Sc!Front(scriptEnv) = SubSeq(scriptEnv, 1, Len(scriptEnv) - 1)
    BY DEF Sc!Front
  <2>2. \A i \in 1..(Len(scriptEnv) - 1) : scriptEnv[i] \in Envs
    BY <1>1
  <2> DEFINE n == Len(scriptEnv) - 1
  <2>3. n \in Nat /\ 1 \in Int /\ n \in Int
    BY <1>1
  <2>4. /\ SubSeq(scriptEnv, 1, n) \in Seq(Envs)
        /\ Len(SubSeq(scriptEnv, 1, n)) = IF 1 <= n THEN n - 1 + 1 ELSE 0
        /\ \A i \in 1..n - 1 + 1 : SubSeq(scriptEnv, 1, n)[i] = scriptEnv[1 + i - 1]
    <3> HIDE DEF n
    <3>1. \A i \in 1..n : scriptEnv[i] \in Envs
      BY <2>2 DEF n
    <3> QED BY <2>3, <3>1, SubSeqProperties
  <2>5. n - 1 + 1 = n /\ (IF 1 <= n THEN n - 1 + 1 ELSE 0) = n
    BY <2>3
  <2>6. \A i \in 1..n : 1 + i - 1 = i
    OBVIOUS
  <2>7. scriptEnv' = SubSeq(scriptEnv, 1, n)
    BY <2>1
  <2> HIDE DEF n
  <2>8. scriptEnv' \in Seq(Envs) /\ Len(scriptEnv') = n /\ \A i \in 1..n : scriptEnv'[i] = scriptEnv[i]
    BY <2>4, <2>5, <2>6, <2>7
  <2> QED BY <2>8 DEF n
<1>3. Sc!Last(scriptEnv) = scriptEnv[Len(scriptEnv)]
  BY DEF Sc!Last
<1>4. Stack'
  BY <1>1, <1>2 DEF Stack
<1> QED BY <1>1, <1>2, <1>3, <1>4

-----------------------------------------------------------------------------
(* The events of the creatures (creatureevent.cpp).                        *)

(* A loaded event has its function in the table of the interface, and a    *)
(* creature registers only events that were loaded once.                   *)
EventsInv ==
  /\ \A n \in Names : creatureEvents[n].loaded =>
       /\ creatureEvents[n].id \in 1..Len(table)
       /\ table[creatureEvents[n].id] = [name |-> n, type |-> creatureEvents[n].type]
  /\ \A n \in eventsList : creatureEvents[n].type # "none"

(* What is known of an event of a creature.                                *)
EventRecords == [type : Sc!EventTypes \union {"none"}, loaded : BOOLEAN, id : Nat]

(* What holds of a registry of events while it is being loaded.            *)
Registries == [events : [Names -> EventRecords], table : Seq(Sc!Functions)]
InTable(w) ==
  \A n \in Names : w.events[n].loaded =>
    /\ w.events[n].id \in 1..Len(w.table)
    /\ w.table[w.events[n].id] = [name |-> n, type |-> w.events[n].type]
Follows(w, v) ==
  \A n \in Names : w.events[n].type # "none" => v.events[n].type # "none"

(* registerEvent() keeps the table and the events in step, whether the     *)
(* name is new, loaded before or waiting to be loaded again.               *)
LEMMA RegisterEventKeeps ==
  ASSUME NEW w \in Registries, InTable(w), NEW f \in Sc!Functions
  PROVE  /\ Sc!RegisterEvent(w, f) \in Registries
         /\ InTable(Sc!RegisterEvent(w, f))
         /\ Follows(w, Sc!RegisterEvent(w, f))
<1> DEFINE id == Len(w.table) + 1
           new == [type |-> f.type, loaded |-> TRUE, id |-> id]
           t == Append(w.table, f)
           v == Sc!RegisterEvent(w, f)
           takes == w.events[f.name].type = "none"
                    \/ (~w.events[f.name].loaded /\ w.events[f.name].type = f.type)
<1>1. /\ f.name \in Names /\ f.type \in Sc!EventTypes /\ f.type # "none"
      /\ f = [name |-> f.name, type |-> f.type]
  BY DEF Sc!Functions, Sc!EventTypes
<1>2. /\ w.table \in Seq(Sc!Functions) /\ w.events \in [Names -> EventRecords]
      /\ Len(w.table) \in Nat
      /\ w = [events |-> w.events, table |-> w.table]
  BY DEF Registries
<1>3. /\ t \in Seq(Sc!Functions) /\ Len(t) = id
      /\ \A i \in 1..Len(w.table) : t[i] = w.table[i]
      /\ t[id] = f
  BY <1>2
<1>4. new \in EventRecords
  BY <1>1, <1>2 DEF EventRecords
<1>5. v = [events |-> IF takes THEN [w.events EXCEPT ![f.name] = new] ELSE w.events,
           table |-> t]
  BY <1>1, <1>2 DEF Sc!RegisterEvent, Sc!LoadScript
<1> HIDE DEF id, t, v, new, takes
<1>6. v.table = t /\ v.events = IF takes THEN [w.events EXCEPT ![f.name] = new] ELSE w.events
  BY <1>5
<1>7. v \in Registries
  <2>1. [w.events EXCEPT ![f.name] = new] \in [Names -> EventRecords]
    BY <1>1, <1>2, <1>4
  <2> QED BY <1>2, <1>3, <1>5, <2>1 DEF Registries
<1>8. ASSUME NEW n \in Names, v.events[n].loaded
      PROVE  v.events[n].id \in 1..Len(v.table)
             /\ v.table[v.events[n].id] = [name |-> n, type |-> v.events[n].type]
  <2>1. CASE takes /\ n = f.name
    <3>1. v.events[n] = new
      BY <1>1, <1>2, <1>6, <2>1
    <3>2. new.id = id /\ new.type = f.type
      BY DEF new
    <3>3. id \in 1..id
      BY <1>2 DEF id
    <3> QED BY <1>1, <1>3, <1>6, <2>1, <3>1, <3>2, <3>3
  <2>2. CASE ~(takes /\ n = f.name)
    <3>1. v.events[n] = w.events[n]
      BY <1>1, <1>2, <1>6, <2>2
    <3>2. w.events[n].id \in 1..Len(w.table)
          /\ w.table[w.events[n].id] = [name |-> n, type |-> w.events[n].type]
      BY <1>8, <3>1 DEF InTable
    <3>3. 1..Len(w.table) \subseteq 1..id
      BY <1>2 DEF id
    <3> QED BY <1>3, <1>6, <3>1, <3>2, <3>3
  <2> QED BY <2>1, <2>2
<1>9. ASSUME NEW n \in Names, w.events[n].type # "none"
      PROVE  v.events[n].type # "none"
  <2>1. CASE takes /\ n = f.name
    <3>1. v.events[n] = new
      BY <1>1, <1>2, <1>6, <2>1
    <3> QED BY <1>1, <3>1 DEF new
  <2>2. CASE ~(takes /\ n = f.name)
    BY <1>1, <1>2, <1>6, <1>9, <2>2
  <2> QED BY <2>1, <2>2
<1> QED BY <1>7, <1>8, <1>9 DEF InTable, Follows, v

(* What loadFromXml() makes of a file, function by function.               *)
IsLoaded(loaded, w, file) ==
  loaded = [k \in 0..Len(file) |->
              IF k = 0 THEN w ELSE Sc!RegisterEvent(loaded[k - 1], file[k])]
IsLoadedUpTo(loaded, w, file, m) ==
  /\ loaded \in [0..m -> Registries]
  /\ loaded[0] = w
  /\ \A k \in 1..m : loaded[k] = Sc!RegisterEvent(loaded[k - 1], file[k])
  /\ \A k \in 0..m : InTable(loaded[k])

(* The loading of a file is defined for every function of it, ...          *)
LEMMA LoadedExists ==
  ASSUME NEW w \in Registries, InTable(w), NEW file \in Seq(Sc!Functions)
  PROVE  \E loaded : IsLoaded(loaded, w, file)
<1> DEFINE T == {n \in 0..Len(file) : \E loaded : IsLoadedUpTo(loaded, w, file, n)}
<1>0. Len(file) \in Nat
  OBVIOUS
<1>1. 0 \in T
  <2> DEFINE f == [i \in 0..0 |-> w]
  <2>1. f \in [0..0 -> Registries] /\ f[0] = w /\ \A k \in 0..0 : f[k] = w
    OBVIOUS
  <2> HIDE DEF f
  <2>2. IsLoadedUpTo(f, w, file, 0)
    BY <2>1 DEF IsLoadedUpTo
  <2> QED BY <2>2
<1>2. ASSUME NEW n \in 0..Len(file), n \in T, n < Len(file)
      PROVE  n + 1 \in T
  <2>1. PICK g : IsLoadedUpTo(g, w, file, n)
    BY <1>2
  <2> DEFINE next == Sc!RegisterEvent(g[n], file[n + 1])
             f == [i \in 0..n + 1 |-> IF i = n + 1 THEN next ELSE g[i]]
  <2>2. next \in Registries /\ InTable(next)
    <3>1. g[n] \in Registries /\ InTable(g[n])
      BY <2>1 DEF IsLoadedUpTo
    <3>2. file[n + 1] \in Sc!Functions
      BY <1>2
    <3> QED BY <3>1, <3>2, RegisterEventKeeps
  <2>3. f \in [0..n + 1 -> Registries]
    <3> HIDE DEF next
    <3> QED BY <2>1, <2>2 DEF IsLoadedUpTo
  <2>4. f[0] = w
    BY <2>1 DEF IsLoadedUpTo
  <2>5. ASSUME NEW i \in 1..n + 1
        PROVE  f[i] = Sc!RegisterEvent(f[i - 1], file[i])
    <3>1. CASE i = n + 1
      BY <3>1
    <3>2. CASE i # n + 1
      <4>1. i \in 1..n /\ i - 1 # n + 1 /\ i - 1 \in 0..n + 1
        BY <3>2
      <4>2. f[i] = g[i] /\ f[i - 1] = g[i - 1]
        BY <4>1
      <4> HIDE DEF f
      <4> QED BY <4>1, <4>2, <2>1 DEF IsLoadedUpTo
    <3> QED BY <3>1, <3>2
  <2>6. ASSUME NEW i \in 0..n + 1
        PROVE  InTable(f[i])
    <3>1. CASE i = n + 1
      <4> HIDE DEF next
      <4> QED BY <3>1, <2>2
    <3>2. CASE i # n + 1
      <4>1. i \in 0..n /\ f[i] = g[i]
        BY <3>2
      <4> HIDE DEF f
      <4> QED BY <4>1, <2>1 DEF IsLoadedUpTo
    <3> QED BY <3>1, <3>2
  <2> HIDE DEF f, next
  <2>7. IsLoadedUpTo(f, w, file, n + 1)
    BY <2>3, <2>4, <2>5, <2>6 DEF IsLoadedUpTo
  <2> QED BY <2>7, <1>2
<1>3. Len(file) \in T
  <2> HIDE DEF T
  <2>1. 0..Len(file) \subseteq T
    BY <1>0, <1>1, <1>2, UpTo
  <2> QED BY <1>0, <2>1
<1>4. PICK g : IsLoadedUpTo(g, w, file, Len(file))
  BY <1>3
<1>5. IsLoaded(g, w, file)
  <2>1. g = [n \in 0..Len(file) |-> g[n]]
    BY <1>4 DEF IsLoadedUpTo
  <2>2. \A n \in 0..Len(file) :
          g[n] = IF n = 0 THEN w ELSE Sc!RegisterEvent(g[n - 1], file[n])
    <3>1. \A n \in 0..Len(file) : n # 0 => n \in 1..Len(file)
      BY <1>0
    <3> QED BY <1>4, <3>1 DEF IsLoadedUpTo
  <2> QED BY <2>1, <2>2 DEF IsLoaded
<1> QED BY <1>4, <1>5

(* ... and leaves a registry that is in step with its table.               *)
LEMMA LoadingKeeps ==
  ASSUME NEW w \in Registries, InTable(w), NEW file \in Seq(Sc!Functions)
  PROVE  /\ Sc!LoadFromXml(w, file) \in Registries
         /\ InTable(Sc!LoadFromXml(w, file))
         /\ Follows(w, Sc!LoadFromXml(w, file))
<1> DEFINE g == CHOOSE loaded : IsLoaded(loaded, w, file)
           Good(k) == g[k] \in Registries /\ InTable(g[k]) /\ Follows(w, g[k])
           T == {k \in 0..Len(file) : Good(k)}
<1>0. Len(file) \in Nat
  OBVIOUS
<1>1. IsLoaded(g, w, file)
  BY LoadedExists
<1>2. Sc!LoadFromXml(w, file) = g[Len(file)]
  BY DEF Sc!LoadFromXml, IsLoaded
<1> HIDE DEF g
<1>3. g[0] = w /\ \A k \in 1..Len(file) : g[k] = Sc!RegisterEvent(g[k - 1], file[k])
  <2>1. 0 \in 0..Len(file) /\ \A k \in 1..Len(file) : k \in 0..Len(file) /\ k # 0
    BY <1>0
  <2> QED BY <1>1, <2>1 DEF IsLoaded
<1>4. 0 \in T
  BY <1>0, <1>3 DEF Follows
<1>5. ASSUME NEW n \in 0..Len(file), n \in T, n < Len(file)
      PROVE  n + 1 \in T
  <2>1. Good(n) /\ n + 1 \in 1..Len(file) /\ n + 1 - 1 = n
    BY <1>0, <1>5
  <2>2. file[n + 1] \in Sc!Functions
    BY <2>1
  <2>3. g[n + 1] = Sc!RegisterEvent(g[n], file[n + 1])
    BY <1>3, <2>1
  <2>4. g[n + 1] \in Registries /\ InTable(g[n + 1]) /\ Follows(g[n], g[n + 1])
    BY <2>1, <2>2, <2>3, RegisterEventKeeps
  <2>5. Follows(w, g[n + 1])
    BY <2>1, <2>4 DEF Follows
  <2> QED BY <2>1, <2>4, <2>5
<1>6. Len(file) \in T
  <2> HIDE DEF T
  <2>1. 0..Len(file) \subseteq T
    BY <1>0, <1>4, <1>5, UpTo
  <2> QED BY <1>0, <2>1
<1> QED BY <1>2, <1>6

(* Init: the first file is loaded into an empty registry.                  *)
LEMMA EventsBegin == Sc!Init => EventsInv /\ creatureEvents \in [Names -> EventRecords]
                                /\ table \in Seq(Sc!Functions)
<1> SUFFICES ASSUME Sc!Init
             PROVE  EventsInv /\ creatureEvents \in [Names -> EventRecords]
                    /\ table \in Seq(Sc!Functions)
  OBVIOUS
<1> DEFINE empty == [events |-> [n \in Names |-> Sc!Unknown], table |-> Sc!ReInitState]
<1>1. PICK file \in Files : LET w == Sc!LoadFromXml(empty, file)
                           IN  creatureEvents = w.events /\ table = w.table
  BY DEF Sc!Init
<1>2. empty \in Registries /\ InTable(empty)
  BY DEF Registries, InTable, EventRecords, Sc!Unknown, Sc!ReInitState
<1>3. file \in Seq(Sc!Functions)
  BY ScriptsAssumption
<1>4. Sc!LoadFromXml(empty, file) \in Registries /\ InTable(Sc!LoadFromXml(empty, file))
  BY <1>2, <1>3, LoadingKeeps
<1>5. eventsList = {}
  BY DEF Sc!Init
<1> QED BY <1>1, <1>4, <1>5 DEF EventsInv, InTable, Registries

(* Every action keeps the events and the table in step.                    *)
LEMMA EventsStep ==
  ASSUME Sc!TypeOK, EventsInv, Sc!Next
  PROVE  /\ EventsInv'
         /\ creatureEvents' \in [Names -> EventRecords] /\ table' \in Seq(Sc!Functions)
         /\ eventsList' \subseteq Names
<1> DEFINE Typed == /\ creatureEvents \in [Names -> EventRecords]
                    /\ table \in Seq(Sc!Functions) /\ eventsList \subseteq Names
<1>0. Typed
  BY DEF Sc!TypeOK, EventRecords
<1>1. CASE UNCHANGED <<creatureEvents, table, eventsList>>
  BY <1>0, <1>1 DEF EventsInv
<1>2. ASSUME NEW n \in Names, Sc!RegisterCreatureEvent(n)
      PROVE  EventsInv' /\ Typed'
  <2>1. /\ creatureEvents' = creatureEvents /\ table' = table
        /\ creatureEvents[n].loaded
        /\ eventsList' = eventsList \union {n} \/ eventsList' = eventsList \ {n}
    BY <1>2 DEF Sc!RegisterCreatureEvent
  <2>2. /\ creatureEvents[n].id \in 1..Len(table)
        /\ table[creatureEvents[n].id] = [name |-> n, type |-> creatureEvents[n].type]
    BY <2>1 DEF EventsInv
  <2>3. table[creatureEvents[n].id] \in Sc!Functions
    BY <1>0, <2>2
  <2>4. creatureEvents[n].type # "none"
    BY <2>2, <2>3 DEF Sc!Functions, Sc!EventTypes
  <2> QED BY <1>0, <2>1, <2>4 DEF EventsInv
<1>3. ASSUME Sc!ReloadCreatureEvents
      PROVE  EventsInv' /\ Typed'
  <2> DEFINE w == Sc!Cleared(Sc!Registry)
  <2>1. PICK file \in Files : LET v == Sc!LoadFromXml(w, file)
                             IN  creatureEvents' = v.events /\ table' = v.table
    BY <1>3 DEF Sc!ReloadCreatureEvents
  <2>2. eventsList' = eventsList
    BY <1>3 DEF Sc!ReloadCreatureEvents
  <2>3. /\ w.events = [n \in Names |-> [creatureEvents[n] EXCEPT !.loaded = FALSE, !.id = 0]]
        /\ w.table = <<>> /\ w = [events |-> w.events, table |-> w.table]
    BY DEF Sc!Cleared, Sc!Registry, Sc!ClearEvent, Sc!ReInitState
  <2>4. \A n \in Names : /\ w.events[n] \in EventRecords
                         /\ w.events[n].type = creatureEvents[n].type
                         /\ ~w.events[n].loaded
    <3> HIDE DEF w
    <3> SUFFICES ASSUME NEW n \in Names
                 PROVE  /\ w.events[n] \in EventRecords
                        /\ w.events[n].type = creatureEvents[n].type
                        /\ ~w.events[n].loaded
      OBVIOUS
    <3>1. creatureEvents[n] \in EventRecords
      BY <1>0
    <3>2. w.events[n] = [creatureEvents[n] EXCEPT !.loaded = FALSE, !.id = 0]
      BY <2>3
    <3>3. w.events[n] = [type |-> creatureEvents[n].type, loaded |-> FALSE, id |-> 0]
      BY <3>1, <3>2 DEF EventRecords
    <3> HIDE <3>2
    <3> QED BY <3>1, <3>3 DEF EventRecords
  <2>5. w \in Registries
    <3>1. w.events \in [Names -> EventRecords]
      <4> HIDE DEF w
      <4> QED BY <2>3, <2>4
    <3>2. w.table \in Seq(Sc!Functions)
      <4> HIDE DEF w
      <4>1. w.table = <<>> /\ <<>> \in Seq(Sc!Functions)
        <5>1. w.table = <<>>
          BY <2>3, Zenon
        <5> QED BY <5>1
      <4> QED BY <4>1
    <3> QED BY <2>3, <3>1, <3>2 DEF Registries
  <2> HIDE DEF w
  <2>6. InTable(w)
    BY <2>4 DEF InTable
  <2>7. file \in Seq(Sc!Functions)
    BY ScriptsAssumption
  <2>8. /\ Sc!LoadFromXml(w, file) \in Registries
        /\ InTable(Sc!LoadFromXml(w, file)) /\ Follows(w, Sc!LoadFromXml(w, file))
    BY <2>5, <2>6, <2>7, LoadingKeeps
  <2>9. Typed'
    BY <1>0, <2>1, <2>2, <2>8 DEF Registries
  <2>10. \A n \in eventsList' : creatureEvents'[n].type # "none"
    BY <1>0, <2>1, <2>2, <2>4, <2>8 DEF Follows, EventsInv
  <2>11. \A n \in Names : creatureEvents'[n].loaded =>
           /\ creatureEvents'[n].id \in 1..Len(table')
           /\ table'[creatureEvents'[n].id] = [name |-> n, type |-> creatureEvents'[n].type]
    BY <2>1, <2>8 DEF InTable
  <2> QED BY <2>9, <2>10, <2>11 DEF EventsInv
<1>4. \/ UNCHANGED <<creatureEvents, table, eventsList>>
      \/ \E n \in Names : Sc!RegisterCreatureEvent(n)
      \/ Sc!ReloadCreatureEvents
  BY DEF Sc!Next, Sc!Login, Sc!Happen, Sc!ExecuteTimerEvent, Sc!TimerIsDue, Sc!AddEvent,
         Sc!StopEvent, Sc!CreateItem, Sc!RemoveItem, Sc!AddItemEx, Sc!Ask, Sc!Think,
         Sc!ThinkIsDue, Sc!EndOfScript, Sc!ReloadGlobalEvents
<1> QED
  <2>1. CASE UNCHANGED <<creatureEvents, table, eventsList>>
    BY <1>0, <1>1, <2>1
  <2>2. CASE \E n \in Names : Sc!RegisterCreatureEvent(n)
    BY <1>2, <2>2
  <2>3. CASE Sc!ReloadCreatureEvents
    BY <1>3, <2>3
  <2> QED BY <1>4, <2>1, <2>2, <2>3

-----------------------------------------------------------------------------
(* What the calls do with the stack.                                       *)

(* Timers and global events run at the bottom of the stack only.           *)
Bottom ==
  /\ Sc!RunningTimers = IF scriptEnv # <<>> /\ scriptEnv[1].kind = "timer"
                        THEN {scriptEnv[1].timer} ELSE {}
  /\ Sc!InThink <=> scriptEnv # <<>> /\ scriptEnv[1].kind = "global"

(* The stack says so itself, ...                                           *)
LEMMA AtTheBottom == Stack => Bottom
<1> SUFFICES ASSUME Stack PROVE Bottom
  OBVIOUS
<1>1. /\ scriptEnv \in Seq(Envs) /\ Len(scriptEnv) \in Nat
      /\ DOMAIN scriptEnv = 1..Len(scriptEnv)
      /\ scriptEnv # <<>> <=> 1 \in 1..Len(scriptEnv)
  BY DEF Stack
<1>2. \A d \in 1..Len(scriptEnv) : scriptEnv[d].kind \in {"timer", "global"} => d = 1
  BY DEF Stack
<1>3. Sc!InThink <=> scriptEnv # <<>> /\ scriptEnv[1].kind = "global"
  BY <1>1, <1>2 DEF Sc!InThink
<1>4. CASE scriptEnv # <<>> /\ scriptEnv[1].kind = "timer"
  <2>1. {e \in DOMAIN scriptEnv : scriptEnv[e].kind = "timer"} = {1}
    BY <1>1, <1>2, <1>4
  <2> QED BY <1>3, <1>4, <2>1 DEF Sc!RunningTimers, Bottom
<1>5. CASE ~(scriptEnv # <<>> /\ scriptEnv[1].kind = "timer")
  <2>1. {e \in DOMAIN scriptEnv : scriptEnv[e].kind = "timer"} = {}
    BY <1>1, <1>2, <1>5
  <2> QED BY <1>3, <1>5, <2>1 DEF Sc!RunningTimers, Bottom
<1> QED BY <1>4, <1>5

(* ... and after a step as well.                                           *)
LEMMA AtTheBottomThen == Stack' => Bottom'
  BY AtTheBottom, PTL

(* An event or an answer that a script or the game sets off.               *)
QuietPush ==
  \/ scriptEnv' = scriptEnv /\ astray' \in {"cleared", "overflow"}
  \/ /\ astray' = astray /\ Len(scriptEnv) < Environments
     /\ \E env \in Envs : /\ env.kind \in {"event", "answer"}
                          /\ scriptEnv' = Append(scriptEnv, env)

(* Such a call disturbs neither the timers nor the global events.          *)
LEMMA QuietEffect ==
  ASSUME ScriptTypes, QuietPush, Stack'
  PROVE  /\ Sc!RunningTimers' = Sc!RunningTimers
         /\ Sc!InThink' <=> Sc!InThink
         /\ Len(scriptEnv) \in Nat /\ Len(scriptEnv') \in Nat
         /\ Len(scriptEnv) <= Len(scriptEnv')
<1>1. Stack /\ Len(scriptEnv) \in Nat /\ scriptEnv \in Seq(Envs)
  BY DEF ScriptTypes, Stack
<1>2. /\ Sc!RunningTimers' = IF scriptEnv' # <<>> /\ scriptEnv'[1].kind = "timer"
                             THEN {scriptEnv'[1].timer} ELSE {}
      /\ Sc!InThink' <=> scriptEnv' # <<>> /\ scriptEnv'[1].kind = "global"
  BY AtTheBottomThen DEF Bottom
<1>3. CASE scriptEnv' = scriptEnv
  BY <1>1, <1>2, <1>3, AtTheBottom DEF Bottom
<1>4. ASSUME NEW env \in Envs, env.kind \in {"event", "answer"},
             scriptEnv' = Append(scriptEnv, env)
      PROVE  /\ Sc!RunningTimers' = Sc!RunningTimers
             /\ Sc!InThink' <=> Sc!InThink
             /\ Len(scriptEnv') \in Nat /\ Len(scriptEnv) <= Len(scriptEnv')
  <2>1. /\ Len(scriptEnv') = Len(scriptEnv) + 1 /\ scriptEnv' # <<>>
        /\ scriptEnv = <<>> => scriptEnv'[1] = env
        /\ scriptEnv # <<>> => scriptEnv'[1] = scriptEnv[1]
    BY <1>1, <1>4
  <2>2. env.kind # "timer" /\ env.kind # "global"
    BY <1>4
  <2> QED BY <1>1, <1>2, <2>1, <2>2, AtTheBottom DEF Bottom
<1> QED BY <1>1, <1>3, <1>4 DEF QuietPush

(* Nothing may be wanted: a timer, say, calls no event.                    *)
LEMMA NothingWanted == Sc!Nothing \in Wanted
  BY DEF Wanted

(* A script that is wanted is called, ...                                  *)
LEMMA EventWanted ==
  ASSUME Sc!TypeOK, NEW n \in Names
  PROVE  [name |-> n, type |-> creatureEvents[n].type] \in Wanted
<1>1. creatureEvents[n].type \in Sc!EventTypes \union {"none"}
  BY DEF Sc!TypeOK
<1> QED BY <1>1 DEF Wanted

(* ... and takes one place of the stack.                                   *)
LEMMA PushStep ==
  ASSUME ScriptTypes, NEW env \in Envs, Sc!Enter(env), env.kind \in {"event", "answer"},
         env.called = env.wanted
  PROVE  QuietPush /\ Stack'
<1>1. CASE astray' = "overflow" /\ scriptEnv' = scriptEnv
  <2>1. Sc!Timers' = Sc!Timers
    BY DEF Sc!Timers
  <2> QED BY <1>1, <2>1 DEF QuietPush, ScriptTypes, Stack
<1>2. CASE /\ astray' = astray /\ scriptEnv' = Append(scriptEnv, env)
           /\ Len(scriptEnv) < Environments
  <2>1. QuietPush
    BY <1>2 DEF QuietPush
  <2>2. Stack'
    BY <1>2, AppendKeepsStack DEF ScriptTypes
  <2> QED BY <2>1, <2>2
<1> QED BY <1>1, <1>2, EnterEffect

(* What a script or the game sets off is such a call.                      *)
LEMMA QuietStep ==
  ASSUME ScriptTypes, EventsInv,
         (\E n \in Names : Sc!Login(n) \/ Sc!Happen(n)) \/ Sc!Ask
  PROVE  QuietPush /\ Stack'
<1>1. CASE Sc!Ask
  <2> DEFINE env == [kind |-> "answer", wanted |-> Sc!Nothing, called |-> Sc!Nothing,
                     timer |-> 0]
  <2>1. Sc!Enter(env)
    BY <1>1 DEF Sc!Ask
  <2>2. env \in Envs
    BY NothingWanted, ScriptsAssumption DEF Envs
  <2>3. env.kind \in {"event", "answer"} /\ env.called = env.wanted
    OBVIOUS
  <2> HIDE DEF env
  <2> QED BY <2>1, <2>2, <2>3, PushStep
<1>2. ASSUME NEW n \in Names, Sc!Execute(n)
      PROVE  QuietPush /\ Stack'
  <2> DEFINE e == creatureEvents[n]
             what == [name |-> n, type |-> creatureEvents[n].type]
             env == [kind |-> "event", wanted |-> what,
                     called |-> Sc!FunctionOf(creatureEvents[n]), timer |-> 0]
  <2>1. CASE ~e.loaded /\ Sc!Depth < Environments
    <3>1. astray' = "cleared" /\ scriptEnv' = scriptEnv
      BY <1>2, <2>1 DEF Sc!Execute
    <3>2. Sc!Timers' = Sc!Timers
      BY DEF Sc!Timers
    <3> QED BY <3>1, <3>2 DEF QuietPush, ScriptTypes, Stack
  <2>2. CASE ~(~e.loaded /\ Sc!Depth < Environments)
    <3>1. Sc!Enter(env)
      BY <1>2, <2>2 DEF Sc!Execute
    <3>2. CASE e.loaded
      <4>1. e.id \in 1..Len(table) /\ table[e.id] = what
        BY <3>2 DEF EventsInv
      <4>2. DOMAIN table = 1..Len(table)
        BY DEF ScriptTypes, Sc!TypeOK
      <4>3. Sc!FunctionOf(creatureEvents[n]) = what
        BY <4>1, <4>2 DEF Sc!FunctionOf
      <4>4. what \in Wanted
        BY EventWanted DEF ScriptTypes
      <4> HIDE DEF what
      <4>5. env \in Envs
        BY <4>3, <4>4, ScriptsAssumption DEF Envs
      <4>6. env.kind \in {"event", "answer"} /\ env.called = env.wanted
        BY <4>3
      <4> HIDE DEF env
      <4> QED BY <3>1, <4>5, <4>6, PushStep
    <3>3. CASE ~e.loaded
      <4>1. Len(scriptEnv) \in Nat /\ Environments \in Nat /\ Len(scriptEnv) <= Environments
        BY ScriptsAssumption DEF ScriptTypes, Stack
      <4>2. Sc!Depth = Environments
        BY <2>2, <3>3, <4>1 DEF Sc!Depth
      <4>3. astray' = "overflow" /\ scriptEnv' = scriptEnv
        BY <3>1, <4>2 DEF Sc!Enter
      <4>4. Sc!Timers' = Sc!Timers
        BY DEF Sc!Timers
      <4> QED BY <4>3, <4>4 DEF QuietPush, ScriptTypes, Stack
    <3> QED BY <3>2, <3>3
  <2> QED BY <2>1, <2>2
<1>3. ASSUME NEW n \in Names, Sc!Login(n) \/ Sc!Happen(n)
      PROVE  Sc!Execute(n)
  BY <1>3 DEF Sc!Login, Sc!Happen
<1> QED BY <1>1, <1>2, <1>3

(* What the dispatcher runs begins a stack.                                *)
LEMMA SolePush ==
  ASSUME ScriptTypes, Sc!Idle, NEW env \in Envs, Sc!Enter(env), env.called = env.wanted,
         env.kind = "timer" => env.timer \in Sc!Timers
  PROVE  /\ astray' = astray /\ scriptEnv = <<>> /\ scriptEnv' = <<env>> /\ Stack'
         /\ Len(scriptEnv) = 0 /\ Len(scriptEnv') = 1
<1>1. scriptEnv = <<>> /\ Len(scriptEnv) = 0 /\ Environments \in Nat /\ 0 < Environments
  BY ScriptsAssumption DEF Sc!Idle
<1>2. astray' = astray /\ scriptEnv' = Append(scriptEnv, env) /\ Len(scriptEnv) < Environments
  BY <1>1, EnterEffect
<1>3. Stack'
  BY <1>1, <1>2, AppendKeepsStack DEF ScriptTypes
<1>4. Append(<<>>, env) = <<env>> /\ Len(<<env>>) = 1
  OBVIOUS
<1> QED BY <1>1, <1>2, <1>3, <1>4

(* The actions of a step by what they do with the stack.                   *)
QuietAction == (\E n \in Names : Sc!Login(n) \/ Sc!Happen(n)) \/ Sc!Ask
StackVars == <<scriptEnv, astray>>
StackStays ==
  \/ \E n \in Names : Sc!RegisterCreatureEvent(n)
  \/ \E t \in Sc!Timers : Sc!TimerIsDue(t) \/ Sc!AddEvent(t) \/ Sc!StopEvent(t)
  \/ \E i \in Items :
       Sc!CreateItem(i) \/ Sc!RemoveItem(i) \/ \E off \in BOOLEAN : Sc!AddItemEx(i, off)
  \/ Sc!ThinkIsDue \/ Sc!ReloadCreatureEvents \/ Sc!ReloadGlobalEvents

(* These leave the stack alone.                                            *)
LEMMA StackStaysEffect == StackStays => UNCHANGED StackVars
  BY DEF StackStays, StackVars, Sc!RegisterCreatureEvent, Sc!TimerIsDue, Sc!AddEvent,
         Sc!StopEvent, Sc!CreateItem, Sc!RemoveItem, Sc!AddItemEx, Sc!ThinkIsDue,
         Sc!ReloadCreatureEvents, Sc!ReloadGlobalEvents

(* Every step is of one of these kinds.                                    *)
LEMMA ByStack ==
  Sc!Next => \/ QuietAction \/ StackStays
             \/ \E t \in Sc!Timers : Sc!ExecuteTimerEvent(t)
             \/ Sc!Think \/ Sc!EndOfScript
  BY DEF Sc!Next, QuietAction, StackStays

(* The environments that only the dispatcher makes.                        *)
TimerEnv(t) == [kind |-> "timer", wanted |-> Sc!Nothing, called |-> Sc!Nothing, timer |-> t]
GlobalEnv == [kind |-> "global", wanted |-> Sc!Nothing, called |-> Sc!Nothing, timer |-> 0]

(* A timer is executed at the bottom, if it was not stopped.               *)
LEMMA TimerRuns ==
  ASSUME ScriptTypes, NEW t \in Sc!Timers, Sc!ExecuteTimerEvent(t)
  PROVE  /\ astray' = astray /\ scriptEnv = <<>> /\ Stack'
         /\ scriptEnv' = IF t \in timerEvents THEN <<TimerEnv(t)>> ELSE <<>>
<1>1. Sc!Idle /\ scriptEnv = <<>>
  BY DEF Sc!ExecuteTimerEvent, Sc!Idle
<1>2. CASE t \in timerEvents
  <2>1. Sc!Enter(TimerEnv(t))
    BY <1>2 DEF Sc!ExecuteTimerEvent, TimerEnv
  <2>2. TimerEnv(t) \in Envs
    BY NothingWanted, ScriptsAssumption DEF Envs, TimerEnv, Sc!Timers
  <2>3. TimerEnv(t).called = TimerEnv(t).wanted /\ TimerEnv(t).timer \in Sc!Timers
    BY DEF TimerEnv
  <2> QED BY <1>1, <1>2, <2>1, <2>2, <2>3, SolePush
<1>3. CASE t \notin timerEvents
  <2>1. astray' = astray /\ scriptEnv' = scriptEnv
    BY <1>3 DEF Sc!ExecuteTimerEvent
  <2>2. Sc!Timers' = Sc!Timers
    BY DEF Sc!Timers
  <2> QED BY <1>1, <1>3, <2>1, <2>2 DEF ScriptTypes, Stack
<1> QED BY <1>2, <1>3

(* The global events are executed at the bottom, one after the other.      *)
LEMMA GlobalRuns ==
  ASSUME ScriptTypes, Sc!Think
  PROVE  /\ astray' = astray /\ scriptEnv = <<>> /\ Stack'
         /\ scriptEnv' = IF think.map THEN <<GlobalEnv>> ELSE <<>>
<1>1. Sc!Idle /\ scriptEnv = <<>>
  BY DEF Sc!Think, Sc!Idle
<1>2. CASE think.map
  <2>1. Sc!Enter(GlobalEnv)
    BY <1>2 DEF Sc!Think, GlobalEnv
  <2>2. GlobalEnv \in Envs
    BY NothingWanted, ScriptsAssumption DEF Envs, GlobalEnv
  <2>3. GlobalEnv.called = GlobalEnv.wanted /\ GlobalEnv.kind # "timer"
    BY DEF GlobalEnv
  <2> QED BY <1>1, <1>2, <2>1, <2>2, <2>3, SolePush
<1>3. CASE ~think.map
  <2>1. astray' = astray /\ scriptEnv' = scriptEnv
    BY <1>3 DEF Sc!Think
  <2>2. Sc!Timers' = Sc!Timers
    BY DEF Sc!Timers
  <2> QED BY <1>1, <1>3, <2>1, <2>2 DEF ScriptTypes, Stack
<1> QED BY <1>2, <1>3

(* The script on top ends.                                                 *)
LEMMA ScriptEnds ==
  ASSUME ScriptTypes, Sc!EndOfScript
  PROVE  /\ astray' = astray /\ astray = "no" /\ scriptEnv # <<>> /\ Stack'
         /\ Len(scriptEnv) \in Nat \ {0} /\ Len(scriptEnv') = Len(scriptEnv) - 1
         /\ \A d \in 1..Len(scriptEnv') : scriptEnv'[d] = scriptEnv[d]
         /\ Sc!Last(scriptEnv) = scriptEnv[Len(scriptEnv)]
<1>1. /\ astray' = astray /\ astray = "no" /\ scriptEnv # <<>>
      /\ scriptEnv' = Sc!Front(scriptEnv)
  BY DEF Sc!EndOfScript, Sc!ResetEnv
<1> QED BY <1>1, FrontOfStack DEF ScriptTypes

(* Every action keeps the stack.                                           *)
LEMMA StackStep ==
  ASSUME ScriptTypes, EventsInv, Sc!Next
  PROVE  /\ Stack' /\ Len(scriptEnv') <= Environments
         /\ astray' \in {"no", "cleared", "overflow"}
         /\ reloads' \in 0..MaxReloads /\ deeds' \in 0..MaxDeeds
<1> DEFINE Goal == Stack' /\ astray' \in {"no", "cleared", "overflow"}
<1>0. Sc!Timers' = Sc!Timers
  BY DEF Sc!Timers
<1>1. ASSUME QuietAction PROVE Goal
  <2>1. QuietPush /\ Stack'
    BY <1>1, QuietStep DEF QuietAction
  <2> QED BY <2>1 DEF QuietPush, ScriptTypes, Sc!TypeOK, Stack
<1>2. ASSUME StackStays PROVE Goal
  BY <1>0, <1>2, StackStaysEffect DEF StackVars, ScriptTypes, Stack, Sc!TypeOK
<1>3. ASSUME \E t \in Sc!Timers : Sc!ExecuteTimerEvent(t) PROVE Goal
  BY <1>3, TimerRuns DEF ScriptTypes, Sc!TypeOK
<1>4. ASSUME Sc!Think PROVE Goal
  BY <1>4, GlobalRuns DEF ScriptTypes, Sc!TypeOK
<1>5. ASSUME Sc!EndOfScript PROVE Goal
  BY <1>5, ScriptEnds DEF ScriptTypes, Sc!TypeOK
<1>6. Stack' /\ astray' \in {"no", "cleared", "overflow"}
  BY <1>1, <1>2, <1>3, <1>4, <1>5, ByStack
<1>7. Len(scriptEnv') <= Environments
  BY <1>6 DEF Stack
<1>8. /\ reloads \in 0..MaxReloads /\ deeds \in 0..MaxDeeds
      /\ MaxReloads \in Nat /\ MaxDeeds \in Nat
  BY ScriptsAssumption DEF ScriptTypes, Sc!TypeOK
<1>9. reloads' = reloads \/ (reloads < MaxReloads /\ reloads' = reloads + 1)
  BY DEF Sc!Next, Sc!Login, Sc!Happen, Sc!ExecuteTimerEvent, Sc!TimerIsDue, Sc!AddEvent,
         Sc!StopEvent, Sc!CreateItem, Sc!RemoveItem, Sc!AddItemEx, Sc!Ask, Sc!Think,
         Sc!ThinkIsDue, Sc!EndOfScript, Sc!ReloadGlobalEvents, Sc!ReloadCreatureEvents,
         Sc!RegisterCreatureEvent
<1>10. deeds' = deeds \/ (deeds < MaxDeeds /\ deeds' = deeds + 1)
  BY DEF Sc!Next, Sc!Login, Sc!Happen, Sc!ExecuteTimerEvent, Sc!TimerIsDue, Sc!AddEvent,
         Sc!StopEvent, Sc!CreateItem, Sc!RemoveItem, Sc!AddItemEx, Sc!Ask, Sc!Think,
         Sc!ThinkIsDue, Sc!EndOfScript, Sc!ReloadGlobalEvents, Sc!ReloadCreatureEvents,
         Sc!RegisterCreatureEvent, Sc!Deed, Sc!Running
<1> QED BY <1>6, <1>7, <1>8, <1>9, <1>10

-----------------------------------------------------------------------------
(* The timers of the scripts.                                              *)

(* A timer is in the scheduler or in the dispatcher, never in both: what   *)
(* runs it may forget it.                                                  *)
TimerTypes ==
  /\ timerEvents \subseteq Sc!Timers /\ refs \in [Sc!Timers -> Int]
  /\ waiting \subseteq Sc!Timers /\ ready \subseteq Sc!Timers
TimersInv ==
  /\ TimerTypes
  /\ Sc!TimersAreKept
  /\ waiting \intersect ready = {}

TimerVars == <<timerEvents, refs, waiting, ready>>

(* What leaves the timers and what runs of them alone keeps this.          *)
LEMMA TimersFrame ==
  ASSUME TimersInv, UNCHANGED TimerVars, Sc!RunningTimers' = Sc!RunningTimers
  PROVE  TimersInv'
<1>1. Sc!Timers' = Sc!Timers
  BY DEF Sc!Timers
<1> QED BY <1>1 DEF TimersInv, TimerTypes, TimerVars, Sc!TimersAreKept

(* The same stack runs the same timers, ...                                *)
LEMMA SameStack ==
  ASSUME scriptEnv' = scriptEnv
  PROVE  Sc!RunningTimers' = Sc!RunningTimers /\ (Sc!InThink' <=> Sc!InThink)
  BY DEF Sc!RunningTimers, Sc!InThink

(* ... and an empty one runs none.                                         *)
LEMMA NoneRuns ==
  scriptEnv = <<>> => Sc!RunningTimers = {} /\ ~Sc!InThink
  BY DEF Sc!RunningTimers, Sc!InThink

(* Every action keeps the timers.                                          *)
LEMMA TimersStep ==
  ASSUME ScriptTypes, EventsInv, TimersInv, Sc!Next
  PROVE  TimersInv'
<1> USE DEF TimerTypes
<1>0. Sc!Timers' = Sc!Timers
  BY DEF Sc!Timers
<1>1. CASE QuietAction
  <2>1. UNCHANGED TimerVars
    BY <1>1 DEF QuietAction, TimerVars, Sc!Login, Sc!Happen, Sc!Ask
  <2>2. Sc!RunningTimers' = Sc!RunningTimers
    BY <1>1, QuietStep, QuietEffect DEF QuietAction
  <2> QED BY <2>1, <2>2, TimersFrame
<1>2. ASSUME NEW t \in Sc!Timers, Sc!ExecuteTimerEvent(t)
      PROVE  TimersInv'
  <2>1. /\ t \in ready /\ ready' = ready \ {t} /\ timerEvents' = timerEvents \ {t}
        /\ refs' = refs /\ waiting' = waiting
    BY <1>2 DEF Sc!ExecuteTimerEvent
  <2>2. /\ scriptEnv = <<>> /\ Stack'
        /\ scriptEnv' = IF t \in timerEvents THEN <<TimerEnv(t)>> ELSE <<>>
    BY <1>2, TimerRuns
  <2>3. Sc!RunningTimers = {}
    BY <2>2, NoneRuns
  <2>4. Sc!RunningTimers' = IF t \in timerEvents THEN {t} ELSE {}
    BY <2>2, AtTheBottomThen DEF Bottom, TimerEnv
  <2>5. t \notin waiting
    BY <2>1 DEF TimersInv
  <2> HIDE <1>2
  <2> QED BY <1>0, <2>1, <2>3, <2>4, <2>5 DEF TimersInv, Sc!TimersAreKept
<1>3. CASE Sc!Think
  <2>1. UNCHANGED TimerVars
    BY <1>3 DEF TimerVars, Sc!Think
  <2>2. /\ scriptEnv = <<>> /\ Stack'
        /\ scriptEnv' = IF think.map THEN <<GlobalEnv>> ELSE <<>>
    BY <1>3, GlobalRuns
  <2>3. Sc!RunningTimers = {}
    BY <2>2, NoneRuns
  <2>4. Sc!RunningTimers' = {}
    BY <2>2, AtTheBottomThen DEF Bottom, GlobalEnv
  <2> QED BY <2>1, <2>3, <2>4, TimersFrame
<1>4. CASE Sc!EndOfScript
  <2>1. UNCHANGED <<timerEvents, waiting, ready>>
    BY <1>4 DEF Sc!EndOfScript
  <2>2. /\ scriptEnv # <<>> /\ Stack' /\ Stack
        /\ Len(scriptEnv) \in Nat \ {0} /\ Len(scriptEnv') = Len(scriptEnv) - 1
        /\ \A d \in 1..Len(scriptEnv') : scriptEnv'[d] = scriptEnv[d]
        /\ Sc!Last(scriptEnv) = scriptEnv[Len(scriptEnv)]
        /\ scriptEnv' \in Seq(Envs)
    BY <1>4, ScriptEnds DEF ScriptTypes, Stack
  <2> DEFINE env == scriptEnv[Len(scriptEnv)]
  <2>3. refs' = IF env.kind = "timer" THEN [refs EXCEPT ![env.timer] = refs[env.timer] - 1]
                ELSE refs
    BY <1>4, <2>2 DEF Sc!EndOfScript
  <2>4. CASE env.kind = "timer"
    <3>1. Len(scriptEnv) = 1 /\ env.timer \in Sc!Timers
      BY <2>2, <2>4 DEF Stack
    <3>2. scriptEnv' = <<>>
      BY <2>2, <3>1
    <3>3. Sc!RunningTimers = {env.timer}
      BY <2>2, <2>4, <3>1, AtTheBottom DEF Bottom
    <3>4. Sc!RunningTimers' = {}
      BY <2>2, <3>2, AtTheBottomThen DEF Bottom
    <3>5. refs[env.timer] = 1 /\ env.timer \notin timerEvents
      BY <3>1, <3>3 DEF TimersInv, Sc!TimersAreKept
    <3> HIDE DEF env
    <3>6. refs' = [refs EXCEPT ![env.timer] = refs[env.timer] - 1]
      BY <2>3, <2>4
    <3>7. refs' = [refs EXCEPT ![env.timer] = 0]
      BY <3>5, <3>6
    <3>8. refs \in [Sc!Timers -> Int]
      BY DEF TimersInv
    <3>9. \A s \in Sc!Timers : refs'[s] = IF s = env.timer THEN 0 ELSE refs[s]
      BY <3>1, <3>7, <3>8
    <3>10. refs' \in [Sc!Timers -> Int]
      BY <3>1, <3>7, <3>8
    <3> HIDE <2>2, <2>3, <1>4
    <3> QED BY <1>0, <2>1, <3>1, <3>3, <3>4, <3>5, <3>9, <3>10 DEF TimersInv, Sc!TimersAreKept
  <2>5. CASE env.kind # "timer"
    <3>1. UNCHANGED TimerVars
      BY <2>1, <2>3, <2>5 DEF TimerVars
    <3>2. CASE Len(scriptEnv) = 1
      <4>1. scriptEnv' = <<>>
        BY <2>2, <3>2
      <4>2. Sc!RunningTimers = {} /\ Sc!RunningTimers' = {}
        BY <2>2, <2>5, <3>2, <4>1, AtTheBottom, AtTheBottomThen DEF Bottom
      <4> QED BY <3>1, <4>2, TimersFrame
    <3>3. CASE Len(scriptEnv) # 1
      <4>1. scriptEnv' # <<>> /\ scriptEnv'[1] = scriptEnv[1]
        BY <2>2, <3>3
      <4>2. Sc!RunningTimers = Sc!RunningTimers'
        BY <2>2, <4>1, AtTheBottom, AtTheBottomThen DEF Bottom
      <4> QED BY <3>1, <4>2, TimersFrame
    <3> QED BY <3>2, <3>3
  <2> QED BY <2>4, <2>5
<1>5. ASSUME NEW t \in Sc!Timers, Sc!TimerIsDue(t)
      PROVE  TimersInv'
  <2>1. /\ t \in waiting /\ waiting' = waiting \ {t} /\ ready' = ready \union {t}
        /\ refs' = refs /\ timerEvents' = timerEvents /\ scriptEnv' = scriptEnv
    BY <1>5 DEF Sc!TimerIsDue
  <2> QED BY <1>0, <2>1, SameStack DEF TimersInv, Sc!TimersAreKept
<1>6. ASSUME NEW t \in Sc!Timers, Sc!AddEvent(t)
      PROVE  TimersInv'
  <2>1. /\ refs[t] = 0 /\ t \notin timerEvents \union waiting \union ready
        /\ refs' = [refs EXCEPT ![t] = refs[t] + 1]
        /\ timerEvents' = timerEvents \union {t} /\ waiting' = waiting \union {t}
        /\ ready' = ready /\ scriptEnv' = scriptEnv
    BY <1>6 DEF Sc!AddEvent
  <2>2. t \notin Sc!RunningTimers
    BY <2>1 DEF TimersInv, Sc!TimersAreKept
  <2>3. refs \in [Sc!Timers -> Int] /\ refs' = [refs EXCEPT ![t] = 1]
    BY <2>1 DEF TimersInv
  <2>4. refs' \in [Sc!Timers -> Int] /\ \A s \in Sc!Timers : refs'[s] = IF s = t THEN 1 ELSE refs[s]
    BY <2>3
  <2> HIDE <1>6, <2>3
  <2> QED BY <1>0, <2>1, <2>2, <2>4, SameStack DEF TimersInv, Sc!TimersAreKept
<1>7. ASSUME NEW t \in Sc!Timers, Sc!StopEvent(t)
      PROVE  TimersInv'
  <2>1. /\ t \in timerEvents /\ refs' = [refs EXCEPT ![t] = refs[t] - 1]
        /\ timerEvents' = timerEvents \ {t} /\ waiting' = waiting \ {t}
        /\ ready' = ready /\ scriptEnv' = scriptEnv
    BY <1>7 DEF Sc!StopEvent
  <2>2. t \notin Sc!RunningTimers /\ refs[t] = 1
    BY <2>1 DEF TimersInv, Sc!TimersAreKept
  <2>3. refs \in [Sc!Timers -> Int] /\ refs' = [refs EXCEPT ![t] = 0]
    BY <2>1, <2>2 DEF TimersInv
  <2>4. refs' \in [Sc!Timers -> Int] /\ \A s \in Sc!Timers : refs'[s] = IF s = t THEN 0 ELSE refs[s]
    BY <2>3
  <2> HIDE <1>7, <2>3
  <2> QED BY <1>0, <2>1, <2>2, <2>4, SameStack DEF TimersInv, Sc!TimersAreKept
<1>8. StackStays => \/ UNCHANGED <<TimerVars, scriptEnv>>
                    \/ \E t \in Sc!Timers : Sc!TimerIsDue(t) \/ Sc!AddEvent(t) \/ Sc!StopEvent(t)
  BY DEF StackStays, TimerVars, Sc!RegisterCreatureEvent,
         Sc!CreateItem, Sc!RemoveItem, Sc!AddItemEx, Sc!ThinkIsDue,
         Sc!ReloadCreatureEvents, Sc!ReloadGlobalEvents
<1>9. CASE UNCHANGED <<TimerVars, scriptEnv>>
  BY <1>9, SameStack, TimersFrame
<1> QED
  <2>1. CASE StackStays
    BY <1>5, <1>6, <1>7, <1>8, <1>9, <2>1
  <2> QED BY <1>1, <1>2, <1>3, <1>4, <2>1, ByStack

-----------------------------------------------------------------------------
(* The temporary items.                                                    *)

(* An item that no script has created is no temporary item, and what is    *)
(* one belongs to one environment.                                         *)
ItemTypes ==
  /\ tempItems \subseteq (1..Environments) \X Items
  /\ object \in [Items -> [parent : {"none", "virtual", "placed", "null"},
                           released : {0, 1}, forgotten : BOOLEAN]]
ItemsInv ==
  /\ ItemTypes
  /\ Sc!ItemsAreReleased
  /\ \A i \in Items : object[i].parent = "none" =>
       object[i].released = 0 /\ \A x \in tempItems : x[2] # i
  /\ \A x \in tempItems : \A y \in tempItems : x[2] = y[2] => x = y

ItemVars == <<tempItems, object>>

(* An environment more leaves the items as they are.                       *)
LEMMA ItemsFrame ==
  ASSUME ItemsInv, UNCHANGED ItemVars, Len(scriptEnv) \in Nat, Len(scriptEnv') \in Nat,
         Len(scriptEnv) <= Len(scriptEnv')
  PROVE  ItemsInv'
<1>1. Sc!Depth = Len(scriptEnv) /\ Sc!Depth' = Len(scriptEnv')
  BY DEF Sc!Depth
<1>2. 1..Sc!Depth \subseteq 1..Sc!Depth'
  BY <1>1
<1>3. \A x \in tempItems : x[1] \in Nat
  BY DEF ItemsInv, ItemTypes
<1>4. \A x \in tempItems : x[1] <= Sc!Depth' /\ object[x[2]].released = 0
  BY <1>1, <1>3 DEF ItemsInv, Sc!ItemsAreReleased
<1>5. ASSUME NEW i \in Items, object[i].parent = "virtual", object[i].released = 0,
             ~object[i].forgotten
      PROVE  \E d \in 1..Sc!Depth' : <<d, i>> \in tempItems
  <2>1. \E d \in 1..Sc!Depth : <<d, i>> \in tempItems
    BY <1>5 DEF ItemsInv, Sc!ItemsAreReleased
  <2> QED BY <1>2, <2>1
<1>6. \A i \in Items : object[i].released <= 1
  BY DEF ItemsInv, Sc!ItemsAreReleased
<1>7. object' = object /\ tempItems' = tempItems
  BY DEF ItemVars
<1>8. Sc!ItemsAreReleased'
  BY <1>4, <1>5, <1>6, <1>7 DEF Sc!ItemsAreReleased
<1> QED BY <1>7, <1>8 DEF ItemsInv, ItemTypes

(* What is known of one item, by its fields.                               *)
Record(p, r, f) == [parent |-> p, released |-> r, forgotten |-> f]

(* What a script does to one item, and what becomes of its entry among the *)
(* temporary items.                                                        *)
LEMMA OneItem ==
  ASSUME ScriptTypes, ItemsInv, NEW i \in Items, NEW it, UNCHANGED scriptEnv,
         it \in [parent : {"none", "virtual", "placed", "null"},
                 released : {0, 1}, forgotten : BOOLEAN],
         object' = [object EXCEPT ![i] = it], it.parent # "none",
         \/ tempItems' = tempItems /\ it.released = 0
            /\ (it.forgotten = object[i].forgotten \/ it.parent = "placed")
            /\ it.parent \in {object[i].parent, "placed"} /\ object[i].released = 0
         \/ tempItems' = {x \in tempItems : x[2] # i}
            /\ (it.parent = "virtual" => it.forgotten \/ it.released = 1)
  PROVE  ItemsInv'
<1>1. /\ tempItems' \subseteq tempItems
      /\ \A x \in tempItems : x[2] # i => x \in tempItems'
      /\ tempItems \subseteq (1..Environments) \X Items
  BY DEF ItemsInv, ItemTypes
<1>2. /\ \A j \in Items : j # i => object'[j] = object[j]
      /\ object'[i] = it
      /\ object' \in [Items -> [parent : {"none", "virtual", "placed", "null"},
                                released : {0, 1}, forgotten : BOOLEAN]]
  BY DEF ItemsInv, ItemTypes
<1>3. Sc!Depth' = Sc!Depth
  BY DEF Sc!Depth
<1>4. ItemTypes'
  BY <1>1, <1>2 DEF ItemTypes
<1>5. \A j \in Items : object'[j].released <= 1
  BY <1>2
<1>6. ASSUME NEW j \in Items, object'[j].parent = "virtual", object'[j].released = 0,
             ~object'[j].forgotten
      PROVE  \E d \in 1..Sc!Depth' : <<d, j>> \in tempItems'
  <2>1. CASE j # i
    <3>1. PICK d \in 1..Sc!Depth : <<d, j>> \in tempItems
      BY <1>2, <1>6, <2>1 DEF ItemsInv, Sc!ItemsAreReleased
    <3> QED BY <1>1, <1>3, <2>1, <3>1
  <2>2. CASE j = i
    <3>1. it.parent = "virtual" /\ it.released = 0 /\ ~it.forgotten
      BY <1>2, <1>6, <2>2
    <3>2. tempItems' = tempItems /\ object[i].parent = "virtual"
          /\ object[i].released = 0 /\ ~object[i].forgotten
      BY <3>1
    <3>3. \E d \in 1..Sc!Depth : <<d, i>> \in tempItems
      BY <3>2 DEF ItemsInv, Sc!ItemsAreReleased
    <3> QED BY <1>3, <2>2, <3>2, <3>3
  <2> QED BY <2>1, <2>2
<1>7. ASSUME NEW x \in tempItems'
      PROVE  x[1] <= Sc!Depth' /\ object'[x[2]].released = 0
  <2>1. x \in tempItems /\ x[2] \in Items
    BY <1>1
  <2>2. x[1] <= Sc!Depth /\ object[x[2]].released = 0
    BY <2>1 DEF ItemsInv, Sc!ItemsAreReleased
  <2>3. x[2] = i => it.released = 0
    OBVIOUS
  <2> QED BY <1>2, <1>3, <2>1, <2>2, <2>3
<1>8. Sc!ItemsAreReleased'
  BY <1>5, <1>6, <1>7 DEF Sc!ItemsAreReleased
<1>9. \A j \in Items : object'[j].parent = "none" =>
        object'[j].released = 0 /\ \A x \in tempItems' : x[2] # j
  <2>1. \A j \in Items : object'[j].parent = "none" => j # i /\ object'[j] = object[j]
    BY <1>2
  <2> QED BY <1>1, <2>1 DEF ItemsInv
<1>10. \A x \in tempItems' : \A y \in tempItems' : x[2] = y[2] => x = y
  BY <1>1 DEF ItemsInv
<1> QED BY <1>4, <1>8, <1>9, <1>10 DEF ItemsInv

(* The items, ...                                                          *)
ItemRecords == [parent : {"none", "virtual", "placed", "null"},
                released : {0, 1}, forgotten : BOOLEAN]

(* ... one field of an item at a time, ...                                 *)
LEMMA OneField ==
  ASSUME NEW r \in ItemRecords, NEW p, NEW f
  PROVE  /\ r = Record(r.parent, r.released, r.forgotten)
         /\ [r EXCEPT !.parent = p] = Record(p, r.released, r.forgotten)
         /\ [r EXCEPT !.forgotten = f] = Record(r.parent, r.released, f)
  BY DEF ItemRecords, Record

(* ... and its release.                                                    *)
LEMMA ReleasedIs ==
  ASSUME ItemTypes, NEW i \in Items, object[i].released = 0
  PROVE  Sc!Released(i) = Record(object[i].parent, 1, object[i].forgotten)
  BY DEF ItemTypes, Sc!Released, Record

(* Game.createItem(): the item is temporary from now on.                   *)
LEMMA CreatedStep ==
  ASSUME ScriptTypes, ItemsInv, NEW i \in Items, Sc!CreateItem(i)
  PROVE  ItemsInv'
<1> DEFINE it == Record("virtual", object[i].released, object[i].forgotten)
<1>1. /\ object[i].parent = "none" /\ scriptEnv' = scriptEnv
      /\ object' = [object EXCEPT ![i].parent = "virtual"]
      /\ tempItems' = tempItems \union {<<Len(scriptEnv), i>>}
      /\ scriptEnv # <<>>
  BY DEF Sc!CreateItem, Sc!Deed, Sc!Running, Sc!Depth
<1>2. /\ object[i].released = 0 /\ \A x \in tempItems : x[2] # i
  BY <1>1 DEF ItemsInv
<1>3. object' = [object EXCEPT ![i] = it]
  <2>1. object[i] \in ItemRecords
    BY DEF ItemsInv, ItemTypes, ItemRecords
  <2>2. [object[i] EXCEPT !.parent = "virtual"] = it
    BY <2>1, OneField
  <2>3. object' = [object EXCEPT ![i] = [object[i] EXCEPT !.parent = "virtual"]]
    BY <1>1
  <2> QED BY <2>2, <2>3
<1>4. it.released = 0 /\ it.parent = "virtual"
      /\ it \in [parent : {"none", "virtual", "placed", "null"},
                 released : {0, 1}, forgotten : BOOLEAN]
  BY <1>2 DEF Record, ItemsInv, ItemTypes
<1> HIDE DEF it
<1>5. /\ \A j \in Items : j # i => object'[j] = object[j]
      /\ object'[i] = it
      /\ object' \in [Items -> [parent : {"none", "virtual", "placed", "null"},
                                released : {0, 1}, forgotten : BOOLEAN]]
  BY <1>3, <1>4 DEF ItemsInv, ItemTypes
<1>6. Len(scriptEnv) \in 1..Environments /\ Sc!Depth' = Len(scriptEnv) /\ Sc!Depth = Len(scriptEnv)
  BY <1>1, ScriptsAssumption DEF ScriptTypes, Stack, Sc!Depth
<1> HIDE <1>1, <1>3
<1>7. tempItems' = tempItems \union {<<Len(scriptEnv), i>>}
  BY <1>1
<1>8. tempItems' \subseteq (1..Environments) \X Items
  BY <1>6, <1>7 DEF ItemsInv, ItemTypes
<1>9. ASSUME NEW j \in Items, object'[j].parent = "virtual", object'[j].released = 0,
             ~object'[j].forgotten
      PROVE  \E d \in 1..Sc!Depth' : <<d, j>> \in tempItems'
  <2>1. CASE j = i
    BY <1>6, <1>7, <2>1
  <2>2. CASE j # i
    <3>1. PICK d \in 1..Sc!Depth : <<d, j>> \in tempItems
      BY <1>5, <1>9, <2>2 DEF ItemsInv, Sc!ItemsAreReleased
    <3> QED BY <1>6, <1>7, <3>1
  <2> QED BY <2>1, <2>2
<1>10. ASSUME NEW x \in tempItems'
       PROVE  x[1] <= Sc!Depth' /\ object'[x[2]].released = 0
  <2>1. CASE x \in tempItems
    <3>1. x[2] \in Items /\ x[2] # i
      BY <1>2, <2>1 DEF ItemsInv, ItemTypes
    <3>2. x[1] <= Sc!Depth /\ object[x[2]].released = 0
      BY <2>1 DEF ItemsInv, Sc!ItemsAreReleased
    <3> QED BY <1>5, <1>6, <3>1, <3>2
  <2>2. CASE x = <<Len(scriptEnv), i>>
    BY <1>4, <1>5, <1>6, <2>2
  <2> QED BY <1>7, <2>1, <2>2
<1>11. Sc!ItemsAreReleased'
  <2>1. \A j \in Items : object'[j].released <= 1
    BY <1>5
  <2> QED BY <1>9, <1>10, <2>1 DEF Sc!ItemsAreReleased
<1>12. \A j \in Items : object'[j].parent = "none" =>
         object'[j].released = 0 /\ \A x \in tempItems' : x[2] # j
  <2>1. \A j \in Items : object'[j].parent = "none" => j # i /\ object'[j] = object[j]
    BY <1>4, <1>5
  <2> QED BY <1>7, <2>1 DEF ItemsInv
<1>13. ASSUME NEW x \in tempItems', NEW y \in tempItems', x[2] = y[2]
       PROVE  x = y
  <2>1. CASE x \in tempItems /\ y \in tempItems
    BY <1>13, <2>1 DEF ItemsInv
  <2>2. CASE ~(x \in tempItems /\ y \in tempItems)
    BY <1>2, <1>7, <1>13, <2>2
  <2> QED BY <2>1, <2>2
<1> QED BY <1>5, <1>8, <1>11, <1>12, <1>13 DEF ItemsInv, ItemTypes

(* addItemEx() and what it leaves of the temporary item.                   *)
LEMMA GivenStep ==
  ASSUME ScriptTypes, ItemsInv, NEW i \in Items, NEW off \in BOOLEAN, Sc!AddItemEx(i, off)
  PROVE  ItemsInv'
<1>1. object[i].parent = "virtual" /\ object[i].released = 0 /\ UNCHANGED scriptEnv
  BY DEF Sc!AddItemEx
<1>2. object[i].forgotten \in BOOLEAN
  BY DEF ItemsInv, ItemTypes
<1> DEFINE Off == IF off THEN tempItems' = {x \in tempItems : x[2] # i}
                  ELSE tempItems' = tempItems
<1>3. CASE object' = [object EXCEPT ![i].parent = "placed", ![i].forgotten = FALSE] /\ Off
  <2> DEFINE it == Record("placed", 0, FALSE)
  <2>1. object' = [object EXCEPT ![i] = it]
    <3> DEFINE q == [object EXCEPT ![i].parent = "placed"]
               r == Record("placed", 0, object[i].forgotten)
    <3>0. object \in [Items -> ItemRecords] /\ object[i] \in ItemRecords
      BY DEF ItemsInv, ItemTypes, ItemRecords
    <3>1. [object[i] EXCEPT !.parent = "placed"] = r
      BY <1>1, <3>0, OneField
    <3>2. q = [object EXCEPT ![i] = [object[i] EXCEPT !.parent = "placed"]]
      OBVIOUS
    <3>3. object' = [q EXCEPT ![i].forgotten = FALSE]
      BY <1>3
    <3> HIDE DEF q, it, r
    <3>4. q = [object EXCEPT ![i] = r] /\ q[i] = r
      BY <3>0, <3>1, <3>2
    <3>5. [q[i] EXCEPT !.forgotten = FALSE] = it
      <4>1. [r EXCEPT !.forgotten = FALSE] = it
        <5>1. r \in ItemRecords /\ r.parent = "placed" /\ r.released = 0
          BY <1>2 DEF r, Record, ItemRecords
        <5>2. it = Record("placed", 0, FALSE)
          BY DEF it
        <5>3. [r EXCEPT !.forgotten = FALSE] = Record(r.parent, r.released, FALSE)
          BY <5>1, OneField, Zenon
        <5> QED BY <5>1, <5>2, <5>3, Zenon
      <4> QED BY <3>4, <4>1
    <3>6. object' = [q EXCEPT ![i] = [q[i] EXCEPT !.forgotten = FALSE]]
      BY <3>3
    <3>7. object' = [q EXCEPT ![i] = it]
      BY <3>5, <3>6
    <3> HIDE <1>3
    <3> QED BY <3>4, <3>7
  <2>2. it.parent = "placed" /\ it.released = 0
        /\ it \in [parent : {"none", "virtual", "placed", "null"},
                   released : {0, 1}, forgotten : BOOLEAN]
    BY DEF Record
  <2> HIDE DEF it
  <2>3. tempItems' = tempItems \/ tempItems' = {x \in tempItems : x[2] # i}
    BY <1>3
  <2> HIDE <1>3
  <2> QED BY <1>1, <2>1, <2>2, <2>3, OneItem
<1>4. CASE object' = [object EXCEPT ![i] = Sc!Released(i)]
           /\ tempItems' = {x \in tempItems : x[2] # i}
  <2> DEFINE it == Record("virtual", 1, object[i].forgotten)
  <2>1. Sc!Released(i) = it
    BY <1>1, ReleasedIs DEF ItemsInv
  <2>2. it.parent = "virtual" /\ it.released = 1
        /\ it \in [parent : {"none", "virtual", "placed", "null"},
                   released : {0, 1}, forgotten : BOOLEAN]
    BY <1>2 DEF Record
  <2> HIDE DEF it
  <2> QED BY <1>1, <1>4, <2>1, <2>2, OneItem
<1>5. CASE object' = [object EXCEPT ![i].forgotten = object[i].forgotten \/ off] /\ Off
  <2> DEFINE it == Record("virtual", 0, object[i].forgotten \/ off)
  <2>1. object' = [object EXCEPT ![i] = it]
    <3>1. object[i] \in ItemRecords
      BY DEF ItemsInv, ItemTypes, ItemRecords
    <3> DEFINE f == object[i].forgotten \/ off
    <3>2. object' = [object EXCEPT ![i] = [object[i] EXCEPT !.forgotten = f]]
      BY <1>5
    <3>3. it = Record("virtual", 0, f)
      OBVIOUS
    <3> HIDE DEF f, it
    <3>4. [object[i] EXCEPT !.forgotten = f] = Record(object[i].parent, object[i].released, f)
      BY <3>1, OneField
    <3>5. [object[i] EXCEPT !.forgotten = f] = it
      BY <1>1, <3>3, <3>4
    <3> HIDE <1>5
    <3> QED BY <3>2, <3>5
  <2>2. it.parent = "virtual" /\ it.released = 0 /\ it.forgotten = (object[i].forgotten \/ off)
        /\ it \in [parent : {"none", "virtual", "placed", "null"},
                   released : {0, 1}, forgotten : BOOLEAN]
    BY <1>2 DEF Record
  <2> HIDE DEF it
  <2>3. \/ tempItems' = tempItems /\ ~off
        \/ tempItems' = {x \in tempItems : x[2] # i} /\ off
    BY <1>5
  <2> HIDE <1>5
  <2>4. CASE tempItems' = tempItems /\ ~off
    <3>1. it.forgotten = object[i].forgotten
      BY <1>2, <2>2, <2>4
    <3> QED BY <1>1, <2>1, <2>2, <2>4, <3>1, OneItem
  <2>5. CASE tempItems' = {x \in tempItems : x[2] # i} /\ off
    <3>1. it.forgotten
      BY <2>2, <2>5
    <3> QED BY <1>1, <2>1, <2>2, <2>5, <3>1, OneItem
  <2> QED BY <2>3, <2>4, <2>5
<1>6. \/ object' = [object EXCEPT ![i].parent = "placed", ![i].forgotten = FALSE] /\ Off
      \/ object' = [object EXCEPT ![i] = Sc!Released(i)]
         /\ tempItems' = {x \in tempItems : x[2] # i}
      \/ object' = [object EXCEPT ![i].forgotten = object[i].forgotten \/ off] /\ Off
  BY DEF Sc!AddItemEx, Sc!OnRemoved, Sc!RemoveTempItem
<1> QED BY <1>3, <1>4, <1>5, <1>6

(* item:remove().                                                          *)
LEMMA RemovedStep ==
  ASSUME ScriptTypes, ItemsInv, NEW i \in Items, Sc!RemoveItem(i)
  PROVE  ItemsInv'
<1>1. /\ object[i].parent \in {"virtual", "placed"} /\ object[i].released = 0
      /\ UNCHANGED scriptEnv /\ tempItems' = {x \in tempItems : x[2] # i}
  BY DEF Sc!RemoveItem, Sc!RemoveTempItem
<1>2. object[i].forgotten \in BOOLEAN
  BY DEF ItemsInv, ItemTypes
<1>3. object' = [object EXCEPT ![i] =
         IF object[i].parent = "placed" THEN [Sc!Released(i) EXCEPT !.parent = "null"]
         ELSE [object[i] EXCEPT !.forgotten = TRUE]]
  BY DEF Sc!RemoveItem
<1> DEFINE it == IF object[i].parent = "placed"
                 THEN Record("null", 1, object[i].forgotten)
                 ELSE Record("virtual", 0, TRUE)
<1>4. CASE object[i].parent = "placed"
  <2>1. Sc!Released(i) = Record(object[i].parent, 1, object[i].forgotten)
    BY <1>1, ReleasedIs DEF ItemsInv
  <2>2. [Sc!Released(i) EXCEPT !.parent = "null"] = Record("null", 1, object[i].forgotten)
    BY <2>1 DEF Record
  <2>3. object' = [object EXCEPT ![i] = Record("null", 1, object[i].forgotten)]
    BY <1>3, <1>4, <2>2
  <2> DEFINE rec == Record("null", 1, object[i].forgotten)
  <2>4. rec.parent = "null"
        /\ rec \in [parent : {"none", "virtual", "placed", "null"},
                   released : {0, 1}, forgotten : BOOLEAN]
    BY <1>2 DEF Record
  <2>5. object' = [object EXCEPT ![i] = rec]
    BY <2>3
  <2> HIDE DEF rec, it
  <2> HIDE <1>3
  <2> QED BY <1>1, <2>4, <2>5, OneItem
<1>5. CASE object[i].parent = "virtual"
  <2> DEFINE rec == Record("virtual", 0, TRUE)
  <2>1. [object[i] EXCEPT !.forgotten = TRUE] = rec
    <3>1. object[i] \in ItemRecords
      BY DEF ItemsInv, ItemTypes, ItemRecords
    <3> QED BY <1>1, <1>5, <3>1, OneField
  <2>2. object' = [object EXCEPT ![i] = rec]
    BY <1>3, <1>5, <2>1
  <2>3. rec.parent = "virtual" /\ rec.forgotten
        /\ rec \in [parent : {"none", "virtual", "placed", "null"},
                   released : {0, 1}, forgotten : BOOLEAN]
    BY DEF Record
  <2> HIDE DEF rec, it
  <2> HIDE <1>3
  <2> QED BY <1>1, <2>2, <2>3, OneItem
<1> QED BY <1>1, <1>4, <1>5

(* resetScriptEnv() releases what the script left without a place.         *)
LEMMA EndedStep ==
  ASSUME ScriptTypes, ItemsInv, Sc!EndOfScript
  PROVE  ItemsInv'
<1> DEFINE d0 == Len(scriptEnv)
           gone(i) == <<d0, i>> \in tempItems /\ object[i].parent = "virtual"
<1>1. /\ object' = [i \in Items |-> IF gone(i) THEN Sc!Released(i) ELSE object[i]]
      /\ tempItems' = {x \in tempItems : x[1] # d0}
  BY DEF Sc!EndOfScript, Sc!ResetEnv, Sc!Depth
<1>2. d0 \in Nat \ {0} /\ Sc!Depth = d0 /\ Sc!Depth' = d0 - 1
  BY ScriptEnds DEF Sc!Depth
<1>3. ASSUME NEW i \in Items, gone(i)
      PROVE  object'[i] = Record("virtual", 1, object[i].forgotten)
  <2>1. object[i].released = 0
    BY <1>3 DEF ItemsInv, Sc!ItemsAreReleased
  <2>2. Sc!Released(i) = Record(object[i].parent, 1, object[i].forgotten)
    BY <2>1, ReleasedIs DEF ItemsInv
  <2> QED BY <1>1, <1>3, <2>2
<1>4. \A i \in Items : ~gone(i) => object'[i] = object[i]
  BY <1>1
<1>5. object' \in [Items -> [parent : {"none", "virtual", "placed", "null"},
                            released : {0, 1}, forgotten : BOOLEAN]]
  <2>1. \A i \in Items : object[i] \in [parent : {"none", "virtual", "placed", "null"},
                                      released : {0, 1}, forgotten : BOOLEAN]
    BY DEF ItemsInv, ItemTypes
  <2>2. \A i \in Items : gone(i) => object'[i] \in [parent : {"none", "virtual", "placed", "null"},
                                      released : {0, 1}, forgotten : BOOLEAN]
    <3> SUFFICES ASSUME NEW i \in Items, gone(i)
                 PROVE  object'[i] \in [parent : {"none", "virtual", "placed", "null"},
                                      released : {0, 1}, forgotten : BOOLEAN]
      OBVIOUS
    <3>1. object'[i] = Record("virtual", 1, object[i].forgotten)
      BY <1>3
    <3>2. object[i].forgotten \in BOOLEAN
      BY <2>1
    <3> QED BY <3>1, <3>2 DEF Record
  <2>3. DOMAIN object' = Items /\ object' = [i \in Items |-> object'[i]]
    BY <1>1
  <2> HIDE DEF gone
  <2> HIDE <1>1
  <2> QED BY <1>4, <2>1, <2>2, <2>3
<1>6. tempItems' \subseteq tempItems /\ tempItems \subseteq (1..Environments) \X Items
  BY <1>1 DEF ItemsInv, ItemTypes
<1>7. \A i \in Items : object'[i].released <= 1
  BY <1>5
<1>8. ASSUME NEW i \in Items, object'[i].parent = "virtual", object'[i].released = 0,
             ~object'[i].forgotten
      PROVE  \E d \in 1..Sc!Depth' : <<d, i>> \in tempItems'
  <2>1. ~gone(i)
    <3>1. gone(i) => object'[i] = Record("virtual", 1, object[i].forgotten)
      BY <1>3
    <3>2. Record("virtual", 1, object[i].forgotten).released = 1
      BY DEF Record
    <3> HIDE DEF gone
    <3> QED BY <1>8, <3>1, <3>2
  <2>2. object'[i] = object[i]
    BY <1>4, <2>1
  <2>3. PICK d \in 1..Sc!Depth : <<d, i>> \in tempItems
    BY <1>8, <2>2 DEF ItemsInv, Sc!ItemsAreReleased
  <2>4. d # d0
    BY <1>8, <2>1, <2>2, <2>3
  <2>5. d \in 1..Sc!Depth'
    BY <1>2, <2>3, <2>4
  <2> QED BY <1>1, <2>3, <2>4, <2>5
<1>9. ASSUME NEW x \in tempItems'
      PROVE  x[1] <= Sc!Depth' /\ object'[x[2]].released = 0
  <2>1. x \in tempItems /\ x[1] # d0 /\ x[1] \in Nat /\ x[2] \in Items
    BY <1>1, <1>6
  <2>2. x[1] <= Sc!Depth /\ object[x[2]].released = 0
    BY <2>1 DEF ItemsInv, Sc!ItemsAreReleased
  <2>3. ~gone(x[2])
    <3>1. SUFFICES ASSUME <<d0, x[2]>> \in tempItems PROVE FALSE
      OBVIOUS
    <3>2. <<d0, x[2]>>[2] = x[2] /\ <<d0, x[2]>>[1] = d0
      OBVIOUS
    <3>3. x = <<d0, x[2]>>
      BY <2>1, <3>1, <3>2 DEF ItemsInv
    <3> QED BY <2>1, <3>2, <3>3
  <2> QED BY <1>2, <1>4, <2>1, <2>2, <2>3
<1>10. Sc!ItemsAreReleased'
  BY <1>7, <1>8, <1>9 DEF Sc!ItemsAreReleased
<1>11. \A j \in Items : object'[j].parent = "none" =>
         object'[j].released = 0 /\ \A x \in tempItems' : x[2] # j
  <2>1. \A j \in Items : object'[j].parent = "none" => object'[j] = object[j]
    <3> SUFFICES ASSUME NEW j \in Items, object'[j].parent = "none"
                 PROVE  object'[j] = object[j]
      OBVIOUS
    <3>1. gone(j) => object'[j] = Record("virtual", 1, object[j].forgotten)
      BY <1>3
    <3>2. Record("virtual", 1, object[j].forgotten).parent = "virtual"
      BY DEF Record
    <3> HIDE DEF gone
    <3> QED BY <1>4, <3>1, <3>2
  <2> QED BY <1>6, <2>1 DEF ItemsInv
<1>12. \A x \in tempItems' : \A y \in tempItems' : x[2] = y[2] => x = y
  BY <1>6 DEF ItemsInv
<1> QED BY <1>5, <1>6, <1>10, <1>11, <1>12 DEF ItemsInv, ItemTypes

(* Every action keeps the items.                                           *)
LEMMA ItemsStep ==
  ASSUME ScriptTypes, EventsInv, ItemsInv, Sc!Next
  PROVE  ItemsInv'
<1>0. Len(scriptEnv) \in Nat
  BY DEF ScriptTypes, Stack
<1>1. CASE QuietAction
  <2>1. UNCHANGED ItemVars
    BY <1>1 DEF QuietAction, ItemVars, Sc!Login, Sc!Happen, Sc!Ask
  <2>2. Len(scriptEnv') \in Nat /\ Len(scriptEnv) <= Len(scriptEnv')
    BY <1>1, QuietStep, QuietEffect DEF QuietAction
  <2> QED BY <1>0, <2>1, <2>2, ItemsFrame
<1>2. ASSUME NEW t \in Sc!Timers, Sc!ExecuteTimerEvent(t)
      PROVE  ItemsInv'
  <2>1. UNCHANGED ItemVars
    BY <1>2 DEF ItemVars, Sc!ExecuteTimerEvent
  <2>2. scriptEnv = <<>> /\ (scriptEnv' = <<TimerEnv(t)>> \/ scriptEnv' = <<>>)
    BY <1>2, TimerRuns
  <2>3. Len(scriptEnv') \in Nat /\ Len(scriptEnv) <= Len(scriptEnv')
    BY <2>2
  <2> QED BY <1>0, <2>1, <2>3, ItemsFrame
<1>3. CASE Sc!Think
  <2>1. UNCHANGED ItemVars
    BY <1>3 DEF ItemVars, Sc!Think
  <2>2. scriptEnv = <<>> /\ (scriptEnv' = <<GlobalEnv>> \/ scriptEnv' = <<>>)
    BY <1>3, GlobalRuns
  <2>3. Len(scriptEnv') \in Nat /\ Len(scriptEnv) <= Len(scriptEnv')
    BY <2>2
  <2> QED BY <1>0, <2>1, <2>3, ItemsFrame
<1>4. CASE UNCHANGED <<ItemVars, scriptEnv>>
  BY <1>0, <1>4, ItemsFrame
<1>5. StackStays => \/ UNCHANGED <<ItemVars, scriptEnv>>
                    \/ \E i \in Items : \/ Sc!CreateItem(i) \/ Sc!RemoveItem(i)
                                        \/ \E off \in BOOLEAN : Sc!AddItemEx(i, off)
  BY DEF StackStays, ItemVars, Sc!RegisterCreatureEvent, Sc!TimerIsDue, Sc!AddEvent,
         Sc!StopEvent, Sc!ThinkIsDue, Sc!ReloadCreatureEvents, Sc!ReloadGlobalEvents
<1>6. CASE StackStays
  BY <1>4, <1>5, <1>6, CreatedStep, RemovedStep, GivenStep
<1> QED BY <1>1, <1>2, <1>3, <1>6, EndedStep, ByStack

-----------------------------------------------------------------------------
(* The chain of the global events.                                         *)

(* While the global events run their task is the one that has been taken,  *)
(* and nobody can reload them.                                             *)
ThinkTypes == [map : BOOLEAN, known : BOOLEAN, strays : Nat, ready : Nat, raced : Nat]
ChainInv ==
  /\ think \in ThinkTypes
  /\ Sc!ChainGoesOn
  /\ Sc!InThink => think.map /\ Sc!Tasks <= think.raced

Chain(m, k, s, r, c) == [map |-> m, known |-> k, strays |-> s, ready |-> r, raced |-> c]
Count(k, s, r) == (IF k THEN 1 ELSE 0) + s + r

(* The chain of the global events by its fields.                           *)
LEMMA ChainFields ==
  ASSUME NEW c \in ThinkTypes
  PROVE  /\ c = Chain(c.map, c.known, c.strays, c.ready, c.raced)
         /\ c.map \in BOOLEAN /\ c.known \in BOOLEAN
         /\ c.strays \in Nat /\ c.ready \in Nat /\ c.raced \in Nat
  BY DEF ThinkTypes, Chain

(* What is built from fields of the right kind is such a chain.            *)
LEMMA ChainTyped ==
  ASSUME NEW m \in BOOLEAN, NEW k \in BOOLEAN, NEW s \in Nat, NEW r \in Nat, NEW c \in Nat
  PROVE  /\ Chain(m, k, s, r, c) \in ThinkTypes
         /\ Chain(m, k, s, r, c).map = m /\ Chain(m, k, s, r, c).known = k
         /\ Chain(m, k, s, r, c).strays = s /\ Chain(m, k, s, r, c).ready = r
         /\ Chain(m, k, s, r, c).raced = c
  BY DEF ThinkTypes, Chain

(* What the invariant says of the next state.                              *)
LEMMA ChainIs ==
  ASSUME NEW m \in BOOLEAN, NEW k \in BOOLEAN, NEW s \in Nat, NEW r \in Nat, NEW c \in Nat,
         think' = Chain(m, k, s, r, c),
         astray' = "no" /\ m /\ ~Sc!InThink' => Count(k, s, r) > 0,
         Count(k, s, r) <= 1 + c,
         Sc!InThink' => m /\ Count(k, s, r) <= c
  PROVE  ChainInv'
<1>1. /\ think' \in ThinkTypes /\ think'.map = m /\ think'.known = k
      /\ think'.strays = s /\ think'.ready = r /\ think'.raced = c
  BY ChainTyped
<1>2. Sc!Tasks' = Count(k, s, r)
  BY <1>1 DEF Sc!Tasks, Count
<1>3. Sc!ChainGoesOn'
  BY <1>1, <1>2 DEF Sc!ChainGoesOn
<1>4. ThinkTypes' = ThinkTypes
  BY DEF ThinkTypes
<1> QED BY <1>1, <1>2, <1>3, <1>4 DEF ChainInv

(* The same for a chain that is given.                                     *)
LEMMA ChainIsThis ==
  ASSUME NEW x \in ThinkTypes, think' = x,
         astray' = "no" /\ x.map /\ ~Sc!InThink' => Count(x.known, x.strays, x.ready) > 0,
         Count(x.known, x.strays, x.ready) <= 1 + x.raced,
         Sc!InThink' => x.map /\ Count(x.known, x.strays, x.ready) <= x.raced
  PROVE  ChainInv'
<1> DEFINE m == x.map
           k == x.known
           s == x.strays
           r == x.ready
           c == x.raced
<1>1. /\ m \in BOOLEAN /\ k \in BOOLEAN /\ s \in Nat /\ r \in Nat /\ c \in Nat
      /\ think' = Chain(m, k, s, r, c)
  BY ChainFields
<1>2. /\ astray' = "no" /\ m /\ ~Sc!InThink' => Count(k, s, r) > 0
      /\ Count(k, s, r) <= 1 + c
      /\ Sc!InThink' => m /\ Count(k, s, r) <= c
  OBVIOUS
<1> HIDE DEF m, k, s, r, c
<1> QED BY <1>1, <1>2, ChainIs

(* clearThink() stops the event it knows and misses the one it does not.   *)
LEMMA Stopped ==
  ASSUME NEW c \in ThinkTypes
  PROVE  LET x == Sc!ClearThink(c)
         IN  /\ x \in ThinkTypes /\ ~x.map /\ ~x.known
             /\ x.strays = c.strays /\ x.ready = c.ready
             /\ x.raced = c.raced + (IF c.known THEN 0 ELSE 1)
<1> DEFINE d == c.raced + (IF c.known THEN 0 ELSE 1)
           x == Sc!ClearThink(c)
<1>1. d \in Nat
  BY DEF ThinkTypes
<1>2. x = [c EXCEPT !.map = FALSE, !.known = FALSE, !.raced = d]
  BY DEF Sc!ClearThink
<1> HIDE DEF d, x
<1>3. /\ x \in ThinkTypes /\ ~x.map /\ ~x.known
      /\ x.strays = c.strays /\ x.ready = c.ready /\ x.raced = d
  BY <1>1, <1>2 DEF ThinkTypes
<1> QED BY <1>3 DEF x, d

(* registerThink() knows what it adds.                                     *)
LEMMA Begun ==
  ASSUME NEW c \in ThinkTypes
  PROVE  LET x == Sc!RegisterThink(c)
         IN  /\ x \in ThinkTypes /\ x.map /\ x.known
             /\ x.strays = c.strays /\ x.ready = c.ready /\ x.raced = c.raced
  BY DEF ThinkTypes, Sc!RegisterThink

(* What leaves the chain alone keeps this.                                 *)
LEMMA ChainFrame ==
  ASSUME ChainInv, think' = think, Sc!InThink' <=> Sc!InThink,
         astray' = "no" => astray = "no"
  PROVE  ChainInv'
<1>1. Sc!Tasks' = Sc!Tasks
  BY DEF Sc!Tasks
<1> QED BY <1>1 DEF ChainInv, Sc!ChainGoesOn, ThinkTypes

(* Every action keeps the chain.                                           *)
LEMMA ChainStep ==
  ASSUME ScriptTypes, EventsInv, ChainInv, Sc!Next
  PROVE  ChainInv'
<1> DEFINE m == think.map
           k == think.known
           s == think.strays
           r == think.ready
           c == think.raced
<1>0. /\ m \in BOOLEAN /\ k \in BOOLEAN /\ s \in Nat /\ r \in Nat /\ c \in Nat
      /\ think = Chain(m, k, s, r, c) /\ Sc!Tasks = Count(k, s, r)
      /\ astray = "no" /\ m /\ ~Sc!InThink => Count(k, s, r) > 0
      /\ Count(k, s, r) <= 1 + c
      /\ Sc!InThink => m /\ Count(k, s, r) <= c
  BY ChainFields DEF ChainInv, Sc!ChainGoesOn, Sc!Tasks, Count
<1>1. CASE QuietAction
  <2>1. think' = think
    BY <1>1 DEF QuietAction, Sc!Login, Sc!Happen, Sc!Ask
  <2>2. QuietPush /\ (Sc!InThink' <=> Sc!InThink)
    BY <1>1, QuietStep, QuietEffect DEF QuietAction
  <2>3. astray' = "no" => astray = "no"
    BY <2>2 DEF QuietPush
  <2> QED BY <2>1, <2>2, <2>3, ChainFrame
<1>2. ASSUME NEW t \in Sc!Timers, Sc!ExecuteTimerEvent(t)
      PROVE  ChainInv'
  <2>1. think' = think
    BY <1>2 DEF Sc!ExecuteTimerEvent
  <2>2. /\ astray' = astray /\ scriptEnv = <<>> /\ Stack'
        /\ scriptEnv' = IF t \in timerEvents THEN <<TimerEnv(t)>> ELSE <<>>
    BY <1>2, TimerRuns
  <2>3. ~Sc!InThink /\ ~Sc!InThink'
    BY <2>2, NoneRuns, AtTheBottomThen DEF Bottom, TimerEnv
  <2> QED BY <2>1, <2>2, <2>3, ChainFrame
<1>3. CASE Sc!Think
  <2>1. r > 0 /\ think' = [think EXCEPT !.ready = r - 1]
    BY <1>3 DEF Sc!Think
  <2>2. /\ astray' = astray /\ scriptEnv = <<>> /\ Stack'
        /\ scriptEnv' = IF m THEN <<GlobalEnv>> ELSE <<>>
    BY <1>3, GlobalRuns
  <2>3. ~Sc!InThink /\ (Sc!InThink' <=> m)
    BY <2>2, NoneRuns, AtTheBottomThen DEF Bottom, GlobalEnv
  <2>4. think' = Chain(m, k, s, r - 1, c)
    BY <1>0, <2>1 DEF Chain
  <2> HIDE DEF m, k, s, r, c
  <2>5. r - 1 \in Nat /\ Count(k, s, r - 1) = Count(k, s, r) - 1 /\ Count(k, s, r) \in Nat
    BY <1>0, <2>1 DEF Count
  <2> HIDE <2>1
  <2> QED BY <1>0, <2>3, <2>4, <2>5, ChainIs
<1>4. CASE Sc!EndOfScript
  <2>1. /\ astray' = astray /\ scriptEnv # <<>> /\ Stack' /\ Stack
        /\ Len(scriptEnv) \in Nat \ {0} /\ Len(scriptEnv') = Len(scriptEnv) - 1
        /\ \A d \in 1..Len(scriptEnv') : scriptEnv'[d] = scriptEnv[d]
        /\ Sc!Last(scriptEnv) = scriptEnv[Len(scriptEnv)]
        /\ scriptEnv' \in Seq(Envs)
    BY <1>4, ScriptEnds DEF ScriptTypes, Stack
  <2> DEFINE env == scriptEnv[Len(scriptEnv)]
  <2>2. think' = IF env.kind = "global" /\ m THEN Sc!Rescheduled ELSE think
    BY <1>4, <2>1 DEF Sc!EndOfScript
  <2>3. CASE env.kind = "global"
    <3>1. Len(scriptEnv) = 1
      BY <2>1, <2>3 DEF Stack
    <3>2. scriptEnv' = <<>>
      BY <2>1, <3>1
    <3>3. Sc!InThink /\ ~Sc!InThink'
      BY <2>1, <2>3, <3>1, <3>2, AtTheBottom, AtTheBottomThen DEF Bottom
    <3>4. m
      BY <1>0, <3>3
    <3>5. think' = Sc!Rescheduled
      BY <2>2, <2>3, <3>4
    <3> DEFINE s1 == s + (IF k THEN 1 ELSE 0)
    <3>6. think' = Chain(TRUE, TRUE, s1, r, c)
      BY <1>0, <3>4, <3>5 DEF Sc!Rescheduled, Chain
    <3> HIDE DEF m, k, s, r, c
    <3>7. s1 \in Nat /\ Count(TRUE, s1, r) = Count(k, s, r) + 1 /\ Count(k, s, r) \in Nat
      BY <1>0 DEF Count
    <3> HIDE DEF s1
    <3>8. Count(TRUE, s1, r) > 0 /\ Count(TRUE, s1, r) <= 1 + c
      <4> DEFINE n == Count(k, s, r)
                 n1 == Count(TRUE, s1, r)
      <4>1. n \in Nat /\ n1 = n + 1 /\ n <= c /\ c \in Nat
        BY <1>0, <3>3, <3>7
      <4> HIDE DEF n, n1
      <4>2. n1 > 0 /\ n1 <= 1 + c
        BY <4>1
      <4> QED BY <4>2 DEF n1
    <3> QED BY <1>0, <3>3, <3>6, <3>7, <3>8, ChainIs
  <2>4. CASE env.kind # "global"
    <3>1. think' = think
      BY <2>2, <2>4
    <3>2. CASE Len(scriptEnv) = 1
      <4>1. scriptEnv' = <<>>
        BY <2>1, <3>2
      <4>2. ~Sc!InThink /\ ~Sc!InThink'
        BY <2>1, <2>4, <3>2, <4>1, AtTheBottom, AtTheBottomThen DEF Bottom
      <4> QED BY <2>1, <3>1, <4>2, ChainFrame
    <3>3. CASE Len(scriptEnv) # 1
      <4>1. scriptEnv' # <<>> /\ scriptEnv'[1] = scriptEnv[1]
        BY <2>1, <3>3
      <4>2. Sc!InThink <=> Sc!InThink'
        BY <2>1, <4>1, AtTheBottom, AtTheBottomThen DEF Bottom
      <4> QED BY <2>1, <3>1, <4>2, ChainFrame
    <3> QED BY <3>2, <3>3
  <2> QED BY <2>3, <2>4
<1>5. CASE Sc!ThinkIsDue
  <2>1. UNCHANGED <<scriptEnv, astray>>
    BY <1>5 DEF Sc!ThinkIsDue
  <2>2. Sc!InThink' <=> Sc!InThink
    BY <2>1, SameStack
  <2>3. CASE k /\ think' = [think EXCEPT !.known = FALSE, !.ready = r + 1]
    <3>1. think' = Chain(m, FALSE, s, r + 1, c)
      BY <1>0, <2>3 DEF Chain
    <3> HIDE DEF m, k, s, r, c
    <3>2. r + 1 \in Nat /\ Count(FALSE, s, r + 1) = Count(k, s, r)
      BY <1>0, <2>3 DEF Count
    <3> HIDE <2>3
    <3> QED BY <1>0, <2>1, <2>2, <3>1, <3>2, ChainIs
  <2>4. CASE s > 0 /\ think' = [think EXCEPT !.strays = s - 1, !.ready = r + 1]
    <3>1. think' = Chain(m, k, s - 1, r + 1, c)
      BY <1>0, <2>4 DEF Chain
    <3> HIDE DEF m, k, s, r, c
    <3>2. s - 1 \in Nat /\ r + 1 \in Nat /\ Count(k, s - 1, r + 1) = Count(k, s, r)
      BY <1>0, <2>4 DEF Count
    <3> HIDE <2>4
    <3> QED BY <1>0, <2>1, <2>2, <3>1, <3>2, ChainIs
  <2> QED BY <1>5, <2>3, <2>4 DEF Sc!ThinkIsDue
<1>6. CASE Sc!ReloadGlobalEvents
  <2>1. UNCHANGED <<scriptEnv, astray>> /\ scriptEnv = <<>>
    BY <1>6 DEF Sc!ReloadGlobalEvents, Sc!Idle
  <2>2. ~Sc!InThink /\ ~Sc!InThink'
    BY <2>1, SameStack, NoneRuns
  <2> DEFINE x == Sc!ClearThink(think)
             y == Sc!RegisterThink(Sc!ClearThink(think))
  <2>3. /\ x \in ThinkTypes /\ ~x.map /\ ~x.known /\ x.strays = s /\ x.ready = r
        /\ x.raced = c + (IF k THEN 0 ELSE 1)
    BY Stopped DEF ChainInv
  <2>4. /\ y \in ThinkTypes /\ y.map /\ y.known /\ y.strays = x.strays /\ y.ready = x.ready
        /\ y.raced = x.raced
    BY <2>3, Begun
  <2>5. think' = x \/ think' = y
    BY <1>6 DEF Sc!ReloadGlobalEvents
  <2> HIDE DEF m, k, s, r, c, x, y
  <2>6. Count(x.known, x.strays, x.ready) <= x.raced /\ x.raced \in Nat
        /\ Count(x.known, x.strays, x.ready) \in Nat
    <3>1. CASE k
      BY <1>0, <2>3, <3>1 DEF Count
    <3>2. CASE ~k
      BY <1>0, <2>3, <3>2 DEF Count
    <3> QED BY <1>0, <3>1, <3>2
  <2>7. CASE think' = x
    <3>1. Count(x.known, x.strays, x.ready) <= 1 + x.raced
      <4> DEFINE n == Count(x.known, x.strays, x.ready)
      <4>1. n \in Nat /\ n <= x.raced /\ x.raced \in Nat
        BY <2>6
      <4> HIDE DEF n
      <4>2. n <= 1 + x.raced
        BY <4>1
      <4> QED BY <4>2 DEF n
    <3> QED BY <2>2, <2>3, <2>7, <3>1, ChainIsThis
  <2>8. CASE think' = y
    <3>1. Count(y.known, y.strays, y.ready) = Count(x.known, x.strays, x.ready) + 1
      BY <1>0, <2>3, <2>4 DEF Count
    <3>2. Count(y.known, y.strays, y.ready) <= 1 + y.raced /\ Count(y.known, y.strays, y.ready) > 0
      <4> DEFINE n == Count(x.known, x.strays, x.ready)
                 n1 == Count(y.known, y.strays, y.ready)
      <4>1. n \in Nat /\ n <= x.raced /\ x.raced \in Nat /\ n1 = n + 1 /\ y.raced = x.raced
        BY <2>4, <2>6, <3>1
      <4> HIDE DEF n, n1
      <4>2. n1 <= 1 + y.raced /\ n1 > 0
        BY <4>1
      <4> QED BY <4>2 DEF n1
    <3> QED BY <2>2, <2>4, <2>8, <3>2, ChainIsThis
  <2> QED BY <2>5, <2>7, <2>8
<1>7. StackStays => UNCHANGED <<think, scriptEnv, astray>> \/ Sc!ThinkIsDue \/ Sc!ReloadGlobalEvents
  BY DEF StackStays, Sc!RegisterCreatureEvent, Sc!TimerIsDue, Sc!AddEvent,
         Sc!StopEvent, Sc!CreateItem, Sc!RemoveItem, Sc!AddItemEx, Sc!ReloadCreatureEvents
<1>8. CASE UNCHANGED <<think, scriptEnv, astray>>
  BY <1>8, SameStack, ChainFrame
<1>9. CASE StackStays
  BY <1>5, <1>6, <1>7, <1>8, <1>9
<1> QED BY <1>1, <1>2, <1>3, <1>4, <1>9, ByStack

-----------------------------------------------------------------------------
(* The scripts together.                                                   *)

(* The inductive invariant of the scripts.                                 *)
ScriptsInv == ScriptTypes /\ EventsInv /\ TimersInv /\ ItemsInv /\ ChainInv

(* It holds when the server has loaded its scripts, ...                    *)
LEMMA ScriptsBegin == Sc!Init => ScriptsInv
<1> SUFFICES ASSUME Sc!Init PROVE ScriptsInv
  OBVIOUS
<1>1. EventsInv /\ creatureEvents \in [Names -> EventRecords] /\ table \in Seq(Sc!Functions)
  BY EventsBegin
<1>2. /\ eventsList = {} /\ scriptEnv = <<>> /\ tempItems = {}
      /\ object = [i \in Items |-> Record("none", 0, FALSE)]
      /\ timerEvents = {} /\ refs = [t \in Sc!Timers |-> 0] /\ waiting = {} /\ ready = {}
      /\ think = [map |-> TRUE, known |-> TRUE, strays |-> 0, ready |-> 0, raced |-> 0]
      /\ astray = "no" /\ reloads = 0 /\ deeds = 0
  BY DEF Sc!Init, Record
<1>3. Stack
  <2>1. scriptEnv \in Seq(Envs) /\ Len(scriptEnv) = 0
    BY <1>2
  <2> QED BY <2>1, ScriptsAssumption DEF Stack
<1>4. ~Sc!InThink /\ Sc!RunningTimers = {}
  BY <1>2, NoneRuns
<1>5. TimersInv
  <2>1. refs \in [Sc!Timers -> Int] /\ \A t \in Sc!Timers : refs[t] = 0
    BY <1>2
  <2> HIDE <1>2
  <2>2. timerEvents = {} /\ waiting = {} /\ ready = {}
    BY <1>2
  <2> QED BY <1>4, <2>1, <2>2 DEF TimersInv, TimerTypes, Sc!TimersAreKept
<1>6. ItemsInv
  <2>1. \A i \in Items : object[i] = Record("none", 0, FALSE)
    BY <1>2
  <2>2. \A i \in Items : /\ object[i].parent = "none" /\ object[i].released = 0
                         /\ object[i] \in [parent : {"none", "virtual", "placed", "null"},
                                           released : {0, 1}, forgotten : BOOLEAN]
    <3> DEFINE rec == Record("none", 0, FALSE)
    <3>1. /\ rec.parent = "none" /\ rec.released = 0
          /\ rec \in [parent : {"none", "virtual", "placed", "null"},
                     released : {0, 1}, forgotten : BOOLEAN]
      BY DEF Record
    <3>2. \A i \in Items : object[i] = rec
      BY <2>1
    <3> HIDE DEF rec
    <3> QED BY <3>1, <3>2
  <2>3. tempItems = {} /\ object = [i \in Items |-> object[i]]
    BY <1>2
  <2> HIDE <1>2
  <2>4. ItemTypes
    BY <2>2, <2>3 DEF ItemTypes
  <2> QED BY <2>2, <2>3, <2>4 DEF ItemsInv, Sc!ItemsAreReleased
<1>7. ChainInv
  <2>1. /\ think \in ThinkTypes /\ think.map /\ think.known
        /\ think.strays = 0 /\ think.ready = 0 /\ think.raced = 0
    BY <1>2 DEF ThinkTypes
  <2>2. Sc!Tasks = 1
    BY <2>1 DEF Sc!Tasks
  <2> QED BY <1>4, <2>1, <2>2 DEF ChainInv, Sc!ChainGoesOn
<1>8. Sc!TypeOK
  <2>1. /\ eventsList \subseteq Names /\ Len(scriptEnv) <= Environments
        /\ astray \in {"no", "cleared", "overflow"}
        /\ reloads \in 0..MaxReloads /\ deeds \in 0..MaxDeeds
    BY <1>2, ScriptsAssumption
  <2> QED BY <1>1, <1>5, <1>6, <1>7, <2>1
          DEF Sc!TypeOK, TimersInv, TimerTypes, ItemsInv, ItemTypes, ChainInv, ThinkTypes,
              EventRecords
<1> QED BY <1>1, <1>3, <1>5, <1>6, <1>7, <1>8 DEF ScriptsInv, ScriptTypes

(* ... every step keeps it, ...                                            *)
LEMMA ScriptsStep == ScriptsInv /\ [Sc!Next]_scriptsVars => ScriptsInv'
<1> SUFFICES ASSUME ScriptsInv, [Sc!Next]_scriptsVars
             PROVE  ScriptsInv'
  OBVIOUS
<1>0. ScriptTypes /\ EventsInv /\ TimersInv /\ ItemsInv /\ ChainInv /\ Sc!TypeOK
  BY DEF ScriptsInv, ScriptTypes
<1>1. CASE Sc!Next
  <2>1. EventsInv' /\ creatureEvents' \in [Names -> EventRecords] /\ table' \in Seq(Sc!Functions)
        /\ eventsList' \subseteq Names
    BY <1>0, <1>1, EventsStep
  <2>2. /\ Stack' /\ Len(scriptEnv') <= Environments
        /\ astray' \in {"no", "cleared", "overflow"}
        /\ reloads' \in 0..MaxReloads /\ deeds' \in 0..MaxDeeds
    BY <1>0, <1>1, StackStep
  <2>3. TimersInv'
    BY <1>0, <1>1, TimersStep
  <2>4. ItemsInv'
    BY <1>0, <1>1, ItemsStep
  <2>5. ChainInv'
    BY <1>0, <1>1, ChainStep
  <2>6. Sc!TypeOK'
    BY <2>1, <2>2, <2>3, <2>4, <2>5
       DEF Sc!TypeOK, TimersInv, TimerTypes, ItemsInv, ItemTypes, ChainInv, ThinkTypes,
           EventRecords
  <2> QED BY <2>1, <2>2, <2>3, <2>4, <2>5, <2>6 DEF ScriptsInv, ScriptTypes
<1>2. CASE UNCHANGED scriptsVars
  <2> USE <1>2 DEF scriptsVars
  <2>0. Sc!Timers' = Sc!Timers /\ Sc!EventTypes' = Sc!EventTypes
    BY DEF Sc!Timers, Sc!EventTypes
  <2>1. Stack' /\ Sc!TypeOK'
    BY <1>0, <2>0 DEF ScriptTypes, Stack, Sc!TypeOK
  <2>2. EventsInv'
    BY <1>0 DEF EventsInv
  <2>3. TimersInv'
    BY <1>0, SameStack, TimersFrame DEF TimerVars
  <2>4. ItemsInv'
    <3>1. Len(scriptEnv) \in Nat
      BY <1>0 DEF ScriptTypes, Stack
    <3> QED BY <1>0, <3>1, ItemsFrame DEF ItemVars
  <2>5. ChainInv'
    BY <1>0, SameStack, ChainFrame
  <2> QED BY <2>1, <2>2, <2>3, <2>4, <2>5 DEF ScriptsInv, ScriptTypes
<1> QED BY <1>1, <1>2

(* ... and it says what is checked.                                        *)
LEMMA ScriptsInvSuffices == ScriptsInv => Sc!TypeOK /\ Sc!ScriptsAreSound
<1> SUFFICES ASSUME ScriptsInv PROVE Sc!TypeOK /\ Sc!ScriptsAreSound
  OBVIOUS
<1>1. Sc!TypeOK /\ Sc!TimersAreKept /\ Sc!ItemsAreReleased /\ Sc!ChainGoesOn
  BY DEF ScriptsInv, ScriptTypes, TimersInv, ItemsInv, ChainInv
<1>2. Sc!EventsRunTheirOwn
  <2>1. DOMAIN table = 1..Len(table) /\ DOMAIN scriptEnv = 1..Len(scriptEnv)
    BY <1>1 DEF Sc!TypeOK, ScriptsInv, ScriptTypes, Stack
  <2>2. \A d \in DOMAIN scriptEnv : scriptEnv[d].called = scriptEnv[d].wanted
    BY <2>1 DEF ScriptsInv, ScriptTypes, Stack
  <2>3. /\ \A n \in Names : creatureEvents[n].loaded =>
             /\ creatureEvents[n].id \in 1..Len(table)
             /\ table[creatureEvents[n].id] = [name |-> n, type |-> creatureEvents[n].type]
        /\ \A n \in eventsList : creatureEvents[n].type # "none"
    BY DEF ScriptsInv, EventsInv
  <2> QED BY <2>1, <2>2, <2>3 DEF Sc!EventsRunTheirOwn, Sc!FunctionOf
<1> QED BY <1>1, <1>2 DEF Sc!ScriptsAreSound

-----------------------------------------------------------------------------
(* The times of a day.                                                     *)

(* What the provers know of a remainder.                                   *)
LEMMA Quotient ==
  ASSUME NEW x \in Int, NEW d \in Nat \ {0}
  PROVE  /\ x % d \in 0..(d - 1)
         /\ x \div d \in Int /\ x = (d * (x \div d)) + (x % d)
  OBVIOUS

(* No multiple of d lies between 0 and d.                                  *)
LEMMA NotBetween ==
  ASSUME NEW d \in Nat \ {0}, NEW n \in Int
  PROVE  /\ n >= 1 => d * n >= d
         /\ n <= -1 => d * n <= -d
         /\ n = 0 => d * n = 0
  OBVIOUS

(* Two numbers of the same remainder are the same or d apart.              *)
LEMMA SameRemainder ==
  ASSUME NEW a \in Int, NEW b \in Int, NEW d \in Nat \ {0}, a % d = b % d,
         b <= a, a < b + d
  PROVE  a = b
<1> DEFINE p == a \div d
           q == b \div d
           n == p - q
<1>1. p \in Int /\ q \in Int /\ a = (d * p) + (a % d) /\ b = (d * q) + (b % d)
      /\ a % d \in Int
  BY Quotient
<1>2. a - b = (d * p) - (d * q)
  BY <1>1
<1>3. (d * p) - (d * q) = d * n /\ n \in Int
  BY <1>1
<1> HIDE DEF p, q, n
<1> QED BY <1>2, <1>3, NotBetween

(* Multiples do not change a remainder.                                    *)
LEMMA RemainderOf ==
  ASSUME NEW h \in Int, NEW d \in Nat \ {0}, 0 <= h, h < d, NEW q \in Int
  PROVE  (h - (d * q)) % d = h
<1> DEFINE x == h - (d * q)
           p == x \div d
           r == x % d
           n == p + q
<1>1. x \in Int
  OBVIOUS
<1>2. r \in 0..(d - 1) /\ p \in Int /\ x = (d * p) + r
  BY <1>1, Quotient
<1>3. h - r = (d * p) + (d * q)
  BY <1>2
<1>4. (d * p) + (d * q) = d * n /\ n \in Int
  BY <1>2
<1> HIDE DEF p, r, n
<1>5. h - r = d * n /\ h - r < d /\ h - r > -d
  BY <1>2, <1>3, <1>4
<1>6. h = r
  BY <1>2, <1>4, <1>5, NotBetween
<1> QED BY <1>6 DEF r

(* Each global event is of one of the kinds and has a period.              *)
LEMMA KindsOf ==
  ASSUME NEW e \in Sc!Globals
  PROVE  /\ Sc!KindOf(e) \in Sc!Kinds
         /\ e \in Daily => e \notin Thinkers /\ Sc!KindOf(e) = "timer"
         /\ e \notin Daily => e \in Thinkers
         /\ Sc!Period(e) \in Nat
<1>1. Interval \in [Thinkers -> Nat] /\ Day \in Nat /\ Thinkers \intersect Daily = {}
  BY ScriptsAssumption
<1> QED BY <1>1 DEF Sc!Globals, Sc!KindOf, Sc!Kinds, Sc!Period

(* firstExecution: the first time of the day that is not over, or the      *)
(* interval from now.                                                      *)
LEMMA FirstTime ==
  ASSUME NEW e \in Sc!Globals, NEW now \in Nat
  PROVE  /\ Sc!FirstExecution(e, now) \in Nat /\ now <= Sc!FirstExecution(e, now)
         /\ e \in Daily => /\ Sc!FirstExecution(e, now) < now + Day
                          /\ Sc!FirstExecution(e, now) % Day = Hour[e]
<1>0. /\ Interval \in [Thinkers -> Nat] /\ Day \in Nat \ {0} /\ Thinkers \intersect Daily = {}
      /\ Hour \in [Daily -> 0..(Day - 1)]
  BY ScriptsAssumption
<1>1. CASE e \in Thinkers
  BY <1>0, <1>1 DEF Sc!FirstExecution
<1>2. CASE e \in Daily
  <2> DEFINE h == Hour[e]
             x == h - now
             r == x % Day
             q == x \div Day
  <2>1. h \in 0..(Day - 1) /\ e \notin Thinkers
    BY <1>0, <1>2
  <2>2. Sc!FirstExecution(e, now) = now + r
    BY <2>1 DEF Sc!FirstExecution
  <2>3. h \in Int /\ 0 <= h /\ h < Day /\ x \in Int
    BY <1>0, <2>1
  <2>4. r \in 0..(Day - 1) /\ q \in Int /\ x = (Day * q) + r
    BY <1>0, <2>3, Quotient
  <2>5. x = h - now
    OBVIOUS
  <2>6. Day * q \in Int
    BY <1>0, <2>4
  <2> HIDE DEF h, x, r, q
  <2>7. now + r = h - (Day * q) /\ now + r \in Nat /\ now <= now + r /\ now + r < now + Day
    BY <1>0, <2>3, <2>4, <2>5, <2>6
  <2>8. (now + r) % Day = h
    BY <1>0, <2>3, <2>4, <2>7, RemainderOf
  <2> QED BY <2>2, <2>7, <2>8 DEF h
<1> QED BY <1>1, <1>2 DEF Sc!Globals

(* The times of an event up to its next one, ...                           *)
Times(e, from, to) == {i \in from .. to - 1 : i % Day = Hour[e]}

(* ... when it has just been listed, and when it has been executed.        *)
LEMMA NoTimeYet ==
  ASSUME NEW e \in Daily, NEW now \in Nat
  PROVE  Times(e, now, Sc!FirstExecution(e, now)) = {}
<1> DEFINE n == Sc!FirstExecution(e, now)
<1>1. n \in Nat /\ n < now + Day /\ n % Day = Hour[e] /\ Day \in Nat \ {0}
  BY FirstTime, ScriptsAssumption DEF Sc!Globals
<1> HIDE DEF n
<1>2. ASSUME NEW i \in now .. n - 1, i % Day = Hour[e]
      PROVE  FALSE
  <2>1. i \in Int /\ i <= n /\ n < i + Day /\ i # n
    BY <1>1
  <2>2. n % Day = i % Day
    BY <1>1, <1>2
  <2>3. n = i
    <3>1. n \in Int /\ i \in Int /\ Day \in Nat \ {0} /\ n % Day = i % Day /\ i <= n /\ n < i + Day
      BY <1>1, <2>1, <2>2
    <3> QED BY <3>1, SameRemainder, Zenon
  <2> QED BY <2>1, <2>3
<1> QED BY <1>2 DEF Times, n

(* From one time of an event to the next there is no other.                *)
LEMMA OneTimeMore ==
  ASSUME NEW e \in Daily, NEW from \in Nat, NEW n \in Nat, from <= n, n % Day = Hour[e]
  PROVE  /\ Times(e, from, n + Day) = Times(e, from, n) \union {n}
         /\ (n + Day) % Day = Hour[e]
<1>1. Day \in Nat \ {0} /\ Hour[e] \in 0..(Day - 1)
  BY ScriptsAssumption
<1>2. (n + Day) % Day = Hour[e]
  <2> DEFINE q == n \div Day
             h == Hour[e]
  <2>1. q \in Int /\ n = (Day * q) + h /\ h \in Int /\ 0 <= h /\ h < Day
    BY <1>1, Quotient
  <2>2. -(q + 1) \in Int /\ n + Day = h - (Day * (-(q + 1)))
    <3> HIDE DEF q, h
    <3>1. Day * (-(q + 1)) = -((Day * q) + Day)
      BY <1>1, <2>1
    <3>2. Day * q \in Int
      BY <1>1, <2>1
    <3> QED BY <1>1, <2>1, <3>1, <3>2
  <2>3. (h - (Day * (-(q + 1)))) % Day = h
    <3> DEFINE z == -(q + 1)
    <3>1. z \in Int
      BY <2>1
    <3> HIDE DEF z, h, q
    <3>2. (h - (Day * z)) % Day = h
      BY <1>1, <2>1, <3>1, RemainderOf
    <3> QED BY <3>2 DEF z
  <2> QED BY <2>2, <2>3
<1>3. ASSUME NEW i \in from .. (n + Day) - 1, i % Day = Hour[e], ~(i \in from .. n - 1), i # n
      PROVE  FALSE
  <2>1. i \in Int /\ n <= i /\ i < n + Day
    BY <1>1, <1>3
  <2>2. n % Day = i % Day
    BY <1>3
  <2>3. n = i
    <3>1. n \in Int /\ i \in Int /\ Day \in Nat \ {0} /\ i % Day = n % Day /\ n <= i /\ i < n + Day
      BY <1>1, <2>1, <2>2
    <3> QED BY <3>1, SameRemainder, Zenon
  <2> QED BY <1>3, <2>3
<1>4. from .. n - 1 \subseteq from .. (n + Day) - 1 /\ n \in from .. (n + Day) - 1
  BY <1>1
<1>5. \A i \in from .. (n + Day) - 1 :
        i % Day = Hour[e] => (i \in from .. n - 1 \/ i = n)
  BY <1>3
<1>6. \A i, to : i \in Times(e, from, to) <=> i \in from .. to - 1 /\ i % Day = Hour[e]
  BY Zenon DEF Times
<1>7. ASSUME NEW i \in Times(e, from, n + Day)
      PROVE  i \in Times(e, from, n) \union {n}
  <2>1. i \in from .. (n + Day) - 1 /\ i % Day = Hour[e]
    BY <1>7, Zenon DEF Times
  <2>2. i \in from .. n - 1 \/ i = n
    BY <1>5, <2>1, Zenon
  <2>3. i \in from .. n - 1 => i \in Times(e, from, n)
    BY <1>6, <2>1, Zenon
  <2> QED BY <2>2, <2>3, Zenon
<1>8. ASSUME NEW i \in Times(e, from, n) \union {n}
      PROVE  i \in Times(e, from, n + Day)
  <2>1. i \in from .. (n + Day) - 1 /\ i % Day = Hour[e]
    <3>1. CASE i = n
      BY <1>4, <3>1, Zenon
    <3>2. CASE i \in Times(e, from, n)
      <4>1. i \in from .. n - 1 /\ i % Day = Hour[e]
        BY <1>6, <3>2, Zenon
      <4> QED BY <1>4, <4>1, Zenon
    <3> QED BY <3>1, <3>2, Zenon
  <2> QED BY <2>1, Zenon DEF Times
<1> QED BY <1>2, <1>7, <1>8

-----------------------------------------------------------------------------
(* The tasks of the clock.                                                 *)

(* The tasks of the scheduler that wake the global events.                 *)
TaskRecords == [id : Nat \ {0}, kind : Sc!Kinds, due : Nat, posted : BOOLEAN]
TaskWorld(w) ==
  /\ w = [tasks |-> w.tasks, eventId |-> w.eventId]
  /\ w.tasks \subseteq TaskRecords /\ IsFiniteSet(w.tasks)
  /\ w.eventId \in [Sc!Kinds -> Nat]

(* Scripts has the operator from the same module.                          *)
LEMMA SameCardinality == \A S : Sc!Cardinality(S) = Cardinality(S)
  BY DEF Sc!Cardinality, Cardinality

(* There are two kinds of task, so at most as many ids are in use as there *)
(* are tasks.                                                              *)
LEMMA TwoKinds == IsFiniteSet(Sc!Kinds) /\ Cardinality(Sc!Kinds) = 2
<1>1. Sc!Kinds = {"think"} \union {"timer"} /\ "timer" \notin {"think"}
  BY DEF Sc!Kinds
<1>2. IsFiniteSet({"think"}) /\ Cardinality({"think"}) = 1
  BY FS_Singleton
<1>3. /\ IsFiniteSet({"think"} \union {"timer"})
      /\ Cardinality({"think"} \union {"timer"}) = Cardinality({"think"}) + 1
  BY <1>1, <1>2, FS_AddElement
<1> QED BY <1>1, <1>2, <1>3

(* There are more numbers than tasks and kinds, so that one is free.       *)
LEMMA OneIsFree ==
  ASSUME NEW w, TaskWorld(w)
  PROVE  Sc!FreeId(w) \in Nat \ {0}
<1> DEFINE N == Cardinality(w.tasks) + Cardinality(Sc!Kinds) + 1
           Free(i) == (\A t \in w.tasks : t.id # i) /\ (\A k \in Sc!Kinds : w.eventId[k] # i)
           taken == {t.id : t \in w.tasks}
           g == [t \in w.tasks |-> t.id]
           a == w.eventId["think"]
           b == w.eventId["timer"]
<1>1. IsFiniteSet(w.tasks) /\ Cardinality(w.tasks) \in Nat
  BY FS_CardinalityType DEF TaskWorld
<1>2. N \in Nat /\ N = Cardinality(w.tasks) + 3
  BY <1>1, TwoKinds
<1>3. IsFiniteSet(taken) /\ Cardinality(taken) <= Cardinality(w.tasks) /\ Cardinality(taken) \in Nat
  <2>1. g \in Surjection(w.tasks, taken)
    BY DEF Surjection
  <2> HIDE DEF g, taken
  <2>2. IsFiniteSet(taken) /\ Cardinality(taken) <= Cardinality(w.tasks)
    BY <1>1, <2>1, FS_Surjection
  <2> QED BY <2>2, FS_CardinalityType
<1>4. /\ IsFiniteSet((taken \union {a}) \union {b})
      /\ Cardinality((taken \union {a}) \union {b}) \in Nat
      /\ Cardinality((taken \union {a}) \union {b}) < N
  <2> HIDE DEF taken, a, b, N
  <2>1. /\ IsFiniteSet(taken \union {a}) /\ Cardinality(taken \union {a}) \in Nat
        /\ Cardinality(taken \union {a}) <= Cardinality(taken) + 1
    BY <1>3, FS_AddElement
  <2>2. /\ IsFiniteSet((taken \union {a}) \union {b})
        /\ Cardinality((taken \union {a}) \union {b}) \in Nat
        /\ Cardinality((taken \union {a}) \union {b}) <= Cardinality(taken \union {a}) + 1
    BY <2>1, FS_AddElement
  <2> QED BY <1>1, <1>2, <1>3, <2>1, <2>2
<1>5. \E i \in 1..N : Free(i)
  <2> SUFFICES ASSUME \A i \in 1..N : ~Free(i) PROVE FALSE
    OBVIOUS
  <2>1. 1..N \subseteq (taken \union {a}) \union {b}
    <3>1. Sc!Kinds = {"think", "timer"}
      BY DEF Sc!Kinds
    <3> HIDE DEF N
    <3> QED BY <3>1
  <2> HIDE DEF taken, a, b, N
  <2>2. Cardinality(1..N) <= Cardinality((taken \union {a}) \union {b})
    BY <1>4, <2>1, FS_Subset
  <2>3. Cardinality(1..N) = N
    BY <1>1, <1>2, FS_Interval
  <2> QED BY <1>2, <1>4, <2>2, <2>3
<1>6. Sc!FreeId(w) = CHOOSE i \in 1..N : Free(i)
  BY SameCardinality DEF Sc!FreeId
<1> HIDE DEF N, Free
<1>7. Sc!FreeId(w) \in 1..N
  BY <1>5, <1>6
<1> QED BY <1>2, <1>7

(* addEvent() adds the task under an id that was free.                     *)
LEMMA TaskAdded ==
  ASSUME NEW w, TaskWorld(w), NEW k \in Sc!Kinds, NEW due \in Nat
  PROVE  LET v == Sc!AddTask(w, k, due)
             t == [id |-> Sc!FreeId(w), kind |-> k, due |-> due, posted |-> FALSE]
         IN  /\ TaskWorld(v)
             /\ v.tasks = w.tasks \union {t}
             /\ v.eventId = [w.eventId EXCEPT ![k] = Sc!FreeId(w)]
<1> DEFINE i == Sc!FreeId(w)
           t == [id |-> i, kind |-> k, due |-> due, posted |-> FALSE]
           v == Sc!AddTask(w, k, due)
<1>1. i \in Nat \ {0}
  BY OneIsFree
<1>2. v = [w EXCEPT !.tasks = w.tasks \union {t}, !.eventId[k] = i]
  BY DEF Sc!AddTask
<1>3. v = [tasks |-> w.tasks \union {t}, eventId |-> [w.eventId EXCEPT ![k] = i]]
  <2> DEFINE W == w.tasks
             E == w.eventId
  <2>1. w = [tasks |-> W, eventId |-> E]
    BY DEF TaskWorld
  <2> HIDE DEF W, E, i, v, t
  <2> QED BY <1>2, <2>1
<1>4. t \in TaskRecords
  BY <1>1 DEF TaskRecords
<1> HIDE DEF i, t, v
<1>5. v.tasks = w.tasks \union {t} /\ v.eventId = [w.eventId EXCEPT ![k] = i]
  BY <1>3
<1>6. v.tasks \subseteq TaskRecords /\ IsFiniteSet(v.tasks)
  BY <1>4, <1>5, FS_AddElement DEF TaskWorld
<1>7. v.eventId \in [Sc!Kinds -> Nat]
  BY <1>1, <1>5 DEF TaskWorld
<1>8. TaskWorld(v)
  BY <1>3, <1>5, <1>6, <1>7 DEF TaskWorld
<1> QED BY <1>5, <1>8 DEF v, t, i

-----------------------------------------------------------------------------
(* What the clock keeps.                                                   *)

(* The clock, what is listed and when it comes, since when, the tasks with *)
(* their ids, how late they were, and what was executed.                   *)
InTime(list, next, tasks, late) ==
  \A e \in list : \E t \in tasks :
    t.kind = Sc!KindOf(e) /\ t.due <= next[e] + late[t.kind]

(* What was executed of an event of the day are its times since it is      *)
(* listed.                                                                 *)
OnTheHour(now, list, next, from, done) ==
  \A e \in list \intersect Daily :
    /\ done[e] = Times(e, from[e], next[e])
    /\ from[e] <= next[e] /\ next[e] % Day = Hour[e]
    /\ \A i \in done[e] : i <= now
ClockTypes(now, list, next, from, tasks, ids, late, done) ==
  /\ now \in Nat /\ list \subseteq Sc!Globals
  /\ next \in [Sc!Globals -> Nat] /\ from \in [Sc!Globals -> Nat]
  /\ TaskWorld([tasks |-> tasks, eventId |-> ids])
  /\ late \in [Sc!Kinds -> Nat] /\ done \in [Sc!Globals -> SUBSET Nat]

(* The inductive invariant of the clock.                                   *)
ClockInv ==
  /\ ClockTypes(clock, listed, nextExecution, listedSince, clockTasks, eventId, lag, executed)
  /\ loads \in 1..MaxLoads
  /\ InTime(listed, nextExecution, clockTasks, lag)
  /\ OnTheHour(clock, listed, nextExecution, listedSince, executed)

(* Tasks and ids, one by one.                                              *)
LEMMA Worlds ==
  ASSUME NEW T, NEW E
  PROVE  TaskWorld([tasks |-> T, eventId |-> E]) <=>
           T \subseteq TaskRecords /\ IsFiniteSet(T) /\ E \in [Sc!Kinds -> Nat]
  BY DEF TaskWorld

(* It says what is checked.                                                *)
LEMMA ClockInvSuffices == ClockInv => Sc!ClockTypeOK /\ Sc!ClockIsSound
<1> SUFFICES ASSUME ClockInv PROVE Sc!ClockTypeOK /\ Sc!ClockIsSound
  OBVIOUS
<1>1. clockTasks \subseteq TaskRecords /\ eventId \in [Sc!Kinds -> Nat]
  BY Worlds DEF ClockInv, ClockTypes
<1>2. Sc!ClockTypeOK
  <2>1. Sc!Ids = Nat \ {0} /\ Sc!Ids \union {0} = Nat
    BY DEF Sc!Ids
  <2>2. \A e \in Sc!Globals : executed[e] \subseteq Nat
    BY DEF ClockInv, ClockTypes
  <2> QED BY <1>1, <2>1, <2>2 DEF ClockInv, ClockTypes, Sc!ClockTypeOK, TaskRecords
<1>3. Sc!NoneWaitsInVain
  BY DEF ClockInv, InTime, Sc!NoneWaitsInVain
<1>4. Sc!EveryDay
  BY DEF ClockInv, OnTheHour, Times, Sc!EveryDay
<1> QED BY <1>2, <1>3, <1>4 DEF Sc!ClockIsSound

(* Each kind that a file has gets its task.                                *)
LEMMA KindRegistered ==
  ASSUME NEW w, TaskWorld(w), NEW k \in Sc!Kinds, NEW file, NEW now \in Nat
  PROVE  LET v == Sc!RegisterKind(w, k, file, now)
         IN  /\ TaskWorld(v) /\ w.tasks \subseteq v.tasks
             /\ \A j \in Sc!Kinds \ {k} : v.eventId[j] = w.eventId[j]
             /\ w.eventId[k] = 0 => \A e \in file : Sc!KindOf(e) = k =>
                  \E t \in v.tasks : t.kind = k /\ t.due = now + MinTicks
<1> DEFINE v == Sc!RegisterKind(w, k, file, now)
           t == [id |-> Sc!FreeId(w), kind |-> k, due |-> now + MinTicks, posted |-> FALSE]
           any == \E e \in file : Sc!KindOf(e) = k
<1>0. now + MinTicks \in Nat
  BY ScriptsAssumption
<1>1. CASE any /\ w.eventId[k] = 0
  <2>1. v = Sc!AddTask(w, k, now + MinTicks)
    BY <1>1 DEF Sc!RegisterKind
  <2>2. /\ TaskWorld(v) /\ v.tasks = w.tasks \union {t}
        /\ v.eventId = [w.eventId EXCEPT ![k] = Sc!FreeId(w)]
    <3> DEFINE d == now + MinTicks
               x == Sc!AddTask(w, k, d)
    <3> HIDE DEF v
    <3>1. v = x /\ d \in Nat
      BY <1>0, <2>1
    <3>2. t = [id |-> Sc!FreeId(w), kind |-> k, due |-> d, posted |-> FALSE]
      OBVIOUS
    <3> HIDE DEF d, t
    <3>3. /\ TaskWorld(x) /\ x.tasks = w.tasks \union {t}
          /\ x.eventId = [w.eventId EXCEPT ![k] = Sc!FreeId(w)]
      BY <3>1, <3>2, TaskAdded
    <3> HIDE DEF x
    <3> QED BY <3>1, <3>3
  <2>3. t.kind = k /\ t.due = now + MinTicks
    OBVIOUS
  <2>4. w.eventId \in [Sc!Kinds -> Nat]
    BY DEF TaskWorld
  <2> HIDE DEF v, t, any
  <2>5. \A j \in Sc!Kinds \ {k} : v.eventId[j] = w.eventId[j]
    BY <2>2, <2>4
  <2> QED BY <2>2, <2>3, <2>5 DEF v
<1>2. CASE ~(any /\ w.eventId[k] = 0)
  <2>1. v = w
    BY <1>2 DEF Sc!RegisterKind
  <2> QED BY <1>2, <2>1
<1> QED BY <1>1, <1>2

(* Both kinds of task are registered, one after the other.                 *)
LEMMA AllRegistered ==
  ASSUME NEW w, TaskWorld(w), \A k \in Sc!Kinds : w.eventId[k] = 0,
         NEW file \in SUBSET Sc!Globals, NEW now \in Nat
  PROVE  LET v == Sc!Registered(w, file, now)
         IN  /\ TaskWorld(v)
             /\ \A e \in file : \E t \in v.tasks :
                  t.kind = Sc!KindOf(e) /\ t.due = now + MinTicks
<1> DEFINE u == Sc!RegisterKind(w, "think", file, now)
           v == Sc!RegisterKind(u, "timer", file, now)
<1>0. "think" \in Sc!Kinds /\ "timer" \in Sc!Kinds /\ "timer" # "think"
      /\ Sc!Kinds = {"think", "timer"}
  BY DEF Sc!Kinds
<1>1. /\ TaskWorld(u) /\ u.eventId["timer"] = 0
      /\ \A e \in file : Sc!KindOf(e) = "think" =>
           \E t \in u.tasks : t.kind = "think" /\ t.due = now + MinTicks
  BY <1>0, KindRegistered
<1> HIDE DEF u
<1>2. /\ TaskWorld(v) /\ u.tasks \subseteq v.tasks
      /\ \A e \in file : Sc!KindOf(e) = "timer" =>
           \E t \in v.tasks : t.kind = "timer" /\ t.due = now + MinTicks
  BY <1>0, <1>1, KindRegistered
<1>3. Sc!Registered(w, file, now) = v
  BY DEF Sc!Registered, u
<1> HIDE DEF v
<1>4. \A e \in file : Sc!KindOf(e) \in Sc!Kinds
  BY KindsOf
<1>5. \A e \in file : \E t \in v.tasks : t.kind = Sc!KindOf(e) /\ t.due = now + MinTicks
  BY <1>0, <1>1, <1>2, <1>4
<1> QED BY <1>2, <1>3, <1>5

(* What a file that has just been loaded lists begins in order.            *)
LEMMA LoadedInOrder ==
  ASSUME NEW w, TaskWorld(w), \A k \in Sc!Kinds : w.eventId[k] = 0,
         NEW file \in SUBSET Sc!Globals, NEW now \in Nat, NEW next \in [Sc!Globals -> Nat],
         \A e \in file : next[e] = Sc!FirstExecution(e, now)
  PROVE  LET v == Sc!Registered(w, file, now)
             from == [e \in Sc!Globals |-> now]
             done == [e \in Sc!Globals |-> {}]
             late == [k \in Sc!Kinds |-> MinTicks]
         IN  /\ ClockTypes(now, file, next, from, v.tasks, v.eventId, late, done)
             /\ InTime(file, next, v.tasks, late)
             /\ OnTheHour(now, file, next, from, done)
<1> DEFINE v == Sc!Registered(w, file, now)
           from == [e \in Sc!Globals |-> now]
           done == [e \in Sc!Globals |-> {}]
           late == [k \in Sc!Kinds |-> MinTicks]
<1>0. MinTicks \in Nat
  BY ScriptsAssumption
<1>1. /\ TaskWorld(v)
      /\ \A e \in file : \E t \in v.tasks : t.kind = Sc!KindOf(e) /\ t.due = now + MinTicks
  BY AllRegistered
<1>2. /\ from \in [Sc!Globals -> Nat] /\ late \in [Sc!Kinds -> Nat]
      /\ done \in [Sc!Globals -> SUBSET Nat]
      /\ \A e \in Sc!Globals : from[e] = now /\ done[e] = {}
      /\ \A k \in Sc!Kinds : late[k] = MinTicks
  BY <1>0
<1> HIDE DEF v, from, done, late
<1>3. TaskWorld([tasks |-> v.tasks, eventId |-> v.eventId])
  BY <1>1 DEF TaskWorld
<1>4. ClockTypes(now, file, next, from, v.tasks, v.eventId, late, done)
  BY <1>2, <1>3 DEF ClockTypes
<1>5. ASSUME NEW e \in file
      PROVE  \E t \in v.tasks : t.kind = Sc!KindOf(e) /\ t.due <= next[e] + late[t.kind]
  <2>1. PICK t \in v.tasks : t.kind = Sc!KindOf(e) /\ t.due = now + MinTicks
    BY <1>1
  <2>2. Sc!KindOf(e) \in Sc!Kinds /\ next[e] \in Nat /\ now <= next[e]
    BY KindsOf, FirstTime
  <2>3. t.due <= next[e] + late[t.kind]
    BY <1>0, <1>2, <2>1, <2>2
  <2> QED BY <2>1, <2>3
<1>6. ASSUME NEW e \in file \intersect Daily
      PROVE  /\ done[e] = Times(e, from[e], next[e])
             /\ from[e] <= next[e] /\ next[e] % Day = Hour[e]
             /\ \A i \in done[e] : i <= now
  <2>1. e \in Sc!Globals /\ done[e] = {} /\ from[e] = now /\ next[e] = Sc!FirstExecution(e, now)
    BY <1>2
  <2>2. now <= next[e] /\ next[e] % Day = Hour[e]
    BY <2>1, FirstTime
  <2>3. Times(e, from[e], next[e]) = {}
    BY <2>1, NoTimeYet
  <2> QED BY <2>1, <2>2, <2>3
<1>7. InTime(file, next, v.tasks, late)
  BY <1>5 DEF InTime
<1>8. OnTheHour(now, file, next, from, done)
  BY <1>6 DEF OnTheHour
<1> QED BY <1>4, <1>7, <1>8 DEF v, from, done, late

(* It holds when the events are first loaded, ...                          *)
LEMMA ClockBegins == Sc!ClockInit => ClockInv
<1> SUFFICES ASSUME Sc!ClockInit PROVE ClockInv
  OBVIOUS
<1> DEFINE w == [tasks |-> {}, eventId |-> [k \in Sc!Kinds |-> 0]]
           next == [e \in Sc!Globals |-> Sc!FirstExecution(e, 0)]
<1>1. PICK file \in Listings :
        /\ clockTasks = Sc!Registered(w, file, 0).tasks
        /\ eventId = Sc!Registered(w, file, 0).eventId /\ listed = file /\ clock = 0
        /\ nextExecution = next /\ listedSince = [e \in Sc!Globals |-> 0]
        /\ executed = [e \in Sc!Globals |-> {}] /\ lag = [k \in Sc!Kinds |-> MinTicks]
        /\ loads = 1
  BY DEF Sc!ClockInit
<1>2. file \in SUBSET Sc!Globals /\ MaxLoads \in Nat \ {0}
  BY ScriptsAssumption DEF Sc!Globals
<1>3. TaskWorld(w) /\ \A k \in Sc!Kinds : w.eventId[k] = 0
  <2>1. IsFiniteSet({}) /\ {} \subseteq TaskRecords /\ [k \in Sc!Kinds |-> 0] \in [Sc!Kinds -> Nat]
    BY FS_EmptySet
  <2> QED BY <2>1, Worlds
<1>4. next \in [Sc!Globals -> Nat] /\ \A e \in file : next[e] = Sc!FirstExecution(e, 0)
  <2>1. \A e \in Sc!Globals : Sc!FirstExecution(e, 0) \in Nat
    BY FirstTime
  <2> QED BY <1>2, <2>1
<1> DEFINE v == Sc!Registered(w, file, 0)
           from == [e \in Sc!Globals |-> 0]
           done == [e \in Sc!Globals |-> {}]
           late == [k \in Sc!Kinds |-> MinTicks]
<1>5. /\ ClockTypes(0, file, next, from, v.tasks, v.eventId, late, done)
      /\ InTime(file, next, v.tasks, late)
      /\ OnTheHour(0, file, next, from, done)
  <2> HIDE DEF w, next
  <2> QED BY <1>2, <1>3, <1>4, LoadedInOrder
<1>6. loads \in 1..MaxLoads
  BY <1>1, <1>2
<1> HIDE DEF w, next
<1> QED BY <1>1, <1>5, <1>6 DEF ClockInv

(* ... after they are loaded again, ...                                    *)
LEMMA ReloadStep ==
  ASSUME ClockInv, Sc!ReloadAll
  PROVE  ClockInv'
<1> DEFINE w == Sc!Forgotten([tasks |-> clockTasks, eventId |-> eventId])
<1>1. PICK file \in Listings : Sc!Loaded(w, file, clock)
  BY DEF Sc!ReloadAll
<1>2. loads < MaxLoads /\ loads' = loads + 1 /\ clock' = clock
  BY DEF Sc!ReloadAll
<1>3. file \in SUBSET Sc!Globals /\ MaxLoads \in Nat
  BY ScriptsAssumption DEF Sc!Globals
<1>4. /\ clock \in Nat /\ loads \in 1..MaxLoads /\ nextExecution \in [Sc!Globals -> Nat]
      /\ clockTasks \subseteq TaskRecords /\ IsFiniteSet(clockTasks)
      /\ eventId \in [Sc!Kinds -> Nat]
  BY Worlds DEF ClockInv, ClockTypes
<1>5. TaskWorld(w) /\ \A k \in Sc!Kinds : w.eventId[k] = 0
  <2> DEFINE old == [tasks |-> clockTasks, eventId |-> eventId]
  <2>1. w = [tasks |-> Sc!StopEvents(old), eventId |-> [k \in Sc!Kinds |-> 0]]
    BY DEF Sc!Forgotten
  <2>2. Sc!StopEvents(old) \subseteq clockTasks
    BY DEF Sc!StopEvents
  <2>3. IsFiniteSet(Sc!StopEvents(old)) /\ Sc!StopEvents(old) \subseteq TaskRecords
    BY <1>4, <2>2, FS_Subset
  <2>4. [k \in Sc!Kinds |-> 0] \in [Sc!Kinds -> Nat]
    OBVIOUS
  <2> HIDE DEF old, w
  <2>5. TaskWorld(w)
    BY <2>1, <2>3, <2>4, Worlds
  <2> QED BY <2>1, <2>5
<1> HIDE DEF w
<1> DEFINE v == Sc!Registered(w, file, clock)
           next == [e \in Sc!Globals |->
                      IF e \in file THEN Sc!FirstExecution(e, clock) ELSE nextExecution[e]]
           from == [e \in Sc!Globals |-> clock]
           done == [e \in Sc!Globals |-> {}]
           late == [k \in Sc!Kinds |-> MinTicks]
<1>6. /\ clockTasks' = v.tasks /\ eventId' = v.eventId /\ listed' = file
      /\ nextExecution' = next /\ listedSince' = from /\ executed' = done /\ lag' = late
  BY <1>1 DEF Sc!Loaded
<1>7. next \in [Sc!Globals -> Nat] /\ \A e \in file : next[e] = Sc!FirstExecution(e, clock)
  <2>1. \A e \in Sc!Globals : Sc!FirstExecution(e, clock) \in Nat
    BY <1>4, FirstTime
  <2> QED BY <1>3, <1>4, <2>1
<1>8. /\ ClockTypes(clock, file, next, from, v.tasks, v.eventId, late, done)
      /\ InTime(file, next, v.tasks, late)
      /\ OnTheHour(clock, file, next, from, done)
  <2> HIDE DEF next
  <2> QED BY <1>3, <1>4, <1>5, <1>7, LoadedInOrder
<1>9. loads' \in 1..MaxLoads
  BY <1>2, <1>3, <1>4
<1> HIDE DEF v, next, from, done, late
<1>10. ClockTypes(clock, listed, nextExecution, listedSince, clockTasks, eventId, lag, executed)'
  BY <1>2, <1>6, <1>8 DEF ClockTypes, TaskWorld
<1>11. InTime(listed, nextExecution, clockTasks, lag)'
  BY <1>6, <1>8 DEF InTime
<1>12. OnTheHour(clock, listed, nextExecution, listedSince, executed)'
  BY <1>2, <1>6, <1>8 DEF OnTheHour, Times
<1> QED BY <1>9, <1>10, <1>11, <1>12 DEF ClockInv

(* ... when time passes, ...                                               *)
LEMMA PassStep ==
  ASSUME ClockInv, Sc!Pass
  PROVE  ClockInv'
<1>1. /\ clock' = clock + 1 /\ clock \in Nat
      /\ UNCHANGED <<listed, nextExecution, clockTasks, eventId, lag, listedSince, executed, loads>>
  BY DEF Sc!Pass, ClockInv, ClockTypes
<1>2. \A e \in listed \intersect Daily : \A i \in executed[e] : i <= clock'
  <2>1. \A e \in listed \intersect Daily : executed[e] \subseteq Nat
    BY DEF ClockInv, ClockTypes
  <2> QED BY <1>1, <2>1 DEF ClockInv, OnTheHour
<1>3. ClockTypes(clock, listed, nextExecution, listedSince, clockTasks, eventId, lag, executed)'
  BY <1>1 DEF ClockInv, ClockTypes, TaskWorld
<1>4. InTime(listed, nextExecution, clockTasks, lag)'
  BY <1>1 DEF ClockInv, InTime
<1>5. OnTheHour(clock, listed, nextExecution, listedSince, executed)'
  BY <1>1, <1>2 DEF ClockInv, OnTheHour, Times
<1> QED BY <1>1, <1>3, <1>4, <1>5 DEF ClockInv

(* ... when a task is posted, ...                                          *)
LEMMA PostStep ==
  ASSUME ClockInv, NEW t \in clockTasks, Sc!Post(t)
  PROVE  ClockInv'
<1> DEFINE u == [t EXCEPT !.posted = TRUE]
<1>1. /\ clockTasks' = (clockTasks \ {t}) \union {u}
      /\ UNCHANGED <<clock, listed, nextExecution, eventId, lag, listedSince, executed, loads>>
  BY DEF Sc!Post
<1>2. /\ clockTasks \subseteq TaskRecords /\ IsFiniteSet(clockTasks)
      /\ eventId \in [Sc!Kinds -> Nat]
  BY Worlds DEF ClockInv, ClockTypes
<1>3. u \in TaskRecords /\ u.kind = t.kind /\ u.due = t.due
  BY <1>2 DEF TaskRecords
<1> HIDE DEF u
<1>4. clockTasks' \subseteq TaskRecords /\ IsFiniteSet(clockTasks')
  BY <1>1, <1>2, <1>3, FS_AddElement, FS_RemoveElement
<1>5. TaskWorld([tasks |-> clockTasks', eventId |-> eventId'])
  BY <1>1, <1>2, <1>4, Worlds
<1>6. ClockTypes(clock, listed, nextExecution, listedSince, clockTasks, eventId, lag, executed)'
  BY <1>1, <1>5 DEF ClockInv, ClockTypes, TaskWorld
<1>7. InTime(listed, nextExecution, clockTasks, lag)'
  <2> SUFFICES ASSUME NEW e \in listed
               PROVE  \E x \in clockTasks' :
                        x.kind = Sc!KindOf(e) /\ x.due <= nextExecution[e] + lag[x.kind]
    BY <1>1 DEF InTime
  <2>1. PICK x \in clockTasks : x.kind = Sc!KindOf(e) /\ x.due <= nextExecution[e] + lag[x.kind]
    BY DEF ClockInv, InTime
  <2> QED BY <1>1, <1>3, <2>1
<1>8. OnTheHour(clock, listed, nextExecution, listedSince, executed)'
  BY <1>1 DEF ClockInv, OnTheHour, Times
<1> QED BY <1>1, <1>6, <1>7, <1>8 DEF ClockInv

(* When the next of the listed events is due, as timer and think reckon it.*)
LEMMA SoonestOf ==
  ASSUME NEW S \in SUBSET Nat, S # {}
  PROVE  LET n0 == CHOOSE n \in S : \A m \in S : n <= m
         IN  n0 \in S /\ \A m \in S : n0 <= m
<1>1. \E n \in S : \A m \in S : n <= m
  BY LeastNatural
<1> QED BY <1>1

(* ... and when timer() or think() has run: the next task is no later than *)
(* the soonest event, counted from when this one was late.                 *)
LEMMA WakeStep ==
  ASSUME ClockInv, NEW t \in clockTasks, NEW failed \in SUBSET Daily, NEW took \in 0..1,
         Sc!Wake(t, failed, took)
  PROVE  ClockInv'
<1> DEFINE k == t.kind
           due == Sc!DueOf(k)
           mine == {e \in listed : Sc!KindOf(e) = k} \ failed
           wait(e) == IF e \in due THEN Sc!Period(e) ELSE nextExecution[e] - clock
           untilNext == {wait(e) : e \in mine}
           soonest == CHOOSE n \in untilNext : \A m \in untilNext : n <= m
           w == [tasks |-> clockTasks \ {t}, eventId |-> eventId]
           now == clock + took
           v == IF mine = {} THEN w ELSE Sc!AddTask(w, k, now + soonest)
           late == IF t.due < clock THEN clock - t.due ELSE 0
<1>0. /\ clock \in Nat /\ listed \subseteq Sc!Globals
      /\ nextExecution \in [Sc!Globals -> Nat] /\ listedSince \in [Sc!Globals -> Nat]
      /\ lag \in [Sc!Kinds -> Nat] /\ executed \in [Sc!Globals -> SUBSET Nat]
      /\ clockTasks \subseteq TaskRecords /\ IsFiniteSet(clockTasks)
      /\ eventId \in [Sc!Kinds -> Nat] /\ loads \in 1..MaxLoads
      /\ k \in Sc!Kinds /\ t.due \in Nat /\ took \in Nat /\ now \in Nat /\ clock <= now
  BY Worlds DEF ClockInv, ClockTypes, TaskRecords
<1>1. /\ failed \subseteq due /\ clock' = now /\ listed' = listed \ failed
      /\ nextExecution' = [e \in Sc!Globals |->
           IF e \in due \ failed THEN Sc!AfterExecution(e) ELSE nextExecution[e]]
      /\ executed' = [e \in Sc!Globals |->
           IF e \in due THEN executed[e] \union {nextExecution[e]} ELSE executed[e]]
      /\ clockTasks' = v.tasks /\ eventId' = v.eventId
      /\ lag' = [lag EXCEPT ![k] = (lag[k] + late) + took]
      /\ listedSince' = listedSince /\ loads' = loads
  BY DEF Sc!Wake
<1>2. \A e \in due : e \in listed /\ Sc!KindOf(e) = k /\ nextExecution[e] <= clock
  BY DEF Sc!DueOf
<1>3. ASSUME NEW e \in mine
      PROVE  /\ wait(e) \in Nat
             /\ e \in due => wait(e) = Sc!Period(e)
             /\ e \notin due => wait(e) = nextExecution[e] - clock
  <2>1. e \in listed /\ e \in Sc!Globals /\ Sc!KindOf(e) = k /\ nextExecution[e] \in Nat
    BY <1>0
  <2>2. e \notin due => clock < nextExecution[e]
    BY <1>0, <2>1 DEF Sc!DueOf
  <2> QED BY <1>0, <2>1, <2>2, KindsOf
<1>4. mine # {} => soonest \in Nat /\ \A e \in mine : soonest <= wait(e)
  <2> SUFFICES ASSUME mine # {} PROVE soonest \in Nat /\ \A e \in mine : soonest <= wait(e)
    OBVIOUS
  <2>1. untilNext \in SUBSET Nat /\ untilNext # {} /\ \A e \in mine : wait(e) \in untilNext
    BY <1>3
  <2> HIDE DEF wait, mine, untilNext
  <2>2. soonest \in untilNext /\ \A m \in untilNext : soonest <= m
    BY <2>1, SoonestOf
  <2> QED BY <2>1, <2>2
<1>5. TaskWorld(w) /\ w.tasks = clockTasks \ {t}
  <2>1. clockTasks \ {t} \subseteq TaskRecords /\ IsFiniteSet(clockTasks \ {t})
    BY <1>0, FS_RemoveElement
  <2> QED BY <1>0, <2>1, Worlds
<1>6. /\ TaskWorld(v) /\ clockTasks \ {t} \subseteq v.tasks
      /\ mine # {} => \E x \in v.tasks : x.kind = k /\ x.due = now + soonest
  <2>1. CASE mine = {}
    <3>1. v = w
      BY <2>1
    <3> QED BY <1>5, <2>1, <3>1
  <2>2. CASE mine # {}
    <3> DEFINE d == now + soonest
               a == Sc!AddTask(w, k, d)
               x == [id |-> Sc!FreeId(w), kind |-> k, due |-> d, posted |-> FALSE]
    <3>1. v = a
      BY <2>2
    <3>2. x.kind = k /\ x.due = d
      OBVIOUS
    <3> HIDE DEF v, w, mine, soonest
    <3>3. d \in Nat
      BY <1>0, <1>4, <2>2
    <3> HIDE DEF d
    <3>4. TaskWorld(a) /\ a.tasks = w.tasks \union {x}
      BY <1>0, <1>5, <3>3, TaskAdded
    <3> HIDE DEF a, x
    <3> QED BY <1>5, <3>1, <3>2, <3>4 DEF d
  <2> QED BY <2>1, <2>2
<1> HIDE DEF v, soonest, untilNext, w
<1>7. /\ late \in Nat
      /\ lag'[k] = (lag[k] + late) + took /\ lag' \in [Sc!Kinds -> Nat]
      /\ \A j \in Sc!Kinds : lag[j] <= lag'[j]
  BY <1>0, <1>1
<1>8. \A e \in Sc!Globals :
        /\ nextExecution'[e] = IF e \in due \ failed
                               THEN nextExecution[e] + Sc!Period(e) ELSE nextExecution[e]
        /\ nextExecution'[e] \in Nat /\ nextExecution[e] <= nextExecution'[e]
  <2> HIDE DEF due
  <2> SUFFICES ASSUME NEW e \in Sc!Globals
               PROVE  /\ nextExecution'[e] = IF e \in due \ failed
                               THEN nextExecution[e] + Sc!Period(e) ELSE nextExecution[e]
                      /\ nextExecution'[e] \in Nat /\ nextExecution[e] <= nextExecution'[e]
    OBVIOUS
  <2>1. Sc!Period(e) \in Nat /\ nextExecution[e] \in Nat
    BY <1>0, KindsOf
  <2> QED BY <1>1, <2>1 DEF Sc!AfterExecution
<1>9. nextExecution' \in [Sc!Globals -> Nat]
  <2>1. nextExecution' = [e \in Sc!Globals |-> nextExecution'[e]]
    BY <1>1
  <2> HIDE <1>1
  <2> QED BY <1>8, <2>1
<1>10. \A e \in Sc!Globals :
         executed'[e] = IF e \in due THEN executed[e] \union {nextExecution[e]} ELSE executed[e]
  BY <1>1
<1>11. executed' \in [Sc!Globals -> SUBSET Nat]
  <2>1. executed' = [e \in Sc!Globals |-> executed'[e]]
    BY <1>1
  <2>2. ASSUME NEW e \in Sc!Globals PROVE executed'[e] \in SUBSET Nat
    <3> HIDE DEF due
    <3>1. executed[e] \in SUBSET Nat /\ nextExecution[e] \in Nat
      BY <1>0
    <3>2. executed'[e] = executed[e] \union {nextExecution[e]} \/ executed'[e] = executed[e]
      BY <1>10
    <3> HIDE <1>1
    <3> QED BY <3>1, <3>2
  <2> HIDE <1>1
  <2> QED BY <2>1, <2>2
<1>12. ClockTypes(clock, listed, nextExecution, listedSince, clockTasks, eventId, lag, executed)'
  <2>1. TaskWorld([tasks |-> clockTasks', eventId |-> eventId'])
    BY <1>1, <1>6, Worlds DEF TaskWorld
  <2>2. listed' \subseteq Sc!Globals /\ clock' \in Nat
    BY <1>0, <1>1
  <2>3. listedSince' \in [Sc!Globals -> Nat]
    BY <1>0, <1>1
  <2> QED BY <1>7, <1>9, <1>11, <2>1, <2>2, <2>3 DEF ClockTypes, TaskWorld
<1>13. InTime(listed, nextExecution, clockTasks, lag)'
  <2> SUFFICES ASSUME NEW e \in listed, e \notin failed
               PROVE  \E x \in clockTasks' :
                        x.kind = Sc!KindOf(e) /\ x.due <= nextExecution'[e] + lag'[x.kind]
    BY <1>1 DEF InTime
  <2>1. PICK x \in clockTasks : x.kind = Sc!KindOf(e) /\ x.due <= nextExecution[e] + lag[x.kind]
    BY DEF ClockInv, InTime
  <2>2. /\ e \in Sc!Globals /\ nextExecution[e] \in Nat /\ nextExecution'[e] \in Nat
        /\ nextExecution[e] <= nextExecution'[e]
        /\ x.kind \in Sc!Kinds /\ x.due \in Nat /\ lag[x.kind] \in Nat /\ lag'[x.kind] \in Nat
        /\ lag[x.kind] <= lag'[x.kind]
    BY <1>0, <1>7, <1>8 DEF TaskRecords
  <2>3. CASE x # t
    <3>1. x \in clockTasks'
      BY <1>1, <1>6, <2>3
    <3>2. x.due <= nextExecution'[e] + lag'[x.kind]
      BY <2>1, <2>2
    <3> QED BY <2>1, <3>1, <3>2
  <2>4. CASE x = t
    <3>1. Sc!KindOf(e) = k /\ e \in mine
      BY <2>1, <2>4
    <3>2. PICK y \in v.tasks : y.kind = k /\ y.due = now + soonest
      BY <1>6, <3>1
    <3>3. soonest \in Nat /\ soonest <= wait(e) /\ wait(e) \in Nat
      BY <1>3, <1>4, <3>1
    <3>4. now + soonest <= nextExecution'[e] + lag'[k]
      <4> DEFINE n == nextExecution[e]
                 n1 == nextExecution'[e]
                 l == lag[k]
                 l1 == lag'[k]
                 p == Sc!Period(e)
                 z == wait(e)
      <4>1. /\ n \in Nat /\ n1 \in Nat /\ l \in Nat /\ l1 \in Nat /\ p \in Nat
            /\ t.due <= n + l /\ l1 = (l + late) + took /\ soonest <= z /\ z \in Nat
        BY <1>0, <1>7, <2>1, <2>2, <2>4, <3>3, KindsOf
      <4>2. clock <= (n + l) + late
        <5> HIDE DEF n, l
        <5>1. CASE t.due < clock
          BY <1>0, <4>1, <5>1
        <5>2. CASE ~(t.due < clock)
          BY <1>0, <4>1, <5>2
        <5> QED BY <5>1, <5>2
      <4>3. e \in due => z = p /\ n1 = n + p
        BY <1>3, <1>8, <2>2, <3>1
      <4>4. e \notin due => z = n - clock /\ n1 = n
        BY <1>3, <1>8, <2>2, <3>1
      <4>5. late \in Nat /\ took \in Nat /\ clock \in Nat /\ soonest \in Nat
        BY <1>0, <1>7, <3>3
      <4> HIDE DEF n, n1, l, l1, p, z, late, due
      <4>6. (clock + took) + soonest <= n1 + l1
        <5>1. CASE e \in due
          <6>1. soonest <= p
            BY <4>1, <4>3, <5>1
          <6> QED BY <4>1, <4>2, <4>3, <4>5, <5>1, <6>1
        <5>2. CASE e \notin due
          <6>1. soonest <= n - clock
            BY <4>1, <4>4, <5>2
          <6> QED BY <4>1, <4>2, <4>4, <4>5, <5>2, <6>1
        <5> QED BY <5>1, <5>2
      <4> QED BY <4>6 DEF n1, l1
    <3> QED BY <1>1, <3>1, <3>2, <3>4
  <2> QED BY <2>3, <2>4
<1>14. OnTheHour(clock, listed, nextExecution, listedSince, executed)'
  <2> SUFFICES ASSUME NEW e \in listed \intersect Daily, e \notin failed
               PROVE  /\ executed'[e] = Times(e, listedSince'[e], nextExecution'[e])
                      /\ listedSince'[e] <= nextExecution'[e] /\ nextExecution'[e] % Day = Hour[e]
                      /\ \A i \in executed'[e] : i <= clock'
    BY <1>1 DEF OnTheHour, Times
  <2>1. /\ e \in Sc!Globals /\ e \in Daily
        /\ executed[e] = Times(e, listedSince[e], nextExecution[e])
        /\ listedSince[e] <= nextExecution[e] /\ nextExecution[e] % Day = Hour[e]
        /\ \A i \in executed[e] : i <= clock
        /\ nextExecution[e] \in Nat /\ listedSince[e] \in Nat /\ executed[e] \subseteq Nat
    BY <1>0 DEF ClockInv, OnTheHour
  <2>2. listedSince'[e] = listedSince[e] /\ clock' = now
    BY <1>1
  <2>3. CASE e \in due
    <3>1. Sc!Period(e) = Day
      BY <2>1, KindsOf DEF Sc!Period
    <3>2. nextExecution'[e] = nextExecution[e] + Day
      BY <1>8, <2>1, <2>3, <3>1
    <3>3. executed'[e] = executed[e] \union {nextExecution[e]}
      BY <1>10, <2>1, <2>3
    <3>4. /\ Times(e, listedSince[e], nextExecution[e] + Day)
             = Times(e, listedSince[e], nextExecution[e]) \union {nextExecution[e]}
          /\ (nextExecution[e] + Day) % Day = Hour[e]
      BY <2>1, OneTimeMore
    <3>5. listedSince[e] <= nextExecution[e] + Day
      BY <2>1, ScriptsAssumption
    <3>6. \A i \in executed'[e] : i <= now
      BY <1>0, <1>2, <2>1, <2>3, <3>3
    <3> QED BY <2>1, <2>2, <3>2, <3>3, <3>4, <3>5, <3>6
  <2>4. CASE e \notin due
    <3>1. nextExecution'[e] = nextExecution[e] /\ executed'[e] = executed[e]
      BY <1>8, <1>10, <2>1, <2>4
    <3>2. \A i \in executed[e] : i <= now
      BY <1>0, <2>1
    <3> QED BY <2>1, <2>2, <3>1, <3>2
  <2> QED BY <2>3, <2>4
<1>15. loads' \in 1..MaxLoads
  BY <1>0, <1>1
<1> QED BY <1>12, <1>13, <1>14, <1>15 DEF ClockInv

(* Every action of the clock keeps it.                                     *)
LEMMA ClockStep == ClockInv /\ [Sc!ClockNext]_clockVars => ClockInv'
<1> SUFFICES ASSUME ClockInv, [Sc!ClockNext]_clockVars PROVE ClockInv'
  OBVIOUS
<1>1. CASE Sc!ClockNext
  BY <1>1, ReloadStep, PassStep, PostStep, WakeStep DEF Sc!ClockNext
<1>2. CASE UNCHANGED clockVars
  BY <1>2 DEF clockVars, ClockInv, ClockTypes, InTime, OnTheHour, Times, TaskWorld
<1> QED BY <1>1, <1>2

-----------------------------------------------------------------------------
(* What a script calls is what it was loaded with, timers run once and     *)
(* give back their references, what scripts create is placed or released   *)
(* once, the chain of the global events goes on, and no event of a day is  *)
(* missed, early or late for a reason other than that its task was late    *)
(* (luascript.cpp, baseevents.cpp, creatureevent.cpp, globalevent.cpp).    *)
THEOREM Scripts_are_sound == MCSpec => []ScriptsAreSound
  <1>1. MCInit => ScriptsInv /\ ClockInv
    BY ScriptsBegin, ClockBegins DEF MCInit
  <1>2. ScriptsInv /\ ClockInv /\ [MCNext]_allVars => ScriptsInv' /\ ClockInv'
    <2> SUFFICES ASSUME ScriptsInv, ClockInv, [MCNext]_allVars PROVE ScriptsInv' /\ ClockInv'
      OBVIOUS
    <2>1. [Sc!Next]_scriptsVars /\ [Sc!ClockNext]_clockVars
      BY DEF MCNext, ConnectionNext, ServerNext, ThrottleNext, AccountsNext, EntriesNext,
             PacketsNext, WatchdogNext, BuddiesNext, ViewNext, ScriptsNext, ClockNext,
             allVars
    <2> QED BY <2>1, ScriptsStep, ClockStep
  <1>3. ScriptsInv /\ ClockInv => ScriptsAreSound
    BY ScriptsInvSuffices, ClockInvSuffices DEF ScriptsAreSound
  <1> QED BY <1>1, <1>2, <1>3, PTL DEF MCSpec

-----------------------------------------------------------------------------
(* The life of the server.                                                 *)
ServerTasks ==
  [op : {"state", "save", "login", "open", "shutdown", "terminate"},
   of : Se!States \union Ports \union Players \union {"all"}]
Member(s, t) == \E i \in 1..Len(s) : s[i] = t
PortKept(p) ==
  \/ portState[p].socket = "open" /\ ~portState[p].pendingStart
  \/ /\ portState[p].pendingStart
     /\ portState[p].event \/ Member(serverTasks, Se!Task("open", p))

(* main() has ended what it ends, but for threads it still waits for.      *)
Over == mainThread \in {"joinScheduler", "joinDatabase", "joinDispatcher", "exited"}
USE DEF Over

(* A task is for what its kind is for, and who ends the threads shut the   *)
(* game down, or is main(), without services.                              *)
TaskFits(t) ==
  /\ t.op = "state" => t.of \in Se!States
  /\ t.op = "open" => t.of \in Ports
  /\ t.op = "login" => t.of \in Players /\ (mainThread = "serving" \/ gameState = "shutdown")
  /\ t.op = "shutdown" => gameState = "shutdown"
  /\ t.op = "terminate" => gameState = "shutdown" \/ Over
TasksFit ==
  /\ serverTasks \in Seq(ServerTasks)
  /\ \A t \in ServerTasks : Member(serverTasks, t) => TaskFits(t)

(* What is, while the loader and main() are where they are.  A main() that *)
(* was disturbed may be ahead of the loader, unless a deathTimer ran.      *)
Stages ==
  /\ loader \in {"config", "database", "data", "init"} => gameState # "shutdown"
  /\ loader \in {"config", "database", "data", "init", "failed"} => acceptors = {}
  /\ mainThread = "woken" /\ ~disturbed => loader \in {"done", "failed"}
  /\ mainThread \in {"online", "serving"} =>
       loader = "done" \/ (disturbed /\ loader = "services" /\ acceptors # {})
  /\ Over => posted = {} /\ (deathTimer \/ ~disturbed =>
                               acceptors = {} /\ loader \in {"done", "failed"})
  /\ running => mainThread = "serving"
  /\ posted # {} => deathTimer
  /\ deathTimer => /\ mainThread = "serving" \/ Over
                   /\ acceptors = {} /\ gameState = "shutdown" /\ ~running /\ loader = "done"
SocketsFit ==
  \A p \in Ports :
    /\ portState[p].socket = "open" => p \in acceptors \union posted
    /\ portState[p].event => loader \notin {"config", "database", "data", "init"}
ThreadsFit ==
  /\ gameState # "shutdown" /\ ~Over =>
       threads["scheduler"] = "running" /\ threads["dispatcher"] = "running"
  /\ threads["dispatcher"] \in {"terminated", "ended"} => loader \in {"done", "failed"}
  /\ threads["dispatcher"] # "none"
  /\ mainThread \in {"joinDatabase", "joinDispatcher", "exited"} =>
       threads["scheduler"] \in {"none", "ended"}
  /\ mainThread \in {"joinDispatcher", "exited"} /\ (deathTimer \/ ~disturbed) =>
       threads["database"] \in {"none", "ended"}
  /\ mainThread = "exited" => threads["dispatcher"] = "ended"
Inside ==
  /\ inService # {} => mainThread = "serving" \/ gameState = "shutdown"
  /\ gameState = "shutdown" => inService \subseteq latecomers
  /\ gameState = "closed" => inService \subseteq Privileged
PortsKept == gameState # "shutdown" /\ ~Over => \A p \in acceptors : PortKept(p)

ServerInv ==
  /\ Se!ServerTypeOK /\ TasksFit /\ Stages /\ SocketsFit /\ ThreadsFit /\ Inside /\ PortsKept

LEMMA ServerNumbers == MaxCommands \in Nat /\ MaxErrors \in Nat
  BY EntriesAssumption

LEMMA ServerBegins == Se!ServerInit => ServerInv
<1> SUFFICES ASSUME Se!ServerInit PROVE ServerInv
  OBVIOUS
<1>1. /\ running \in BOOLEAN /\ deathTimer \in BOOLEAN /\ ~running /\ ~deathTimer
      /\ disturbed \in BOOLEAN /\ ~disturbed
  BY Zenon DEF Se!ServerInit
<1>2. serverTasks = <<>> /\ serverTasks \in Seq(ServerTasks)
  BY DEF Se!ServerInit
<1>3. TasksFit /\ Stages
  BY <1>1, <1>2 DEF Se!ServerInit, TasksFit, Stages, Member
<1>4. SocketsFit /\ ThreadsFit /\ Inside /\ PortsKept
  BY DEF Se!ServerInit, Se!Idle, SocketsFit, ThreadsFit, Inside, PortsKept
<1>5. Se!ServerTypeOK
  BY <1>1, ServerNumbers DEF Se!ServerInit, Se!Idle, Se!ServerTypeOK
<1> QED BY <1>3, <1>4, <1>5 DEF ServerInv

(* Threads that are told to end.                                           *)
ThreadStates == {"none", "running", "closing", "terminated", "ended"}
LEMMA ToldThreads ==
  ASSUME ServerInv, NEW S \in SUBSET {"dispatcher", "scheduler", "database"},
         NEW state \in {"closing", "terminated"}
  PROVE  /\ Se!Told(S, state) \in [{"dispatcher", "scheduler", "database"} -> ThreadStates]
         /\ \A t \in {"dispatcher", "scheduler", "database"} :
              /\ t \notin S => Se!Told(S, state)[t] = threads[t]
              /\ threads[t] \in {"none", "ended"} => Se!Told(S, state)[t] = threads[t]
              /\ Se!Told(S, state)[t] \in {threads[t], state}
<1>1. threads \in [{"dispatcher", "scheduler", "database"} -> ThreadStates]
  BY DEF ServerInv, Se!ServerTypeOK, ThreadStates
<1> QED BY <1>1 DEF Se!Told, Se!Alive, ThreadStates

(* The tasks of a list that grows or shrinks.                              *)
LEMMA TaskOn ==
  ASSUME NEW s \in Seq(ServerTasks), NEW t \in ServerTasks
  PROVE  /\ Append(s, t) \in Seq(ServerTasks) /\ <<t>> \o s \in Seq(ServerTasks)
         /\ \A x : Member(Append(s, t), x) <=> Member(s, x) \/ x = t
         /\ \A x : Member(<<t>> \o s, x) <=> Member(s, x) \/ x = t
<1> DEFINE on == <<t>> \o s
           more == Append(s, t)
<1>1. /\ on \in Seq(ServerTasks) /\ Len(on) = Len(s) + 1 /\ Len(s) \in Nat
      /\ on[1] = t /\ \A i \in 1..Len(s) : on[i + 1] = s[i]
  OBVIOUS
<1>2. /\ more \in Seq(ServerTasks) /\ Len(more) = Len(s) + 1
      /\ more[Len(s) + 1] = t /\ \A i \in 1..Len(s) : more[i] = s[i]
  OBVIOUS
<1> HIDE DEF on, more
<1>3. \A i \in 1..Len(on) : i = 1 \/ (i - 1 \in 1..Len(s) /\ on[i] = s[i - 1])
  <2> SUFFICES ASSUME NEW i \in 1..Len(on), i # 1
               PROVE  i - 1 \in 1..Len(s) /\ on[i] = s[i - 1]
    OBVIOUS
  <2>1. i - 1 \in 1..Len(s) /\ (i - 1) + 1 = i
    BY <1>1
  <2> QED BY <1>1, <2>1
<1>4. 1 \in 1..Len(on) /\ \A i \in 1..Len(s) : i + 1 \in 1..Len(on)
  BY <1>1
<1>5. /\ \A i \in 1..Len(more) : i = Len(s) + 1 \/ i \in 1..Len(s)
      /\ Len(s) + 1 \in 1..Len(more) /\ \A i \in 1..Len(s) : i \in 1..Len(more)
  BY <1>1, <1>2
<1>6. \A x : Member(on, x) <=> Member(s, x) \/ x = t
  <2> TAKE x
  <2>1. ASSUME Member(on, x), x # t PROVE Member(s, x)
    BY Zenon, <1>1, <1>3, <2>1 DEF Member
  <2>2. ASSUME Member(s, x) PROVE Member(on, x)
    BY Zenon, <1>1, <1>4, <2>2 DEF Member
  <2>3. Member(on, t)
    BY Zenon, <1>1, <1>4 DEF Member
  <2> QED BY <2>1, <2>2, <2>3
<1>7. \A x : Member(more, x) <=> Member(s, x) \/ x = t
  BY Zenon, <1>2, <1>5 DEF Member
<1> QED BY <1>1, <1>2, <1>6, <1>7 DEF on, more

LEMMA TaskOff ==
  ASSUME NEW s \in Seq(ServerTasks), s # <<>>
  PROVE  /\ Head(s) \in ServerTasks /\ Tail(s) \in Seq(ServerTasks)
         /\ \A x : Member(s, x) <=> Member(Tail(s), x) \/ x = Head(s)
<1>1. Head(s) \in ServerTasks /\ Tail(s) \in Seq(ServerTasks)
  OBVIOUS
<1>2. s = <<Head(s)>> \o Tail(s)
  OBVIOUS
<1>3. \A x : Member(<<Head(s)>> \o Tail(s), x) <=> Member(Tail(s), x) \/ x = Head(s)
  <2> DEFINE rest == Tail(s)
             first == Head(s)
  <2>1. rest \in Seq(ServerTasks) /\ first \in ServerTasks
    BY <1>1
  <2> HIDE DEF rest, first
  <2>2. \A x : Member(<<first>> \o rest, x) <=> Member(rest, x) \/ x = first
    BY <2>1, TaskOn
  <2> QED BY <2>2 DEF rest, first
<1> QED BY <1>1, <1>2, <1>3

(* A shutdown is for good, and who serves does so until then.              *)
GoesOn ==
  /\ gameState = "shutdown" => gameState' = "shutdown"
  /\ mainThread = "serving" => mainThread' = "serving" \/ gameState' = "shutdown"
  /\ Over => Over'
LEMMA TasksFitOn ==
  ASSUME TasksFit, GoesOn, serverTasks' \in Seq(ServerTasks), NEW new, TaskFits(new)',
         \A x \in ServerTasks : Member(serverTasks', x) => Member(serverTasks, x) \/ x = new
  PROVE  TasksFit'
  BY DEF TasksFit, TaskFits, GoesOn

(* main() does nothing to the tasks, but to end the dispatcher.            *)
LEMMA MainKeeps ==
  ASSUME ServerInv,
         Se!MainWaits \/ Se!MainWakes \/ Se!MainChecks \/ Se!MainRuns \/ Se!MainJoins \/ Se!Die
  PROVE  ServerInv'
<1>1. CASE Se!MainWaits
  BY <1>1 DEF Se!MainWaits, Se!gameVars, Se!netVars, ServerInv, Se!ServerTypeOK, TasksFit,
     TaskFits, Stages, SocketsFit, ThreadsFit, Inside, PortsKept, PortKept
<1>2. CASE Se!MainWakes
  <2>1. /\ mainThread = "asleep" /\ mainThread' = "woken"
        /\ disturbed' = (disturbed \/ loader \notin {"done", "failed"})
        /\ UNCHANGED <<loader, threads, serverTasks, gameState, inService, unsaved, latecomers,
                       acceptors, running, portState, posted, deathTimer, commands, errors>>
    BY <1>2 DEF Se!MainWakes, Se!gameVars, Se!netVars
  <2>2. disturbed' \in BOOLEAN /\ (~disturbed' => loader \in {"done", "failed"})
    BY Zenon, <2>1
  <2>3. TasksFit' /\ SocketsFit' /\ ThreadsFit' /\ Inside' /\ PortsKept'
    BY <2>1 DEF ServerInv, TasksFit, TaskFits, SocketsFit, ThreadsFit, Inside, PortsKept, PortKept
  <2>4. Stages'
    BY <2>1, <2>2 DEF ServerInv, Stages
  <2>5. Se!ServerTypeOK'
    BY <2>1, <2>2 DEF ServerInv, Se!ServerTypeOK
  <2> QED BY <2>3, <2>4, <2>5 DEF ServerInv
<1>3. CASE Se!MainChecks
  <2>0. UNCHANGED <<disturbed, loader, gameState, inService, unsaved, latecomers, acceptors,
                    running, portState, posted, deathTimer, commands, errors>>
    BY <1>3 DEF Se!MainChecks, Se!gameVars, Se!netVars
  <2>1. CASE acceptors # {}
    <3>1. mainThread = "woken" /\ mainThread' = "online" /\ UNCHANGED <<threads, serverTasks>>
      BY <1>3, <2>1 DEF Se!MainChecks
    <3> QED
      BY <2>0, <2>1, <3>1 DEF ServerInv, Se!ServerTypeOK, TasksFit, TaskFits, Stages, SocketsFit,
         ThreadsFit, Inside, PortsKept, PortKept
  <2>2. CASE acceptors = {}
    <3>1. /\ mainThread = "woken" /\ mainThread' = "joinScheduler"
          /\ serverTasks' = Append(serverTasks, Se!Task("terminate", "all"))
          /\ threads' = Se!Told({"scheduler", "database"}, "terminated")
      BY <1>3, <2>2 DEF Se!MainChecks, Se!Workers
    <3>2. /\ threads' \in [{"dispatcher", "scheduler", "database"} -> ThreadStates]
          /\ threads'["dispatcher"] = threads["dispatcher"]
      BY <3>1, ToldThreads
    <3>3. Se!Task("terminate", "all") \in ServerTasks /\ GoesOn
      BY <2>0, <3>1 DEF ServerTasks, Se!Task, GoesOn
    <3>4. TaskFits(Se!Task("terminate", "all"))'
      BY <3>1 DEF TaskFits, Se!Task
    <3>5. TasksFit'
      BY <3>1, <3>3, <3>4, TaskOn, TasksFitOn DEF ServerInv, TasksFit
    <3>6. posted = {} /\ ~deathTimer /\ (~disturbed => loader \in {"done", "failed"})
      BY <3>1 DEF ServerInv, Stages
    <3> QED
      BY <2>0, <2>2, <3>1, <3>2, <3>5, <3>6 DEF ServerInv, Se!ServerTypeOK, Stages, SocketsFit,
         ThreadsFit, Inside, PortsKept, ThreadStates
  <2> QED BY <2>1, <2>2
<1>4. CASE Se!MainRuns
  BY <1>4 DEF Se!MainRuns, Se!gameVars, Se!netVars, ServerInv, Se!ServerTypeOK, TasksFit,
     TaskFits, Stages, SocketsFit, ThreadsFit, Inside, PortsKept, PortKept
<1>5. CASE Se!MainJoins
  <2>1. /\ \/ /\ mainThread = "joinScheduler" /\ mainThread' = "joinDatabase"
              /\ "scheduler" \notin Se!Alive({"scheduler"})
           \/ /\ mainThread = "joinDatabase" /\ mainThread' = "joinDispatcher"
              /\ "database" \notin Se!Alive({"database"})
           \/ /\ mainThread = "joinDispatcher" /\ mainThread' = "exited"
              /\ "dispatcher" \notin Se!Alive({"dispatcher"})
        /\ UNCHANGED <<disturbed, loader, threads, serverTasks, gameState, inService, unsaved,
                       latecomers, acceptors, running, portState, posted, deathTimer, commands,
                       errors>>
    BY <1>5 DEF Se!MainJoins, Se!Joins, Se!gameVars, Se!netVars
  <2>2. /\ Over /\ Over'
        /\ mainThread' = "joinDatabase" => threads["scheduler"] \in {"none", "ended"}
        /\ mainThread' = "joinDispatcher" => threads["database"] \in {"none", "ended"}
        /\ mainThread' = "exited" => threads["dispatcher"] \in {"none", "ended"}
    BY <2>1 DEF Se!Alive
  <2>3. ThreadsFit'
    BY <2>1, <2>2 DEF ServerInv, ThreadsFit
  <2>4. TasksFit' /\ Stages' /\ SocketsFit' /\ Inside' /\ PortsKept'
    BY <2>1, <2>2 DEF ServerInv, TasksFit, TaskFits, Stages, SocketsFit, Inside, PortsKept
  <2> QED BY <2>1, <2>3, <2>4 DEF ServerInv, Se!ServerTypeOK
<1>6. CASE Se!Die
  BY <1>6 DEF Se!Die, Se!gameVars, Se!netVars, ServerInv, Se!ServerTypeOK, TasksFit,
     TaskFits, Stages, SocketsFit, ThreadsFit, Inside, PortsKept, PortKept
<1> QED BY <1>1, <1>2, <1>3, <1>4, <1>5, <1>6

(* A thread ends.                                                          *)
LEMMA ThreadEndsKeeps ==
  ASSUME ServerInv, NEW t \in DOMAIN threads, Se!ThreadEnds(t)
  PROVE  ServerInv'
<1>1. /\ threads[t] = "terminated" /\ threads' = [threads EXCEPT ![t] = "ended"]
      /\ UNCHANGED <<mainThread, disturbed, loader, serverTasks, gameState, inService, unsaved,
                     latecomers, acceptors, running, portState, posted, deathTimer, commands,
                     errors>>
  BY DEF Se!ThreadEnds, Se!gameVars, Se!netVars
<1>2. /\ threads' \in [{"dispatcher", "scheduler", "database"} -> ThreadStates]
      /\ threads'[t] = "ended" /\ \A u \in DOMAIN threads : u # t => threads'[u] = threads[u]
      /\ t \in {"dispatcher", "scheduler", "database"}
      /\ DOMAIN threads = {"dispatcher", "scheduler", "database"}
  BY <1>1 DEF ServerInv, Se!ServerTypeOK, ThreadStates
<1>3. ThreadsFit'
  BY <1>1, <1>2 DEF ServerInv, ThreadsFit
<1>4. TasksFit' /\ Stages' /\ SocketsFit' /\ Inside' /\ PortsKept'
  BY <1>1 DEF ServerInv, TasksFit, TaskFits, Stages, SocketsFit, Inside, PortsKept, PortKept
<1> QED BY <1>1, <1>2, <1>3, <1>4 DEF ServerInv, Se!ServerTypeOK, ThreadStates

(* The loader has no tasks before it but those that a script asks for.     *)
LEMMA LoaderKeeps ==
  ASSUME ServerInv, NEW works \in BOOLEAN,
         \/ Se!LoadConfig(works) \/ Se!LoadDatabase(works) \/ Se!LoadData(works)
         \/ Se!LoadDone
  PROVE  ServerInv'
<1>1. CASE Se!LoadConfig(works)
  <2>1. \/ mainThread' = mainThread
        \/ mainThread = "asleep" /\ mainThread' = "woken" /\ loader' = "failed"
    BY <1>1 DEF Se!LoadConfig, Se!Notify
  <2> QED
    BY <1>1, <2>1 DEF Se!LoadConfig, Se!gameVars, Se!netVars, ServerInv, Se!ServerTypeOK, TasksFit,
     TaskFits, Stages, SocketsFit, ThreadsFit, Inside, PortsKept, PortKept
<1>2. CASE Se!LoadDatabase(works)
  <2>1. /\ \/ mainThread' = mainThread
           \/ mainThread = "asleep" /\ mainThread' = "woken" /\ loader' = "failed"
        /\ loader = "database" /\ loader' = IF works THEN "data" ELSE "failed"
        /\ UNCHANGED <<disturbed, serverTasks, gameState, inService, unsaved, latecomers,
                       acceptors, running, portState, posted, deathTimer, commands, errors>>
    BY <1>2 DEF Se!LoadDatabase, Se!Notify, Se!gameVars, Se!netVars
  <2>2. /\ threads' \in [{"dispatcher", "scheduler", "database"} -> ThreadStates]
        /\ \A t \in {"dispatcher", "scheduler"} : threads'[t] = threads[t]
    BY <1>2 DEF Se!LoadDatabase, ServerInv, Se!ServerTypeOK, ThreadStates
  <2>3. ThreadsFit'
    BY <2>1, <2>2 DEF ServerInv, Stages, ThreadsFit
  <2>4. TasksFit' /\ Stages' /\ SocketsFit' /\ Inside' /\ PortsKept'
    BY <2>1 DEF ServerInv, TasksFit, TaskFits, Stages, SocketsFit, Inside, PortsKept, PortKept
  <2> QED BY <2>1, <2>2, <2>3, <2>4 DEF ServerInv, Se!ServerTypeOK, ThreadStates
<1>3. CASE Se!LoadData(works)
  <2>1. \/ mainThread' = mainThread
        \/ mainThread = "asleep" /\ mainThread' = "woken" /\ loader' = "failed"
    BY <1>3 DEF Se!LoadData, Se!Notify
  <2> QED
    BY <1>3, <2>1 DEF Se!LoadData, Se!gameVars, Se!netVars, ServerInv, Se!ServerTypeOK, TasksFit,
     TaskFits, Stages, SocketsFit, ThreadsFit, Inside, PortsKept, PortKept
<1>4. CASE Se!LoadDone
  <2>1. /\ mainThread' = mainThread \/ (mainThread = "asleep" /\ mainThread' = "woken")
        /\ loader = "services" /\ loader' = "done"
        /\ gameState' = (IF gameState = "shutdown" THEN gameState ELSE "normal")
        /\ UNCHANGED <<disturbed, threads, serverTasks, inService, unsaved, latecomers,
                       acceptors, running, portState, posted, deathTimer, commands, errors>>
    BY <1>4 DEF Se!LoadDone, Se!Notify, Se!netVars
  <2> QED
    BY <2>1 DEF ServerInv, Se!ServerTypeOK, TasksFit,
     TaskFits, Stages, SocketsFit, ThreadsFit, Inside, PortsKept, PortKept
<1> QED BY <1>1, <1>2, <1>3, <1>4

LEMMA LoadInitKeeps ==
  ASSUME ServerInv, NEW shuts \in BOOLEAN, Se!LoadInit(shuts)
  PROVE  ServerInv'
<1> USE ServerNumbers
<1>1. CASE ~shuts
  BY <1>1 DEF Se!LoadInit, Se!gameVars, Se!netVars, ServerInv, Se!ServerTypeOK, TasksFit,
     TaskFits, Stages, SocketsFit, ThreadsFit, Inside, PortsKept, PortKept
<1>2. CASE shuts
  <2>1. /\ loader = "init" /\ loader' = "services" /\ gameState' = "shutdown"
        /\ serverTasks' = Append(serverTasks, Se!Task("shutdown", "all"))
        /\ threads' = Se!Told(DOMAIN threads, "closing")
        /\ commands < MaxCommands /\ commands' = commands + 1
        /\ UNCHANGED <<mainThread, disturbed, inService, unsaved, latecomers, acceptors, running, portState,
                       posted, deathTimer, errors>>
    BY <1>2 DEF Se!LoadInit, Se!Stopped, Se!netVars
  <2>2. Se!Task("shutdown", "all") \in ServerTasks /\ GoesOn
    BY <2>1 DEF ServerTasks, Se!Task, GoesOn
  <2>3. TaskFits(Se!Task("shutdown", "all"))'
    BY <2>1 DEF TaskFits, Se!Task
  <2>4. TasksFit'
    BY <2>1, <2>2, <2>3, TaskOn, TasksFitOn DEF ServerInv, TasksFit
  <2>5. inService = {} /\ mainThread \notin {"online", "serving"} /\ ~deathTimer
    BY <2>1 DEF ServerInv, Stages, Inside
  <2>6. /\ threads' \in [{"dispatcher", "scheduler", "database"} -> ThreadStates]
        /\ \A t \in {"dispatcher", "scheduler", "database"} :
             /\ threads[t] \in {"none", "ended"} => threads'[t] = threads[t]
             /\ threads'[t] \in {threads[t], "closing"}
    BY <2>1, ToldThreads DEF ServerInv, Se!ServerTypeOK
  <2>7. ThreadsFit'
    BY <2>1, <2>5, <2>6 DEF ServerInv, Stages, ThreadsFit
  <2> QED
    BY <2>1, <2>4, <2>5, <2>6, <2>7 DEF ServerInv, Se!ServerTypeOK, Stages, SocketsFit,
         Inside, PortsKept, ThreadStates
<1> QED BY <1>1, <1>2
(* Who opens a port holds it, or has an event for it while the game runs.  *)
LEMMA Opened ==
  ASSUME ServerInv, NEW p \in Ports, NEW works \in BOOLEAN
  PROVE  /\ Se!Open(p, works) \in [socket : {"none", "open", "closed"},
                                   pendingStart : BOOLEAN, event : BOOLEAN]
         /\ works => Se!Open(p, works).socket = "open" /\ ~Se!Open(p, works).pendingStart
         /\ ~works => /\ Se!Open(p, works).pendingStart
                      /\ Se!Open(p, works).socket # "open"
                      /\ gameState # "shutdown" /\ ~Over =>
                           Se!Open(p, works).event
<1>1. /\ portState[p] \in [socket : {"none", "open", "closed"},
                           pendingStart : BOOLEAN, event : BOOLEAN]
      /\ threads["scheduler"] \in {"none", "running", "closing", "terminated", "ended"}
  BY DEF ServerInv, Se!ServerTypeOK
<1>2. CASE works
  BY <1>1, <1>2 DEF Se!Open
<1>3. CASE ~works
  <2>1. Se!Later \in BOOLEAN
    BY Zenon DEF Se!Later
  <2>2. gameState # "shutdown" /\ ~Over => Se!Later
    BY DEF Se!Later, ServerInv, ThreadsFit
  <2> QED BY <1>1, <1>3, <2>1, <2>2 DEF Se!Open
<1> QED BY <1>2, <1>3

LEMMA LoadServicesKeeps ==
  ASSUME ServerInv, NEW p \in Ports, NEW works \in BOOLEAN, Se!LoadServices(p, works)
  PROVE  ServerInv'
<1> USE ServerNumbers
<1>1. /\ loader = "services" /\ (works \/ errors < MaxErrors)
      /\ portState' = [portState EXCEPT ![p] = Se!Open(p, works)]
      /\ acceptors' = acceptors \union {p} /\ errors' = IF works THEN errors ELSE errors + 1
      /\ UNCHANGED <<mainThread, disturbed, loader, threads, serverTasks, gameState, inService, unsaved,
                     latecomers, running, posted, deathTimer, commands>>
  BY DEF Se!LoadServices, Se!gameVars, Se!Fail
<1>2. ~deathTimer /\ posted = {} /\ (Over => disturbed)
  BY <1>1 DEF ServerInv, Stages
<1>3. /\ portState' \in [Ports -> [socket : {"none", "open", "closed"},
                                   pendingStart : BOOLEAN, event : BOOLEAN]]
      /\ portState'[p] = Se!Open(p, works)
      /\ \A q \in Ports : q # p => portState'[q] = portState[q]
  BY <1>1, Opened DEF ServerInv, Se!ServerTypeOK
<1>4. Se!ServerTypeOK'
  BY <1>1, <1>3 DEF ServerInv, Se!ServerTypeOK
<1>5. TasksFit' /\ Stages' /\ ThreadsFit' /\ Inside'
  BY <1>1, <1>2 DEF ServerInv, TasksFit, TaskFits, Stages, ThreadsFit, Inside
<1>6. SocketsFit'
  BY <1>1, <1>3 DEF ServerInv, SocketsFit
<1>7. PortsKept'
  <2>1. ASSUME gameState # "shutdown", ~Over, NEW q \in acceptors \union {p} PROVE PortKept(q)'
    BY <1>1, <1>3, <2>1, Opened DEF ServerInv, Se!ServerTypeOK, PortsKept, PortKept
  <2> QED BY <1>1, <2>1 DEF PortsKept
<1> QED BY <1>4, <1>5, <1>6, <1>7 DEF ServerInv

(* The dispatcher takes a task; one that opens a port stays until it is    *)
(* its turn.                                                               *)
LEMMA ServerTaskTaken ==
  ASSUME ServerInv, NEW op, Se!Next1(op)
  PROVE  /\ Head(serverTasks) \in ServerTasks /\ Head(serverTasks).op = op
         /\ TaskFits(Head(serverTasks)) /\ Tail(serverTasks) \in Seq(ServerTasks)
         /\ loader \in {"done", "failed"} /\ serverTasks # <<>>
         /\ \A x : Member(serverTasks, x) <=> Member(Tail(serverTasks), x) \/ x = Head(serverTasks)
         /\ \A p : /\ Member(serverTasks, Se!Task("open", p))
                   /\ Se!Task("open", p) # Head(serverTasks)
                   => Member(Tail(serverTasks), Se!Task("open", p))
         /\ op # "open" => \A p : Se!Task("open", p) # Head(serverTasks)
<1>1. /\ Head(serverTasks).op = op /\ serverTasks # <<>> /\ loader \in {"done", "failed"}
      /\ serverTasks \in Seq(ServerTasks)
  BY DEF Se!Next1, ServerInv, TasksFit
<1>2. /\ Head(serverTasks) \in ServerTasks /\ Tail(serverTasks) \in Seq(ServerTasks)
      /\ \A x : Member(serverTasks, x) <=> Member(Tail(serverTasks), x) \/ x = Head(serverTasks)
  BY <1>1, TaskOff
<1>3. TaskFits(Head(serverTasks))
  BY <1>2 DEF ServerInv, TasksFit
<1>4. op # "open" => \A p : Se!Task("open", p) # Head(serverTasks)
  BY <1>1 DEF Se!Task
<1> QED BY <1>1, <1>2, <1>3, <1>4

LEMMA TaskGone ==
  ASSUME ServerInv, GoesOn, serverTasks # <<>>, serverTasks' = Tail(serverTasks)
  PROVE  TasksFit'
<1>1. TasksFit /\ serverTasks \in Seq(ServerTasks)
  BY DEF ServerInv, TasksFit
<1>2. /\ Head(serverTasks) \in ServerTasks /\ Tail(serverTasks) \in Seq(ServerTasks)
      /\ \A x : Member(serverTasks, x) <=> Member(Tail(serverTasks), x) \/ x = Head(serverTasks)
  BY <1>1, TaskOff
<1>3. \A x \in ServerTasks : TaskFits(x) => TaskFits(x)'
  BY DEF TaskFits, GoesOn
<1> QED BY <1>1, <1>2, <1>3 DEF TasksFit

LEMMA TaskSwapped ==
  ASSUME ServerInv, GoesOn, serverTasks # <<>>, NEW t \in ServerTasks, TaskFits(t)',
         serverTasks' = Append(Tail(serverTasks), t)
  PROVE  /\ TasksFit'
         /\ \A x : Member(Tail(serverTasks), x) => Member(serverTasks', x)
<1>1. TasksFit /\ serverTasks \in Seq(ServerTasks)
  BY DEF ServerInv, TasksFit
<1>2. /\ Tail(serverTasks) \in Seq(ServerTasks)
      /\ \A x : Member(serverTasks, x) <=> Member(Tail(serverTasks), x) \/ x = Head(serverTasks)
  BY <1>1, TaskOff
<1>3. /\ serverTasks' \in Seq(ServerTasks)
      /\ \A x : Member(serverTasks', x) <=> Member(Tail(serverTasks), x) \/ x = t
  <2> DEFINE rest == Tail(serverTasks)
  <2>1. rest \in Seq(ServerTasks) /\ serverTasks' = Append(rest, t)
    BY <1>2
  <2> HIDE DEF rest
  <2>2. /\ Append(rest, t) \in Seq(ServerTasks)
        /\ \A x : Member(Append(rest, t), x) <=> Member(rest, x) \/ x = t
    BY <2>1, TaskOn
  <2> QED BY <2>1, <2>2 DEF rest
<1>4. \A x \in ServerTasks : TaskFits(x) => TaskFits(x)'
  BY DEF TaskFits, GoesOn
<1> QED BY <1>1, <1>2, <1>3, <1>4 DEF TasksFit

(* The game changes its state, and players with it.                        *)
LEMMA ChangeStateKeeps ==
  ASSUME ServerInv, Se!ChangeState
  PROVE  ServerInv'
<1> DEFINE state == Head(serverTasks).of
<1>0. /\ Se!Next1("state") /\ Se!SetGameState(state)
      /\ UNCHANGED <<mainThread, disturbed, loader, acceptors, running, portState, posted, deathTimer,
                     commands, errors>>
  BY DEF Se!ChangeState, Se!netVars
<1>1. /\ state \in Se!States /\ loader \in {"done", "failed"} /\ serverTasks # <<>>
      /\ \A p : Member(serverTasks, Se!Task("open", p)) =>
                  Member(Tail(serverTasks), Se!Task("open", p))
  <2>1. TaskFits(Head(serverTasks)) /\ Head(serverTasks).op = "state"
    BY <1>0, ServerTaskTaken
  <2>2. /\ loader \in {"done", "failed"} /\ serverTasks # <<>>
        /\ \A p : Se!Task("open", p) # Head(serverTasks)
        /\ \A p : /\ Member(serverTasks, Se!Task("open", p))
                   /\ Se!Task("open", p) # Head(serverTasks)
                   => Member(Tail(serverTasks), Se!Task("open", p))
    BY <1>0, ServerTaskTaken
  <2> QED BY <2>1, <2>2 DEF TaskFits
<1> HIDE DEF state
<1>2. CASE gameState = "shutdown" \/ gameState = state
  <2>1. /\ UNCHANGED <<gameState, inService, unsaved, threads, latecomers>>
        /\ serverTasks' = Tail(serverTasks)
    BY <1>0, <1>2 DEF Se!SetGameState
  <2>2. TasksFit'
    BY <1>0, <1>1, <2>1, TaskGone DEF GoesOn
  <2> QED BY <1>0, <1>1, <2>1, <2>2 DEF ServerInv, Se!ServerTypeOK, Stages, SocketsFit,
         ThreadsFit, Inside, PortsKept, PortKept
<1>3. CASE ~(gameState = "shutdown" \/ gameState = state) /\ state = "shutdown"
  <2>1. /\ gameState' = "shutdown" /\ inService' = {} /\ unsaved' = {} /\ latecomers' = latecomers
        /\ serverTasks' = Append(Tail(serverTasks), Se!Task("shutdown", "all"))
        /\ threads' = Se!Told(DOMAIN threads, "closing")
    BY <1>0, <1>3 DEF Se!SetGameState, Se!Kicked, Se!Stopped
  <2>2. /\ Se!Task("shutdown", "all") \in ServerTasks /\ GoesOn
        /\ TaskFits(Se!Task("shutdown", "all"))'
    BY <1>0, <2>1 DEF ServerTasks, Se!Task, GoesOn, TaskFits
  <2>3. TasksFit'
    BY <1>1, <2>1, <2>2, TaskSwapped
  <2>4. /\ threads' \in [{"dispatcher", "scheduler", "database"} -> ThreadStates]
        /\ \A t \in {"dispatcher", "scheduler", "database"} :
             /\ threads[t] \in {"none", "ended"} => threads'[t] = threads[t]
             /\ threads'[t] \in {threads[t], "closing"}
    BY <2>1, ToldThreads DEF ServerInv, Se!ServerTypeOK
  <2>5. ThreadsFit'
    BY <1>0, <1>1, <2>1, <2>4 DEF ServerInv, Stages, ThreadsFit
  <2>6. Se!ServerTypeOK'
    BY <1>0, <2>1, <2>4 DEF ServerInv, Se!ServerTypeOK, ThreadStates
  <2>7. Stages' /\ SocketsFit' /\ Inside' /\ PortsKept'
    BY <1>0, <1>1, <2>1 DEF ServerInv, Stages, SocketsFit, Inside, PortsKept
  <2> QED BY <2>3, <2>5, <2>6, <2>7 DEF ServerInv
<1>4. CASE ~(gameState = "shutdown" \/ gameState = state) /\ state # "shutdown"
  <2>1. /\ gameState' = state /\ latecomers' = latecomers
        /\ inService' = inService \ Se!Kicked(state)
        /\ unsaved' = IF state \in {"shutdown", "closed"} THEN {} ELSE unsaved
        /\ serverTasks' = Tail(serverTasks) /\ UNCHANGED threads
    BY <1>0, <1>4 DEF Se!SetGameState
  <2>2. inService' = IF state = "closed" THEN inService \ (inService \ Privileged) ELSE inService
    BY <1>4, <2>1 DEF Se!Kicked
  <2>3. TasksFit'
    BY <1>0, <1>1, <1>4, <2>1, TaskGone DEF GoesOn
  <2>4. state \in {"normal", "closed", "closing", "maintain"}
    BY <1>1, <1>4 DEF Se!States
  <2>5. Se!ServerTypeOK'
    BY <1>0, <2>1, <2>2, <2>4 DEF ServerInv, Se!ServerTypeOK
  <2>6. Stages' /\ SocketsFit' /\ ThreadsFit' /\ Inside'
    BY <1>0, <1>1, <1>4, <2>1, <2>2, <2>4 DEF ServerInv, Stages, SocketsFit, ThreadsFit, Inside
  <2>7. PortsKept'
    BY <1>0, <1>1, <1>4, <2>1 DEF ServerInv, PortsKept, PortKept
  <2> QED BY <2>3, <2>5, <2>6, <2>7 DEF ServerInv
<1> QED BY <1>2, <1>3, <1>4

(* A save ends the maintenance, ...                                        *)
LEMMA SaveKeeps ==
  ASSUME ServerInv, Se!SaveGameState
  PROVE  ServerInv'
<1>0. /\ Se!Next1("save") /\ serverTasks' = Tail(serverTasks) /\ unsaved' = {}
      /\ gameState' = IF gameState = "maintain" THEN "normal" ELSE gameState
      /\ UNCHANGED <<mainThread, disturbed, loader, threads, inService, latecomers, acceptors, running,
                     portState, posted, deathTimer, commands, errors>>
  BY DEF Se!SaveGameState, Se!Executed, Se!netVars
<1>1. /\ loader \in {"done", "failed"} /\ serverTasks # <<>>
      /\ \A p : Se!Task("open", p) # Head(serverTasks)
      /\ \A p : Member(serverTasks, Se!Task("open", p)) /\ Se!Task("open", p) # Head(serverTasks) =>
                  Member(Tail(serverTasks), Se!Task("open", p))
  BY <1>0, ServerTaskTaken
<1>2. TasksFit'
  BY <1>0, <1>1, TaskGone DEF GoesOn
<1> QED BY <1>0, <1>1, <1>2 DEF ServerInv, Se!ServerTypeOK, Stages, SocketsFit, ThreadsFit, Inside,
       PortsKept, PortKept

(* ... and who logs in comes too late once the game is shut down.          *)
LEMMA ServerLoginKeeps ==
  ASSUME ServerInv, Se!Login
  PROVE  ServerInv'
<1> DEFINE p == Head(serverTasks).of
           comes == p \in Privileged \/ gameState \notin {"closing", "closed"}
<1>0. /\ Se!Next1("login") /\ serverTasks' = Tail(serverTasks)
      /\ inService' = (IF comes THEN inService \union {p} ELSE inService)
      /\ unsaved' = (IF comes THEN unsaved \union {p} ELSE unsaved)
      /\ latecomers' = (IF comes /\ gameState = "shutdown" THEN latecomers \union {p}
                         ELSE latecomers)
      /\ UNCHANGED <<mainThread, disturbed, loader, threads, gameState, acceptors, running, portState, posted,
                     deathTimer, commands, errors>>
  BY DEF Se!Login, Se!Executed, Se!netVars
<1>1. /\ loader \in {"done", "failed"} /\ serverTasks # <<>> /\ Head(serverTasks).op = "login"
      /\ TaskFits(Head(serverTasks))
      /\ \A q : Se!Task("open", q) # Head(serverTasks)
      /\ \A q : Member(serverTasks, Se!Task("open", q)) /\ Se!Task("open", q) # Head(serverTasks) =>
                  Member(Tail(serverTasks), Se!Task("open", q))
  BY <1>0, ServerTaskTaken
<1>2. p \in Players /\ (mainThread = "serving" \/ gameState = "shutdown")
  BY <1>1 DEF TaskFits
<1>3. TasksFit'
  BY <1>0, <1>1, TaskGone DEF GoesOn
<1> HIDE DEF p
<1> QED BY <1>0, <1>1, <1>2, <1>3 DEF ServerInv, Se!ServerTypeOK, Stages, SocketsFit, ThreadsFit,
       Inside, PortsKept, PortKept

(* A port is opened again, if it is still there.                           *)
LEMMA OpenAcceptorKeeps ==
  ASSUME ServerInv, NEW works \in BOOLEAN, Se!OpenAcceptor(works)
  PROVE  ServerInv'
<1> USE ServerNumbers
<1> DEFINE p == Head(serverTasks).of
<1>0. /\ Se!Next1("open") /\ serverTasks' = Tail(serverTasks) /\ (works \/ errors < MaxErrors)
      /\ IF p \in acceptors \union posted
         THEN /\ portState' = [portState EXCEPT ![p] = Se!Open(p, works)]
              /\ errors' = IF works THEN errors ELSE errors + 1
         ELSE UNCHANGED <<portState, errors>>
      /\ UNCHANGED <<mainThread, disturbed, loader, threads, gameState, inService, unsaved, latecomers,
                     acceptors, running, posted, deathTimer, commands>>
  BY DEF Se!OpenAcceptor, Se!Executed, Se!gameVars, Se!Fail
<1>1. /\ loader \in {"done", "failed"} /\ serverTasks # <<>> /\ Head(serverTasks).op = "open"
      /\ TaskFits(Head(serverTasks)) /\ Head(serverTasks) \in ServerTasks
      /\ \A q : Member(serverTasks, Se!Task("open", q)) /\ Se!Task("open", q) # Head(serverTasks) =>
                  Member(Tail(serverTasks), Se!Task("open", q))
  BY <1>0, ServerTaskTaken
<1>2. p \in Ports /\ \A q : q # p => Se!Task("open", q) # Head(serverTasks)
  BY <1>1 DEF TaskFits, Se!Task
<1>3. TasksFit'
  BY <1>0, <1>1, TaskGone DEF GoesOn
<1> HIDE DEF p
<1>4. Stages' /\ ThreadsFit' /\ Inside'
  BY <1>0, <1>1 DEF ServerInv, Stages, ThreadsFit, Inside
<1>5. CASE p \notin acceptors \union posted
  <2>1. UNCHANGED <<portState, errors>>
    BY <1>0, <1>5
  <2> QED BY <1>0, <1>1, <1>2, <1>3, <1>4, <1>5, <2>1 DEF ServerInv, Se!ServerTypeOK, SocketsFit,
         PortsKept, PortKept
<1>6. CASE p \in acceptors \union posted
  <2>1. /\ portState' \in [Ports -> [socket : {"none", "open", "closed"},
                                     pendingStart : BOOLEAN, event : BOOLEAN]]
        /\ portState'[p] = Se!Open(p, works)
        /\ \A q \in Ports : q # p => portState'[q] = portState[q]
    BY <1>0, <1>2, <1>6, Opened DEF ServerInv, Se!ServerTypeOK
  <2>2. Se!ServerTypeOK'
    BY <1>0, <1>6, <2>1 DEF ServerInv, Se!ServerTypeOK
  <2>3. SocketsFit'
    BY <1>0, <1>1, <1>6, <2>1 DEF ServerInv, SocketsFit
  <2>4. ASSUME gameState # "shutdown", ~Over, NEW q \in acceptors PROVE PortKept(q)'
    <3>1. q \in Ports /\ PortKept(q)
      BY <2>4 DEF ServerInv, Se!ServerTypeOK, Stages, PortsKept
    <3>2. CASE q = p
      BY <1>2, <2>1, <2>4, <3>1, <3>2, Opened DEF PortKept
    <3>3. CASE q # p
      BY <1>0, <1>1, <1>2, <2>1, <3>1, <3>3 DEF PortKept
    <3> QED BY <3>2, <3>3
  <2>5. PortsKept'
    BY <1>0, <2>4 DEF PortsKept
  <2> QED BY <1>3, <1>4, <2>2, <2>3, <2>5 DEF ServerInv
<1> QED BY <1>5, <1>6

(* The services end with the game, ...                                     *)
LEMMA ServerShutdownKeeps ==
  ASSUME ServerInv, Se!Shutdown
  PROVE  ServerInv'
<1>0. /\ Se!Next1("shutdown")
      /\ serverTasks' = Append(Tail(serverTasks), Se!Task("terminate", "all"))
      /\ threads' = Se!Told({"scheduler", "database"}, "terminated")
      /\ UNCHANGED <<mainThread, disturbed, loader, gameState, inService, unsaved, latecomers, portState,
                     commands, errors>>
      /\ IF running
         THEN running' = FALSE /\ posted' = acceptors /\ acceptors' = {} /\ deathTimer' = TRUE
         ELSE UNCHANGED <<running, posted, acceptors, deathTimer>>
  BY DEF Se!Shutdown, Se!Workers, Se!gameVars
<1>1. /\ loader \in {"done", "failed"} /\ serverTasks # <<>> /\ gameState = "shutdown"
  <2>1. /\ loader \in {"done", "failed"} /\ serverTasks # <<>> /\ Head(serverTasks).op = "shutdown"
        /\ TaskFits(Head(serverTasks))
    BY <1>0, ServerTaskTaken
  <2> QED BY <2>1 DEF TaskFits
<1>2. TasksFit'
  <2>1. Se!Task("terminate", "all") \in ServerTasks /\ GoesOn
    BY <1>0 DEF ServerTasks, Se!Task, GoesOn
  <2>2. TaskFits(Se!Task("terminate", "all"))'
    BY <1>0, <1>1 DEF Se!Task, TaskFits
  <2> QED BY <1>0, <1>1, <2>1, <2>2, TaskSwapped
<1>3. /\ threads' \in [{"dispatcher", "scheduler", "database"} -> ThreadStates]
      /\ \A t \in {"dispatcher", "scheduler", "database"} :
           threads[t] \in {"none", "ended"} => threads'[t] = threads[t]
      /\ threads'["dispatcher"] = threads["dispatcher"]
  BY <1>0, ToldThreads
<1>4. CASE running
  <2>1. /\ running' \in BOOLEAN /\ ~running' /\ deathTimer' \in BOOLEAN /\ deathTimer'
        /\ posted' = acceptors /\ acceptors' = {}
    BY Zenon, <1>0, <1>4
  <2>2. posted = {} /\ mainThread = "serving" /\ loader = "done"
    BY <1>1, <1>4 DEF ServerInv, Stages
  <2>3. ThreadsFit'
    BY <1>0, <1>1, <1>3, <2>2 DEF ServerInv, ThreadsFit
  <2>4. Se!ServerTypeOK'
    BY <1>0, <1>3, <2>1 DEF ServerInv, Se!ServerTypeOK, ThreadStates
  <2> QED BY <1>0, <1>1, <1>2, <2>1, <2>2, <2>3, <2>4 DEF ServerInv, Stages, SocketsFit,
         Inside, PortsKept
<1>5. CASE ~running
  <2>1. UNCHANGED <<running, posted, acceptors, deathTimer>>
    BY <1>0, <1>5
  <2>2. ThreadsFit'
    BY <1>0, <1>1, <1>3, <2>1 DEF ServerInv, ThreadsFit
  <2> QED BY <1>0, <1>1, <1>2, <1>3, <2>1, <2>2 DEF ServerInv, Se!ServerTypeOK, Stages, SocketsFit,
         Inside, PortsKept, ThreadStates
<1> QED BY <1>4, <1>5

(* ... and the dispatcher after them.                                      *)
LEMMA TerminateKeeps ==
  ASSUME ServerInv, Se!Terminate
  PROVE  ServerInv'
<1>0. /\ Se!Next1("terminate") /\ serverTasks' = Tail(serverTasks)
      /\ threads' = [threads EXCEPT !["dispatcher"] = "terminated"]
      /\ UNCHANGED <<mainThread, disturbed, loader, gameState, inService, unsaved, latecomers, acceptors,
                     running, portState, posted, deathTimer, commands, errors>>
  BY DEF Se!Terminate, Se!Executed, Se!gameVars, Se!netVars
<1>1. /\ loader \in {"done", "failed"} /\ serverTasks # <<>>
      /\ gameState = "shutdown" \/ Over
  <2>1. /\ loader \in {"done", "failed"} /\ serverTasks # <<>> /\ Head(serverTasks).op = "terminate"
        /\ TaskFits(Head(serverTasks))
    BY <1>0, ServerTaskTaken
  <2> QED BY <2>1 DEF TaskFits
<1>2. TasksFit'
  BY <1>0, <1>1, TaskGone DEF GoesOn
<1>3. threads["dispatcher"] \notin {"terminated", "ended"} /\ mainThread # "exited"
  BY <1>0 DEF Se!Next1, ServerInv, ThreadsFit
<1> QED BY <1>0, <1>1, <1>2, <1>3 DEF ServerInv, Se!ServerTypeOK, Stages, SocketsFit, ThreadsFit,
       Inside, PortsKept

(* A task is put before the others or after them.                          *)
LEMMA ServerTaskAdded ==
  ASSUME ServerInv, GoesOn, NEW t \in ServerTasks, TaskFits(t)',
         serverTasks' \in {Append(serverTasks, t), <<t>> \o serverTasks}
  PROVE  /\ TasksFit'
         /\ \A x : Member(serverTasks', x) <=> Member(serverTasks, x) \/ x = t
<1>1. TasksFit /\ serverTasks \in Seq(ServerTasks)
  BY DEF ServerInv, TasksFit
<1>2. /\ serverTasks' \in Seq(ServerTasks)
      /\ \A x : Member(serverTasks', x) <=> Member(serverTasks, x) \/ x = t
  <2>1. /\ Append(serverTasks, t) \in Seq(ServerTasks) /\ <<t>> \o serverTasks \in Seq(ServerTasks)
        /\ \A x : Member(Append(serverTasks, t), x) <=> Member(serverTasks, x) \/ x = t
        /\ \A x : Member(<<t>> \o serverTasks, x) <=> Member(serverTasks, x) \/ x = t
    BY <1>1, TaskOn
  <2>2. CASE serverTasks' = Append(serverTasks, t)
    BY <2>1, <2>2
  <2>3. CASE serverTasks' = <<t>> \o serverTasks
    BY <2>1, <2>3
  <2> QED BY <2>2, <2>3
<1>3. \A x \in ServerTasks : TaskFits(x) => TaskFits(x)'
  BY DEF TaskFits, GoesOn
<1> QED BY <1>1, <1>2, <1>3 DEF TasksFit

(* An event becomes a task.                                                *)
LEMMA FireKeeps ==
  ASSUME ServerInv, NEW p \in Ports, Se!Fire(p)
  PROVE  ServerInv'
<1>0. /\ portState[p].event /\ threads["scheduler"] \in {"running", "closing"}
      /\ portState' = [portState EXCEPT ![p].event = FALSE]
      /\ serverTasks' = IF threads["dispatcher"] = "running"
                        THEN <<Se!Task("open", p)>> \o serverTasks ELSE serverTasks
      /\ UNCHANGED <<mainThread, disturbed, loader, threads, gameState, inService, unsaved, latecomers,
                     acceptors, running, posted, deathTimer, commands, errors>>
  BY DEF Se!Fire, Se!gameVars
<1>1. /\ portState' \in [Ports -> [socket : {"none", "open", "closed"},
                                   pendingStart : BOOLEAN, event : BOOLEAN]]
      /\ \A q \in Ports : /\ portState'[q].socket = portState[q].socket
                          /\ portState'[q].pendingStart = portState[q].pendingStart
                          /\ q # p => portState'[q].event = portState[q].event
  BY <1>0 DEF ServerInv, Se!ServerTypeOK
<1>2. loader \notin {"config", "database", "data", "init"} /\ TaskFits(Se!Task("open", p))
  BY <1>0 DEF ServerInv, SocketsFit, TaskFits, Se!Task
<1>3. Se!Task("open", p) \in ServerTasks /\ GoesOn /\ TaskFits(Se!Task("open", p))'
  BY <1>0 DEF ServerTasks, Se!Task, GoesOn, TaskFits
<1>4. /\ TasksFit' /\ \A x : Member(serverTasks, x) => Member(serverTasks', x)
      /\ threads["dispatcher"] = "running" => Member(serverTasks', Se!Task("open", p))
  <2>1. CASE threads["dispatcher"] = "running"
    BY <1>0, <1>3, <2>1, ServerTaskAdded
  <2>2. CASE threads["dispatcher"] # "running"
    BY <1>0, <2>2 DEF ServerInv, TasksFit, TaskFits
  <2> QED BY <2>1, <2>2
<1>5. Se!ServerTypeOK' /\ Stages' /\ SocketsFit' /\ ThreadsFit' /\ Inside'
  BY <1>0, <1>1, <1>2 DEF ServerInv, Se!ServerTypeOK, Stages, SocketsFit, ThreadsFit, Inside
<1>6. PortsKept'
  <2>1. ASSUME gameState # "shutdown", ~Over, NEW q \in acceptors PROVE PortKept(q)'
    <3>1. q \in Ports /\ threads["dispatcher"] = "running" /\ PortKept(q)
      BY <2>1 DEF ServerInv, Se!ServerTypeOK, Stages, ThreadsFit, PortsKept
    <3> QED BY <1>1, <1>4, <3>1 DEF PortKept
  <2> QED BY <1>0, <2>1 DEF PortsKept
<1> QED BY <1>4, <1>5, <1>6 DEF ServerInv

(* A script asks for something, or a client for a player.                  *)
LEMMA AsksKeep ==
  ASSUME ServerInv, NEW t \in ServerTasks,
         \/ Se!Command(t) /\ t.op \in {"state", "save"} /\ (t.op = "state" => t.of \in Se!States)
         \/ \E p \in Players : t = Se!Task("login", p) /\ Se!RequestLogin(p)
  PROVE  ServerInv'
<1> USE ServerNumbers
<1>0. /\ commands' \in 0..MaxCommands
      /\ serverTasks' = Append(serverTasks, t) \/ serverTasks' = serverTasks
      /\ UNCHANGED <<mainThread, disturbed, loader, threads, gameState, inService, unsaved, latecomers,
                     acceptors, running, portState, posted, deathTimer, errors>>
  <2>1. CASE Se!Command(t)
    BY <2>1 DEF Se!Command, Se!gameVars, Se!netVars, ServerInv, Se!ServerTypeOK
  <2>2. CASE \E p \in Players : t = Se!Task("login", p) /\ Se!RequestLogin(p)
    BY <2>2 DEF Se!RequestLogin, Se!Added, Se!gameVars, Se!netVars, ServerInv,
       Se!ServerTypeOK
  <2> QED BY <2>1, <2>2
<1>1. TaskFits(t)' /\ GoesOn
  <2>1. TaskFits(t)
    <3>1. CASE t.op \in {"state", "save"} /\ (t.op = "state" => t.of \in Se!States)
      BY <3>1 DEF TaskFits
    <3>2. CASE \E p \in Players : t = Se!Task("login", p) /\ Se!RequestLogin(p)
      <4>1. t.op = "login" /\ t.of \in Players /\ mainThread = "serving"
        BY <3>2 DEF Se!Task, Se!RequestLogin
      <4> QED BY <4>1 DEF TaskFits
    <3> QED BY <3>1, <3>2
  <2> QED BY <1>0, <2>1 DEF TaskFits, GoesOn
<1>2. TasksFit' /\ \A x : Member(serverTasks, x) => Member(serverTasks', x)
  <2>1. CASE serverTasks' = Append(serverTasks, t)
    BY <1>0, <1>1, <2>1, ServerTaskAdded
  <2>2. CASE serverTasks' = serverTasks
    BY <1>0, <2>2 DEF ServerInv, TasksFit, TaskFits
  <2> QED BY <1>0, <2>1, <2>2
<1> QED BY <1>0, <1>2 DEF ServerInv, Se!ServerTypeOK, Stages, SocketsFit, ThreadsFit, Inside,
       PortsKept, PortKept

(* A player has something to lose, a port fails or is closed.              *)
LEMMA PlayKeeps ==
  ASSUME ServerInv, NEW p \in Players, Se!Play(p)
  PROVE  ServerInv'
<1>0. /\ p \in inService /\ unsaved' = unsaved \union {p}
      /\ UNCHANGED <<mainThread, disturbed, loader, threads, serverTasks, gameState, inService, latecomers,
                     acceptors, running, portState, posted, deathTimer, commands, errors>>
  BY DEF Se!Play, Se!netVars
<1> QED BY <1>0 DEF ServerInv, Se!ServerTypeOK, TasksFit, TaskFits, Stages, SocketsFit, ThreadsFit,
       Inside, PortsKept, PortKept

LEMMA AcceptErrorKeeps ==
  ASSUME ServerInv, NEW p \in Ports, Se!AcceptError(p)
  PROVE  ServerInv'
<1> USE ServerNumbers
<1>0. /\ mainThread = "serving" /\ errors < MaxErrors /\ errors' = errors + 1
      /\ portState' = [portState EXCEPT ![p] = [socket |-> "closed", pendingStart |-> TRUE,
                                                event |-> Se!Later]]
      /\ UNCHANGED <<mainThread, disturbed, loader, threads, serverTasks, gameState, inService, unsaved,
                     latecomers, acceptors, running, posted, deathTimer, commands>>
  BY DEF Se!AcceptError, Se!gameVars
<1>1. Se!Later \in BOOLEAN /\ (gameState # "shutdown" => Se!Later)
  <2>1. Se!Later \in BOOLEAN
    BY Zenon DEF Se!Later
  <2> QED BY <1>0, <2>1 DEF Se!Later, ServerInv, ThreadsFit
<1>2. /\ portState' \in [Ports -> [socket : {"none", "open", "closed"},
                                   pendingStart : BOOLEAN, event : BOOLEAN]]
      /\ portState'[p].socket = "closed" /\ portState'[p].pendingStart
      /\ gameState # "shutdown" => portState'[p].event
      /\ \A q \in Ports : q # p => portState'[q] = portState[q]
  BY <1>0, <1>1 DEF ServerInv, Se!ServerTypeOK
<1>3. SocketsFit'
  <2>1. loader \notin {"config", "database", "data", "init"}
    BY <1>0 DEF ServerInv, Stages
  <2> QED BY <1>0, <1>2, <2>1 DEF ServerInv, SocketsFit
<1>4. PortsKept'
  BY <1>0, <1>2 DEF ServerInv, Se!ServerTypeOK, PortsKept, PortKept
<1> QED BY <1>0, <1>2, <1>3, <1>4 DEF ServerInv, Se!ServerTypeOK, TasksFit, TaskFits, Stages,
       ThreadsFit, Inside

LEMMA OnStopServerKeeps ==
  ASSUME ServerInv, NEW p \in Ports, Se!OnStopServer(p)
  PROVE  ServerInv'
<1>0. /\ mainThread = "serving" /\ p \in posted /\ posted' = posted \ {p}
      /\ portState' = [portState EXCEPT ![p].socket =
                         IF portState[p].socket = "open" THEN "closed" ELSE portState[p].socket]
      /\ UNCHANGED <<mainThread, disturbed, loader, threads, serverTasks, gameState, inService, unsaved,
                     latecomers, acceptors, running, deathTimer, commands, errors>>
  BY DEF Se!OnStopServer, Se!gameVars
<1>1. deathTimer /\ acceptors = {} /\ loader = "done"
  BY <1>0 DEF ServerInv, Stages
<1>2. /\ portState' \in [Ports -> [socket : {"none", "open", "closed"},
                                   pendingStart : BOOLEAN, event : BOOLEAN]]
      /\ portState'[p].socket # "open"
      /\ \A q \in Ports : q # p => portState'[q] = portState[q]
  BY <1>0 DEF ServerInv, Se!ServerTypeOK
<1>3. SocketsFit' /\ PortsKept'
  BY <1>0, <1>1, <1>2 DEF ServerInv, SocketsFit, PortsKept
<1> QED BY <1>0, <1>1, <1>2, <1>3 DEF ServerInv, Se!ServerTypeOK, TasksFit, TaskFits, Stages,
       ThreadsFit, Inside

LEMMA ServerStep == ServerInv /\ [Se!ServerNext]_serverVars => ServerInv'
<1> SUFFICES ASSUME ServerInv, [Se!ServerNext]_serverVars PROVE ServerInv'
  OBVIOUS
<1>1. CASE UNCHANGED serverVars
  BY <1>1 DEF serverVars, ServerInv, Se!ServerTypeOK, TasksFit, TaskFits, Stages, SocketsFit,
     ThreadsFit, Inside, PortsKept, PortKept
<1>2. CASE Se!ServerNext
  <2>1. ASSUME NEW s \in Se!States, Se!Command(Se!Task("state", s)) PROVE ServerInv'
    <3>1. /\ Se!Task("state", s) \in ServerTasks
          /\ Se!Task("state", s).op = "state" /\ Se!Task("state", s).of \in Se!States
      BY DEF ServerTasks, Se!Task
    <3> QED BY <2>1, <3>1, AsksKeep
  <2>2. ASSUME Se!Command(Se!Task("save", "all")) PROVE ServerInv'
    <3>1. Se!Task("save", "all") \in ServerTasks /\ Se!Task("save", "all").op = "save"
      BY DEF ServerTasks, Se!Task
    <3> QED BY <2>2, <3>1, AsksKeep
  <2>3. ASSUME NEW p \in Players, Se!RequestLogin(p) PROVE ServerInv'
    <3>1. Se!Task("login", p) \in ServerTasks
      BY DEF ServerTasks, Se!Task
    <3> QED BY <2>3, <3>1, AsksKeep
  <2> QED
    BY <1>2, <2>1, <2>2, <2>3, MainKeeps, ThreadEndsKeeps, LoaderKeeps, LoadInitKeeps,
       LoadServicesKeeps, ChangeStateKeeps, SaveKeeps, ServerLoginKeeps, OpenAcceptorKeeps, ServerShutdownKeeps,
       TerminateKeeps, FireKeeps, PlayKeeps, AcceptErrorKeeps, OnStopServerKeeps
    DEF Se!ServerNext
<1> QED BY <1>1, <1>2

LEMMA ServerInvSuffices == ServerInv => Se!ServerTypeOK /\ Se!ServerIsSound
<1> SUFFICES ASSUME ServerInv PROVE Se!ServerTypeOK /\ Se!ServerIsSound
  OBVIOUS
<1>1. Se!PortsAreServed
  BY Zenon DEF ServerInv, PortsKept, PortKept, Member, Se!PortsAreServed
<1>2. Se!NobodyIsForgotten
  BY DEF ServerInv, Se!ServerTypeOK, Stages, Inside, Se!NobodyIsForgotten
<1>3. Se!EndIsClean
  <2>1. ASSUME mainThread = "exited"
        PROVE  /\ loader \in {"done", "failed"} /\ posted = {}
               /\ threads["dispatcher"] = "ended" /\ threads["scheduler"] \in {"none", "ended"}
               /\ deathTimer \/ ~disturbed =>
                    threads["database"] \in {"none", "ended"} /\ acceptors = {}
    BY <2>1 DEF ServerInv, Stages, ThreadsFit
  <2>2. DOMAIN threads = {"dispatcher", "scheduler", "database"}
    BY DEF ServerInv, Se!ServerTypeOK
  <2>3. mainThread = "exited" =>
          /\ Se!Alive(DOMAIN threads) \subseteq {"database"}
          /\ deathTimer \/ ~disturbed => Se!Alive(DOMAIN threads) = {}
    BY <2>1, <2>2 DEF Se!Alive
  <2>4. mainThread = "exited" =>
          (deathTimer \/ ~disturbed => \A p \in Ports : portState[p].socket # "open")
    BY <2>1 DEF ServerInv, SocketsFit
  <2> QED BY <2>1, <2>3, <2>4 DEF ServerInv, Stages, Se!EndIsClean
<1> QED BY <1>1, <1>2, <1>3 DEF ServerInv, Se!ServerIsSound
HIDE DEF Over

-----------------------------------------------------------------------------
(* The watchdog.                                                           *)
StopCalls == [at : {"set", "lock", "held", "look", "wait"}, saw : BOOLEAN]
WillRead(h) == h.at \in {"lock", "held"}
WillKill(h) == h.at \in {"lock", "held", "wait"} \/ (h.at = "look" /\ h.saw)
SomeReads(calls) == \E i \in 1..Len(calls) : WillRead(calls[i])
SomeKills(calls) == \E i \in 1..Len(calls) : WillKill(calls[i])

WatchdogInv ==
  /\ Se!WatchdogTypeOK
  /\ currentProcess <=> runsAt \in {"wait", "clear", "cleared"}
  /\ Se!Running => runsAt \in {"record", "recorded", "wait"}
  (* who asked for a stop is still to read what there is, ...              *)
  /\ stopEvent /\ ~blind /\ runsAt \in {"spawn", "record", "recorded"} => SomeReads(handlers)
  (* ... or to end the server that runs                                    *)
  /\ stopEvent /\ ~blind /\ runsAt = "wait" /\ Se!Running => SomeKills(handlers)
  /\ lockHeld /\ ~intruded => IF handlers = <<>> THEN runsAt \in {"recorded", "cleared"}
                              ELSE Head(handlers).at = "held"
  /\ runsAt \in {"check", "spawn", "delay"} => started = attempt
  /\ runsAt \in {"record", "recorded", "wait", "clear", "cleared", "decide"} =>
       started = attempt + 1
  /\ attempt <= started /\ started <= attempt + 1
  /\ MaxRestarts # 0 => attempt <= MaxRestarts
  /\ MaxRestarts # 0 /\ runsAt \notin {"returned", "ended"} => attempt < MaxRestarts

LEMMA WatchdogNumbers == MaxRestarts \in Nat /\ MaxSignals \in Nat /\ MaxStarts \in Nat
  BY EntriesAssumption

LEMMA WatchdogBegins == Se!WatchdogInit => WatchdogInv
<1> SUFFICES ASSUME Se!WatchdogInit PROVE WatchdogInv
  OBVIOUS
<1>1. /\ stopEvent \in BOOLEAN /\ lockHeld \in BOOLEAN /\ currentProcess \in BOOLEAN
      /\ blind \in BOOLEAN /\ intruded \in BOOLEAN
      /\ ~stopEvent /\ ~lockHeld /\ ~currentProcess
  BY Zenon DEF Se!WatchdogInit
<1>2. handlers \in Seq(StopCalls)
  BY DEF Se!WatchdogInit
<1> QED
  BY <1>1, <1>2, WatchdogNumbers
  DEF Se!WatchdogInit, WatchdogInv, Se!WatchdogTypeOK, StopCalls, Se!Running

(* A call is put on the others.                                            *)
LEMMA CallOn ==
  ASSUME NEW calls \in Seq(StopCalls), NEW h \in StopCalls
  PROVE  /\ <<h>> \o calls \in Seq(StopCalls) /\ <<h>> \o calls # <<>>
         /\ Head(<<h>> \o calls) = h
         /\ SomeReads(<<h>> \o calls) <=> WillRead(h) \/ SomeReads(calls)
         /\ SomeKills(<<h>> \o calls) <=> WillKill(h) \/ SomeKills(calls)
<1> DEFINE on == <<h>> \o calls
<1>1. /\ on \in Seq(StopCalls) /\ Len(on) = Len(calls) + 1 /\ Len(calls) \in Nat
      /\ on[1] = h /\ \A i \in 1..Len(calls) : on[i + 1] = calls[i]
  OBVIOUS
<1>2. on # <<>> /\ Head(on) = h
  BY <1>1
<1> HIDE DEF on
<1>3. \A i \in 1..Len(on) : i = 1 \/ (i - 1 \in 1..Len(calls) /\ on[i] = calls[i - 1])
  <2> SUFFICES ASSUME NEW i \in 1..Len(on), i # 1
               PROVE  i - 1 \in 1..Len(calls) /\ on[i] = calls[i - 1]
    OBVIOUS
  <2>1. i - 1 \in 1..Len(calls) /\ (i - 1) + 1 = i
    BY <1>1
  <2> QED BY <1>1, <2>1
<1>4. 1 \in 1..Len(on) /\ \A i \in 1..Len(calls) : i + 1 \in 1..Len(on)
  BY <1>1
<1>5. SomeReads(on) <=> WillRead(h) \/ SomeReads(calls)
  BY Zenon, <1>1, <1>3, <1>4 DEF SomeReads
<1>6. SomeKills(on) <=> WillKill(h) \/ SomeKills(calls)
  BY Zenon, <1>1, <1>3, <1>4 DEF SomeKills
<1> QED BY <1>1, <1>2, <1>5, <1>6 DEF on

LEMMA CallOff ==
  ASSUME NEW calls \in Seq(StopCalls), calls # <<>>
  PROVE  /\ Head(calls) \in StopCalls /\ Tail(calls) \in Seq(StopCalls)
         /\ SomeReads(calls) <=> WillRead(Head(calls)) \/ SomeReads(Tail(calls))
         /\ SomeKills(calls) <=> WillKill(Head(calls)) \/ SomeKills(Tail(calls))
<1>1. Head(calls) \in StopCalls /\ Tail(calls) \in Seq(StopCalls)
  OBVIOUS
<1>2. calls = <<Head(calls)>> \o Tail(calls)
  OBVIOUS
<1> QED BY <1>1, <1>2, CallOn

(* run() goes on, where no call of request_stop is being made.             *)
LEMMA RunKeeps ==
  ASSUME WatchdogInv,
         \/ Se!Check \/ Se!Take \/ Se!Store \/ Se!Waited \/ Se!Decide \/ Se!Delay
         \/ \E works \in BOOLEAN : Se!Spawn(works)
  PROVE  WatchdogInv'
<1> USE WatchdogNumbers
<1>1. /\ handlers = <<>> /\ UNCHANGED <<handlers, stopEvent, exitCode, signals, blind, intruded>>
      /\ handlers \in Seq(StopCalls)
  BY DEF Se!Check, Se!Take, Se!Store, Se!Waited, Se!Decide, Se!Delay, Se!Spawn, Se!InRun,
     Se!Acquire, WatchdogInv, Se!WatchdogTypeOK, StopCalls
<1>2. ~SomeReads(handlers) /\ ~SomeKills(handlers)
  BY <1>1 DEF SomeReads, SomeKills
<1>3. /\ stopEvent /\ ~blind => runsAt \notin {"spawn", "record", "recorded"}
      /\ stopEvent /\ ~blind /\ runsAt = "wait" => ~Se!Running
      /\ lockHeld /\ ~intruded => runsAt \in {"recorded", "cleared"}
      /\ stopEvent \in BOOLEAN /\ blind \in BOOLEAN /\ intruded \in BOOLEAN /\ lockHeld \in BOOLEAN
      /\ currentProcess \in BOOLEAN
  BY <1>1, <1>2 DEF WatchdogInv, Se!WatchdogTypeOK
<1>4. /\ (SomeReads(handlers)' <=> SomeReads(handlers))
      /\ (SomeKills(handlers)' <=> SomeKills(handlers))
  BY <1>1 DEF SomeReads, SomeKills
<1>5. (stopEvent' <=> stopEvent) /\ (blind' <=> blind) /\ (intruded' <=> intruded)
  BY <1>1
<1>6. CASE Se!Check
  <2>1. /\ runsAt = "check" /\ (stopEvent => runsAt' = "returned") /\ (~stopEvent => runsAt' = "spawn")
        /\ UNCHANGED <<lockHeld, currentProcess, child, attempt, started>>
    BY Zenon, <1>6 DEF Se!Check, Se!InRun
  <2> QED
    BY <1>1, <1>3, <1>5, <2>1 DEF WatchdogInv, Se!WatchdogTypeOK, Se!Running
<1>7. ASSUME NEW works \in BOOLEAN, Se!Spawn(works) PROVE WatchdogInv'
  <2>1. /\ runsAt = "spawn" /\ UNCHANGED <<lockHeld, currentProcess, attempt>>
        /\ \/ started < MaxStarts /\ runsAt' = "record" /\ child' = "alive" /\ started' = started + 1
           \/ runsAt' = "returned" /\ child' = child /\ started' = started
    BY Zenon, <1>7 DEF Se!Spawn, Se!InRun
  <2> QED
    BY <1>1, <1>3, <1>5, <2>1 DEF WatchdogInv, Se!WatchdogTypeOK, Se!Running
<1>8. CASE Se!Take
  <2>1. /\ lockHeld' \in BOOLEAN
        /\ \/ runsAt = "record" /\ runsAt' = "recorded"
           \/ runsAt = "clear" /\ runsAt' = "cleared"
        /\ UNCHANGED <<currentProcess, child, attempt, started>>
    BY Zenon, <1>8 DEF Se!Take, Se!Acquire, Se!InRun
  <2> QED
    BY <1>1, <1>3, <1>5, <2>1 DEF WatchdogInv, Se!WatchdogTypeOK, Se!Running
<1>9. CASE Se!Store
  <2>0. runsAt \in {"recorded", "cleared"} /\ UNCHANGED <<child, attempt, started>>
    BY <1>9 DEF Se!Store
  <2>1. lockHeld' \in BOOLEAN /\ ~lockHeld'
    BY Zenon, <1>9 DEF Se!Store
  <2>2. CASE runsAt = "recorded"
    <3>1. currentProcess' \in BOOLEAN /\ currentProcess' /\ runsAt' = "wait"
      <4>1. currentProcess' = (runsAt = "recorded") /\ runsAt' = "wait"
        BY <1>9, <2>2 DEF Se!Store
      <4>2. currentProcess' = TRUE
        BY Zenon, <2>2, <4>1
      <4>3. currentProcess' \in BOOLEAN
        BY Zenon, <4>2
      <4> QED BY <4>1, <4>2, <4>3
    <3> QED
      BY <1>1, <1>3, <1>5, <2>0, <2>1, <2>2, <3>1
      DEF WatchdogInv, Se!WatchdogTypeOK, Se!Running
  <2>3. CASE runsAt = "cleared"
    <3>1. currentProcess' \in BOOLEAN /\ ~currentProcess' /\ runsAt' = "decide"
      <4>1. currentProcess' = (runsAt = "recorded") /\ runsAt' = "decide"
        BY <1>9, <2>3 DEF Se!Store
      <4>2. runsAt # "recorded"
        BY <2>3
      <4>3. currentProcess' \in BOOLEAN /\ ~currentProcess'
        BY <4>1, <4>2
      <4> QED BY <4>1, <4>3
    <3> QED
      BY <1>1, <1>3, <1>5, <2>0, <2>1, <2>3, <3>1
      DEF WatchdogInv, Se!WatchdogTypeOK, Se!Running
  <2> QED BY <2>0, <2>2, <2>3
<1>10. CASE Se!Waited
  <2>1. /\ runsAt = "wait" /\ runsAt' = "clear" /\ child = "dead"
        /\ UNCHANGED <<lockHeld, currentProcess, child, attempt, started>>
    BY <1>10 DEF Se!Waited, Se!InRun
  <2> QED
    BY <1>1, <1>3, <1>5, <2>1 DEF WatchdogInv, Se!WatchdogTypeOK, Se!Running
<1>11. CASE Se!Decide
  <2>1. /\ runsAt = "decide" /\ UNCHANGED <<lockHeld, currentProcess, child, started>>
        /\ \/ attempt' = attempt /\ runsAt' = "returned"
           \/ /\ attempt' = attempt + 1
              /\ \/ runsAt' = "returned"
                 \/ runsAt' = "delay" /\ ~(MaxRestarts # 0 /\ attempt + 1 >= MaxRestarts)
    BY Zenon, <1>11 DEF Se!Decide, Se!InRun
  <2> QED
    BY <1>1, <1>3, <1>5, <2>1 DEF WatchdogInv, Se!WatchdogTypeOK, Se!Running
<1>12. CASE Se!Delay
  <2>1. /\ runsAt = "delay" /\ runsAt' = "check"
        /\ UNCHANGED <<lockHeld, currentProcess, child, attempt, started>>
    BY <1>12 DEF Se!Delay, Se!InRun
  <2> QED
    BY <1>1, <1>3, <1>5, <2>1 DEF WatchdogInv, Se!WatchdogTypeOK, Se!Running
<1> QED BY <1>6, <1>7, <1>8, <1>9, <1>10, <1>11, <1>12

(* A call begins: at the end, or with a signal.                            *)
LEMMA StopIs == /\ [at |-> "set", saw |-> FALSE] \in StopCalls
                /\ ~WillRead([at |-> "set", saw |-> FALSE])
                /\ ~WillKill([at |-> "set", saw |-> FALSE])
  BY DEF StopCalls, WillRead, WillKill

LEMMA CallBegins ==
  ASSUME WatchdogInv, Se!Return \/ Se!Signal
  PROVE  WatchdogInv'
<1> DEFINE h == [at |-> "set", saw |-> FALSE]
<1> USE WatchdogNumbers
<1>0. handlers \in Seq(StopCalls) /\ lockHeld \in BOOLEAN /\ intruded \in BOOLEAN
      /\ blind \in BOOLEAN /\ stopEvent \in BOOLEAN /\ currentProcess \in BOOLEAN
  BY DEF WatchdogInv, Se!WatchdogTypeOK, StopCalls
<1>1. handlers' = <<h>> \o handlers
  <2>1. CASE Se!Return
    <3>1. handlers = <<>> /\ handlers' = <<h>>
      BY <2>1 DEF Se!Return, Se!InRun, Se!RequestStop
    <3> QED BY <3>1
  <2>2. CASE Se!Signal
    BY <2>2 DEF Se!Signal, Se!RequestStop
  <2> QED BY <2>1, <2>2
<1>2. h \in StopCalls /\ ~WillRead(h) /\ ~WillKill(h)
  BY StopIs
<1> HIDE DEF h
<1>3. /\ handlers' \in Seq(StopCalls) /\ handlers' # <<>>
      /\ (SomeReads(handlers') <=> SomeReads(handlers))
      /\ (SomeKills(handlers') <=> SomeKills(handlers))
  BY <1>0, <1>1, <1>2, CallOn
<1>4. UNCHANGED <<currentProcess, exitCode, attempt, started, stopEvent, lockHeld, child, blind>>
  BY DEF Se!Return, Se!Signal, Se!runVars
<1>5. /\ signals' \in 0..MaxSignals
      /\ \/ runsAt' = runsAt
         \/ runsAt = "returned" /\ runsAt' = "ended" /\ handlers = <<>>
  BY DEF Se!Return, Se!Signal, Se!runVars, Se!InRun, WatchdogInv, Se!WatchdogTypeOK
<1>6. intruded' \in BOOLEAN /\ (lockHeld => intruded')
  <2>1. CASE Se!Return
    <3>1. intruded' = intruded /\ runsAt = "returned" /\ handlers = <<>>
      BY <2>1 DEF Se!Return, Se!InRun
    <3>2. lockHeld => intruded
      BY <1>0, <3>1 DEF WatchdogInv
    <3> QED BY <1>0, <3>1, <3>2
  <2>2. CASE Se!Signal
    BY Zenon, <2>2 DEF Se!Signal
  <2> QED BY <2>1, <2>2
<1>7. (stopEvent' <=> stopEvent) /\ (blind' <=> blind) /\ (lockHeld' <=> lockHeld)
      /\ (currentProcess' <=> currentProcess)
  BY <1>4
<1>8. SomeReads(handlers)' = SomeReads(handlers') /\ SomeKills(handlers)' = SomeKills(handlers')
  OBVIOUS
<1>9. Se!Running' <=> Se!Running
  BY <1>4 DEF Se!Running
<1>10. Se!WatchdogTypeOK'
  BY <1>0, <1>3, <1>4, <1>5, <1>6 DEF WatchdogInv, Se!WatchdogTypeOK, StopCalls
<1> QED
  BY <1>0, <1>3, <1>4, <1>5, <1>6, <1>7, <1>8, <1>9, <1>10 DEF WatchdogInv

(* A step of the innermost call; where run() is stays as it is.            *)
LEMMA CallGoes ==
  ASSUME WatchdogInv, handlers # <<>>,
         UNCHANGED <<runsAt, currentProcess, attempt, started, signals, intruded>>,
         exitCode' \in {"success", "crash"}, child' \in {"none", "alive", "asked", "dead"},
         Se!Running' => Se!Running,
         stopEvent' \in BOOLEAN, lockHeld' \in BOOLEAN, blind' \in BOOLEAN,
         blind => blind',
         handlers' \in Seq(StopCalls),
         stopEvent' /\ ~blind' /\ runsAt \in {"spawn", "record", "recorded"} => SomeReads(handlers'),
         stopEvent' /\ ~blind' /\ runsAt = "wait" /\ Se!Running' => SomeKills(handlers'),
         lockHeld' /\ ~intruded => handlers' # <<>> /\ Head(handlers').at = "held"
  PROVE  WatchdogInv'
<1>1. (intruded' <=> intruded) /\ (currentProcess' <=> currentProcess)
  OBVIOUS
<1>2. SomeReads(handlers)' = SomeReads(handlers') /\ SomeKills(handlers)' = SomeKills(handlers')
  OBVIOUS
<1>3. Se!WatchdogTypeOK'
  BY DEF WatchdogInv, Se!WatchdogTypeOK, StopCalls
<1>4. Se!Running' => runsAt' \in {"record", "recorded", "wait"}
  BY DEF WatchdogInv
<1>5. (currentProcess <=> runsAt \in {"wait", "clear", "cleared"})'
  BY <1>1 DEF WatchdogInv
<1> QED BY <1>1, <1>2, <1>3, <1>4, <1>5 DEF WatchdogInv

LEMMA CallKeeps ==
  ASSUME WatchdogInv,
         Se!SetEvent \/ Se!AcquireInHandler \/ Se!ReadProcess \/ Se!TerminateChild \/ Se!Kill
  PROVE  WatchdogInv'
<1> DEFINE h == Head(handlers)
           rest == Tail(handlers)
<1>0. /\ handlers \in Seq(StopCalls) /\ lockHeld \in BOOLEAN /\ intruded \in BOOLEAN
      /\ blind \in BOOLEAN /\ stopEvent \in BOOLEAN /\ currentProcess \in BOOLEAN
      /\ exitCode \in {"success", "crash"} /\ child \in {"none", "alive", "asked", "dead"}
  BY DEF WatchdogInv, Se!WatchdogTypeOK, StopCalls
<1>1. handlers # <<>>
  BY DEF Se!SetEvent, Se!AcquireInHandler, Se!ReadProcess, Se!TerminateChild, Se!Kill, Se!Inner
<1>2. /\ h \in StopCalls /\ rest \in Seq(StopCalls)
      /\ SomeReads(handlers) <=> WillRead(h) \/ SomeReads(rest)
      /\ SomeKills(handlers) <=> WillKill(h) \/ SomeKills(rest)
  BY <1>0, <1>1, CallOff
<1>3. /\ stopEvent /\ ~blind /\ runsAt \in {"spawn", "record", "recorded"} => SomeReads(handlers)
      /\ stopEvent /\ ~blind /\ runsAt = "wait" /\ Se!Running => SomeKills(handlers)
      /\ lockHeld /\ ~intruded => h.at = "held"
  BY <1>1 DEF WatchdogInv
(* Where the call goes on, it is as it is at that place.                   *)
<1>4. ASSUME NEW g \in StopCalls, handlers' = <<g>> \o rest
      PROVE  /\ handlers' \in Seq(StopCalls) /\ handlers' # <<>> /\ Head(handlers') = g
             /\ SomeReads(handlers') <=> WillRead(g) \/ SomeReads(rest)
             /\ SomeKills(handlers') <=> WillKill(g) \/ SomeKills(rest)
  BY <1>2, <1>4, CallOn
<1>5. ASSUME NEW stop \in {"set", "lock", "held", "look", "wait"}
      PROVE  /\ [h EXCEPT !.at = stop] \in StopCalls
             /\ [h EXCEPT !.at = stop].at = stop /\ [h EXCEPT !.at = stop].saw = h.saw
  BY <1>2 DEF StopCalls
<1>6. CASE Se!SetEvent
  <2> DEFINE g == [h EXCEPT !.at = "lock"]
  <2>1. /\ h.at = "set" /\ handlers' = <<g>> \o rest
        /\ UNCHANGED <<runsAt, currentProcess, attempt, started, signals, intruded, exitCode, child,
                       lockHeld, blind>>
    BY <1>6 DEF Se!SetEvent, Se!Inner, Se!Goes, Se!runVars
  <2>2. g \in StopCalls /\ g.at = "lock"
    BY <1>5
  <2>3. stopEvent' \in BOOLEAN
    BY Zenon, <1>6 DEF Se!SetEvent
  <2> HIDE DEF g, h, rest
  <2>4. handlers' \in Seq(StopCalls) /\ handlers' # <<>> /\ SomeReads(handlers') /\ SomeKills(handlers')
    BY <1>4, <2>1, <2>2 DEF WillRead, WillKill
  <2>5. Se!Running' => Se!Running
    BY <2>1 DEF Se!Running
  <2>6. lockHeld' /\ ~intruded => FALSE
    BY <1>0, <1>3, <2>1
  <2> QED BY <1>0, <1>1, <2>1, <2>3, <2>4, <2>5, <2>6, CallGoes
<1>7. CASE Se!AcquireInHandler
  <2> DEFINE g == [h EXCEPT !.at = "held"]
  <2>1. /\ h.at = "lock" /\ handlers' = <<g>> \o rest
        /\ UNCHANGED <<runsAt, currentProcess, attempt, started, signals, intruded, exitCode, child,
                       stopEvent, blind>>
    BY <1>7 DEF Se!AcquireInHandler, Se!Inner, Se!Goes, Se!runVars
  <2>2. g \in StopCalls /\ g.at = "held"
    BY <1>5
  <2>3. lockHeld' \in BOOLEAN
    BY Zenon, <1>7 DEF Se!AcquireInHandler
  <2> HIDE DEF g, h, rest
  <2>4. /\ handlers' \in Seq(StopCalls) /\ handlers' # <<>> /\ SomeReads(handlers') /\ SomeKills(handlers')
        /\ Head(handlers').at = "held"
    BY <1>4, <2>1, <2>2 DEF WillRead, WillKill
  <2>5. Se!Running' => Se!Running
    BY <2>1 DEF Se!Running
  <2>6. (stopEvent' <=> stopEvent) /\ (blind' <=> blind) /\ stopEvent' \in BOOLEAN /\ blind' \in BOOLEAN
    BY <1>0, <2>1
  <2> QED BY <1>0, <1>1, <2>1, <2>3, <2>4, <2>5, <2>6, CallGoes
<1>8. CASE Se!ReadProcess
  <2> DEFINE g == [at |-> "look", saw |-> currentProcess]
  <2>1. /\ h.at = "held" /\ handlers' = <<g>> \o rest
        /\ UNCHANGED <<runsAt, currentProcess, attempt, started, signals, intruded, exitCode, child,
                       stopEvent>>
    BY <1>8 DEF Se!ReadProcess, Se!Inner, Se!runVars
  <2>2. g \in StopCalls
    BY <1>0 DEF StopCalls
  <2>2a. runsAt = "wait" => WillKill(g)
    BY DEF WatchdogInv, WillKill
  <2>3. lockHeld' \in BOOLEAN /\ ~lockHeld'
    BY Zenon, <1>8 DEF Se!ReadProcess
  <2>4. blind' \in BOOLEAN /\ (blind => blind') /\ (runsAt \in {"spawn", "record", "recorded"} => blind')
    BY Zenon, <1>8 DEF Se!ReadProcess
  <2> HIDE DEF g, h, rest
  <2>5. handlers' \in Seq(StopCalls) /\ (runsAt = "wait" => SomeKills(handlers'))
    BY <1>4, <2>1, <2>2, <2>2a
  <2>6. Se!Running' => Se!Running
    BY <2>1 DEF Se!Running
  <2>7. (stopEvent' <=> stopEvent) /\ stopEvent' \in BOOLEAN
    BY <1>0, <2>1
  <2> QED BY <1>0, <1>1, <2>1, <2>3, <2>4, <2>5, <2>6, <2>7, CallGoes
<1>9. CASE Se!TerminateChild \/ Se!Kill
  <2>1. UNCHANGED <<runsAt, currentProcess, attempt, started, signals, intruded, stopEvent, lockHeld,
                    blind>>
    BY <1>9 DEF Se!TerminateChild, Se!Kill, Se!runVars
  <2>2. (stopEvent' <=> stopEvent) /\ (blind' <=> blind) /\ (lockHeld' <=> lockHeld)
        /\ stopEvent' \in BOOLEAN /\ blind' \in BOOLEAN /\ lockHeld' \in BOOLEAN
    BY <1>0, <2>1
  <2>3. h.at \in {"look", "wait"}
    BY <1>9 DEF Se!TerminateChild, Se!Kill, Se!Inner
  <2>4. lockHeld' /\ ~intruded => FALSE
    BY <1>0, <1>3, <2>2, <2>3
  <2>5. ~WillRead(h)
    BY <2>3 DEF WillRead
  <2>6. CASE Se!TerminateChild /\ h.saw /\ Se!Running
    <3> DEFINE g == [h EXCEPT !.at = "wait"]
    <3>1. handlers' = <<g>> \o rest /\ child' = "asked" /\ exitCode' = exitCode
      BY <2>6 DEF Se!TerminateChild, Se!Goes, Se!runVars
    <3>2. g \in StopCalls /\ g.at = "wait"
      BY <1>5
    <3> HIDE DEF g, h, rest
    <3>3. handlers' \in Seq(StopCalls) /\ SomeKills(handlers') /\ (SomeReads(rest) => SomeReads(handlers'))
      BY <1>4, <3>1, <3>2 DEF WillKill
    <3>4. Se!Running' => Se!Running
      BY <2>6
    <3> QED BY <1>0, <1>1, <1>2, <1>3, <2>1, <2>2, <2>4, <2>5, <3>1, <3>3, <3>4, CallGoes
  <2>7. CASE Se!TerminateChild /\ ~(h.saw /\ Se!Running)
    <3>1. handlers' = rest /\ child' = child /\ exitCode' = exitCode /\ h.at = "look"
      BY Zenon, <2>7 DEF Se!TerminateChild, Se!runVars, Se!Inner
    <3>2. Se!Running' <=> Se!Running
      BY <3>1 DEF Se!Running
    <3>3. Se!Running => ~WillKill(h)
      BY <2>7, <3>1 DEF WillKill
    <3> HIDE DEF h, rest
    <3> QED BY <1>0, <1>1, <1>2, <1>3, <2>1, <2>2, <2>4, <2>5, <3>1, <3>2, <3>3, CallGoes
  <2>8. CASE Se!Kill
    <3>1. handlers' = rest /\ child' = "dead" /\ exitCode' \in {"success", "crash"}
      BY <1>0, <2>8 DEF Se!Kill
    <3>2. ~Se!Running'
      BY <3>1 DEF Se!Running
    <3> HIDE DEF h, rest
    <3> QED BY <1>0, <1>1, <1>2, <1>3, <2>1, <2>2, <2>4, <2>5, <3>1, <3>2, CallGoes
  <2> QED BY <1>9, <2>6, <2>7, <2>8
<1> QED BY <1>6, <1>7, <1>8, <1>9

(* The server ends, or nothing happens.                                    *)
LEMMA ExitKeeps ==
  ASSUME WatchdogInv,
         (\E code \in {"success", "crash"} : Se!Exit(code)) \/ UNCHANGED watchdogVars
  PROVE  WatchdogInv'
<1>0. /\ handlers \in Seq(StopCalls) /\ lockHeld \in BOOLEAN /\ intruded \in BOOLEAN
      /\ blind \in BOOLEAN /\ stopEvent \in BOOLEAN /\ currentProcess \in BOOLEAN
  BY DEF WatchdogInv, Se!WatchdogTypeOK, StopCalls
<1>1. /\ UNCHANGED <<runsAt, currentProcess, attempt, started, handlers, stopEvent, lockHeld,
                     signals, blind, intruded>>
      /\ (child' = "dead" /\ exitCode' \in {"success", "crash"}) \/ UNCHANGED <<child, exitCode>>
  BY DEF Se!Exit, watchdogVars
<1>2. Se!Running' => Se!Running
  BY <1>1 DEF Se!Running
<1>3. (stopEvent' <=> stopEvent) /\ (blind' <=> blind) /\ (lockHeld' <=> lockHeld)
      /\ (currentProcess' <=> currentProcess) /\ (intruded' <=> intruded)
  BY <1>1
<1>4. /\ (SomeReads(handlers)' <=> SomeReads(handlers))
      /\ (SomeKills(handlers)' <=> SomeKills(handlers))
  BY <1>1 DEF SomeReads, SomeKills
<1>5. Se!WatchdogTypeOK'
  BY <1>1 DEF WatchdogInv, Se!WatchdogTypeOK
<1> QED BY <1>0, <1>1, <1>2, <1>3, <1>4, <1>5 DEF WatchdogInv

LEMMA WatchdogStep == WatchdogInv /\ [Se!WatchdogNext]_watchdogVars => WatchdogInv'
  BY RunKeeps, CallBegins, CallKeeps, ExitKeeps DEF Se!WatchdogNext

LEMMA WatchdogInvSuffices == WatchdogInv => Se!WatchdogTypeOK /\ Se!WatchdogIsSound
<1> SUFFICES ASSUME WatchdogInv PROVE Se!WatchdogTypeOK /\ Se!WatchdogIsSound
  OBVIOUS
<1>1. stopEvent /\ handlers = <<>> /\ runsAt = "wait" /\ Se!Running => blind
  <2>1. handlers = <<>> => ~SomeKills(handlers)
    BY DEF SomeKills
  <2> QED BY <2>1 DEF WatchdogInv, Se!WatchdogTypeOK
<1>2. Se!Inner("lock") /\ lockHeld => intruded
  BY DEF WatchdogInv, Se!WatchdogTypeOK, Se!Inner
<1> QED BY <1>1, <1>2 DEF WatchdogInv, Se!WatchdogIsSound

-----------------------------------------------------------------------------
(* Who has come in within Rapid is counted, unless a block lasts for       *)
(* longer than that; and the count is never ahead of the chain.            *)
ThrottleInv ==
  /\ En!ThrottleTypeOK /\ En!BurstsAreCut
  /\ ~known => sinceAccepted = En!Long /\ burst = 0 /\ inARow = 0
  /\ inARow <= chain /\ lastAttempt <= sinceAccepted
  /\ sinceAccepted <= Rapid => IF blockTime = 0 THEN burst <= inARow + 1
                               ELSE sinceAccepted + blockTime > Rapid

LEMMA ThrottleNumbers ==
  /\ Window \in Nat /\ Rapid \in Nat /\ BlockTime \in Nat /\ Penalty \in Nat
  /\ StatusTimeout \in Nat /\ MaxBlock \in Nat /\ Limit \in Nat /\ Limit >= 1
  /\ Rapid <= Window /\ Rapid < BlockTime /\ BlockTime <= MaxBlock + Penalty
  /\ En!Long \in Nat /\ En!Long > Rapid /\ En!Long > Window
  BY EntriesAssumption DEF En!Long

LEMMA ThrottleBegins == En!ThrottleInit => ThrottleInv
<1> SUFFICES ASSUME En!ThrottleInit PROVE ThrottleInv
  OBVIOUS
<1>1. known \in BOOLEAN /\ unread \in BOOLEAN /\ refused \in BOOLEAN
  BY Zenon DEF En!ThrottleInit
<1> QED
  BY <1>1, ThrottleNumbers DEF En!ThrottleInit, ThrottleInv, En!ThrottleTypeOK, En!BurstsAreCut

LEMMA ThrottleStep == ThrottleInv /\ [En!ThrottleNext]_throttleVars => ThrottleInv'
<1> SUFFICES ASSUME ThrottleInv, [En!ThrottleNext]_throttleVars PROVE ThrottleInv'
  OBVIOUS
<1> USE ThrottleNumbers
<1>0. En!Long' = En!Long
  BY DEF En!Long
<1>00. known \in BOOLEAN /\ unread \in BOOLEAN /\ refused \in BOOLEAN
  BY DEF ThrottleInv, En!ThrottleTypeOK
<1>1. CASE En!First
  <2>1. known' \in BOOLEAN /\ unread' \in BOOLEAN /\ refused' \in BOOLEAN
    BY Zenon, <1>1 DEF En!First, En!Accepted
  <2> QED
    BY <1>0, <1>1, <2>1
    DEF En!First, En!Accepted, ThrottleInv, En!ThrottleTypeOK, En!BurstsAreCut
<1>2. CASE En!InBlock
  BY <1>0, <1>2 DEF En!InBlock, ThrottleInv, En!ThrottleTypeOK, En!BurstsAreCut
<1>3. CASE En!Attempt
  <2>1. CASE En!Blocks
    BY <1>0, <1>3, <2>1 DEF En!Attempt, En!Blocks, En!Counted, En!InARow, ThrottleInv,
       En!ThrottleTypeOK, En!BurstsAreCut
  <2>2. CASE ~En!Blocks
    <3>1. known' \in BOOLEAN /\ unread' \in BOOLEAN /\ refused' \in BOOLEAN
      BY Zenon, <1>00, <1>3, <2>2 DEF En!Attempt, En!Accepted
    <3> QED
      BY <1>0, <1>3, <2>2, <3>1 DEF En!Attempt, En!Blocks, En!Counted, En!InARow, En!Accepted,
         ThrottleInv, En!ThrottleTypeOK, En!BurstsAreCut
  <2> QED BY <2>1, <2>2
<1>4. CASE En!Query
  <2>1. known' \in BOOLEAN /\ unread' \in BOOLEAN /\ refused' \in BOOLEAN
    BY Zenon, <1>00, <1>4 DEF En!Query
  <2>2. statusAsked' \in {0, statusAsked}
    BY Zenon, <1>4 DEF En!Query
  <2>3. UNCHANGED <<known, lastAttempt, blockTime, inARow, sinceAccepted, burst, chain, refused>>
    BY Zenon, <1>4 DEF En!Query
  <2> QED
    BY <1>0, <2>1, <2>2, <2>3 DEF ThrottleInv, En!ThrottleTypeOK, En!BurstsAreCut
<1>5. CASE En!Pass(1)
  BY <1>0, <1>5 DEF En!Pass, En!Older, ThrottleInv, En!ThrottleTypeOK, En!BurstsAreCut
<1>6. CASE UNCHANGED throttleVars
  BY <1>0, <1>6 DEF throttleVars, ThrottleInv, En!ThrottleTypeOK, En!BurstsAreCut
<1> QED BY <1>1, <1>2, <1>3, <1>4, <1>5, <1>6 DEF En!ThrottleNext

-----------------------------------------------------------------------------
(* As long as the scripts kept to what there was, the days are reckoned    *)
(* as they pass.                                                           *)
Reckoned ==
  /\ days \in 0..Most
  /\ left = days * DayLength - (IF counting THEN since ELSE 0)
AccountsInv ==
  /\ En!AccountsTypeOK
  /\ ~overdrawn => Reckoned /\ (told => left > 0)

LEMMA AccountNumbers ==
  /\ DayLength \in Nat \ {0} /\ Most \in Nat /\ MaxSince \in Nat /\ MaxGifts \in Nat
  /\ Granted \in 0..Most /\ Amounts \subseteq Nat /\ En!Unlimited = Most + 1
  BY EntriesAssumption DEF En!Unlimited

LEMMA AccountsBegin == En!AccountsInit => AccountsInv
<1> SUFFICES ASSUME En!AccountsInit PROVE AccountsInv
  OBVIOUS
<1>1. counting \in BOOLEAN /\ told \in BOOLEAN /\ overdrawn \in BOOLEAN
  BY Zenon DEF En!AccountsInit
<1>2. Granted * DayLength \in Int /\ Granted * DayLength - 0 = Granted * DayLength
  BY AccountNumbers
<1> QED
  BY <1>1, <1>2, AccountNumbers DEF En!AccountsInit, AccountsInv, Reckoned, En!AccountsTypeOK

(* What the column is read as, is a number of days.                        *)
LEMMA ReadDays ==
  ASSUME NEW d \in Int
  PROVE  En!AsRead(d) \in 0..En!Unlimited /\ (d \in 0..Most => En!AsRead(d) = d)
  BY AccountNumbers DEF En!AsRead

LEMMA Distributes ==
  ASSUME NEW a \in Int, NEW b \in Int, NEW d \in Int
  PROVE  (a - b) * d = (a * d) - (d * b)
  OBVIOUS

(* What the list finds and leaves.                                         *)
LEMMA ListCounts ==
  ASSUME AccountsInv, En!GetCharacterList
  PROVE  /\ days' \in Int /\ counting' \in BOOLEAN /\ since' \in 0..MaxSince /\ left' \in Int
         /\ ~overdrawn => Reckoned' /\ (days' > 0 => left' > 0)
<1> USE AccountNumbers
<1> DEFINE had == En!AsRead(days)
           w == since \div DayLength
           r == since % DayLength
<1>1. /\ days \in Int /\ since \in 0..MaxSince /\ since \in Int /\ left \in Int /\ had \in 0..(Most + 1)
      /\ counting \in BOOLEAN
  BY ReadDays DEF AccountsInv, En!AccountsTypeOK
<1>2. r \in 0..(DayLength - 1) /\ w \in Int /\ since = (DayLength * w) + r
  BY <1>1, Quotient
<1>3. w >= 0 /\ r <= since
  <2>1. w <= -1 => DayLength * w <= -DayLength
    BY <1>2, NotBetween
  <2>2. w >= 0
    <3> HIDE DEF w, r
    <3> QED BY <1>1, <1>2, <2>1
  <2>3. w >= 1 => DayLength * w >= DayLength
    BY <1>2, NotBetween
  <2>4. w = 0 => DayLength * w = 0
    BY <1>2, NotBetween
  <2> HIDE DEF w, r
  <2> QED BY <1>1, <1>2, <2>2, <2>3, <2>4
<1>4. ~overdrawn => days \in 0..Most /\ had = days
                    /\ left = days * DayLength - (IF counting THEN since ELSE 0)
  BY ReadDays DEF AccountsInv, Reckoned
<1>5. En!UpdatePremium(had) /\ left' = (IF left < 0 THEN 0 ELSE left)
      /\ UNCHANGED overdrawn
  BY DEF En!GetCharacterList
<1>6. left' \in Int
  BY <1>1, <1>5
<1>7. CASE /\ had \in 1..Most /\ ~counting
           /\ days' = had /\ counting' = TRUE /\ since' = 0
  <2>1. counting' \in BOOLEAN /\ counting'
    BY Zenon, <1>7
  <2>2. days * DayLength \in Int
    BY <1>1
  <2>3. days >= 1 => DayLength * days >= DayLength
    BY <1>1, NotBetween
  <2>4. DayLength * days = days * DayLength
    BY <1>1
  <2> HIDE DEF had
  <2> QED BY <1>1, <1>4, <1>5, <1>6, <1>7, <2>1, <2>2, <2>3, <2>4 DEF Reckoned
<1>8. CASE /\ had \in 1..Most /\ counting /\ w >= had
           /\ days' = 0 /\ counting' = FALSE /\ since' = 0
  <2>1. counting' \in BOOLEAN /\ ~counting'
    BY Zenon, <1>8
  <2>2. ~overdrawn => left <= 0
    <3>1. w - had \in Nat
      BY <1>1, <1>2, <1>8
    <3>2. DayLength * (w - had) >= 0 /\ DayLength * (w - had) = (DayLength * w) - (had * DayLength)
      BY <1>1, <1>2, <3>1
    <3>3. had * DayLength \in Int /\ DayLength * w \in Int
      BY <1>1, <1>2
    <3> HIDE DEF w, r, had
    <3> QED BY <1>1, <1>2, <1>4, <1>8, <3>2, <3>3
  <2>3. 0 * DayLength = 0
    OBVIOUS
  <2> QED BY <1>1, <1>5, <1>6, <1>8, <2>1, <2>2, <2>3 DEF Reckoned
<1>9. CASE /\ had \in 1..Most /\ counting /\ w \in 1..(had - 1)
           /\ days' = had - w /\ since' = r /\ UNCHANGED counting
  <2>1. (had - w) * DayLength = (had * DayLength) - (DayLength * w)
    <3>1. had \in Int /\ w \in Int /\ DayLength \in Int
      BY <1>1, <1>2
    <3> HIDE DEF had, w
    <3> QED BY <3>1, Distributes
  <2>2. had - w >= 1 => (had - w) * DayLength >= DayLength
    <3>1. had - w \in Int
      BY <1>1, <1>2
    <3>2. (had - w) * DayLength = DayLength * (had - w)
      BY <3>1
    <3> QED BY <3>1, <3>2, NotBetween
  <2>3. had * DayLength \in Int /\ DayLength * w \in Int
    BY <1>1, <1>2
  <2> HIDE DEF w, r, had
  <2> QED BY <1>1, <1>2, <1>3, <1>4, <1>5, <1>6, <1>9, <2>1, <2>2, <2>3 DEF Reckoned
<1>10. CASE /\ had \notin 1..Most /\ counting
            /\ days' = had /\ counting' = FALSE /\ since' = 0
  <2>1. counting' \in BOOLEAN /\ ~counting'
    BY Zenon, <1>10
  <2>2. ~overdrawn => had = 0 /\ days = 0
    BY <1>1, <1>4, <1>10
  <2>3. 0 * DayLength = 0
    OBVIOUS
  <2> HIDE DEF had
  <2> QED BY <1>1, <1>4, <1>5, <1>6, <1>10, <2>1, <2>2, <2>3 DEF Reckoned
<1>11. CASE /\ UNCHANGED <<days, counting, since>>
            /\ had \in 1..Most => counting /\ w \notin 1..(had - 1) /\ ~(w >= had)
            /\ had \notin 1..Most => ~counting
  <2>1. ~overdrawn /\ had \in 1..Most => left > 0
    <3>1. had \in 1..Most => w = 0
      BY <1>1, <1>2, <1>3, <1>11
    <3>2. w = 0 => DayLength * w = 0
      BY <1>2, NotBetween
    <3>3. had >= 1 => DayLength * had >= DayLength
      BY <1>1, NotBetween
    <3>4. DayLength * had = had * DayLength /\ had * DayLength \in Int
      BY <1>1
    <3> HIDE DEF w, r, had
    <3> QED BY <1>1, <1>2, <1>4, <1>11, <3>1, <3>2, <3>3, <3>4
  <2>2. ~overdrawn /\ had \notin 1..Most => days = 0 /\ left = 0
    <3>1. 0 * DayLength = 0
      OBVIOUS
    <3>2. ~overdrawn /\ had \notin 1..Most => days = 0
      BY <1>1, <1>4
    <3> HIDE DEF had
    <3> QED BY <1>1, <1>4, <1>11, <3>1, <3>2
  <2> HIDE DEF had, w, r
  <2> QED BY <1>1, <1>4, <1>5, <1>6, <1>11, <2>1, <2>2 DEF Reckoned
<1>12. \/ /\ had \in 1..Most /\ ~counting
          /\ days' = had /\ counting' = TRUE /\ since' = 0
       \/ /\ had \in 1..Most /\ counting /\ w >= had
          /\ days' = 0 /\ counting' = FALSE /\ since' = 0
       \/ /\ had \in 1..Most /\ counting /\ w \in 1..(had - 1)
          /\ days' = had - w /\ since' = r /\ UNCHANGED counting
       \/ /\ had \notin 1..Most /\ counting
          /\ days' = had /\ counting' = FALSE /\ since' = 0
       \/ /\ UNCHANGED <<days, counting, since>>
          /\ had \in 1..Most => counting /\ w \notin 1..(had - 1) /\ ~(w >= had)
          /\ had \notin 1..Most => ~counting
  <2> HIDE DEF had
  <2> QED BY Zenon, <1>5 DEF En!UpdatePremium, En!WholeDays, En!Rest
<1> HIDE DEF had, w, r
<1> QED BY <1>7, <1>8, <1>9, <1>10, <1>11, <1>12

LEMMA AccountsStep == AccountsInv /\ [En!AccountsNext]_accountsVars => AccountsInv'
<1> SUFFICES ASSUME AccountsInv, [En!AccountsNext]_accountsVars PROVE AccountsInv'
  OBVIOUS
<1> USE AccountNumbers
<1>0. En!Unlimited' = En!Unlimited
  BY DEF En!Unlimited
<1>1. CASE En!GetCharacterList
  <2>1. /\ days' \in Int /\ counting' \in BOOLEAN /\ since' \in 0..MaxSince /\ left' \in Int
        /\ ~overdrawn => Reckoned' /\ (days' > 0 => left' > 0)
    BY <1>1, ListCounts
  <2>0. told' = (days' > 0)
    BY <1>1 DEF En!GetCharacterList
  <2>2. told' \in BOOLEAN /\ (told' => days' > 0)
    <3>1. told' \in BOOLEAN
      BY <2>0, <2>1
    <3>2. told' => days' > 0
      BY Zenon, <2>0
    <3> QED BY <3>1, <3>2
  <2>3. UNCHANGED <<onAccount, premiumCopy, overdrawn, gifts>>
    BY <1>1 DEF En!GetCharacterList
  <2> QED BY <1>0, <2>1, <2>2, <2>3 DEF AccountsInv, En!AccountsTypeOK
<1>2. CASE En!Elapse
  <2>1. told' \in BOOLEAN /\ ~told'
    BY Zenon, <1>2 DEF En!Elapse
  <2>2. /\ since < MaxSince /\ UNCHANGED <<days, counting, onAccount, premiumCopy, overdrawn, gifts>>
        /\ IF counting THEN since' = since + 1 /\ left' = left - 1 ELSE UNCHANGED <<since, left>>
    BY <1>2 DEF En!Elapse
  <2>3. since' \in 0..MaxSince /\ left' \in Int
    BY <2>2 DEF AccountsInv, En!AccountsTypeOK
  <2>4. days \in Int => days * DayLength \in Int
    OBVIOUS
  <2>5. ~overdrawn => Reckoned'
    BY <2>2, <2>4 DEF AccountsInv, En!AccountsTypeOK, Reckoned
  <2> QED BY <1>0, <2>1, <2>2, <2>3, <2>5 DEF AccountsInv, En!AccountsTypeOK
<1>3. ASSUME NEW c \in Players, En!Preload(c) PROVE AccountsInv'
  <2>1. En!AsRead(days) \in 0..En!Unlimited
    BY ReadDays DEF AccountsInv, En!AccountsTypeOK
  <2> QED BY <1>0, <1>3, <2>1 DEF En!Preload, AccountsInv, En!AccountsTypeOK, Reckoned
<1>4. ASSUME NEW c \in Players, En!Unload(c) PROVE AccountsInv'
  BY <1>0, <1>4 DEF En!Unload, AccountsInv, En!AccountsTypeOK, Reckoned
<1>5. ASSUME NEW c \in Players, NEW by \in Int, En!ChangeDays(c, by),
             premiumCopy[c] + by \in 0..Most
      PROVE  AccountsInv'
  <2>1. told' \in BOOLEAN /\ ~told'
    BY Zenon, <1>5 DEF En!ChangeDays
  <2>2. overdrawn' \in BOOLEAN /\ (~overdrawn' => ~overdrawn /\ days + by \in 0..Most)
    BY Zenon, <1>5 DEF En!ChangeDays
  <2>3. /\ gifts < MaxGifts /\ gifts' = gifts + 1
        /\ premiumCopy' = [premiumCopy EXCEPT ![c] = @ + by] /\ days' = days + by
        /\ left' = left + by * DayLength /\ UNCHANGED <<counting, since, onAccount>>
    BY <1>5 DEF En!ChangeDays
  <2>4. by * DayLength \in Int
    OBVIOUS
  <2>5. /\ days \in Int /\ left \in Int /\ since \in 0..MaxSince /\ counting \in BOOLEAN
        /\ gifts \in 0..MaxGifts /\ premiumCopy \in [Players -> 0..(Most + 1)]
        /\ onAccount \subseteq Players
    BY DEF AccountsInv, En!AccountsTypeOK
  <2>6. (days + by) * DayLength = (days * DayLength) + (by * DayLength) /\ days * DayLength \in Int
    BY <2>5
  <2>7. ~overdrawn' => Reckoned'
    <3> SUFFICES ASSUME ~overdrawn' PROVE Reckoned'
      OBVIOUS
    <3>1. left = days * DayLength - (IF counting THEN since ELSE 0)
      BY <2>2 DEF AccountsInv, Reckoned
    <3> QED BY <2>2, <2>3, <2>4, <2>5, <2>6, <3>1 DEF Reckoned
  <2>8. premiumCopy' \in [Players -> 0..En!Unlimited]
    BY <1>5, <2>3, <2>5
  <2>9. gifts' \in 0..MaxGifts /\ days' \in Int /\ left' \in Int
    BY <2>3, <2>4, <2>5
  <2> QED BY <1>0, <2>1, <2>2, <2>3, <2>5, <2>7, <2>8, <2>9 DEF AccountsInv, En!AccountsTypeOK
<1>6. ASSUME NEW c \in Players, NEW n \in Amounts, En!AddPremiumDays(c, n) \/ En!RemovePremiumDays(c, n)
      PROVE  AccountsInv'
  <2>1. premiumCopy[c] \in 0..(Most + 1) /\ n \in Nat
    BY DEF AccountsInv, En!AccountsTypeOK
  <2>2. premiumCopy[c] # Most + 1
    BY <1>6 DEF En!AddPremiumDays, En!RemovePremiumDays, En!ChangeDays
  <2>3. /\ En!Least(Most - premiumCopy[c], n) \in Int
        /\ premiumCopy[c] + En!Least(Most - premiumCopy[c], n) \in 0..Most
        /\ -En!Least(premiumCopy[c], n) \in Int
        /\ premiumCopy[c] + (-En!Least(premiumCopy[c], n)) \in 0..Most
    BY <2>1, <2>2 DEF En!Least
  <2> QED BY <1>5, <1>6, <2>3 DEF En!AddPremiumDays, En!RemovePremiumDays
<1>7. CASE UNCHANGED accountsVars
  BY <1>0, <1>7 DEF accountsVars, AccountsInv, En!AccountsTypeOK, Reckoned
<1> QED BY <1>1, <1>2, <1>3, <1>4, <1>6, <1>7 DEF En!AccountsNext

LEMMA AccountsInvSuffices == AccountsInv => En!AccountsTypeOK /\ En!AccountsAreSound
  BY Zenon DEF AccountsInv, Reckoned, En!AccountsAreSound

-----------------------------------------------------------------------------
(* Nobody is in the game who should not be, and the table says who is.     *)
TableInv ==
  /\ wrongly = {} /\ playersOnline = entered \ ghosts
  /\ \A a, b \in ordinary : a = b

JobRecords == [op : {"archive", "erase"}, of : En!BanKinds]
EraseOf(k) == [op |-> "erase", of |-> k]
ArchiveOf(k) == [op |-> "archive", of |-> k]
Archiving == \E i \in 1..Len(jobs) : jobs[i].op = "archive"

(* Where no ban was seen twice, each job is there once, what is erased has *)
(* run out, and the account is archived right before it is erased.         *)
JobsInOrder ==
  /\ \A i, j \in 1..Len(jobs) : jobs[i] = jobs[j] => i = j
  /\ \A i \in 1..Len(jobs) :
       /\ jobs[i].op = "erase" => ban[jobs[i].of] = "expired"
       /\ jobs[i].op = "archive" =>
            /\ jobs[i].of = "account"
            /\ i + 1 \in 1..Len(jobs) /\ jobs[i + 1] = EraseOf("account")

(* What ran out is archived, or will be.                                   *)
ToArchive == ban["account"] = "expired" /\ (Archiving \/ ~En!Erasing("account"))
Kept ==
  /\ ~banLost /\ JobsInOrder
  /\ archived + (IF ToArchive THEN 1 ELSE 0) = ended

BansInv ==
  /\ ended + (IF ban["account"] = "running" THEN 1 ELSE 0) <= bans
  /\ ~doubled => Kept

EntriesInv == En!EntriesTypeOK /\ TableInv /\ BansInv

LEMMA EntryNumbers ==
  /\ MaxBans \in Nat /\ MaxWrites \in Nat /\ MaxJobs \in Nat /\ MaxLogins \in Nat
  BY EntriesAssumption

LEMMA EntriesBegin == En!EntriesInit => EntriesInv
<1> SUFFICES ASSUME En!EntriesInit PROVE EntriesInv
  OBVIOUS
<1>1. /\ gamemaster \in BOOLEAN /\ banLost \in BOOLEAN /\ doubled \in BOOLEAN
      /\ ~banLost
  BY Zenon DEF En!EntriesInit
<1>2. jobs = <<>> /\ logins = <<>> /\ ban = [k \in En!BanKinds |-> "none"]
  BY DEF En!EntriesInit
<1>3. jobs \in Seq(JobRecords) /\ logins \in Seq(Players) /\ Len(jobs) = 0
      /\ ban \in [En!BanKinds -> {"none", "running", "expired"}]
      /\ ban["account"] = "none"
  BY <1>2 DEF En!BanKinds
<1>4. En!EntriesTypeOK
  BY <1>1, <1>3, EntryNumbers DEF En!EntriesInit, En!EntriesTypeOK, JobRecords
<1>5. TableInv
  BY DEF En!EntriesInit, TableInv
<1>6. BansInv
  BY <1>1, <1>3 DEF En!EntriesInit, BansInv, Kept, JobsInOrder, ToArchive
<1> QED BY <1>4, <1>5, <1>6 DEF EntriesInv

-----------------------------------------------------------------------------
(* The types of what only the bans are.                                    *)
BanTypes ==
  /\ ban \in [En!BanKinds -> {"none", "running", "expired"}]
  /\ archived \in Nat /\ ended \in 0..MaxBans /\ banLost \in BOOLEAN /\ doubled \in BOOLEAN
  /\ jobs \in Seq(JobRecords) /\ bans \in 0..MaxBans

(* An expired ban is moved once more.                                      *)
LEMMA CheckKeeps ==
  ASSUME BanTypes, BansInv, NEW k \in En!BanKinds, En!CheckBan(k)
  PROVE  BanTypes' /\ BansInv'
<1>0. /\ doubled' = (doubled \/ (ban[k] = "expired" /\ En!Erasing(k)))
      /\ UNCHANGED <<ban, archived, ended, banLost, bans>>
  BY DEF En!CheckBan
<1>1. doubled' \in BOOLEAN /\ (~doubled' => ~doubled /\ (ban[k] = "expired" => ~En!Erasing(k)))
  BY Zenon, <1>0
<1>2. CASE ban[k] # "expired"
  <2>1. jobs' = jobs
    BY <1>2 DEF En!CheckBan
  <2>2. /\ En!Erasing("account")' <=> En!Erasing("account")
        /\ Archiving' <=> Archiving
    BY <2>1 DEF En!Erasing, Archiving
  <2>3. JobsInOrder => JobsInOrder'
    BY <1>0, <2>1 DEF JobsInOrder
  <2> QED
    BY <1>0, <1>1, <2>1, <2>2, <2>3 DEF BanTypes, BansInv, Kept, ToArchive
<1>3. CASE ban[k] = "expired"
  <2>1. jobs' = jobs \o En!Move(k)
    BY <1>3 DEF En!CheckBan
  <2>2. En!Move(k) \in Seq(JobRecords) /\ Len(En!Move(k)) \in {1, 2}
    <3>1. EraseOf(k) \in JobRecords /\ ArchiveOf(k) \in JobRecords
      BY DEF EraseOf, ArchiveOf, JobRecords
    <3>2. En!Move(k) = <<EraseOf(k)>> \/ En!Move(k) = <<ArchiveOf(k), EraseOf(k)>>
      BY DEF En!Move, EraseOf, ArchiveOf
    <3>3. /\ <<EraseOf(k)>> \in Seq(JobRecords) /\ Len(<<EraseOf(k)>>) = 1
          /\ <<ArchiveOf(k), EraseOf(k)>> \in Seq(JobRecords)
          /\ Len(<<ArchiveOf(k), EraseOf(k)>>) = 2
      BY <3>1
    <3> QED BY <3>2, <3>3
  <2>3. jobs \in Seq(JobRecords) /\ Len(jobs) \in Nat
    BY DEF BanTypes
  <2>4. /\ jobs' \in Seq(JobRecords) /\ Len(jobs') = Len(jobs) + Len(En!Move(k))
        /\ \A i \in 1..Len(jobs) : jobs'[i] = jobs[i]
        /\ \A i \in 1..Len(En!Move(k)) : jobs'[Len(jobs) + i] = En!Move(k)[i]
    BY <2>1, <2>2, <2>3
  <2>5. BanTypes'
    BY <1>0, <1>1, <2>4 DEF BanTypes
  <2>6. ASSUME ~doubled' PROVE Kept'
    <3>1. ~doubled /\ ~En!Erasing(k) /\ Kept
      BY <1>1, <1>3, <2>6 DEF BansInv
    <3>2. \A i \in 1..Len(jobs) : jobs[i] # EraseOf(k)
      BY <3>1 DEF En!Erasing, EraseOf
    <3>3. CASE k = "ip"
      <4>1. Len(En!Move(k)) = 1 /\ En!Move(k)[1] = EraseOf("ip")
        BY <3>3 DEF En!Move, EraseOf
      <4>2. Len(jobs') = Len(jobs) + 1 /\ jobs'[Len(jobs) + 1] = EraseOf("ip")
        BY <2>3, <2>4, <4>1
      <4>3. JobsInOrder'
        <5>1. \A i, j \in 1..Len(jobs') : jobs'[i] = jobs'[j] => i = j
          BY <2>3, <2>4, <3>1, <3>2, <3>3, <4>2 DEF Kept, JobsInOrder
        <5>2. ASSUME NEW i \in 1..Len(jobs')
              PROVE  /\ jobs'[i].op = "erase" => ban'[jobs'[i].of] = "expired"
                     /\ jobs'[i].op = "archive" =>
                          /\ jobs'[i].of = "account"
                          /\ i + 1 \in 1..Len(jobs') /\ jobs'[i + 1] = EraseOf("account")
          <6>1. CASE i \in 1..Len(jobs)
            BY <1>0, <2>3, <2>4, <3>1, <4>2, <6>1 DEF Kept, JobsInOrder
          <6>2. CASE i = Len(jobs) + 1
            BY <1>0, <1>3, <3>3, <4>2, <6>2 DEF EraseOf
          <6> QED BY <2>3, <4>2, <6>1, <6>2
        <5> QED BY <5>1, <5>2 DEF JobsInOrder
      <4>4. Archiving' <=> Archiving
        BY <2>3, <2>4, <4>2 DEF Archiving, EraseOf
      <4>5. En!Erasing("account")' <=> En!Erasing("account")
        <5>1. EraseOf("ip") # EraseOf("account")
          BY DEF EraseOf
        <5>2. (\E i \in 1..Len(jobs') : jobs'[i] = EraseOf("account"))
              <=> (\E i \in 1..Len(jobs) : jobs[i] = EraseOf("account"))
          BY <2>3, <2>4, <4>2, <5>1
        <5> QED BY <5>2 DEF En!Erasing, EraseOf
      <4>6. (ban' = ban /\ ended' = ended /\ archived' = archived) /\ (banLost' <=> banLost)
        BY <1>0
      <4> QED BY <3>1, <4>3, <4>4, <4>5, <4>6 DEF Kept, ToArchive
    <3>4. CASE k = "account"
      <4>1. Len(En!Move(k)) = 2 /\ En!Move(k)[1] = ArchiveOf(k) /\ En!Move(k)[2] = EraseOf(k)
        BY <3>4 DEF En!Move, EraseOf, ArchiveOf
      <4>2. /\ Len(jobs') = Len(jobs) + 2 /\ jobs'[Len(jobs) + 1] = ArchiveOf(k)
            /\ jobs'[Len(jobs) + 2] = EraseOf(k)
        BY <2>3, <2>4, <4>1
      <4>3. \A i \in 1..Len(jobs) : jobs[i].op # "archive"
        BY <3>1, <3>2, <3>4 DEF Kept, JobsInOrder
      <4>4. JobsInOrder'
        <5>1. \A i, j \in 1..Len(jobs') : jobs'[i] = jobs'[j] => i = j
          <6>1. \A i \in 1..Len(jobs) : jobs'[i] # ArchiveOf(k) /\ jobs'[i] # EraseOf(k)
            BY <2>4, <3>2, <4>3 DEF ArchiveOf
          <6>2. ArchiveOf(k) # EraseOf(k)
            BY DEF ArchiveOf, EraseOf
          <6> QED BY <2>3, <2>4, <3>1, <4>2, <6>1, <6>2 DEF Kept, JobsInOrder
        <5>2. ASSUME NEW i \in 1..Len(jobs')
              PROVE  /\ jobs'[i].op = "erase" => ban'[jobs'[i].of] = "expired"
                     /\ jobs'[i].op = "archive" =>
                          /\ jobs'[i].of = "account"
                          /\ i + 1 \in 1..Len(jobs') /\ jobs'[i + 1] = EraseOf("account")
          <6>1. CASE i \in 1..Len(jobs)
            BY <1>0, <2>3, <2>4, <3>1, <4>2, <4>3, <6>1 DEF Kept, JobsInOrder
          <6>2. CASE i = Len(jobs) + 1
            BY <2>3, <3>4, <4>2, <6>2 DEF ArchiveOf
          <6>3. CASE i = Len(jobs) + 2
            BY <1>0, <1>3, <4>2, <6>3 DEF EraseOf
          <6> QED BY <2>3, <4>2, <6>1, <6>2, <6>3
        <5> QED BY <5>1, <5>2 DEF JobsInOrder
      <4>5. Archiving'
        BY <2>3, <4>2 DEF Archiving, ArchiveOf
      <4>6. ToArchive /\ ToArchive'
        BY <1>0, <1>3, <3>1, <3>4, <4>5 DEF ToArchive
      <4>7. ended' = ended /\ archived' = archived /\ (banLost' <=> banLost)
        BY <1>0
      <4> QED BY <3>1, <4>4, <4>6, <4>7 DEF Kept
    <3> QED BY <3>3, <3>4 DEF En!BanKinds
  <2> QED BY <1>0, <2>5, <2>6 DEF BansInv
<1> QED BY <1>2, <1>3

(* The first job is done.                                                  *)
LEMMA JobKeeps ==
  ASSUME BanTypes, BansInv, En!Job
  PROVE  BanTypes' /\ BansInv'
<1> DEFINE j == jobs[1]
<1>1. /\ jobs \in Seq(JobRecords) /\ jobs # <<>> /\ jobs' = Tail(jobs) /\ Head(jobs) = j
      /\ Len(jobs) \in Nat \ {0} /\ j \in JobRecords
  BY DEF En!Job, BanTypes
<1>2. /\ jobs' \in Seq(JobRecords) /\ Len(jobs') = Len(jobs) - 1
      /\ \A i \in 1..Len(jobs') : i + 1 \in 1..Len(jobs) /\ jobs'[i] = jobs[i + 1]
  BY <1>1
<1>3. UNCHANGED <<ended, doubled, bans>>
  BY DEF En!Job
<1>4. CASE j.op = "archive"
  <2>1. archived' = archived + 1 /\ UNCHANGED <<ban, banLost>>
    BY <1>1, <1>4 DEF En!Job
  <2>2. BanTypes'
    BY <1>2, <1>3, <2>1 DEF BanTypes
  <2>3. ASSUME ~doubled PROVE Kept'
    <3>1. Kept
      BY <2>3 DEF BansInv
    <3>2. /\ j.of = "account" /\ 2 \in 1..Len(jobs) /\ jobs[2] = EraseOf("account")
          /\ \A i \in 1..Len(jobs) : jobs[i] = j => i = 1
      BY <1>1, <1>4, <3>1 DEF Kept, JobsInOrder
    <3>3. JobsInOrder'
      BY <1>1, <1>2, <2>1, <3>1 DEF Kept, JobsInOrder
    <3>4. ~Archiving'
      <4>1. ASSUME NEW i \in 1..Len(jobs'), jobs'[i].op = "archive" PROVE FALSE
        <5>1. jobs[i + 1].op = "archive" /\ jobs[i + 1].of = "account" /\ i + 1 \in 1..Len(jobs)
          BY <1>2, <3>1, <4>1 DEF Kept, JobsInOrder
        <5>2. jobs[i + 1] \in JobRecords
          BY <1>1, <5>1
        <5>3. jobs[i + 1] = j
          BY <1>1, <1>4, <3>2, <5>1, <5>2 DEF JobRecords
        <5> QED BY <3>2, <5>1, <5>3
      <4> QED BY <4>1 DEF Archiving
    <3>5. En!Erasing("account")'
      <4>1. 1 \in 1..Len(jobs') /\ jobs'[1] = EraseOf("account")
        BY <1>1, <1>2, <3>2
      <4> QED BY <4>1 DEF En!Erasing, EraseOf
    <3>6. ToArchive
      <4>1. Archiving
        BY <1>1, <1>4 DEF Archiving
      <4>2. ban["account"] = "expired"
        BY <3>1, <3>2 DEF Kept, JobsInOrder, EraseOf
      <4> QED BY <4>1, <4>2 DEF ToArchive
    <3>7. ~ToArchive'
      BY <3>4, <3>5 DEF ToArchive
    <3>8. archived \in Nat /\ ended' = ended /\ (banLost' <=> banLost)
      BY <1>3, <2>1 DEF BanTypes
    <3> QED BY <2>1, <3>1, <3>3, <3>6, <3>7, <3>8 DEF Kept
  <2>4. (ended + (IF ban["account"] = "running" THEN 1 ELSE 0) <= bans)'
    BY <1>3, <2>1 DEF BansInv
  <2> QED BY <1>3, <2>2, <2>3, <2>4 DEF BansInv
<1>5. CASE j.op = "erase"
  <2>0. /\ ban' = [ban EXCEPT ![j.of] = "none"] /\ archived' = archived
        /\ banLost' = (banLost \/ ban[j.of] = "running")
    BY <1>1, <1>5 DEF En!Job
  <2>1. banLost' \in BOOLEAN /\ (banLost' => banLost \/ ban[j.of] = "running")
    BY Zenon, <2>0
  <2>2. j.of \in En!BanKinds
    BY <1>1 DEF JobRecords
  <2>3. /\ ban' \in [En!BanKinds -> {"none", "running", "expired"}] /\ ban'[j.of] = "none"
        /\ \A k \in En!BanKinds : k # j.of => ban'[k] = ban[k]
        /\ "account" \in En!BanKinds
    BY <2>0, <2>2 DEF BanTypes, En!BanKinds
  <2>4. BanTypes'
    BY <1>2, <1>3, <2>0, <2>1, <2>3 DEF BanTypes
  <2>5. ASSUME ~doubled PROVE Kept'
    <3>1. Kept
      BY <2>5 DEF BansInv
    <3>2. ban[j.of] = "expired" /\ ~banLost'
      BY <1>1, <1>5, <2>1, <3>1 DEF Kept, JobsInOrder
    <3>3. \A i \in 1..Len(jobs') : jobs'[i] # j
      BY <1>1, <1>2, <3>1 DEF Kept, JobsInOrder
    <3>4. JobsInOrder'
      <4>1. \A a, b \in 1..Len(jobs') : jobs'[a] = jobs'[b] => a = b
        BY <1>1, <1>2, <3>1 DEF Kept, JobsInOrder
      <4>2. ASSUME NEW i \in 1..Len(jobs')
            PROVE  /\ jobs'[i].op = "erase" => ban'[jobs'[i].of] = "expired"
                   /\ jobs'[i].op = "archive" =>
                        /\ jobs'[i].of = "account"
                        /\ i + 1 \in 1..Len(jobs') /\ jobs'[i + 1] = EraseOf("account")
        <5>0. jobs'[i] = jobs[i + 1] /\ i + 1 \in 1..Len(jobs)
          BY Zenon, <1>2
        <5>1. jobs'[i] \in JobRecords /\ jobs'[i] = jobs[i + 1] /\ i + 1 \in 1..Len(jobs)
          BY <1>1, <5>0
        <5>2. jobs'[i].op = "erase" => jobs'[i].of # j.of
          BY <1>1, <1>5, <3>3, <5>1 DEF JobRecords
        <5>3. jobs'[i].of \in En!BanKinds
          BY <5>1 DEF JobRecords
        <5> QED BY <1>1, <1>2, <2>3, <3>1, <5>1, <5>2, <5>3 DEF Kept, JobsInOrder
      <4> QED BY <4>1, <4>2 DEF JobsInOrder
    <3>5. CASE j.of = "account"
      <4>1. j = EraseOf("account")
        BY <1>1, <1>5, <3>5 DEF JobRecords, EraseOf
      <4>2. ~Archiving
        <5>1. ASSUME NEW i \in 1..Len(jobs), jobs[i].op = "archive" PROVE FALSE
          <6>1. i + 1 \in 1..Len(jobs) /\ jobs[i + 1] = jobs[1]
            BY <3>1, <4>1, <5>1 DEF Kept, JobsInOrder
          <6>2. i + 1 = 1
            BY <1>1, <3>1, <6>1 DEF Kept, JobsInOrder
          <6> QED BY <6>2
        <5> QED BY <5>1 DEF Archiving
      <4>3. En!Erasing("account")
        BY <1>1, <4>1 DEF En!Erasing, EraseOf
      <4>4. ~ToArchive /\ ~ToArchive'
        BY <2>3, <3>5, <4>2, <4>3 DEF ToArchive
      <4> QED BY <1>3, <2>0, <3>1, <3>2, <3>4, <4>4 DEF Kept
    <3>6. CASE j.of = "ip"
      <4>1. Archiving' <=> Archiving
        <5>1. Archiving' => Archiving
          BY <1>2 DEF Archiving
        <5>2. ASSUME NEW i \in 1..Len(jobs), jobs[i].op = "archive" PROVE Archiving'
          <6>1. i # 1
            BY <1>5, <5>2
          <6>2. i - 1 \in 1..Len(jobs') /\ jobs'[i - 1] = jobs[i]
            BY <1>1, <1>2, <6>1
          <6> QED BY <5>2, <6>2 DEF Archiving
        <5> QED BY <5>1, <5>2 DEF Archiving
      <4>2. En!Erasing("account")' <=> En!Erasing("account")
        BY <1>1, <1>2, <1>5, <3>6 DEF En!Erasing
      <4>3. ban'["account"] = ban["account"]
        BY <2>3, <3>6
      <4>4. ToArchive' <=> ToArchive
        BY <4>1, <4>2, <4>3 DEF ToArchive
      <4> QED BY <1>3, <2>0, <3>1, <3>2, <3>4, <4>4 DEF Kept
    <3> QED BY <2>2, <3>5, <3>6 DEF En!BanKinds
  <2>6. (ended + (IF ban["account"] = "running" THEN 1 ELSE 0) <= bans)'
    BY <1>3, <2>3 DEF BansInv, BanTypes
  <2> QED BY <1>3, <2>4, <2>5, <2>6 DEF BansInv
<1> QED BY <1>1, <1>4, <1>5 DEF JobRecords

LEMMA PlaceKeeps ==
  ASSUME BanTypes, BansInv, NEW k \in En!BanKinds, En!PlaceBan(k)
  PROVE  BanTypes' /\ BansInv'
<1>1. /\ ban[k] = "none" /\ bans < MaxBans /\ bans' = bans + 1
      /\ ban' = [ban EXCEPT ![k] = "running"]
      /\ UNCHANGED <<archived, jobs, ended, banLost, doubled>>
  BY DEF En!PlaceBan
<1>2. /\ ban' \in [En!BanKinds -> {"none", "running", "expired"}]
      /\ ban'[k] = "running" /\ \A l \in En!BanKinds : l # k => ban'[l] = ban[l]
      /\ "account" \in En!BanKinds
  BY <1>1 DEF BanTypes, En!BanKinds
<1>3. BanTypes'
  BY <1>1, <1>2, EntryNumbers DEF BanTypes
<1>4. (ended + (IF ban["account"] = "running" THEN 1 ELSE 0) <= bans)'
  BY <1>1, <1>2 DEF BansInv, BanTypes
<1>5. ASSUME ~doubled PROVE Kept'
  <2>1. Kept /\ jobs \in Seq(JobRecords)
    BY <1>5 DEF BansInv, BanTypes
  <2>2. JobsInOrder'
    <3>0. \A i \in 1..Len(jobs) : jobs[i] \in JobRecords
      BY <2>1
    <3>1. \A i \in 1..Len(jobs) : jobs[i].of \in En!BanKinds
      BY <3>0 DEF JobRecords
    <3> QED BY <1>1, <1>2, <2>1, <3>1 DEF Kept, JobsInOrder
  <2>3. /\ Archiving' <=> Archiving
        /\ En!Erasing("account")' <=> En!Erasing("account")
    BY <1>1 DEF Archiving, En!Erasing
  <2>4. ToArchive' <=> ToArchive
    BY <1>1, <1>2, <2>3 DEF ToArchive
  <2> QED BY <1>1, <2>1, <2>2, <2>4 DEF Kept
<1> QED BY <1>1, <1>3, <1>4, <1>5 DEF BansInv

LEMMA ExpireKeeps ==
  ASSUME BanTypes, BansInv, NEW k \in En!BanKinds, En!Expire(k)
  PROVE  BanTypes' /\ BansInv'
<1>1. /\ ban[k] = "running" /\ ban' = [ban EXCEPT ![k] = "expired"]
      /\ ended' = (IF k = "account" THEN ended + 1 ELSE ended)
      /\ UNCHANGED <<archived, jobs, banLost, doubled, bans>>
  BY DEF En!Expire
<1>2. /\ ban' \in [En!BanKinds -> {"none", "running", "expired"}]
      /\ ban'[k] = "expired" /\ \A l \in En!BanKinds : l # k => ban'[l] = ban[l]
      /\ "account" \in En!BanKinds
  BY <1>1 DEF BanTypes, En!BanKinds
<1>3. ended' \in 0..MaxBans
  BY <1>1, EntryNumbers DEF BanTypes, BansInv
<1>4. BanTypes'
  BY <1>1, <1>2, <1>3 DEF BanTypes
<1>5. (ended + (IF ban["account"] = "running" THEN 1 ELSE 0) <= bans)'
  BY <1>1, <1>2 DEF BansInv, BanTypes
<1>6. ASSUME ~doubled PROVE Kept'
  <2>1. Kept /\ jobs \in Seq(JobRecords) /\ archived \in Nat /\ ended \in Nat
    BY <1>6 DEF BansInv, BanTypes
  <2>2. JobsInOrder'
    <3>0. \A i \in 1..Len(jobs) : jobs[i] \in JobRecords
      BY <2>1
    <3>1. \A i \in 1..Len(jobs) : jobs[i].of \in En!BanKinds
      BY <3>0 DEF JobRecords
    <3> QED BY <1>1, <1>2, <2>1, <3>1 DEF Kept, JobsInOrder
  <2>3. /\ Archiving' <=> Archiving
        /\ En!Erasing("account")' <=> En!Erasing("account")
    BY <1>1 DEF Archiving, En!Erasing
  <2>4. CASE k = "account"
    <3>1. ~En!Erasing("account")
      BY <1>1, <2>1, <2>4 DEF Kept, JobsInOrder, En!Erasing
    <3>2. ~ToArchive /\ ToArchive'
      BY <1>1, <1>2, <2>3, <2>4, <3>1 DEF ToArchive
    <3> QED BY <1>1, <2>1, <2>2, <2>4, <3>2 DEF Kept
  <2>5. CASE k # "account"
    <3>1. ToArchive' <=> ToArchive
      BY <1>2, <2>3, <2>5 DEF ToArchive
    <3> QED BY <1>1, <2>1, <2>2, <2>5, <3>1 DEF Kept
  <2> QED BY <2>4, <2>5
<1> QED BY <1>1, <1>4, <1>5, <1>6 DEF BansInv

LEMMA BansFrame ==
  ASSUME BanTypes, BansInv, UNCHANGED <<ban, archived, jobs, ended, banLost, doubled, bans>>
  PROVE  BanTypes' /\ BansInv'
<1>1. BanTypes'
  BY DEF BanTypes
<1>2. /\ Archiving' <=> Archiving
      /\ En!Erasing("account")' <=> En!Erasing("account")
      /\ JobsInOrder' <=> JobsInOrder
  BY DEF Archiving, En!Erasing, JobsInOrder
<1>3. ToArchive' <=> ToArchive
  BY <1>2 DEF ToArchive
<1>4. BansInv'
  BY <1>2, <1>3 DEF BansInv, Kept
<1> QED BY <1>1, <1>4

-----------------------------------------------------------------------------
(* The types of what is not the bans.                                      *)
TableTypes ==
  /\ gamemaster \in BOOLEAN
  /\ deleted \subseteq Players /\ locked \subseteq Players
  /\ entered \subseteq Players /\ ghosts \subseteq entered
  /\ playersOnline \subseteq Players
  /\ ordinary \subseteq entered /\ wrongly \subseteq entered
  /\ logins \in Seq(Players) /\ banWrites \in 0..MaxWrites

LEMMA TypesAreBoth == En!EntriesTypeOK <=> BanTypes /\ TableTypes
  BY DEF En!EntriesTypeOK, BanTypes, TableTypes, JobRecords

LEMMA LoginKeeps ==
  ASSUME EntriesInv, En!Login
  PROVE  TableTypes' /\ TableInv'
<1> DEFINE c == Head(logins)
           reaches == c \notin entered /\ En!Loaded(c) /\ En!OneOnAccount
           enters == reaches /\ (c \in Immune \/ ~En!IsBanned("account"))
<1>1. TableTypes /\ TableInv
  BY TypesAreBoth DEF EntriesInv
<1>2. /\ logins # <<>> /\ logins' = Tail(logins)
      /\ entered' = (IF enters THEN entered \union {c} ELSE entered)
      /\ playersOnline' = (IF enters THEN playersOnline \union {c} ELSE playersOnline)
      /\ ordinary' = (IF enters /\ ~gamemaster THEN ordinary \union {c} ELSE ordinary)
      /\ wrongly' = (IF enters /\ \/ c \in deleted \union locked
                                  \/ c \notin Immune /\ ban["account"] = "running"
                     THEN wrongly \union {c} ELSE wrongly)
      /\ UNCHANGED <<gamemaster, deleted, locked, banWrites, ghosts>>
  BY DEF En!Login, En!tableVars
<1>3. c \in Players /\ logins' \in Seq(Players)
  BY <1>1, <1>2 DEF TableTypes
<1>4. CASE ~enters
  <2> HIDE DEF enters
  <2> QED BY <1>1, <1>2, <1>3, <1>4 DEF TableTypes, TableInv
<1>5. CASE enters
  <2>1. /\ c \notin entered /\ c \notin deleted \union locked
        /\ ~(c \notin Immune /\ ban["account"] = "running")
        /\ ~gamemaster => entered = {}
    BY <1>5 DEF En!Loaded, En!OneOnAccount, En!IsBanned
  <2> HIDE DEF enters
  <2>2. wrongly' = wrongly
    BY <1>2, <2>1
  <2>3. /\ entered' = entered \union {c} /\ playersOnline' = playersOnline \union {c}
        /\ gamemaster => ordinary' = ordinary
        /\ ~gamemaster => ordinary' = ordinary \union {c}
    BY <1>2, <1>5
  <2> HIDE DEF c
  <2>4. TableTypes'
    BY <1>1, <1>2, <1>3, <2>2, <2>3 DEF TableTypes
  <2>5. \A a, b \in ordinary' : a = b
    BY <1>1, <2>1, <2>3 DEF TableTypes, TableInv
  <2>6. playersOnline' = entered' \ ghosts'
    BY <1>1, <1>2, <2>1, <2>3 DEF TableTypes, TableInv
  <2> QED BY <1>1, <2>2, <2>4, <2>5, <2>6 DEF TableInv
<1> QED BY <1>4, <1>5

LEMMA EntriesStep == EntriesInv /\ [En!EntriesNext]_entriesVars => EntriesInv'
<1> SUFFICES ASSUME EntriesInv, [En!EntriesNext]_entriesVars PROVE EntriesInv'
  OBVIOUS
<1>0. BanTypes /\ BansInv /\ TableTypes /\ TableInv
  BY TypesAreBoth DEF EntriesInv
<1> SUFFICES BanTypes' /\ BansInv' /\ TableTypes' /\ TableInv'
  <2>1. En!EntriesTypeOK' <=> BanTypes' /\ TableTypes'
    BY TypesAreBoth, PTL
  <2> QED BY <2>1 DEF EntriesInv
<1> DEFINE BansStay == UNCHANGED <<ban, archived, jobs, ended, banLost, doubled, bans>>
           TableStays == UNCHANGED <<gamemaster, deleted, locked, banWrites, playersOnline,
                                     entered, ghosts, ordinary, wrongly, logins>>
<1>1. BansStay => BanTypes' /\ BansInv'
  BY <1>0, BansFrame
<1>2. TableStays => TableTypes' /\ TableInv'
  BY <1>0 DEF TableTypes, TableInv
<1> USE EntryNumbers
<1>3. CASE En!Job
  <2>1. TableStays
    BY <1>3 DEF En!Job, En!tableVars, En!gameVars
  <2> QED BY <1>0, <1>2, <1>3, <2>1, JobKeeps
<1>4. CASE En!Login
  <2>1. BansStay \/ En!CheckBan("account")
    <3>1. UNCHANGED En!banVars \/ En!CheckBan("account")
      BY <1>4 DEF En!Login
    <3> QED BY <3>1 DEF En!banVars
  <2>2. "account" \in En!BanKinds
    BY DEF En!BanKinds
  <2> HIDE DEF BansStay
  <2> QED BY <1>0, <1>1, <1>4, <2>1, <2>2, CheckKeeps, LoginKeeps
<1>5. ASSUME NEW k \in En!BanKinds, En!PlaceBan(k) \/ En!Expire(k)
      PROVE  BanTypes' /\ BansInv' /\ TableTypes' /\ TableInv'
  <2>1. TableStays
    BY <1>5 DEF En!PlaceBan, En!Expire, En!tableVars, En!gameVars
  <2> QED BY <1>0, <1>2, <1>5, <2>1, PlaceKeeps, ExpireKeeps
<1>6. ASSUME NEW c \in Players, En!Delete(c) \/ En!Lock(c)
      PROVE  BanTypes' /\ BansInv' /\ TableTypes' /\ TableInv'
  <2>1. BansStay /\ UNCHANGED <<gamemaster, playersOnline, entered, ghosts, ordinary, wrongly,
                                logins>>
    BY <1>6 DEF En!Delete, En!Lock, En!banVars, En!gameVars
  <2>2. /\ banWrites < MaxWrites /\ banWrites' = banWrites + 1
        /\ deleted' \subseteq deleted \union {c} /\ locked' \subseteq locked \union {c}
    BY <1>6 DEF En!Delete, En!Lock, En!Write
  <2>3. TableTypes' /\ TableInv'
    BY <1>0, <2>1, <2>2 DEF TableTypes, TableInv
  <2> QED BY <1>1, <2>1, <2>3
<1>7. ASSUME NEW c \in Players, En!SetAccountType(c)
      PROVE  BanTypes' /\ BansInv' /\ TableTypes' /\ TableInv'
  <2>1. BansStay /\ UNCHANGED <<deleted, locked, playersOnline, entered, ghosts, ordinary,
                                wrongly, logins>>
    BY <1>7 DEF En!SetAccountType, En!banVars, En!gameVars
  <2>2. banWrites < MaxWrites /\ banWrites' = banWrites + 1
    BY <1>7 DEF En!SetAccountType, En!Write
  <2>3. gamemaster' \in BOOLEAN
    BY Zenon, <1>7 DEF En!SetAccountType
  <2>4. TableTypes' /\ TableInv'
    BY <1>0, <2>1, <2>2, <2>3 DEF TableTypes, TableInv
  <2> QED BY <1>1, <2>1, <2>4
<1>8. ASSUME NEW c \in Players, En!RecvFirstMessage(c)
      PROVE  BanTypes' /\ BansInv' /\ TableTypes' /\ TableInv'
  <2>1. En!CheckBan("ip") /\ "ip" \in En!BanKinds
    BY <1>8 DEF En!RecvFirstMessage, En!BanKinds
  <2>2. /\ UNCHANGED <<gamemaster, deleted, locked, banWrites, playersOnline, entered, ghosts,
                       ordinary, wrongly>>
        /\ logins' = logins \/ logins' = Append(logins, c)
    BY <1>8 DEF En!RecvFirstMessage, En!tableVars, En!gameVars
  <2>3. logins' \in Seq(Players)
    BY <1>0, <2>2 DEF TableTypes
  <2>4. TableTypes' /\ TableInv'
    BY <1>0, <2>2, <2>3 DEF TableTypes, TableInv
  <2> QED BY <1>0, <2>1, <2>4, CheckKeeps
<1>9. ASSUME NEW c \in Players, En!Logout(c)
      PROVE  BanTypes' /\ BansInv' /\ TableTypes' /\ TableInv'
  <2>1. BansStay
    BY <1>9 DEF En!Logout, En!banVars
  <2>2. TableTypes' /\ TableInv'
    BY <1>0, <1>9 DEF En!Logout, En!tableVars, TableTypes, TableInv
  <2> QED BY <1>1, <2>1, <2>2
<1>10. ASSUME NEW c \in Players, NEW enabled \in BOOLEAN, En!SetGhostMode(c, enabled)
       PROVE  BanTypes' /\ BansInv' /\ TableTypes' /\ TableInv'
  <2>1. BansStay
    BY <1>10 DEF En!SetGhostMode, En!banVars
  <2>2. TableTypes' /\ TableInv'
    BY <1>0, <1>10 DEF En!SetGhostMode, En!tableVars, TableTypes, TableInv
  <2> QED BY <1>1, <2>1, <2>2
<1>11. CASE UNCHANGED entriesVars
  <2>1. BansStay /\ TableStays
    BY <1>11 DEF entriesVars
  <2> QED BY <1>1, <1>2, <2>1
<1> QED
  BY <1>3, <1>4, <1>5, <1>6, <1>7, <1>8, <1>9, <1>10, <1>11 DEF En!EntriesNext

(* A set of which all members are the same has at most one.                *)
LEMMA OneAtMost ==
  ASSUME NEW S, \A a, b \in S : a = b
  PROVE  Cardinality(S) <= 1
<1>1. CASE S = {}
  BY <1>1, FS_EmptySet
<1>2. CASE S # {}
  <2>1. PICK a \in S : TRUE
    BY <1>2
  <2>2. S = {a}
    BY <2>1
  <2> QED BY <2>2, FS_Singleton
<1> QED BY <1>1, <1>2

LEMMA EntriesInvSuffices == EntriesInv => En!EntriesTypeOK /\ En!EntriesAreSound
<1> SUFFICES ASSUME EntriesInv PROVE En!EntriesTypeOK /\ En!EntriesAreSound
  OBVIOUS
<1>1. En!EntriesTypeOK /\ TableInv /\ BansInv
  BY DEF EntriesInv
<1>2. En!Cardinality(ordinary) = Cardinality(ordinary)
  BY DEF En!Cardinality, Cardinality
<1>3. En!EntryIsLawful
  BY <1>1, <1>2, OneAtMost DEF En!EntryIsLawful, TableInv
<1>4. En!BansAreKept
  BY <1>1 DEF En!BansAreKept, BansInv, Kept, En!EntriesTypeOK
<1> QED BY <1>1, <1>3, <1>4 DEF En!EntriesAreSound

-----------------------------------------------------------------------------
(* The packets of a client.                                                *)
PacketTasks == [op : {"login", "release", "logout", "act"}, of : Pk!Protocols,
                nr : Nat, age : Nat, timed : BOOLEAN]

(* The tasks of a queue: who is released is not connected any more, and    *)
(* the acts come from packets after the l-th, up to the s-th, in order.    *)
QueueOf(q, l, s, o) ==
  /\ q \in Seq(PacketTasks)
  /\ \A i \in 1..Len(q) : q[i].op = "release" => q[i].of \notin o
  /\ \A i \in 1..Len(q) : q[i].op = "act" => l < q[i].nr /\ q[i].nr <= s
  /\ \A i, j \in 1..Len(q) :
       q[i].op = "act" /\ q[j].op = "act" /\ i < j => q[i].nr < q[j].nr

(* The packets before the one of which the task is still to come.          *)
Coming == inParsing.at \in {"player", "health", "task"}
Old == IF Coming THEN sent - 1 ELSE sent
Asked == IF inParsing.at = "task" /\ inParsing.kind # "logout" THEN 1 ELSE 0

PacketsInv ==
  /\ Pk!TypeOK /\ Pk!PlayerIsThere
  /\ inParsing # Pk!Quiet => inParsing.of \in openConns
  /\ QueueOf(gameTasks, last, Old, openConns)
  /\ last <= Old /\ Pk!Acts(gameTasks) \in 0..Old
  /\ ~disorder /\ ~tooLate
  /\ lifeState = "dead" => grace >= Pk!Acts(gameTasks) + Asked

LEMMA PacketNumbers ==
  /\ Expiration \in Nat /\ MaxPackets \in Nat /\ MaxTicks \in Nat
  /\ PacketKinds \subseteq Pk!Timed \union Pk!Untimed \union {"logout", "leave"}
  BY EntriesAssumption

(* How many acts there are in a queue.                                     *)
Acting(q) == {i \in 1..Len(q) : q[i].op = "act"}
LEMMA ActsCounted ==
  ASSUME NEW q \in Seq(PacketTasks)
  PROVE  /\ Pk!Acts(q) = Cardinality(Acting(q)) /\ IsFiniteSet(Acting(q))
         /\ Pk!Acts(q) \in Nat
<1>1. IsFiniteSet(1..Len(q))
  BY FS_Interval
<1>2. IsFiniteSet(Acting(q))
  BY <1>1, FS_Subset DEF Acting
<1>3. Pk!Acts(q) = Cardinality(Acting(q))
  BY DEF Pk!Acts, Pk!IsAct, Acting, Pk!Cardinality, Cardinality
<1> QED BY <1>2, <1>3, FS_CardinalityType

LEMMA ActAdded ==
  ASSUME NEW q \in Seq(PacketTasks), NEW t \in PacketTasks
  PROVE  Pk!Acts(Append(q, t)) = Pk!Acts(q) + (IF t.op = "act" THEN 1 ELSE 0)
<1>1. /\ Append(q, t) \in Seq(PacketTasks) /\ Len(Append(q, t)) = Len(q) + 1
      /\ \A i \in 1..Len(q) : Append(q, t)[i] = q[i]
      /\ Append(q, t)[Len(q) + 1] = t /\ Len(q) \in Nat
  OBVIOUS
<1>2. Acting(Append(q, t)) = (IF t.op = "act" THEN Acting(q) \union {Len(q) + 1} ELSE Acting(q))
  BY <1>1 DEF Acting
<1>3. Len(q) + 1 \notin Acting(q)
  BY <1>1 DEF Acting
<1>4. /\ IsFiniteSet(Acting(q)) /\ Pk!Acts(q) = Cardinality(Acting(q)) /\ Pk!Acts(q) \in Nat
      /\ Pk!Acts(Append(q, t)) = Cardinality(Acting(Append(q, t)))
  BY <1>1, ActsCounted
<1>5. Cardinality(Acting(q) \union {Len(q) + 1}) = Cardinality(Acting(q)) + 1
  BY <1>3, <1>4, FS_AddElement
<1> QED BY <1>2, <1>4, <1>5

LEMMA ActTaken ==
  ASSUME NEW q \in Seq(PacketTasks), q # <<>>
  PROVE  Pk!Acts(q) = Pk!Acts(Tail(q)) + (IF Head(q).op = "act" THEN 1 ELSE 0)
<1>1. /\ Tail(q) \in Seq(PacketTasks) /\ Len(Tail(q)) = Len(q) - 1 /\ Len(q) \in Nat \ {0}
      /\ Head(q) = q[1] /\ \A i \in 1..Len(Tail(q)) : Tail(q)[i] = q[i + 1]
  OBVIOUS
<1> DEFINE R == Acting(q) \ {1}
           f == [i \in Acting(Tail(q)) |-> i + 1]
<1>2. f \in Bijection(Acting(Tail(q)), R)
  <2>1. f \in [Acting(Tail(q)) -> R]
    BY <1>1 DEF Acting
  <2>2. \A i, j \in Acting(Tail(q)) : f[i] = f[j] => i = j
    BY <1>1 DEF Acting
  <2>3. ASSUME NEW r \in R PROVE \E i \in Acting(Tail(q)) : f[i] = r
    <3>1. r - 1 \in Acting(Tail(q)) /\ (r - 1) + 1 = r
      BY <1>1 DEF Acting
    <3> QED BY <3>1
  <2> HIDE DEF f, R
  <2> QED BY <2>1, <2>2, <2>3 DEF Bijection, Injection, Surjection, IsInjective
<1>3. /\ IsFiniteSet(Acting(q)) /\ Pk!Acts(q) = Cardinality(Acting(q))
      /\ IsFiniteSet(Acting(Tail(q))) /\ Pk!Acts(Tail(q)) = Cardinality(Acting(Tail(q)))
      /\ Pk!Acts(q) \in Nat /\ Pk!Acts(Tail(q)) \in Nat
  BY <1>1, ActsCounted
<1>4. Cardinality(R) = Cardinality(Acting(Tail(q)))
  <2> HIDE DEF f, R
  <2>1. ExistsBijection(Acting(Tail(q)), R)
    BY <1>2 DEF ExistsBijection
  <2> QED BY <1>3, <2>1, FS_Bijection
<1>5. Cardinality(R) = (IF 1 \in Acting(q) THEN Cardinality(Acting(q)) - 1 ELSE Cardinality(Acting(q)))
  BY <1>3, FS_RemoveElement
<1>6. 1 \in Acting(q) <=> Head(q).op = "act"
  BY <1>1 DEF Acting
<1> HIDE DEF R, f
<1> QED BY <1>3, <1>4, <1>5, <1>6

LEMMA QueueAppend ==
  ASSUME NEW q, NEW l \in Nat, NEW s \in Nat, NEW o, QueueOf(q, l, s, o), NEW t \in PacketTasks,
         t.op = "release" => t.of \notin o,
         t.op = "act" => /\ l < t.nr /\ t.nr <= s
                         /\ \A i \in 1..Len(q) : q[i].op = "act" => q[i].nr < t.nr
  PROVE  QueueOf(Append(q, t), l, s, o)
<1>1. q \in Seq(PacketTasks)
  BY DEF QueueOf
<1>2. /\ Append(q, t) \in Seq(PacketTasks) /\ Len(Append(q, t)) = Len(q) + 1
      /\ \A i \in 1..Len(q) : Append(q, t)[i] = q[i]
      /\ Append(q, t)[Len(q) + 1] = t /\ Len(q) \in Nat
  BY <1>1
<1> QED BY <1>2 DEF QueueOf

LEMMA QueueTail ==
  ASSUME NEW q, NEW l \in Nat, NEW s \in Nat, NEW o, QueueOf(q, l, s, o), q # <<>>
  PROVE  /\ QueueOf(Tail(q), l, s, o) /\ Head(q) \in PacketTasks
         /\ Head(q).op = "release" => Head(q).of \notin o
         /\ Head(q).op = "act" =>
              /\ l < Head(q).nr /\ Head(q).nr <= s
              /\ QueueOf(Tail(q), Head(q).nr, s, o)
<1>1. q \in Seq(PacketTasks)
  BY DEF QueueOf
<1>2. /\ Tail(q) \in Seq(PacketTasks) /\ Len(Tail(q)) = Len(q) - 1 /\ Len(q) \in Nat \ {0}
      /\ Head(q) = q[1] /\ Head(q) \in PacketTasks
      /\ \A i \in 1..Len(Tail(q)) : i + 1 \in 1..Len(q) /\ Tail(q)[i] = q[i + 1]
  BY <1>1
<1>3. QueueOf(Tail(q), l, s, o)
  BY <1>2 DEF QueueOf
<1>4. Head(q).op = "act" => l < Head(q).nr /\ Head(q).nr <= s
  BY <1>2 DEF QueueOf
<1>5. Head(q).op = "act" => QueueOf(Tail(q), Head(q).nr, s, o)
  BY <1>2, <1>3 DEF QueueOf
<1>6. Head(q).op = "release" => Head(q).of \notin o
  BY <1>2 DEF QueueOf
<1> QED BY <1>2, <1>3, <1>4, <1>5, <1>6

LEMMA QueueWeaker ==
  ASSUME NEW q, NEW l \in Nat, NEW s \in Int, NEW o, QueueOf(q, l, s, o),
         NEW t \in Int, s <= t, NEW r \in SUBSET o
  PROVE  QueueOf(q, l, t, r)
<1>1. \A i \in 1..Len(q) : q[i] \in PacketTasks
  BY DEF QueueOf
<1>2. \A i \in 1..Len(q) : q[i].nr \in Nat
  BY <1>1 DEF PacketTasks
<1> QED BY <1>2 DEF QueueOf

(* A connection is closed, if it is open, and released.                    *)
LEMMA ClosedKeeps ==
  ASSUME NEW q, NEW l \in Nat, NEW s \in Nat, QueueOf(q, l, s, openConns), NEW p \in Pk!Protocols,
         Pk!Closed(p, q)
  PROVE  /\ openConns' = openConns \ {p}
         /\ QueueOf(gameTasks', l, s, openConns') /\ Pk!Acts(gameTasks') = Pk!Acts(q)
<1> DEFINE t == Pk!Job("release", p)
<1>1. t \in PacketTasks /\ t.op = "release" /\ t.of = p
  BY Zenon DEF Pk!Job, PacketTasks
<1>2. openConns' = openConns \ {p}
  BY DEF Pk!Closed
<1>3. q \in Seq(PacketTasks)
  BY DEF QueueOf
<1>4. QueueOf(q, l, s, openConns')
  BY <1>2, QueueWeaker
<1>5. CASE p \in openConns
  <2>1. gameTasks' = Append(q, t)
    BY <1>5 DEF Pk!Closed
  <2> HIDE DEF t
  <2>2. QueueOf(gameTasks', l, s, openConns')
    BY <1>1, <1>2, <1>4, <2>1, QueueAppend
  <2>3. Pk!Acts(gameTasks') = Pk!Acts(q) + 0 /\ Pk!Acts(q) \in Nat
    BY <1>1, <1>3, <2>1, ActAdded, ActsCounted
  <2> QED BY <1>2, <2>2, <2>3
<1>6. CASE p \notin openConns
  BY <1>2, <1>4, <1>6 DEF Pk!Closed
<1> QED BY <1>5, <1>6

(* What is known in each state, ...                                        *)
LEMMA PacketFacts ==
  ASSUME PacketsInv
  PROVE  /\ Old \in Nat /\ last \in Nat /\ sent \in Nat /\ Old <= sent
         /\ Pk!Acts(gameTasks) \in Nat /\ gameTasks \in Seq(PacketTasks)
         /\ Asked \in {0, 1}
<1>1. last \in Nat /\ sent \in Nat
  BY PacketNumbers DEF PacketsInv, Pk!TypeOK
<1>2. Old \in Nat
  <2>1. last <= Old /\ Old \in Int
    BY <1>1 DEF PacketsInv, Old
  <2> QED BY <1>1, <2>1
<1>3. gameTasks \in Seq(PacketTasks)
  BY DEF PacketsInv, QueueOf
<1> QED BY <1>1, <1>2, <1>3, ActsCounted DEF Old, Asked

(* ... and of what is parsed.                                              *)
LEMMA PacketParsed ==
  ASSUME PacketsInv, inParsing.at \in {"player", "health", "task", "end"}
  PROVE  /\ inParsing \in [of : Pk!Protocols, at : {"player", "health", "task", "end"},
                            kind : PacketKinds]
         /\ inParsing # Pk!Quiet /\ inParsing.of \in openConns
<1>1. inParsing # Pk!Quiet
  BY DEF Pk!Quiet, Pk!None
<1> QED BY <1>1 DEF PacketsInv, Pk!TypeOK

LEMMA NothingComes ==
  ASSUME inParsing = Pk!Quiet
  PROVE  ~Coming /\ Asked = 0 /\ inParsing.at = "none" /\ inParsing.of = "none"
  BY DEF Coming, Asked, Pk!Quiet, Pk!None
LEMMA NothingComesThen ==
  ASSUME inParsing' = Pk!Quiet
  PROVE  ~Coming' /\ Asked' = 0 /\ inParsing'.at = "none"
  BY DEF Coming, Asked, Pk!Quiet, Pk!None

LEMMA PacketsBegin == Pk!Init => PacketsInv
<1> SUFFICES ASSUME Pk!Init PROVE PacketsInv
  OBVIOUS
<1> DEFINE t == [op |-> "login", of |-> "second", nr |-> 0, age |-> 0, timed |-> FALSE]
<1>1. /\ connecting \in BOOLEAN /\ shut \in BOOLEAN /\ disorder \in BOOLEAN
      /\ tooLate \in BOOLEAN /\ ~disorder /\ ~tooLate
  BY Zenon DEF Pk!Init
<1>2. t \in PacketTasks /\ t.op = "login" /\ gameTasks = <<t>>
  BY DEF PacketTasks, Pk!Init, Pk!Protocols
<1>3. inParsing = Pk!Quiet /\ sent = 0 /\ last = 0 /\ lifeState = "alive"
  BY DEF Pk!Init
<1>4. ~Coming /\ inParsing.at = "none"
  BY <1>3, NothingComes
<1>5. Pk!TypeOK
  BY <1>1, PacketNumbers DEF Pk!Init, Pk!TypeOK, Pk!Protocols
<1> HIDE DEF t
<1>6. QueueOf(gameTasks, 0, 0, openConns)
  BY <1>2 DEF QueueOf
<1>7. Pk!Acts(gameTasks) = 0
  <2>1. gameTasks = Append(<< >>, t) /\ << >> \in Seq(PacketTasks)
    BY <1>2
  <2>2. Acting(<< >>) = {}
    BY DEF Acting
  <2>3. Pk!Acts(<< >>) = 0
    BY <2>1, <2>2, ActsCounted, FS_EmptySet
  <2>4. Pk!Acts(Append(<< >>, t)) = Pk!Acts(<< >>) + (IF t.op = "act" THEN 1 ELSE 0)
    BY <1>2, <2>1, ActAdded
  <2>5. t.op # "act"
    BY <1>2
  <2> QED BY <2>1, <2>3, <2>4, <2>5
<1> QED BY <1>1, <1>3, <1>4, <1>5, <1>6, <1>7 DEF PacketsInv, Pk!PlayerIsThere, Old

(* A packet comes.                                                         *)
LEMMA ReceiveKeeps ==
  ASSUME PacketsInv, NEW p \in Pk!Protocols, NEW kind \in PacketKinds, Pk!Receive(p, kind)
  PROVE  PacketsInv'
<1> USE PacketNumbers
<1>1. /\ inParsing = Pk!Quiet /\ p \in openConns /\ sent < MaxPackets /\ sent' = sent + 1
      /\ inParsing' = [of |-> p, at |-> "player", kind |-> kind]
      /\ UNCHANGED <<openConns, acceptPackets, debugAssertSent, holds, client, connecting,
                     lifeState, shut, gameTasks, ticks, last, disorder, tooLate, grace>>
  BY DEF Pk!Receive, Pk!playerVars, Pk!historyVars
<1>2. /\ inParsing' \in [of : Pk!Protocols, at : {"player", "health", "task", "end"},
                          kind : PacketKinds]
      /\ inParsing'.of = p /\ inParsing'.at = "player"
  BY <1>1
<1>3. Old = sent /\ Old' = sent /\ Asked = 0 /\ Asked' = 0 /\ sent \in Nat
  BY <1>1, <1>2, NothingComes, PacketFacts DEF Old, Coming, Asked
<1>4. Pk!TypeOK'
  BY <1>1, <1>2, <1>3 DEF PacketsInv, Pk!TypeOK
<1>5. (disorder' <=> disorder) /\ (tooLate' <=> tooLate)
  BY <1>1
<1>6. QueueOf(gameTasks, last, Old, openConns)' /\ Pk!Acts(gameTasks)' = Pk!Acts(gameTasks)
  BY <1>1, <1>3 DEF PacketsInv, QueueOf
<1> QED BY <1>1, <1>2, <1>3, <1>4, <1>5, <1>6 DEF PacketsInv, Pk!PlayerIsThere

(* The packet is done with: its connection may be closed.                  *)
LEMMA QuietKeeps ==
  ASSUME PacketsInv, inParsing' = Pk!Quiet,
         \/ UNCHANGED <<openConns, gameTasks>>
         \/ \E p \in Pk!Protocols : Pk!Closed(p, gameTasks),
         UNCHANGED <<acceptPackets, debugAssertSent, sent, holds, client, connecting, lifeState,
                     shut, ticks, last, disorder, tooLate, grace>>
  PROVE  PacketsInv'
<1>1. ~Coming' /\ Asked' = 0 /\ inParsing'.at = "none"
  BY NothingComesThen
<1>2. Old' = sent /\ Old <= sent /\ Old \in Nat /\ sent \in Nat /\ last \in Nat
      /\ Asked \in {0, 1} /\ Pk!Acts(gameTasks) \in Nat
  BY <1>1, PacketFacts DEF Old
<1>3. /\ openConns' \subseteq openConns /\ QueueOf(gameTasks', last, Old, openConns')
      /\ Pk!Acts(gameTasks') = Pk!Acts(gameTasks)
  BY <1>2, ClosedKeeps DEF PacketsInv
<1>4. QueueOf(gameTasks', last, sent, openConns')
  BY <1>2, <1>3, QueueWeaker
<1>5. Pk!TypeOK'
  BY <1>3 DEF PacketsInv, Pk!TypeOK
<1>6. (disorder' <=> disorder) /\ (tooLate' <=> tooLate)
  OBVIOUS
<1>7. QueueOf(gameTasks, last, Old, openConns)' /\ Pk!Acts(gameTasks)' = Pk!Acts(gameTasks)
  BY <1>2, <1>3, <1>4
<1>8. last' <= Old' /\ Pk!Acts(gameTasks)' \in 0..Old'
  BY <1>2, <1>7 DEF PacketsInv
<1>9. (lifeState = "dead" => grace >= Pk!Acts(gameTasks) + Asked)'
  <2>1. lifeState = "dead" => grace >= Pk!Acts(gameTasks) + Asked /\ grace \in Nat
    BY DEF PacketsInv, Pk!TypeOK
  <2> QED BY <1>1, <1>2, <1>7, <2>1
<1> QED BY <1>1, <1>5, <1>6, <1>7, <1>8, <1>9 DEF PacketsInv, Pk!PlayerIsThere

(* The thread goes on, and adds a task at most.                            *)
LEMMA GoKeeps ==
  ASSUME PacketsInv, inParsing.at \in {"player", "health", "task", "end"},
         NEW at \in {"player", "health", "task", "end"}, Pk!Go(at),
         at = "health" => inParsing.at = "player" /\ inParsing.of \in holds,
         at = "task" => /\ inParsing.at = "health"
                        /\ lifeState = "alive" \/ inParsing.kind = "logout",
         at # "player",
         at = "end" => inParsing.at = "task",
         \/ gameTasks' = gameTasks
         \/ at = "end" /\ \E t \in PacketTasks :
               /\ gameTasks' = Append(gameTasks, t) /\ t.op \in {"logout", "act"}
               /\ t.op = "act" => t.nr = sent /\ inParsing.kind # "logout",
         debugAssertSent' \subseteq Pk!Protocols,
         UNCHANGED <<openConns, acceptPackets, sent, holds, client, connecting, lifeState,
                     shut, ticks, last, disorder, tooLate, grace>>
  PROVE  PacketsInv'
<1>1. /\ inParsing \in [of : Pk!Protocols, at : {"player", "health", "task", "end"},
                         kind : PacketKinds]
      /\ inParsing # Pk!Quiet /\ inParsing.of \in openConns
  BY PacketParsed
<1>2. /\ inParsing' \in [of : Pk!Protocols, at : {"player", "health", "task", "end"},
                          kind : PacketKinds]
      /\ inParsing'.of = inParsing.of /\ inParsing'.at = at /\ inParsing'.kind = inParsing.kind
  BY <1>1 DEF Pk!Go
<1>3. /\ Coming /\ (Coming' <=> at # "end") /\ Old = sent - 1
      /\ Old' = (IF at = "end" THEN sent ELSE sent - 1)
      /\ Asked' = (IF at = "task" /\ inParsing.kind # "logout" THEN 1 ELSE 0)
      /\ Asked = (IF inParsing.at = "task" /\ inParsing.kind # "logout" THEN 1 ELSE 0)
  BY <1>2 DEF Coming, Old, Asked
<1>4. Old \in Nat /\ sent \in Nat /\ last \in Nat /\ Pk!Acts(gameTasks) \in 0..Old
      /\ gameTasks \in Seq(PacketTasks) /\ QueueOf(gameTasks, last, Old, openConns) /\ last <= Old
  BY PacketFacts DEF PacketsInv
<1>5. QueueOf(gameTasks, last, sent, openConns)
  BY <1>3, <1>4, QueueWeaker
<1>6. /\ QueueOf(gameTasks', last, Old', openConns)
      /\ \/ Pk!Acts(gameTasks') = Pk!Acts(gameTasks)
         \/ /\ at = "end" /\ inParsing.kind # "logout"
            /\ Pk!Acts(gameTasks') = Pk!Acts(gameTasks) + 1
  <2>1. CASE gameTasks' = gameTasks
    BY <1>3, <1>4, <1>5, <2>1
  <2>2. ASSUME at = "end", NEW t \in PacketTasks, gameTasks' = Append(gameTasks, t),
               t.op \in {"logout", "act"}, t.op = "act" => t.nr = sent /\ inParsing.kind # "logout"
        PROVE  /\ QueueOf(gameTasks', last, sent, openConns)
               /\ \/ Pk!Acts(gameTasks') = Pk!Acts(gameTasks)
                  \/ /\ inParsing.kind # "logout"
                     /\ Pk!Acts(gameTasks') = Pk!Acts(gameTasks) + 1
    <3>1. t.op = "act" => /\ last < t.nr /\ t.nr <= sent
                          /\ \A i \in 1..Len(gameTasks) :
                               gameTasks[i].op = "act" => gameTasks[i].nr < t.nr
      <4>1. \A i \in 1..Len(gameTasks) : gameTasks[i] \in PacketTasks
        BY <1>4
      <4>2. \A i \in 1..Len(gameTasks) : gameTasks[i].nr \in Nat
        BY <4>1 DEF PacketTasks
      <4>3. \A i \in 1..Len(gameTasks) : gameTasks[i].op = "act" => gameTasks[i].nr <= Old
        BY <1>4 DEF QueueOf
      <4> QED BY <1>3, <1>4, <2>2, <4>2, <4>3
    <3>2. QueueOf(gameTasks', last, sent, openConns)
      BY <1>4, <1>5, <2>2, <3>1, QueueAppend
    <3> QED BY <1>4, <2>2, <3>2, ActAdded
  <2> QED BY <1>3, <2>1, <2>2
<1>7. Pk!TypeOK'
  BY <1>2 DEF PacketsInv, Pk!TypeOK
<1>8. (disorder' <=> disorder) /\ (tooLate' <=> tooLate)
  OBVIOUS
<1>9. QueueOf(gameTasks, last, Old, openConns)' /\ Pk!Acts(gameTasks)' = Pk!Acts(gameTasks')
  BY <1>6
<1>10. Pk!Acts(gameTasks)' \in 0..Old'
  BY <1>3, <1>4, <1>6, <1>9
<1>11. (lifeState = "dead" => grace >= Pk!Acts(gameTasks) + Asked)'
  <2>1. lifeState = "dead" => grace >= Pk!Acts(gameTasks) + Asked /\ grace \in Nat
    BY DEF PacketsInv, Pk!TypeOK
  <2> QED BY <1>3, <1>4, <1>6, <1>9, <2>1
<1>12. Pk!PlayerIsThere' 
  BY <1>2 DEF PacketsInv, Pk!PlayerIsThere
<1>13. last' <= Old'
  BY <1>3, <1>4
<1> QED BY <1>1, <1>2, <1>7, <1>8, <1>9, <1>10, <1>11, <1>12, <1>13 DEF PacketsInv

LEMMA ReadKeeps ==
  ASSUME PacketsInv, Pk!ReadPlayer \/ Pk!ReadHealth
  PROVE  PacketsInv'
<1>1. inParsing.at \in {"player", "health", "task", "end"}
  BY DEF Pk!ReadPlayer, Pk!ReadHealth
<1>2. inParsing.of \in Pk!Protocols
  BY <1>1, PacketParsed
<1>3. UNCHANGED <<acceptPackets, debugAssertSent, sent, holds, client, connecting, lifeState,
                  shut, ticks, last, disorder, tooLate, grace>>
  BY DEF Pk!ReadPlayer, Pk!ReadHealth, Pk!playerVars, Pk!historyVars
<1>4. \/ /\ inParsing' = Pk!Quiet
         /\ UNCHANGED <<openConns, gameTasks>> \/ Pk!Closed(inParsing.of, gameTasks)
      \/ /\ inParsing.at = "player" /\ inParsing.of \in holds /\ Pk!Go("health")
         /\ UNCHANGED <<openConns, gameTasks>>
      \/ /\ inParsing.at = "health" /\ (lifeState = "alive" \/ inParsing.kind = "logout")
         /\ Pk!Go("task") /\ UNCHANGED <<openConns, gameTasks>>
  BY Zenon DEF Pk!ReadPlayer, Pk!ReadHealth
<1>5. debugAssertSent' \subseteq Pk!Protocols
  BY <1>3 DEF PacketsInv, Pk!TypeOK
<1> QED BY <1>1, <1>2, <1>3, <1>4, <1>5, QuietKeeps, GoKeeps

LEMMA AddTaskKeeps ==
  ASSUME PacketsInv, NEW denied \in BOOLEAN, Pk!AddTask(denied)
  PROVE  PacketsInv'
<1> DEFINE p == inParsing.of
           task == IF inParsing.kind = "logout" THEN Pk!Job("logout", p) ELSE Pk!Act(inParsing.kind, p)
<1>1. inParsing.at = "task" /\ Pk!Go("end")
  BY DEF Pk!AddTask
<1>2. p \in Pk!Protocols
  BY <1>1, PacketParsed
<1>3. sent \in Nat
  BY PacketFacts
<1>4. task \in PacketTasks /\ task.op \in {"logout", "act"}
      /\ (task.op = "act" => task.nr = sent /\ inParsing.kind # "logout")
  <2>1. CASE inParsing.kind = "logout"
    BY <1>2, <2>1 DEF Pk!Job, PacketTasks
  <2>2. CASE inParsing.kind # "logout"
    <3>1. (inParsing.kind \in Pk!Timed) \in BOOLEAN
      OBVIOUS
    <3>2. task = [op |-> "act", of |-> p, nr |-> sent, age |-> 0,
                  timed |-> inParsing.kind \in Pk!Timed]
      BY <2>2 DEF Pk!Act
    <3> HIDE DEF p, task
    <3> QED BY <1>2, <1>3, <2>2, <3>1, <3>2 DEF PacketTasks
  <2> QED BY <2>1, <2>2
<1>5. gameTasks' = gameTasks \/ gameTasks' = Append(gameTasks, task)
  BY DEF Pk!AddTask
<1>6. debugAssertSent' \subseteq Pk!Protocols
  BY <1>2 DEF Pk!AddTask, PacketsInv, Pk!TypeOK
<1>7. UNCHANGED <<openConns, acceptPackets, sent, holds, client, connecting, lifeState,
                  shut, ticks, last, disorder, tooLate, grace>>
  BY DEF Pk!AddTask, Pk!playerVars, Pk!historyVars
<1> HIDE DEF task
<1> QED BY <1>1, <1>4, <1>5, <1>6, <1>7, GoKeeps

LEMMA EndKeeps ==
  ASSUME PacketsInv,
         \/ \E overrun \in BOOLEAN : Pk!EndOfPacket(overrun)
         \/ \E p \in Pk!Protocols : Pk!Break(p)
  PROVE  PacketsInv'
<1>1. UNCHANGED <<acceptPackets, debugAssertSent, sent, holds, client, connecting, lifeState,
                  shut, ticks, last, disorder, tooLate, grace>>
  BY DEF Pk!EndOfPacket, Pk!Break, Pk!playerVars, Pk!historyVars
<1>2. inParsing' = Pk!Quiet
  BY DEF Pk!EndOfPacket, Pk!Break
<1>3. \/ UNCHANGED <<openConns, gameTasks>>
      \/ \E p \in Pk!Protocols : Pk!Closed(p, gameTasks)
  <2>1. ASSUME NEW overrun \in BOOLEAN, Pk!EndOfPacket(overrun)
        PROVE  UNCHANGED <<openConns, gameTasks>>
               \/ \E p \in Pk!Protocols : Pk!Closed(p, gameTasks)
    <3>1. inParsing.of \in Pk!Protocols
      BY <2>1, PacketParsed DEF Pk!EndOfPacket
    <3> QED BY Zenon, <2>1, <3>1 DEF Pk!EndOfPacket
  <2> QED BY <2>1 DEF Pk!Break
<1> QED BY <1>1, <1>2, <1>3, QuietKeeps

-----------------------------------------------------------------------------
(* The dispatcher takes a task: what it does to the rest, ...              *)
LEMMA TaskTaken ==
  ASSUME PacketsInv, gameTasks # <<>>
  PROVE  /\ Head(gameTasks) \in PacketTasks /\ Head(gameTasks).of \in Pk!Protocols
         /\ QueueOf(Tail(gameTasks), last, Old, openConns) /\ Tail(gameTasks) \in Seq(PacketTasks)
         /\ Head(gameTasks).op = "release" => Head(gameTasks).of \notin openConns
         /\ Head(gameTasks).op = "act" =>
              /\ last < Head(gameTasks).nr /\ Head(gameTasks).nr <= Old
              /\ QueueOf(Tail(gameTasks), Head(gameTasks).nr, Old, openConns)
              /\ Pk!Acts(gameTasks) = Pk!Acts(Tail(gameTasks)) + 1
         /\ Head(gameTasks).op # "act" => Pk!Acts(gameTasks) = Pk!Acts(Tail(gameTasks))
         /\ Pk!Acts(Tail(gameTasks)) \in Nat
<1>1. Old \in Nat /\ last \in Nat /\ gameTasks \in Seq(PacketTasks)
      /\ QueueOf(gameTasks, last, Old, openConns)
  BY PacketFacts DEF PacketsInv
<1>2. Tail(gameTasks) \in Seq(PacketTasks)
  BY <1>1
<1>3. Pk!Acts(Tail(gameTasks)) \in Nat
  BY <1>2, ActsCounted
<1>4. Head(gameTasks) \in PacketTasks
  BY <1>1
<1>5. Head(gameTasks).of \in Pk!Protocols
  BY <1>4 DEF PacketTasks
<1> QED BY <1>1, <1>2, <1>3, <1>4, <1>5, QueueTail, ActTaken

(* ... and what is left to show where it acts on nothing that was parsed.  *)
LEMMA TaskKeeps ==
  ASSUME PacketsInv,
         openConns' \subseteq openConns,
         inParsing # Pk!Quiet => inParsing.of \in openConns',
         QueueOf(gameTasks', last, Old, openConns'),
         Pk!Acts(gameTasks') = Pk!Acts(gameTasks),
         Pk!TypeOK', Pk!PlayerIsThere',
         lifeState' = "dead" => lifeState = "dead" /\ grace' = grace,
         UNCHANGED <<inParsing, sent, last, disorder, tooLate>>
  PROVE  PacketsInv'
<1>1. Old' = Old /\ Asked' = Asked /\ Coming' = Coming
  BY DEF Old, Asked, Coming
<1>2. (disorder' <=> disorder) /\ (tooLate' <=> tooLate)
  OBVIOUS
<1>3. Pk!Acts(gameTasks)' = Pk!Acts(gameTasks')
      /\ QueueOf(gameTasks, last, Old, openConns)' = QueueOf(gameTasks', last', Old', openConns')
  OBVIOUS
<1> QED BY <1>1, <1>2, <1>3 DEF PacketsInv

LEMMA PerformKeeps ==
  ASSUME PacketsInv, Pk!Perform
  PROVE  PacketsInv'
<1> DEFINE t == Head(gameTasks)
<1>1. /\ gameTasks # <<>> /\ t.op = "act" /\ gameTasks' = Tail(gameTasks)
      /\ UNCHANGED <<openConns, inParsing, acceptPackets, debugAssertSent, sent, holds, client,
                     connecting, lifeState, shut, ticks>>
      /\ grace' = (IF lifeState = "dead" THEN grace - 1 ELSE grace)
  BY DEF Pk!Perform, Pk!Head1, Pk!Done, Pk!Alive, Pk!netVars, Pk!playerVars
<1>2. /\ last < t.nr /\ t.nr <= Old /\ QueueOf(Tail(gameTasks), t.nr, Old, openConns)
      /\ QueueOf(Tail(gameTasks), last, Old, openConns) /\ t \in PacketTasks
      /\ Pk!Acts(gameTasks) = Pk!Acts(Tail(gameTasks)) + 1 /\ Pk!Acts(Tail(gameTasks)) \in Nat
  BY <1>1, TaskTaken
<1>3. t.nr \in Nat /\ Old \in Nat /\ last \in Nat /\ sent \in Nat /\ Old <= sent
  BY <1>2, PacketFacts DEF PacketTasks
<1>4. \/ UNCHANGED <<last, disorder, tooLate>>
      \/ /\ ~Pk!HasExpired(t) /\ last' = t.nr /\ disorder' = (disorder \/ t.nr <= last)
         /\ tooLate' = (tooLate \/ (t.timed /\ t.age > Expiration))
  BY Zenon DEF Pk!Perform, Pk!historyVars
<1>5. ~disorder /\ ~tooLate /\ ~(t.nr <= last)
  BY <1>2, <1>3 DEF PacketsInv
<1>6. disorder' \in BOOLEAN /\ tooLate' \in BOOLEAN /\ ~disorder' /\ ~tooLate'
  <2>1. CASE UNCHANGED <<last, disorder, tooLate>>
    <3>1. disorder \in BOOLEAN /\ tooLate \in BOOLEAN
      BY DEF PacketsInv, Pk!TypeOK
    <3> QED BY <1>5, <2>1, <3>1
  <2>2. CASE /\ ~Pk!HasExpired(t) /\ last' = t.nr /\ disorder' = (disorder \/ t.nr <= last)
             /\ tooLate' = (tooLate \/ (t.timed /\ t.age > Expiration))
    BY Zenon, <1>5, <2>2 DEF Pk!HasExpired
  <2> QED BY <1>4, <2>1, <2>2
<1> HIDE DEF t
<1>7. last' = last \/ last' = t.nr
  BY <1>4
<1>8. Old' = Old /\ Asked' = Asked
  BY <1>1 DEF Old, Asked, Coming
<1>9. QueueOf(gameTasks', last', Old, openConns) /\ last' <= Old
  BY <1>1, <1>2, <1>3, <1>7 DEF PacketsInv
<1>10. QueueOf(gameTasks, last, Old, openConns)'
  BY <1>1, <1>8, <1>9
<1>11. Pk!Acts(gameTasks)' \in 0..Old'
  BY <1>1, <1>2, <1>3, <1>8 DEF PacketsInv
<1>12. lifeState = "dead" => grace >= Pk!Acts(gameTasks) + Asked /\ grace \in Nat
  BY DEF PacketsInv, Pk!TypeOK
<1>13. Asked \in {0, 1}
  BY PacketFacts
<1>14. (lifeState = "dead" => grace >= Pk!Acts(gameTasks) + Asked)'
  BY <1>1, <1>2, <1>8, <1>12, <1>13
<1>15. grace' \in 0..(MaxPackets + 1) /\ last' \in 0..MaxPackets
  <2>1. grace \in 0..(MaxPackets + 1) /\ sent \in 0..MaxPackets
    BY DEF PacketsInv, Pk!TypeOK
  <2> QED BY <1>1, <1>2, <1>3, <1>7, <1>12, <1>13, <2>1, PacketNumbers
<1>16. Pk!TypeOK' /\ Pk!PlayerIsThere'
  BY <1>1, <1>6, <1>15 DEF PacketsInv, Pk!TypeOK, Pk!PlayerIsThere
<1> QED BY <1>1, <1>6, <1>8, <1>9, <1>10, <1>11, <1>14, <1>16 DEF PacketsInv

LEMMA LogoutKeeps ==
  ASSUME PacketsInv, NEW denied \in BOOLEAN, Pk!Logout(denied)
  PROVE  PacketsInv'
<1> DEFINE p == Head(gameTasks).of
<1>1. /\ gameTasks # <<>> /\ Head(gameTasks).op = "logout"
      /\ UNCHANGED <<inParsing, acceptPackets, debugAssertSent, sent, holds, client,
                     connecting, shut, ticks, last, disorder, tooLate>>
  BY DEF Pk!Logout, Pk!Head1, Pk!historyVars
<1>2. /\ p \in Pk!Protocols /\ QueueOf(Tail(gameTasks), last, Old, openConns)
      /\ Pk!Acts(gameTasks) = Pk!Acts(Tail(gameTasks))
  BY <1>1, TaskTaken
<1>3. \/ gameTasks' = Tail(gameTasks) /\ UNCHANGED <<openConns, lifeState, grace>>
      \/ /\ ~Pk!Locked(p) /\ Pk!Closed(p, Tail(gameTasks)) /\ lifeState' = "removed" /\ grace' = 0
  BY DEF Pk!Logout, Pk!Done
<1>4. Old \in Nat /\ last \in Nat
  BY PacketFacts
<1>5. /\ QueueOf(gameTasks', last, Old, openConns') /\ Pk!Acts(gameTasks') = Pk!Acts(gameTasks)
      /\ openConns' \subseteq openConns
      /\ inParsing # Pk!Quiet => inParsing.of \in openConns'
      /\ lifeState' = "dead" => lifeState = "dead" /\ grace' = grace
  <2>1. CASE gameTasks' = Tail(gameTasks) /\ UNCHANGED <<openConns, lifeState, grace>>
    BY <1>2, <2>1 DEF PacketsInv
  <2>2. CASE /\ ~Pk!Locked(p) /\ Pk!Closed(p, Tail(gameTasks)) /\ lifeState' = "removed"
             /\ grace' = 0
    <3>1. /\ openConns' = openConns \ {p} /\ QueueOf(gameTasks', last, Old, openConns')
          /\ Pk!Acts(gameTasks') = Pk!Acts(Tail(gameTasks))
      BY <1>2, <1>4, <2>2, ClosedKeeps
    <3> QED BY <1>2, <2>2, <3>1 DEF PacketsInv, Pk!Locked
  <2> QED BY <1>3, <2>1, <2>2
<1>6. Pk!TypeOK' /\ Pk!PlayerIsThere'
  <2>1. lifeState' \in {"alive", "dead", "removed"} /\ grace' \in 0..(MaxPackets + 1)
    BY <1>3, PacketNumbers DEF PacketsInv, Pk!TypeOK
  <2> QED BY <1>1, <1>5, <2>1 DEF PacketsInv, Pk!TypeOK, Pk!PlayerIsThere
<1> QED BY <1>1, <1>5, <1>6, TaskKeeps

LEMMA ReleaseKeeps ==
  ASSUME PacketsInv, Pk!Release
  PROVE  PacketsInv'
<1> DEFINE p == Head(gameTasks).of
<1>1. /\ gameTasks # <<>> /\ Head(gameTasks).op = "release" /\ gameTasks' = Tail(gameTasks)
      /\ UNCHANGED <<openConns, inParsing, acceptPackets, debugAssertSent, sent, connecting,
                     lifeState, shut, ticks, last, disorder, tooLate, grace>>
      /\ client' \in {client, Pk!None} /\ holds \ {p} \subseteq holds' /\ holds' \subseteq holds
  BY DEF Pk!Release, Pk!Head1, Pk!Done, Pk!netVars, Pk!historyVars
<1>2. /\ QueueOf(Tail(gameTasks), last, Old, openConns)
      /\ Pk!Acts(gameTasks) = Pk!Acts(Tail(gameTasks)) /\ p \notin openConns
  BY <1>1, TaskTaken
<1>3. Pk!TypeOK'
  BY <1>1 DEF PacketsInv, Pk!TypeOK
<1>4. Pk!PlayerIsThere'
  <2>1. inParsing.at \in {"health", "task"} => inParsing.of \in openConns
    BY PacketParsed
  <2> QED BY <1>1, <1>2, <2>1 DEF PacketsInv, Pk!PlayerIsThere
<1>5. inParsing # Pk!Quiet => inParsing.of \in openConns'
  BY <1>1 DEF PacketsInv
<1> QED BY <1>1, <1>2, <1>3, <1>4, <1>5, TaskKeeps

LEMMA LoginKeepsPackets ==
  ASSUME PacketsInv, Pk!Login \/ Pk!LoginAnew
  PROVE  PacketsInv'
<1>1. /\ gameTasks # <<>> /\ Head(gameTasks).op = "login"
      /\ UNCHANGED <<inParsing, debugAssertSent, sent, lifeState, shut, ticks, last, disorder,
                     tooLate, grace>>
  BY DEF Pk!Login, Pk!LoginAnew, Pk!Head1, Pk!netVars, Pk!playerVars, Pk!historyVars
<1>2. /\ QueueOf(Tail(gameTasks), last, Old, openConns)
      /\ Pk!Acts(gameTasks) = Pk!Acts(Tail(gameTasks))
  BY <1>1, TaskTaken
<1>3. Old \in Nat /\ last \in Nat /\ connecting \in BOOLEAN
  BY PacketFacts DEF PacketsInv, Pk!TypeOK
<1>4. \/ /\ gameTasks' = Tail(gameTasks) /\ UNCHANGED <<openConns, connecting>>
         /\ Pk!Connected("second") \/ UNCHANGED <<holds, client, acceptPackets>>
      \/ /\ client # Pk!None /\ ~Pk!Locked(client) /\ Pk!Closed(client, Tail(gameTasks))
         /\ connecting' = TRUE /\ UNCHANGED <<holds, client, acceptPackets>>
  BY DEF Pk!Login, Pk!LoginAnew, Pk!Done, Pk!netVars, Pk!playerVars
<1>5. CASE /\ gameTasks' = Tail(gameTasks) /\ UNCHANGED <<openConns, connecting>>
           /\ Pk!Connected("second") \/ UNCHANGED <<holds, client, acceptPackets>>
  <2>1. Pk!TypeOK' /\ Pk!PlayerIsThere'
    BY <1>1, <1>5
    DEF Pk!Connected, PacketsInv, Pk!TypeOK, Pk!PlayerIsThere, Pk!Protocols
  <2>2. inParsing # Pk!Quiet => inParsing.of \in openConns'
    BY <1>5 DEF PacketsInv
  <2> QED BY <1>1, <1>2, <1>5, <2>1, <2>2, TaskKeeps
<1>6. CASE /\ client # Pk!None /\ ~Pk!Locked(client) /\ Pk!Closed(client, Tail(gameTasks))
           /\ connecting' = TRUE /\ UNCHANGED <<holds, client, acceptPackets>>
  <2>1. client \in Pk!Protocols
    BY <1>6 DEF PacketsInv, Pk!TypeOK
  <2>2. connecting' \in BOOLEAN
    BY Zenon, <1>6
  <2>3. /\ openConns' = openConns \ {client} /\ QueueOf(gameTasks', last, Old, openConns')
        /\ Pk!Acts(gameTasks') = Pk!Acts(Tail(gameTasks))
    BY <1>2, <1>3, <1>6, <2>1, ClosedKeeps
  <2>4. Pk!TypeOK' /\ Pk!PlayerIsThere'
    <3>1. openConns' \subseteq Pk!Protocols
      BY <2>3 DEF PacketsInv, Pk!TypeOK
    <3>2. UNCHANGED <<holds, client, acceptPackets>>
      BY <1>6
    <3> QED BY <1>1, <2>2, <3>1, <3>2 DEF PacketsInv, Pk!TypeOK, Pk!PlayerIsThere
  <2>5. inParsing # Pk!Quiet => inParsing.of \in openConns'
    BY <1>6, <2>3 DEF PacketsInv, Pk!Locked
  <2> QED BY <1>1, <1>2, <2>3, <2>4, <2>5, TaskKeeps
<1> QED BY <1>4, <1>5, <1>6

LEMMA ConnectKeeps ==
  ASSUME PacketsInv, NEW expired \in BOOLEAN, Pk!Connect(expired)
  PROVE  PacketsInv'
<1>1. UNCHANGED <<inParsing, debugAssertSent, sent, lifeState, shut, ticks, last, disorder,
                  tooLate, grace>> /\ ~Pk!Locked("second")
  BY DEF Pk!Connect, Pk!historyVars
<1>2. connecting' \in BOOLEAN
  BY Zenon DEF Pk!Connect
<1>3. Old \in Nat /\ last \in Nat /\ "second" \in Pk!Protocols
      /\ QueueOf(gameTasks, last, Old, openConns)
  BY PacketFacts DEF Pk!Protocols, PacketsInv
<1>4. \/ Pk!Closed("second", gameTasks) /\ UNCHANGED <<holds, client, acceptPackets>>
      \/ /\ UNCHANGED <<openConns, gameTasks>>
         /\ Pk!Connected("second") \/ UNCHANGED <<holds, client, acceptPackets>>
  BY Zenon DEF Pk!Connect
<1>5. /\ openConns' \subseteq openConns /\ QueueOf(gameTasks', last, Old, openConns')
      /\ Pk!Acts(gameTasks') = Pk!Acts(gameTasks)
      /\ inParsing # Pk!Quiet => inParsing.of \in openConns'
  <2>1. CASE Pk!Closed("second", gameTasks)
    <3>1. /\ openConns' = openConns \ {"second"} /\ QueueOf(gameTasks', last, Old, openConns')
          /\ Pk!Acts(gameTasks') = Pk!Acts(gameTasks)
      BY <1>3, <2>1, ClosedKeeps
    <3> QED BY <1>1, <3>1 DEF PacketsInv, Pk!Locked
  <2>2. CASE UNCHANGED <<openConns, gameTasks>>
    BY <1>3, <2>2 DEF PacketsInv
  <2> QED BY <1>4, <2>1, <2>2
<1>6. Pk!TypeOK' /\ Pk!PlayerIsThere'
  <2>1. /\ holds \subseteq holds' /\ holds' \subseteq Pk!Protocols
        /\ client' \in Pk!Protocols \union {Pk!None} /\ acceptPackets' \subseteq Pk!Protocols
    BY <1>3, <1>4 DEF Pk!Connected, PacketsInv, Pk!TypeOK
  <2> QED BY <1>1, <1>2, <1>5, <2>1 DEF PacketsInv, Pk!TypeOK, Pk!PlayerIsThere
<1> QED BY <1>1, <1>5, <1>6, TaskKeeps

LEMMA DeathKeeps ==
  ASSUME PacketsInv, Pk!Die \/ Pk!ExecuteDeath
  PROVE  PacketsInv'
<1>1. UNCHANGED <<openConns, inParsing, acceptPackets, debugAssertSent, sent, holds, client,
                  connecting, shut, gameTasks, ticks, last, disorder, tooLate>>
  BY DEF Pk!Die, Pk!ExecuteDeath, Pk!netVars, Pk!historyVars
<1>2. /\ Old \in Nat /\ last \in Nat /\ sent \in 0..MaxPackets /\ Old <= sent
      /\ Asked \in {0, 1} /\ Pk!Acts(gameTasks) \in 0..Old
  BY PacketFacts DEF PacketsInv, Pk!TypeOK
<1>3. Old' = Old /\ Asked' = Asked /\ Pk!Acts(gameTasks)' = Pk!Acts(gameTasks)
      /\ QueueOf(gameTasks, last, Old, openConns)' = QueueOf(gameTasks, last, Old, openConns)
  BY <1>1 DEF Old, Asked, Coming, QueueOf, Pk!Acts, Pk!IsAct
<1>4. /\ lifeState' \in {"dead", "removed"}
      /\ grace' = 0 \/ grace' = Pk!Acts(gameTasks) + (IF inParsing.at = "task" THEN 1 ELSE 0)
      /\ lifeState' = "dead" => grace' = Pk!Acts(gameTasks) + (IF inParsing.at = "task" THEN 1 ELSE 0)
  BY DEF Pk!Die, Pk!ExecuteDeath
<1>5. grace' \in 0..(MaxPackets + 1)
  BY <1>2, <1>4, PacketNumbers
<1>6. (lifeState = "dead" => grace >= Pk!Acts(gameTasks) + Asked)'
  BY <1>2, <1>3, <1>4 DEF Asked
<1>7. Pk!TypeOK' /\ Pk!PlayerIsThere'
  BY <1>1, <1>4, <1>5 DEF PacketsInv, Pk!TypeOK, Pk!PlayerIsThere
<1> QED BY <1>1, <1>2, <1>3, <1>6, <1>7 DEF PacketsInv

(* Time passes: the tasks grow older.                                      *)
Aged(t) == IF t.timed THEN [t EXCEPT !.age = @ + 1] ELSE t
LEMMA AgedIs ==
  ASSUME NEW t \in PacketTasks
  PROVE  Aged(t) \in PacketTasks /\ Aged(t).op = t.op /\ Aged(t).of = t.of /\ Aged(t).nr = t.nr
  BY DEF Aged, PacketTasks

LEMMA PassKeeps ==
  ASSUME PacketsInv, Pk!Pass
  PROVE  PacketsInv'
<1>1. /\ UNCHANGED <<openConns, inParsing, acceptPackets, debugAssertSent, sent, holds, client,
                     connecting, lifeState, shut, last, disorder, tooLate, grace>>
      /\ ticks < MaxTicks /\ ticks' = ticks + 1
      /\ gameTasks' = [i \in 1..Len(gameTasks) |-> Aged(gameTasks[i])]
  BY DEF Pk!Pass, Pk!netVars, Pk!playerVars, Pk!historyVars, Aged
<1>2. Old \in Nat /\ last \in Nat /\ gameTasks \in Seq(PacketTasks) /\ Len(gameTasks) \in Nat
  BY PacketFacts
<1>3. \A i \in 1..Len(gameTasks) :
        /\ Aged(gameTasks[i]) \in PacketTasks /\ Aged(gameTasks[i]).op = gameTasks[i].op
        /\ Aged(gameTasks[i]).of = gameTasks[i].of /\ Aged(gameTasks[i]).nr = gameTasks[i].nr
  <2>1. \A i \in 1..Len(gameTasks) : gameTasks[i] \in PacketTasks
    BY <1>2
  <2> QED BY <2>1, AgedIs
<1>4. /\ gameTasks' \in Seq(PacketTasks) /\ Len(gameTasks') = Len(gameTasks)
      /\ \A i \in 1..Len(gameTasks) :
           /\ gameTasks'[i].op = gameTasks[i].op /\ gameTasks'[i].of = gameTasks[i].of
           /\ gameTasks'[i].nr = gameTasks[i].nr
  BY <1>1, <1>2, <1>3
<1>5. QueueOf(gameTasks', last, Old, openConns)
  BY <1>4 DEF PacketsInv, QueueOf
<1>6. Acting(gameTasks') = Acting(gameTasks)
  BY <1>4 DEF Acting
<1>7. Pk!Acts(gameTasks') = Pk!Acts(gameTasks)
  BY <1>2, <1>4, <1>6, ActsCounted
<1>8. Pk!TypeOK' /\ Pk!PlayerIsThere'
  BY <1>1, PacketNumbers DEF PacketsInv, Pk!TypeOK, Pk!PlayerIsThere
<1>9. QueueOf(gameTasks', last, Old, openConns') /\ openConns' \subseteq openConns
      /\ (inParsing # Pk!Quiet => inParsing.of \in openConns')
  BY <1>1, <1>5 DEF PacketsInv
<1> QED BY <1>1, <1>7, <1>8, <1>9, TaskKeeps

LEMMA ShutdownKeeps ==
  ASSUME PacketsInv, Pk!Shutdown \/ UNCHANGED packetsVars
  PROVE  PacketsInv'
<1>1. UNCHANGED <<openConns, inParsing, acceptPackets, debugAssertSent, sent, holds, client,
                  connecting, lifeState, gameTasks, ticks, last, disorder, tooLate, grace>>
  BY DEF Pk!Shutdown, Pk!netVars, Pk!historyVars, packetsVars
<1>2. shut' \in BOOLEAN
  <2>1. shut \in BOOLEAN
    BY DEF PacketsInv, Pk!TypeOK
  <2> QED BY Zenon, <2>1 DEF Pk!Shutdown, packetsVars
<1>3. Pk!TypeOK' /\ Pk!PlayerIsThere'
  BY <1>1, <1>2 DEF PacketsInv, Pk!TypeOK, Pk!PlayerIsThere
<1>4. QueueOf(gameTasks', last, Old, openConns') /\ openConns' \subseteq openConns
      /\ (inParsing # Pk!Quiet => inParsing.of \in openConns')
      /\ Pk!Acts(gameTasks') = Pk!Acts(gameTasks)
  BY <1>1 DEF PacketsInv
<1> QED BY <1>1, <1>3, <1>4, TaskKeeps

LEMMA PacketsStep == PacketsInv /\ [Pk!Next]_packetsVars => PacketsInv'
<1> SUFFICES ASSUME PacketsInv, [Pk!Next]_packetsVars PROVE PacketsInv'
  OBVIOUS
<1> QED
  BY ReceiveKeeps, ReadKeeps, AddTaskKeeps, EndKeeps, PerformKeeps, LogoutKeeps, ReleaseKeeps,
     LoginKeepsPackets, ConnectKeeps, DeathKeeps, PassKeeps, ShutdownKeeps DEF Pk!Next

LEMMA PacketsInvSuffices == PacketsInv => Pk!TypeOK /\ Pk!PacketsAreSound
<1> SUFFICES ASSUME PacketsInv PROVE Pk!TypeOK /\ Pk!PacketsAreSound
  OBVIOUS
<1>1. Asked = (IF inParsing.at = "task" /\ inParsing.kind # "logout" THEN 1 ELSE 0)
  BY DEF Asked
<1> QED BY <1>1 DEF PacketsInv, Pk!PacketsAreSound

-----------------------------------------------------------------------------
(* The VIP lists.  Who has met another of his account is known, and a      *)
(* special one is watched by the accounts of special ones alone.           *)
Meetings ==
  \A p, q \in friendsOnline : p # q /\ AccountOf[p] = AccountOf[q] => p \in shared
SpecialAccount(a) == \E q \in Special : AccountOf[q] = a
SpecialRows ==
  \A p \in Watchers : vipRows[AccountOf[p]] \cap Special # {} => SpecialAccount(AccountOf[p])

BuddyTypes == Bu!BuddyTypeOK /\ shownOnline \in [Watchers -> SUBSET Watchers]
BuddiesInv ==
  /\ BuddyTypes
  /\ Bu!StatusIsCurrent /\ Bu!ListsAreStored /\ Bu!SpecialAreApart
  /\ Meetings /\ SpecialRows

LEMMA AccountsAre == \A p \in Watchers : AccountOf[p] \in Bu!Accounts
  BY DEF Bu!Accounts

LEMMA BuddiesBegin == Bu!BuddyInit => BuddiesInv
<1> SUFFICES ASSUME Bu!BuddyInit PROVE BuddiesInv
  OBVIOUS
<1> DEFINE top == CHOOSE n \in Limits : \A m \in Limits : m <= n
<1>1. top \in Limits /\ MaxRequests \in Nat
  BY EntriesAssumption
<1>2. limit = [p \in Watchers |-> top]
  BY DEF Bu!BuddyInit
<1> HIDE DEF top
<1>3. /\ friendsOnline = {} /\ ghost = {} /\ connected = {} /\ shared = {} /\ crowded = {}
      /\ VIPList = [p \in Watchers |-> {}] /\ vipEntries = [p \in Watchers |-> {}]
      /\ shownOnline = [p \in Watchers |-> {}] /\ vipRows = [a \in Bu!Accounts |-> {}]
      /\ requests = 0
  BY DEF Bu!BuddyInit
<1>4. BuddyTypes
  BY <1>1, <1>2, <1>3 DEF BuddyTypes, Bu!BuddyTypeOK
<1>5. Bu!StatusIsCurrent /\ Bu!ListsAreStored /\ Bu!SpecialAreApart /\ Meetings
  BY <1>3 DEF Bu!StatusIsCurrent, Bu!ListsAreStored, Bu!SpecialAreApart, Meetings
<1>6. SpecialRows
  BY <1>3, AccountsAre DEF SpecialRows
<1> QED BY <1>4, <1>5, <1>6 DEF BuddiesInv

(* What is told of q to all but p, and what p itself is shown afterwards.  *)
LEMMA NotifiedIs ==
  ASSUME BuddyTypes, NEW q \in Watchers, NEW to \in SUBSET Watchers, NEW isOnline \in BOOLEAN
  PROVE  /\ Bu!Notified(q, to, isOnline) \in [Watchers -> SUBSET Watchers]
         /\ \A p \in Watchers :
              /\ Bu!Notified(q, to, isOnline)[p] \subseteq vipEntries[p]
              /\ \A r \in Watchers : r # q =>
                   (r \in Bu!Notified(q, to, isOnline)[p] <=> r \in shownOnline[p])
              /\ IF p \in to /\ p \in connected /\ q \in VIPList[p] /\ q \in vipEntries[p]
                 THEN q \in Bu!Notified(q, to, isOnline)[p] <=> isOnline
                 ELSE q \in Bu!Notified(q, to, isOnline)[p] <=> q \in shownOnline[p]
<1> DEFINE new == Bu!Notified(q, to, isOnline)
<1>1. \A p \in Watchers : /\ shownOnline[p] \in SUBSET Watchers /\ shownOnline[p] \subseteq vipEntries[p]
                          /\ vipEntries[p] \subseteq Watchers
  BY DEF BuddyTypes, Bu!BuddyTypeOK
<1>2. \A p \in Watchers :
        new[p] = IF p \notin Bu!Told(q, to) \/ q \notin vipEntries[p] THEN shownOnline[p]
                 ELSE IF isOnline THEN shownOnline[p] \cup {q} ELSE shownOnline[p] \ {q}
  BY DEF Bu!Notified
<1>3. \A p \in Watchers : p \in Bu!Told(q, to) <=> p \in to /\ p \in connected /\ q \in VIPList[p]
  BY DEF Bu!Told
<1>4. new \in [Watchers -> SUBSET Watchers]
  <2>1. \A p \in Watchers : new[p] \subseteq Watchers
    <3> HIDE DEF new
    <3> TAKE p \in Watchers
    <3>1. new[p] = shownOnline[p] \/ new[p] = shownOnline[p] \cup {q} \/ new[p] = shownOnline[p] \ {q}
      BY <1>2
    <3> QED BY <1>1, <3>1
  <2>2. new = [p \in Watchers |-> new[p]]
    BY DEF Bu!Notified
  <2> HIDE DEF new
  <2> QED BY <2>1, <2>2
<1> HIDE DEF new
<1>5. ASSUME NEW p \in Watchers
      PROVE  /\ new[p] \subseteq vipEntries[p]
             /\ \A r \in Watchers : r # q => (r \in new[p] <=> r \in shownOnline[p])
             /\ IF p \in to /\ p \in connected /\ q \in VIPList[p] /\ q \in vipEntries[p]
                THEN q \in new[p] <=> isOnline
                ELSE q \in new[p] <=> q \in shownOnline[p]
  BY <1>1, <1>2, <1>3
<1> QED BY <1>4, <1>5 DEF new

(* Who is in the game and shows himself to p.                              *)
Shows(p, q) == q \in friendsOnline /\ (q \notin ghost \/ p \in Accessing)
LEMMA StatusIs ==
  Bu!StatusIsCurrent <=>
    \A p \in connected : \A q \in VIPList[p] \cap vipEntries[p] : q \in shownOnline[p] <=> Shows(p, q)
  BY DEF Bu!StatusIsCurrent, Shows, Bu!SeenOnline, Bu!SeenAmong
LEMMA StatusIsThen ==
  Bu!StatusIsCurrent' <=>
    (\A p \in connected : \A q \in VIPList[p] \cap vipEntries[p] :
       q \in shownOnline[p] <=> Shows(p, q))'
  BY StatusIs, PTL

LEMMA BuddyLogin ==
  ASSUME BuddiesInv, NEW p \in Watchers, Bu!Login(p)
  PROVE  BuddiesInv'
<1> DEFINE own == vipRows[AccountOf[p]]
           now == Bu!Notified(p, friendsOnline, TRUE)
<1>0. /\ BuddyTypes /\ AccountOf[p] \in Bu!Accounts
      /\ friendsOnline \subseteq Watchers /\ ghost \subseteq friendsOnline
      /\ connected \subseteq friendsOnline /\ own \subseteq Watchers
      /\ VIPList \in [Watchers -> SUBSET Watchers] /\ vipEntries \in [Watchers -> SUBSET Watchers]
      /\ shownOnline \in [Watchers -> SUBSET Watchers] /\ limit \in [Watchers -> Limits]
      /\ shared \subseteq Watchers /\ crowded \subseteq Watchers
  BY AccountsAre DEF BuddiesInv, BuddyTypes, Bu!BuddyTypeOK
<1>1. /\ p \notin friendsOnline /\ friendsOnline' = friendsOnline \cup {p}
      /\ connected' = connected \cup {p} /\ UNCHANGED <<ghost, vipRows, requests>>
  BY DEF Bu!Login
<1>2. PICK n \in Limits, list \in SUBSET Watchers :
        /\ list \subseteq own \ {p}
        /\ VIPList' = [VIPList EXCEPT ![p] = list] /\ limit' = [limit EXCEPT ![p] = n]
        /\ crowded' = (IF list = own THEN crowded \ {p} ELSE crowded \cup {p})
  BY DEF Bu!Login, Bu!Loaded
<1>3. /\ now \in [Watchers -> SUBSET Watchers]
      /\ \A r \in Watchers :
           /\ now[r] \subseteq vipEntries[r]
           /\ \A s \in Watchers : s # p => (s \in now[r] <=> s \in shownOnline[r])
           /\ r \in friendsOnline /\ r \in connected /\ p \in VIPList[r] /\ p \in vipEntries[r] =>
                p \in now[r]
  BY <1>0, NotifiedIs
<1>4. /\ vipEntries' = [vipEntries EXCEPT ![p] = own]
      /\ shownOnline' = [now EXCEPT ![p] = Bu!SeenAmong(p, own \cap (friendsOnline \cup {p}))]
  BY DEF Bu!Login, Bu!SentEntries
<1>5. /\ \A q \in friendsOnline : AccountOf[q] = AccountOf[p] => q \in shared' /\ p \in shared'
      /\ shared \ {p} \subseteq shared' /\ shared' \subseteq Watchers
  BY <1>0 DEF Bu!Login
<1>6. Bu!SeenAmong(p, own \cap (friendsOnline \cup {p})) \subseteq own
      /\ \A q : q \in Bu!SeenAmong(p, own \cap (friendsOnline \cup {p})) <=>
                  /\ q \in own /\ q \in friendsOnline \cup {p}
                  /\ q \notin ghost \/ p \in Accessing
  BY DEF Bu!SeenAmong
<1> HIDE DEF own, now
<1>7. /\ VIPList'[p] = list /\ vipEntries'[p] = own
      /\ shownOnline'[p] = Bu!SeenAmong(p, own \cap (friendsOnline \cup {p}))
      /\ \A r \in Watchers : r # p => /\ VIPList'[r] = VIPList[r] /\ vipEntries'[r] = vipEntries[r]
                                      /\ shownOnline'[r] = now[r]
  BY <1>0, <1>2, <1>3, <1>4
<1>8. BuddyTypes'
  <2>1. /\ VIPList' \in [Watchers -> SUBSET Watchers] /\ vipEntries' \in [Watchers -> SUBSET Watchers]
        /\ shownOnline' \in [Watchers -> SUBSET Watchers] /\ limit' \in [Watchers -> Limits]
        /\ crowded' \subseteq Watchers
    BY <1>0, <1>2, <1>3, <1>4, <1>6
  <2>2. \A r \in Watchers : shownOnline'[r] \subseteq vipEntries'[r]
    BY <1>3, <1>6, <1>7
  <2> QED BY <1>0, <1>1, <1>5, <2>1, <2>2 DEF BuddyTypes, Bu!BuddyTypeOK
<1>9. Bu!StatusIsCurrent'
  <2>1. ASSUME NEW r \in connected', NEW q \in VIPList'[r] \cap vipEntries'[r]
        PROVE  q \in shownOnline'[r] <=> Shows(r, q)'
    <3>0. r \in Watchers /\ q \in Watchers
      BY <1>0, <1>1, <1>2, <1>7, <2>1
    <3>1. CASE r = p
      BY <1>1, <1>6, <1>7, <2>1, <3>1 DEF Shows
    <3>2. CASE r # p /\ q = p
      BY <1>0, <1>1, <1>3, <1>7, <2>1, <3>0, <3>2 DEF Shows
    <3>3. CASE r # p /\ q # p
      <4>1. q \in shownOnline[r] <=> Shows(r, q)
        BY <1>1, <1>7, <2>1, <3>0, <3>3, StatusIs DEF BuddiesInv
      <4> QED BY <1>1, <1>3, <1>7, <3>0, <3>3, <4>1 DEF Shows
    <3> QED BY <3>1, <3>2, <3>3
  <2> QED BY <2>1, StatusIsThen
<1>10. Bu!ListsAreStored'
  <2>1. ASSUME NEW r \in friendsOnline', r \notin shared', r \notin crowded'
        PROVE  /\ VIPList'[r] = vipRows'[AccountOf[r]]
               /\ r \in connected' => vipEntries'[r] = VIPList'[r]
    <3>1. CASE r = p
      <4>1. list = own
        BY <1>2, <2>1, <3>1
      <4> QED BY <1>1, <1>7, <3>1, <4>1 DEF own
    <3>2. CASE r # p
      BY <1>0, <1>1, <1>2, <1>5, <1>7, <2>1, <3>2 DEF BuddiesInv, Bu!ListsAreStored
    <3> QED BY <3>1, <3>2
  <2> QED BY <2>1 DEF Bu!ListsAreStored
<1>11. Bu!SpecialAreApart'
  <2>1. own \cap Special # {} => SpecialAccount(AccountOf[p])
    BY DEF BuddiesInv, SpecialRows, own
  <2>2. ASSUME NEW r \in Watchers, VIPList'[r] \cap Special # {}
        PROVE  \E q \in Special : AccountOf[q] = AccountOf[r]
    <3>1. CASE r = p
      BY <1>2, <1>7, <2>1, <2>2, <3>1 DEF SpecialAccount
    <3>2. CASE r # p
      BY <1>7, <2>2, <3>2 DEF BuddiesInv, Bu!SpecialAreApart
    <3> QED BY <3>1, <3>2
  <2> QED BY <2>2 DEF Bu!SpecialAreApart
<1>12. Meetings'
  BY <1>0, <1>1, <1>5 DEF BuddiesInv, Meetings
<1>13. SpecialRows'
  BY <1>1 DEF BuddiesInv, SpecialRows, SpecialAccount
<1> QED BY <1>8, <1>9, <1>10, <1>11, <1>12, <1>13 DEF BuddiesInv

LEMMA BuddyLogout ==
  ASSUME BuddiesInv, NEW p \in Watchers, Bu!Logout(p)
  PROVE  BuddiesInv'
<1> DEFINE now == Bu!Notified(p, friendsOnline \ {p}, FALSE)
<1>0. /\ BuddyTypes
      /\ friendsOnline \subseteq Watchers /\ ghost \subseteq friendsOnline
      /\ connected \subseteq friendsOnline
      /\ VIPList \in [Watchers -> SUBSET Watchers] /\ vipEntries \in [Watchers -> SUBSET Watchers]
  BY DEF BuddiesInv, BuddyTypes, Bu!BuddyTypeOK
<1>1. /\ friendsOnline' = friendsOnline \ {p} /\ ghost' = ghost \ {p}
      /\ connected' = connected \ {p} /\ UNCHANGED <<limit, vipRows, shared, crowded, requests>>
      /\ shownOnline' = [now EXCEPT ![p] = {}]
      /\ vipEntries' = [vipEntries EXCEPT ![p] = {}] /\ VIPList' = [VIPList EXCEPT ![p] = {}]
  BY DEF Bu!Logout
<1>2. /\ now \in [Watchers -> SUBSET Watchers]
      /\ \A r \in Watchers :
           /\ now[r] \subseteq vipEntries[r]
           /\ \A s \in Watchers : s # p => (s \in now[r] <=> s \in shownOnline[r])
           /\ r \in friendsOnline \ {p} /\ r \in connected /\ p \in VIPList[r] /\ p \in vipEntries[r] =>
                p \notin now[r]
  <2>1. friendsOnline \ {p} \in SUBSET Watchers
    BY <1>0
  <2> QED BY <1>0, <2>1, NotifiedIs
<1> HIDE DEF now
<1>3. /\ VIPList'[p] = {} /\ vipEntries'[p] = {} /\ shownOnline'[p] = {}
      /\ \A r \in Watchers : r # p => /\ VIPList'[r] = VIPList[r] /\ vipEntries'[r] = vipEntries[r]
                                      /\ shownOnline'[r] = now[r]
  BY <1>0, <1>1, <1>2
<1>4. BuddyTypes'
  <2>1. /\ VIPList' \in [Watchers -> SUBSET Watchers] /\ vipEntries' \in [Watchers -> SUBSET Watchers]
        /\ shownOnline' \in [Watchers -> SUBSET Watchers]
    BY <1>0, <1>1, <1>2
  <2>2. \A r \in Watchers : shownOnline'[r] \subseteq vipEntries'[r]
    BY <1>2, <1>3
  <2>3. friendsOnline' \subseteq Watchers /\ ghost' \subseteq friendsOnline' /\ connected' \subseteq friendsOnline'
    BY <1>0, <1>1
  <2> QED BY <1>0, <1>1, <2>1, <2>2, <2>3 DEF BuddyTypes, Bu!BuddyTypeOK
<1>5. Bu!StatusIsCurrent'
  <2>1. ASSUME NEW r \in connected', NEW q \in VIPList'[r] \cap vipEntries'[r]
        PROVE  q \in shownOnline'[r] <=> Shows(r, q)'
    <3>0. r \in Watchers /\ r # p /\ r \in connected /\ r \in friendsOnline
      BY <1>0, <1>1
    <3>00. q \in Watchers /\ q \in VIPList[r] /\ q \in vipEntries[r]
      BY <1>0, <1>3, <2>1, <3>0
    <3>1. CASE q = p
      BY <1>1, <1>2, <1>3, <3>0, <3>00, <3>1 DEF Shows
    <3>2. CASE q # p
      <4>1. q \in shownOnline[r] <=> Shows(r, q)
        BY <3>0, <3>00, StatusIs DEF BuddiesInv
      <4> QED BY <1>1, <1>2, <1>3, <3>0, <3>00, <3>2, <4>1 DEF Shows
    <3> QED BY <3>1, <3>2
  <2> QED BY <2>1, StatusIsThen
<1>6. Bu!ListsAreStored'
  BY <1>0, <1>1, <1>3 DEF BuddiesInv, Bu!ListsAreStored
<1>7. Bu!SpecialAreApart'
  <2>1. ASSUME NEW r \in Watchers, VIPList'[r] \cap Special # {}
        PROVE  \E q \in Special : AccountOf[q] = AccountOf[r]
    BY <1>3, <2>1 DEF BuddiesInv, Bu!SpecialAreApart
  <2> QED BY <2>1 DEF Bu!SpecialAreApart
<1>8. Meetings' /\ SpecialRows'
  BY <1>1 DEF BuddiesInv, Meetings, SpecialRows, SpecialAccount
<1> QED BY <1>4, <1>5, <1>6, <1>7, <1>8 DEF BuddiesInv

(* A client comes or goes.                                                 *)
LEMMA BuddyClient ==
  ASSUME BuddiesInv, NEW p \in Watchers, Bu!Disconnect(p) \/ Bu!Connect(p)
  PROVE  BuddiesInv'
<1> DEFINE own == vipRows[AccountOf[p]]
           seen == Bu!SeenAmong(p, own \cap (friendsOnline \cup {p}))
<1>0. /\ BuddyTypes /\ AccountOf[p] \in Bu!Accounts
      /\ friendsOnline \subseteq Watchers /\ ghost \subseteq friendsOnline
      /\ connected \subseteq friendsOnline /\ own \subseteq Watchers
      /\ VIPList \in [Watchers -> SUBSET Watchers] /\ vipEntries \in [Watchers -> SUBSET Watchers]
      /\ shownOnline \in [Watchers -> SUBSET Watchers]
  BY AccountsAre DEF BuddiesInv, BuddyTypes, Bu!BuddyTypeOK
<1>1. UNCHANGED <<friendsOnline, ghost, VIPList, limit, vipRows, shared, crowded, requests>>
  BY DEF Bu!Disconnect, Bu!Connect
<1>2. /\ seen \subseteq own
      /\ \A q : q \in seen <=> /\ q \in own /\ q \in friendsOnline \cup {p}
                              /\ (q \notin ghost \/ p \in Accessing)
  <2>1. seen = {q \in own \cap (friendsOnline \cup {p}) : q \notin ghost \/ p \in Accessing}
    BY DEF Bu!SeenAmong
  <2> HIDE DEF own, seen
  <2> QED BY <2>1
<1>3. PICK e \in {{}, own}, s \in {{}, seen} :
        /\ vipEntries' = [vipEntries EXCEPT ![p] = e] /\ shownOnline' = [shownOnline EXCEPT ![p] = s]
        /\ \/ connected' = connected \ {p} /\ e = {} /\ s = {}
           \/ connected' = connected \cup {p} /\ p \in friendsOnline /\ e = own /\ s = seen
  <2>1. CASE Bu!Disconnect(p)
    BY <2>1 DEF Bu!Disconnect
  <2>2. CASE Bu!Connect(p)
    BY <2>2 DEF Bu!Connect, Bu!SentEntries
  <2> QED BY <2>1, <2>2
<1> HIDE DEF own, seen
<1>4. /\ vipEntries'[p] = e /\ shownOnline'[p] = s
      /\ \A r \in Watchers : r # p => vipEntries'[r] = vipEntries[r] /\ shownOnline'[r] = shownOnline[r]
  BY <1>0, <1>3
<1>5. BuddyTypes'
  <2>1. /\ vipEntries' \in [Watchers -> SUBSET Watchers] /\ shownOnline' \in [Watchers -> SUBSET Watchers]
    BY <1>0, <1>2, <1>3
  <2>2. \A r \in Watchers : shownOnline'[r] \subseteq vipEntries'[r]
    BY <1>0, <1>2, <1>3, <1>4 DEF BuddyTypes, Bu!BuddyTypeOK
  <2> QED BY <1>0, <1>1, <1>3, <2>1, <2>2 DEF BuddyTypes, Bu!BuddyTypeOK
<1>6. Bu!StatusIsCurrent'
  <2>1. ASSUME NEW r \in connected', NEW q \in VIPList'[r] \cap vipEntries'[r]
        PROVE  q \in shownOnline'[r] <=> Shows(r, q)'
    <3>1. CASE r = p
      <4>1. e = own /\ s = seen /\ p \in friendsOnline
        BY <1>3, <2>1, <3>1
      <4>2. q \in own /\ (q \in shownOnline'[r] <=> q \in seen)
        BY <1>4, <2>1, <3>1, <4>1
      <4>3. q \in seen <=> q \in friendsOnline /\ (q \notin ghost \/ p \in Accessing)
        BY <1>2, <4>1, <4>2
      <4> QED BY <1>1, <3>1, <4>2, <4>3 DEF Shows
    <3>2. CASE r # p
      <4>1. r \in connected /\ r \in Watchers
        BY <1>0, <1>3, <3>2
      <4>2. q \in shownOnline[r] <=> Shows(r, q)
        BY <1>1, <1>4, <2>1, <3>2, <4>1, StatusIs DEF BuddiesInv
      <4> QED BY <1>1, <1>4, <3>2, <4>1, <4>2 DEF Shows
    <3> QED BY <3>1, <3>2
  <2> QED BY <2>1, StatusIsThen
<1>7. Bu!ListsAreStored'
  <2>1. ASSUME NEW r \in friendsOnline, r \notin shared, r \notin crowded
        PROVE  /\ VIPList[r] = vipRows[AccountOf[r]]
               /\ r \in connected' => vipEntries'[r] = VIPList[r]
    <3>1. /\ VIPList[r] = vipRows[AccountOf[r]]
          /\ r \in connected => vipEntries[r] = VIPList[r]
      BY <2>1 DEF BuddiesInv, Bu!ListsAreStored
    <3>2. CASE r = p
      BY <1>3, <1>4, <3>1, <3>2 DEF own
    <3>3. CASE r # p
      BY <1>0, <1>3, <1>4, <3>1, <3>3
    <3> QED BY <3>1, <3>2, <3>3
  <2> QED BY <1>1, <2>1 DEF Bu!ListsAreStored
<1>8. Bu!SpecialAreApart' /\ Meetings' /\ SpecialRows'
  BY <1>1 DEF BuddiesInv, Bu!SpecialAreApart, Meetings, SpecialRows, SpecialAccount
<1> QED BY <1>5, <1>6, <1>7, <1>8 DEF BuddiesInv

LEMMA BuddyGhost ==
  ASSUME BuddiesInv, NEW p \in Watchers, Bu!SetGhostMode(p)
  PROVE  BuddiesInv'
<1> DEFINE shows == p \in ghost
           now == Bu!Notified(p, friendsOnline \ Accessing, shows)
<1>0. /\ BuddyTypes
      /\ friendsOnline \subseteq Watchers /\ ghost \subseteq friendsOnline
      /\ connected \subseteq friendsOnline
      /\ VIPList \in [Watchers -> SUBSET Watchers]
  BY DEF BuddiesInv, BuddyTypes, Bu!BuddyTypeOK
<1>1. /\ p \in friendsOnline /\ ghost' = (IF p \in ghost THEN ghost \ {p} ELSE ghost \cup {p})
      /\ shownOnline' = now
      /\ UNCHANGED <<friendsOnline, connected, VIPList, limit, vipRows, vipEntries, shared, crowded,
                     requests>>
  BY DEF Bu!SetGhostMode
<1>2. /\ now \in [Watchers -> SUBSET Watchers]
      /\ \A r \in Watchers :
           /\ now[r] \subseteq vipEntries[r]
           /\ \A s \in Watchers : s # p => (s \in now[r] <=> s \in shownOnline[r])
           /\ IF r \in friendsOnline \ Accessing /\ r \in connected /\ p \in VIPList[r] /\ p \in vipEntries[r]
              THEN p \in now[r] <=> shows ELSE p \in now[r] <=> p \in shownOnline[r]
  <2> DEFINE to == friendsOnline \ Accessing
             new == Bu!Notified(p, to, shows)
  <2>1. BuddyTypes /\ to \in SUBSET Watchers /\ shows \in BOOLEAN
    BY <1>0
  <2> HIDE DEF shows, to
  <2>2. /\ new \in [Watchers -> SUBSET Watchers]
        /\ \A r \in Watchers :
             /\ new[r] \subseteq vipEntries[r]
             /\ \A s \in Watchers : s # p => (s \in new[r] <=> s \in shownOnline[r])
             /\ IF r \in to /\ r \in connected /\ p \in VIPList[r] /\ p \in vipEntries[r]
                THEN p \in new[r] <=> shows ELSE p \in new[r] <=> p \in shownOnline[r]
    BY Zenon, <2>1, NotifiedIs
  <2>3. now = new
    BY DEF to
  <2> HIDE DEF new, now
  <2> QED BY <2>2, <2>3 DEF to
<1> HIDE DEF now
<1>3. BuddyTypes'
  <2>1. ghost' \subseteq friendsOnline'
    BY <1>0, <1>1
  <2> QED BY <1>1, <1>2, <2>1 DEF BuddiesInv, BuddyTypes, Bu!BuddyTypeOK
<1>4. Bu!StatusIsCurrent'
  <2>1. ASSUME NEW r \in connected, NEW q \in VIPList[r] \cap vipEntries[r]
        PROVE  q \in shownOnline'[r] <=> Shows(r, q)'
    <3>0. r \in Watchers /\ r \in friendsOnline /\ q \in Watchers
      BY <1>0, <2>1
    <3>1. q \in shownOnline[r] <=> Shows(r, q)
      BY <2>1, StatusIs DEF BuddiesInv
    <3>2. CASE q = p
      BY <1>1, <1>2, <2>1, <3>0, <3>1, <3>2 DEF Shows
    <3>3. CASE q # p
      BY <1>1, <1>2, <3>0, <3>1, <3>3 DEF Shows
    <3> QED BY <3>2, <3>3
  <2> QED BY <1>1, <2>1, StatusIsThen
<1>5. Bu!ListsAreStored' /\ Bu!SpecialAreApart' /\ Meetings' /\ SpecialRows'
  BY <1>1
  DEF BuddiesInv, Bu!ListsAreStored, Bu!SpecialAreApart, Meetings, SpecialRows, SpecialAccount
<1> QED BY <1>3, <1>4, <1>5 DEF BuddiesInv

(* An entry is added or removed, in the list, the rows and the client.     *)
LEMMA BuddyAdd ==
  ASSUME BuddiesInv, NEW p \in Watchers, NEW q \in Watchers, Bu!AddVip(p, q)
  PROVE  BuddiesInv'
<1> DEFINE a == AccountOf[p]
           seen == Bu!SeenOnline(p, {q})
<1>0. /\ BuddyTypes /\ a \in Bu!Accounts
      /\ connected \subseteq friendsOnline /\ friendsOnline \subseteq Watchers
      /\ VIPList \in [Watchers -> SUBSET Watchers] /\ vipEntries \in [Watchers -> SUBSET Watchers]
      /\ shownOnline \in [Watchers -> SUBSET Watchers] /\ vipRows \in [Bu!Accounts -> SUBSET Watchers]
      /\ requests \in 0..MaxRequests /\ MaxRequests \in Nat
  BY AccountsAre, EntriesAssumption DEF BuddiesInv, BuddyTypes, Bu!BuddyTypeOK
<1>1. /\ p \in connected /\ (q \in Special => p \in Special)
      /\ requests < MaxRequests /\ requests' = requests + 1
      /\ VIPList' = [VIPList EXCEPT ![p] = @ \cup {q}]
      /\ vipRows' = [vipRows EXCEPT ![a] = @ \cup {q}]
      /\ vipEntries' = [vipEntries EXCEPT ![p] = @ \cup {q}]
      /\ shownOnline' = [shownOnline EXCEPT ![p] = (@ \ {q}) \cup seen]
      /\ UNCHANGED <<friendsOnline, ghost, connected, limit, shared, crowded>>
  BY DEF Bu!AddVip, Bu!MayWatch, Bu!SpecialOnlyBySpecial, Bu!Requested, Bu!AddVIPEntry
<1>2. seen \subseteq {q} /\ (q \in seen <=> Shows(p, q))
  BY DEF Bu!SeenOnline, Bu!SeenAmong, Shows
<1> HIDE DEF seen
<1>3. /\ VIPList'[p] = VIPList[p] \cup {q} /\ vipEntries'[p] = vipEntries[p] \cup {q}
      /\ shownOnline'[p] = (shownOnline[p] \ {q}) \cup seen /\ vipRows'[a] = vipRows[a] \cup {q}
      /\ \A r \in Watchers : r # p => /\ VIPList'[r] = VIPList[r] /\ vipEntries'[r] = vipEntries[r]
                                      /\ shownOnline'[r] = shownOnline[r]
      /\ \A b \in Bu!Accounts : b # a => vipRows'[b] = vipRows[b]
  BY <1>0, <1>1
<1>4. BuddyTypes'
  <2>1. /\ VIPList' \in [Watchers -> SUBSET Watchers] /\ vipEntries' \in [Watchers -> SUBSET Watchers]
        /\ shownOnline' \in [Watchers -> SUBSET Watchers] /\ vipRows' \in [Bu!Accounts -> SUBSET Watchers]
    BY <1>0, <1>1, <1>2
  <2>2. \A r \in Watchers : shownOnline'[r] \subseteq vipEntries'[r]
    BY <1>0, <1>2, <1>3 DEF BuddyTypes, Bu!BuddyTypeOK
  <2> QED BY <1>0, <1>1, <2>1, <2>2 DEF BuddyTypes, Bu!BuddyTypeOK
<1>5. Bu!StatusIsCurrent'
  <2>1. ASSUME NEW r \in connected, NEW s \in VIPList'[r] \cap vipEntries'[r]
        PROVE  s \in shownOnline'[r] <=> Shows(r, s)
    <3>1. CASE r = p /\ s = q
      BY <1>2, <1>3, <3>1
    <3>2. CASE ~(r = p /\ s = q)
      <4>1. s \in shownOnline[r] <=> Shows(r, s)
        BY <1>0, <1>3, <2>1, <3>2, StatusIs DEF BuddiesInv
      <4> QED BY <1>0, <1>2, <1>3, <3>2, <4>1
    <3> QED BY <3>1, <3>2
  <2>2. \A r, s : Shows(r, s)' <=> Shows(r, s)
    BY <1>1 DEF Shows
  <2> QED BY <1>1, <2>1, <2>2, StatusIsThen
<1>6. Bu!ListsAreStored'
  <2>1. ASSUME NEW r \in friendsOnline, r \notin shared, r \notin crowded
        PROVE  /\ VIPList'[r] = vipRows'[AccountOf[r]]
               /\ r \in connected => vipEntries'[r] = VIPList'[r]
    <3>1. /\ VIPList[r] = vipRows[AccountOf[r]]
          /\ r \in connected => vipEntries[r] = VIPList[r]
      BY <2>1 DEF BuddiesInv, Bu!ListsAreStored
    <3>2. CASE r = p
      BY <1>3, <3>1, <3>2
    <3>3. CASE r # p
      <4>1. AccountOf[r] # a /\ AccountOf[r] \in Bu!Accounts /\ r \in Watchers
        BY <1>0, <1>1, <2>1, <3>3, AccountsAre DEF BuddiesInv, Meetings
      <4> QED BY <1>3, <3>1, <3>3, <4>1
    <3> QED BY <3>2, <3>3
  <2> QED BY <1>1, <2>1 DEF Bu!ListsAreStored
<1>7. Bu!SpecialAreApart'
  <2>1. ASSUME NEW r \in Watchers, VIPList'[r] \cap Special # {}
        PROVE  \E s \in Special : AccountOf[s] = AccountOf[r]
    BY <1>1, <1>3, <2>1 DEF BuddiesInv, Bu!SpecialAreApart
  <2> QED BY <2>1 DEF Bu!SpecialAreApart
<1>8. SpecialRows'
  <2>1. ASSUME NEW r \in Watchers, vipRows'[AccountOf[r]] \cap Special # {}
        PROVE  SpecialAccount(AccountOf[r])
    <3>1. AccountOf[r] \in Bu!Accounts
      BY AccountsAre
    <3>2. CASE q \in Special /\ AccountOf[r] = a
      BY <1>1, <3>2 DEF SpecialAccount
    <3>3. CASE ~(q \in Special /\ AccountOf[r] = a)
      <4>1. vipRows[AccountOf[r]] \cap Special # {}
        BY <1>3, <2>1, <3>1, <3>3
      <4> QED BY <4>1 DEF BuddiesInv, SpecialRows
    <3> QED BY <3>2, <3>3
  <2> QED BY <2>1 DEF SpecialRows, SpecialAccount
<1>9. Meetings'
  BY <1>1 DEF BuddiesInv, Meetings
<1> QED BY <1>4, <1>5, <1>6, <1>7, <1>8, <1>9 DEF BuddiesInv

LEMMA BuddyRemove ==
  ASSUME BuddiesInv, NEW p \in Watchers, NEW q \in Watchers, Bu!RemoveVip(p, q)
  PROVE  BuddiesInv'
<1> DEFINE a == AccountOf[p]
<1>0. /\ BuddyTypes /\ a \in Bu!Accounts
      /\ connected \subseteq friendsOnline /\ friendsOnline \subseteq Watchers
      /\ VIPList \in [Watchers -> SUBSET Watchers] /\ vipEntries \in [Watchers -> SUBSET Watchers]
      /\ shownOnline \in [Watchers -> SUBSET Watchers] /\ vipRows \in [Bu!Accounts -> SUBSET Watchers]
      /\ requests \in 0..MaxRequests /\ MaxRequests \in Nat
  BY AccountsAre, EntriesAssumption DEF BuddiesInv, BuddyTypes, Bu!BuddyTypeOK
<1>1. /\ p \in connected /\ q \in vipEntries[p]
      /\ requests < MaxRequests /\ requests' = requests + 1
      /\ vipEntries' = [vipEntries EXCEPT ![p] = @ \ {q}]
      /\ shownOnline' = [shownOnline EXCEPT ![p] = @ \ {q}]
      /\ IF q \in VIPList[p]
         THEN VIPList' = [VIPList EXCEPT ![p] = @ \ {q}] /\ vipRows' = [vipRows EXCEPT ![a] = @ \ {q}]
         ELSE UNCHANGED <<VIPList, vipRows>>
      /\ UNCHANGED <<friendsOnline, ghost, connected, limit, shared, crowded>>
  BY DEF Bu!RemoveVip, Bu!Requested, Bu!RemoveVIPEntry
<1>2. /\ VIPList'[p] = VIPList[p] \ {q} /\ vipEntries'[p] = vipEntries[p] \ {q}
      /\ shownOnline'[p] = shownOnline[p] \ {q}
      /\ vipRows'[a] = (IF q \in VIPList[p] THEN vipRows[a] \ {q} ELSE vipRows[a])
      /\ \A r \in Watchers : r # p => /\ VIPList'[r] = VIPList[r] /\ vipEntries'[r] = vipEntries[r]
                                      /\ shownOnline'[r] = shownOnline[r]
      /\ \A b \in Bu!Accounts : b # a => vipRows'[b] = vipRows[b]
  BY <1>0, <1>1
<1>3. BuddyTypes'
  <2>1. /\ VIPList' \in [Watchers -> SUBSET Watchers] /\ vipEntries' \in [Watchers -> SUBSET Watchers]
        /\ shownOnline' \in [Watchers -> SUBSET Watchers] /\ vipRows' \in [Bu!Accounts -> SUBSET Watchers]
    BY <1>0, <1>1
  <2>2. \A r \in Watchers : shownOnline'[r] \subseteq vipEntries'[r]
    BY <1>0, <1>2 DEF BuddyTypes, Bu!BuddyTypeOK
  <2> QED BY <1>0, <1>1, <2>1, <2>2 DEF BuddyTypes, Bu!BuddyTypeOK
<1>4. Bu!StatusIsCurrent'
  <2>1. ASSUME NEW r \in connected, NEW s \in VIPList'[r] \cap vipEntries'[r]
        PROVE  s \in shownOnline'[r] <=> Shows(r, s)
    <3>1. s \in shownOnline[r] <=> Shows(r, s)
      BY <1>0, <1>2, <2>1, StatusIs DEF BuddiesInv
    <3> QED BY <1>0, <1>2, <2>1, <3>1
  <2>2. \A r, s : Shows(r, s)' <=> Shows(r, s)
    BY <1>1 DEF Shows
  <2> QED BY <1>1, <2>1, <2>2, StatusIsThen
<1>5. Bu!ListsAreStored'
  <2>1. ASSUME NEW r \in friendsOnline, r \notin shared, r \notin crowded
        PROVE  /\ VIPList'[r] = vipRows'[AccountOf[r]]
               /\ r \in connected => vipEntries'[r] = VIPList'[r]
    <3>1. /\ VIPList[r] = vipRows[AccountOf[r]]
          /\ r \in connected => vipEntries[r] = VIPList[r]
      BY <2>1 DEF BuddiesInv, Bu!ListsAreStored
    <3>2. CASE r = p
      BY <1>1, <1>2, <3>1, <3>2
    <3>3. CASE r # p
      <4>1. AccountOf[r] # a /\ AccountOf[r] \in Bu!Accounts /\ r \in Watchers
        BY <1>0, <1>1, <2>1, <3>3, AccountsAre DEF BuddiesInv, Meetings
      <4> QED BY <1>2, <3>1, <3>3, <4>1
    <3> QED BY <3>2, <3>3
  <2> QED BY <1>1, <2>1 DEF Bu!ListsAreStored
<1>6. Bu!SpecialAreApart'
  <2>1. ASSUME NEW r \in Watchers, VIPList'[r] \cap Special # {}
        PROVE  \E s \in Special : AccountOf[s] = AccountOf[r]
    BY <1>2, <2>1 DEF BuddiesInv, Bu!SpecialAreApart
  <2> QED BY <2>1 DEF Bu!SpecialAreApart
<1>7. SpecialRows'
  <2>1. ASSUME NEW r \in Watchers, vipRows'[AccountOf[r]] \cap Special # {}
        PROVE  SpecialAccount(AccountOf[r])
    <3>1. vipRows[AccountOf[r]] \cap Special # {}
      BY <1>2, <2>1, AccountsAre
    <3> QED BY <3>1 DEF BuddiesInv, SpecialRows
  <2> QED BY <2>1 DEF SpecialRows, SpecialAccount
<1>8. Meetings'
  BY <1>1 DEF BuddiesInv, Meetings
<1> QED BY <1>3, <1>4, <1>5, <1>6, <1>7, <1>8 DEF BuddiesInv

LEMMA BuddyPremium ==
  ASSUME BuddiesInv, (\E p \in Watchers : Bu!Premium(p)) \/ UNCHANGED buddiesVars
  PROVE  BuddiesInv'
<1>0. requests \in 0..MaxRequests /\ MaxRequests \in Nat /\ limit \in [Watchers -> Limits]
  BY EntriesAssumption DEF BuddiesInv, BuddyTypes, Bu!BuddyTypeOK
<1>1. /\ UNCHANGED <<friendsOnline, ghost, connected, VIPList, vipRows, vipEntries, shownOnline,
                     shared, crowded>>
      /\ requests' \in 0..MaxRequests
      /\ limit' \in [Watchers -> Limits]
  BY <1>0 DEF Bu!Premium, Bu!Requested, buddiesVars
<1>2. BuddyTypes'
  BY <1>1 DEF BuddiesInv, BuddyTypes, Bu!BuddyTypeOK
<1>3. Bu!StatusIsCurrent'
  <2>1. \A r, s : Shows(r, s)' <=> Shows(r, s)
    BY <1>1 DEF Shows
  <2> QED BY <1>1, <2>1, StatusIs, StatusIsThen DEF BuddiesInv
<1>4. Bu!ListsAreStored' /\ Bu!SpecialAreApart' /\ Meetings' /\ SpecialRows'
  BY <1>1
  DEF BuddiesInv, Bu!ListsAreStored, Bu!SpecialAreApart, Meetings, SpecialRows, SpecialAccount
<1> QED BY <1>2, <1>3, <1>4 DEF BuddiesInv

LEMMA BuddiesStep == BuddiesInv /\ [Bu!BuddyNext]_buddiesVars => BuddiesInv'
  BY BuddyLogin, BuddyLogout, BuddyClient, BuddyGhost, BuddyAdd, BuddyRemove, BuddyPremium
  DEF Bu!BuddyNext, Bu!Presence, Bu!Lists

LEMMA BuddiesInvSuffices == BuddiesInv => Bu!BuddyTypeOK /\ Bu!BuddiesAreSound
  BY DEF BuddiesInv, BuddyTypes, Bu!BuddiesAreSound

-----------------------------------------------------------------------------
(* How players come into the game and what they send is taken up. The      *)
(* server serves when it is loaded, its ports are open or opened again,    *)
(* and its end loses nothing of those who were in and leaves nothing       *)
(* behind (otserv.cpp, game.cpp, server.cpp), with the exceptions of       *)
(* EndIsClean for a main() that woke too early, which nothing in the code  *)
(* prevents; the watchdog starts it again as often as it may, leaves none  *)
(* behind at its own end, and misses a server or waits for its own lock    *)
(* only as WatchdogIsSound says (watchdog.py); bursts of connections are   *)
(* cut off and others are not (connection.cpp, ban.cpp); premium days are  *)
(* reckoned as they pass (iologindata.cpp); nobody is in the game twice,   *)
(* banned or for the wrong reason (protocolgame.cpp); packets are taken up *)
(* in the order they came in and only for who is there (tasks.cpp); and a  *)
(* client is told who of its list is in the game (player.cpp).             *)
THEOREM Entries_are_sound == MCSpec => []EntriesAreSound
<1> DEFINE Inv == /\ ServerInv /\ WatchdogInv /\ ThrottleInv /\ AccountsInv
                  /\ EntriesInv /\ PacketsInv /\ BuddiesInv
<1>1. MCInit => Inv
  BY ServerBegins, WatchdogBegins, ThrottleBegins, AccountsBegin, EntriesBegin, PacketsBegin,
     BuddiesBegin DEF MCInit
<1>2. Inv /\ [MCNext]_allVars => Inv'
  <2> SUFFICES ASSUME Inv, [MCNext]_allVars PROVE Inv'
    OBVIOUS
  <2>1. /\ [Se!ServerNext]_serverVars /\ [Se!WatchdogNext]_watchdogVars
        /\ [En!ThrottleNext]_throttleVars /\ [En!AccountsNext]_accountsVars
        /\ [En!EntriesNext]_entriesVars /\ [Pk!Next]_packetsVars /\ [Bu!BuddyNext]_buddiesVars
    BY DEF MCNext, ConnectionNext, ServerNext, ThrottleNext, AccountsNext, EntriesNext,
           PacketsNext, WatchdogNext, BuddiesNext, ViewNext, ScriptsNext, ClockNext,
           allVars
  <2> QED BY <2>1, ServerStep, WatchdogStep, ThrottleStep, AccountsStep, EntriesStep, PacketsStep,
             BuddiesStep
<1>3. Inv => EntriesAreSound
  BY Zenon, ServerInvSuffices, WatchdogInvSuffices, AccountsInvSuffices, EntriesInvSuffices,
     PacketsInvSuffices, BuddiesInvSuffices DEF ThrottleInv, EntriesAreSound
<1> QED BY <1>1, <1>2, <1>3, PTL DEF MCSpec
=============================================================================
