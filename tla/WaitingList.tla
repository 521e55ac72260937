----------------------------- MODULE WaitingList ------------------------------
(***************************************************************************)
(* The waiting list of a full server (waitlist.cpp), which                 *)
(* ProtocolGame::login asks on the dispatcher thread.  A client that is    *)
(* refused is told its place and when to try again; an entry whose client  *)
(* does not come in time is dropped.  Premium players wait in a list of    *)
(* their own, ahead of the others.                                         *)
(*                                                                         *)
(* clientLogin takes an entry out of either list with waitList.erase(it).  *)
(* Of a premium entry that unlinks the node, but it is the size of         *)
(* waitList that is decremented (libstdc++): from then on size() of the    *)
(* premium list is too large by one and that of the other too small, and   *)
(* drift counts these.  empty() looks at the nodes and is right.  Time     *)
(* passes in units of five seconds.                                        *)
(***************************************************************************)
EXTENDS Integers, Sequences, FiniteSets, SequencesExt

CONSTANTS
  Players,
  Premium,            (* players with a premium account                    *)
  Privileged,         (* players with PlayerFlag_CanAlwaysLogin            *)
  Diligent,           (* players whose client comes when it was told to    *)
  MaxPlayers,         (* ConfigManager::MAX_PLAYERS                        *)
  MaxDrift            (* bound: drift is counted up to this                *)

ASSUME PlayersAssumption ==
  /\ Premium \subseteq Players
  /\ Privileged \subseteq Players
  /\ Diligent \subseteq Players
ASSUME LimitAssumption == MaxPlayers \in Nat \ {0} /\ MaxDrift \in Nat

VARIABLES
  priorityWaitList,
  waitList,
  drift,
  timeLeft,           (* of the entry of a player, to its timeout          *)
  retryIn,            (* time until the client was told to come again; -1  *)
                      (* when it was not, or is late                       *)
  online              (* the players in the game                           *)

lists == <<priorityWaitList, waitList, drift, timeLeft>>
vars == <<lists, retryIn, online>>

LastTime == 24                     \* getTime of the places from 50 on
TypeOK ==
  /\ priorityWaitList \in Seq(Premium)
  /\ waitList \in Seq(Players \ Premium)
  /\ IsInjective(priorityWaitList \o waitList)
  /\ drift \in 0..MaxDrift
  /\ timeLeft \in [Players -> 0..LastTime + 3]
  /\ retryIn \in [Players -> -1..LastTime]
  /\ online \subseteq Players

Init ==
  /\ priorityWaitList = <<>>
  /\ waitList = <<>>
  /\ drift = 0
  /\ timeLeft = [p \in Players |-> 0]
  /\ retryIn = [p \in Players |-> -1]
  /\ online = {}
-----------------------------------------------------------------------------
GetTime(slot) ==
  CASE slot < 5 -> 1
    [] slot \in 5..9 -> 2
    [] slot \in 10..19 -> 4
    [] slot \in 20..49 -> 12
    [] OTHER -> LastTime

(* Faults that a careless edit could bring in are defined before the code; *)
(* no specification uses them.                                             *)
TimeoutAtRetry(slot) == GetTime(slot)
GetTimeout(slot) == GetTime(slot) + 3

(* What is left of a list, in its order, when those not in kept are erased *)
Keeping(kept, list) ==
  LET left[n \in 0..Len(list)] ==
        IF n = 0 THEN <<>>
        ELSE IF list[n] \in kept THEN Append(left[n - 1], list[n])
        ELSE left[n - 1]
  IN  left[Len(list)]

Cleaned(list) == Keeping({q \in Players : timeLeft[q] > 0}, list)

Waiting == Cleaned(priorityWaitList) \o Cleaned(waitList)

IsWaiting(p) == Contains(Waiting, p)
Slot(p) == CHOOSE k \in 1..Len(Waiting) : Waiting[k] = p

(* getClientSlot, of the two lists one after the other                     *)
ClientSlot(both, p) == SelectInSeq(both, LAMBDA q : q = p)

AtOnce(p) ==
  \/ p \in Privileged
  \/ /\ priorityWaitList = <<>> /\ waitList = <<>>
     /\ Cardinality(online) < MaxPlayers

FitsIgnoringSlot(p) == Cardinality(online) < MaxPlayers
FitsWithOneToSpare(p) == Cardinality(online) + Slot(p) < MaxPlayers
Fits(p) == Cardinality(online) + Slot(p) <= MaxPlayers

Erased(list, p) == Keeping(Players \ {p}, list)

(* size() of the two lists.                                                *)
PrioritySize == Len(Cleaned(priorityWaitList)) + drift
WaitSize == Len(Cleaned(waitList)) - drift
-----------------------------------------------------------------------------
(* clientLogin.  It admits the player at once, ...                         *)
LoginAtOnce(p) ==
  /\ p \notin online
  /\ AtOnce(p)
  /\ online' = online \cup {p}
  /\ retryIn' = [retryIn EXCEPT ![p] = -1]
  /\ UNCHANGED lists

(* ... from the list, when all that are ahead would fit as well, ...       *)
LoginFromList(p) ==
  /\ p \notin online
  /\ ~AtOnce(p)
  /\ IsWaiting(p)
  /\ Fits(p)
  /\ priorityWaitList' = Erased(Cleaned(priorityWaitList), p)
  /\ waitList' = Erased(Cleaned(waitList), p)
  /\ drift' = IF p \in Premium /\ drift < MaxDrift THEN drift + 1 ELSE drift
  /\ online' = online \cup {p}
  /\ retryIn' = [retryIn EXCEPT ![p] = -1]
  /\ UNCHANGED timeLeft

(* ... or lets it wait, with a new timeout, ...                            *)
WaitLonger(p) ==
  /\ p \notin online
  /\ ~AtOnce(p)
  /\ IsWaiting(p)
  /\ ~Fits(p)
  /\ priorityWaitList' = Cleaned(priorityWaitList)
  /\ waitList' = Cleaned(waitList)
  /\ timeLeft' = [timeLeft EXCEPT ![p] = GetTimeout(Slot(p))]
  /\ retryIn' = [retryIn EXCEPT ![p] = GetTime(Slot(p))]
  /\ UNCHANGED <<drift, online>>

(* ... or at the end of its list, even when there is room after all.       *)
Enqueue(p) ==
  /\ p \notin online
  /\ ~AtOnce(p)
  /\ ~IsWaiting(p)
  /\ IF p \in Premium
     THEN /\ priorityWaitList' = Append(Cleaned(priorityWaitList), p)
          /\ waitList' = Cleaned(waitList)
          /\ timeLeft' = [timeLeft EXCEPT ![p] = GetTimeout(PrioritySize + 1)]
     ELSE /\ priorityWaitList' = Cleaned(priorityWaitList)
          /\ waitList' = Append(Cleaned(waitList), p)
          /\ timeLeft' =
               [timeLeft EXCEPT ![p] = GetTimeout(PrioritySize + WaitSize + 1)]
  /\ retryIn' = [retryIn EXCEPT ![p] =
                    GetTime(ClientSlot(priorityWaitList' \o waitList', p))]
  /\ UNCHANGED <<drift, online>>

Login(p) ==
  LoginAtOnce(p) \/ LoginFromList(p) \/ WaitLonger(p) \/ Enqueue(p)

Logout(p) ==
  /\ p \in online
  /\ online' = online \ {p}
  /\ UNCHANGED <<lists, retryIn>>

(* Time passes; a diligent client does not let its time pass.              *)
Tick ==
  /\ \A p \in Diligent : retryIn[p] # 0
  /\ timeLeft' = [p \in Players |-> IF timeLeft[p] > 0 THEN timeLeft[p] - 1
                                                       ELSE 0]
  /\ retryIn' = [p \in Players |-> IF retryIn[p] >= 0 THEN retryIn[p] - 1
                                                      ELSE -1]
  /\ UNCHANGED <<priorityWaitList, waitList, drift, online>>

Next ==
  \/ \E p \in Players : Login(p) \/ Logout(p)
  \/ Tick

(* Time passes, players leave in the end, and a diligent client comes when *)
(* it was told to.                                                         *)
Fairness ==
  /\ WF_vars(Tick)
  /\ \A p \in Players : WF_vars(Logout(p))
  /\ \A p \in Diligent : WF_vars(retryIn[p] = 0 /\ Login(p))

Spec == Init /\ [][Next]_vars /\ Fairness
-----------------------------------------------------------------------------
(* A client that comes no later than it was told finds its entry: the      *)
(* timeout of an entry is after the time its client was told, whatever was *)
(* added, dropped or admitted in the meantime.                             *)
PlaceIsKept ==
  \A p \in Players :
    retryIn[p] >= 0 => IsWaiting(p)

(* Nobody who may not always log in is admitted past those who wait ahead  *)
(* of it, unless there is room for all of them.                            *)
Ahead(p) == IF IsWaiting(p) THEN Slot(p) - 1 ELSE Len(Waiting)
FairAdmission ==
  [][\A p \in (online' \ online) \ Privileged :
       Cardinality(online') + Ahead(p) <= MaxPlayers]_vars

(* A premium client that comes when it is told gets into the game, unless  *)
(* those who may always log in keep coming.                                *)
PremiumGetsIn ==
  <>[](online \cap Privileged = {})
    => \A p \in Premium \cap Diligent : retryIn[p] >= 0 ~> p \in online

(* The comment in getTimeout(): "timeout is set to 15 seconds longer than  *)
(* expected retry attempt".                                                *)
TimeoutAfterRetry ==
  \A p \in Players : retryIn[p] >= 0 => timeLeft[p] = retryIn[p] + 3
=============================================================================
