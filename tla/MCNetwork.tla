------------------------------- MODULE MCNetwork ------------------------------
(***************************************************************************)
(* The server around a client: Connection, and besides it the start and    *)
(* end of the server, the throttle of the accepting port, accounts,        *)
(* entries and bans, the packets of a client in the game, the VIP lists    *)
(* and the part of the map that it is shown, what scripts do and when they *)
(* run, and the watchdog of the process, none of which shares a variable   *)
(* with another. The first state chooses which of them runs; the others    *)
(* keep their initial state.                                               *)
(***************************************************************************)
EXTENDS Connection, Integers, FiniteSets

CONSTANTS Names, Files, Items, Environments, MaxTimers, MaxReloads,
          MaxDeeds, Thinkers, Daily, Interval, Day, Hour, MinTicks,
          Listings, MaxClock, MaxLoads, Ports, Players, Privileged,
          MaxCommands, MaxErrors, MaxRestarts, RestartOnSuccess, MaxSignals,
          MaxStarts, Window, Rapid, Limit, BlockTime, Penalty,
          StatusTimeout, Trusted, MaxBlock, Immune, MaxBans, MaxWrites,
          MaxJobs, MaxLogins, DayLength, Granted, Most, Amounts, MaxSince,
          MaxGifts, PacketKinds, Expiration, MaxPackets, MaxTicks, Watchers,
          AccountOf, Accessing, Special, Limits, MaxRequests

VARIABLES
  part,
  mainThread, loader, threads, serverTasks, gameState, acceptors, running,
  portState, posted, deathTimer, inService, unsaved, latecomers, disturbed,
  commands, errors,
  known, lastAttempt, blockTime, inARow, statusAsked, unread, sinceAccepted,
  burst, chain, refused,
  days, counting, since, onAccount, premiumCopy, told, left, overdrawn,
  gifts,
  gamemaster, deleted, locked, ban, archived, playersOnline, jobs, logins,
  entered, ghosts, ordinary, wrongly, ended, banLost, doubled, bans,
  banWrites,
  openConns, inParsing, acceptPackets, holds, client, connecting, lifeState,
  shut, debugAssertSent, gameTasks, sent, ticks, last, disorder, tooLate,
  grace,
  runsAt, handlers, stopEvent, lockHeld, currentProcess, child, exitCode,
  attempt, started, signals, blind, intruded,
  friendsOnline, ghost, connected, VIPList, limit, vipRows, vipEntries,
  shownOnline, shared, crowded, requests,
  world, place, unseen, knownCreatureSet, central, drawn, figures, heardOf,
  thrown,
  creatureEvents, table, eventsList, scriptEnv, tempItems, object,
  timerEvents, refs, waiting, ready, think, astray, reloads, deeds,
  clock, listed, nextExecution, clockTasks, eventId, lag, listedSince,
  executed, loads

Pair == 2
OneAtOnce == 1
ThreePoints == 3
Se == INSTANCE Server WITH
  main <- mainThread, tasks <- serverTasks, online <- inService,
  port <- portState, late <- latecomers, at <- runsAt, locked <- lockHeld

En == INSTANCE Entries WITH
  Characters <- Players, waiting <- unread, count <- inARow,
  online <- entered, lost <- banLost, writes <- banWrites

Pk == INSTANCE Packets WITH
  Kinds <- PacketKinds, parsing <- inParsing, open <- openConns,
  tasks <- gameTasks, late <- tooLate, shutdown <- shut, life <- lifeState

(* Two of three watchers share an account; the third is a game master.     *)
TwoAndOne == [p \in Watchers |-> IF p = "sage" THEN 2 ELSE 1]
(* Maps of five and six tiles, some above or below others                 *)
Maps ==
  {{<<1, 1, 1>>, <<2, 2, 1>>, <<5, 5, 1>>, <<4, 4, 2>>, <<3, 3, 3>>},
   {<<1, 1, 1>>, <<2, 2, 1>>, <<2, 3, 0>>, <<3, 3, 1>>, <<3, 4, 1>>, <<1, 5, 1>>}}
Beings == {"me", "rat", "bat"}
Watching == "me"
BothWays == {<<"me", "rat", "bat">>, <<"bat", "rat", "me">>}
Around == (-1 .. 1) \X (-1 .. 1)
Bu == INSTANCE Screen WITH
  Players <- Watchers, Worlds <- Maps, Creatures <- Beings,
  Viewer <- Watching, Steps <- Around, Orders <- BothWays,
  Layers <- ThreePoints, SeaLevel <- OneAtOnce, Below <- OneAtOnce,
  West <- OneAtOnce, East <- Pair, North <- OneAtOnce, South <- Pair,
  MaxSkip <- ThreePoints, MaxKnown <- Pair, online <- friendsOnline,
  status <- shownOnline, rows <- vipRows, entries <- vipEntries,
  known <- heardOf

OnLogin(n) == [name |-> n, type |-> "login"]
OnThink(n) == [name |-> n, type |-> "think"]
FourFiles ==
  {<<OnLogin("greet"), OnThink("watch")>>, <<OnThink("watch")>>,
   <<OnLogin("watch"), OnLogin("greet")>>,
   <<OnThink("watch"), OnThink("watch"), OnLogin("greet")>>}
(* Two events that think and one of a time of day, which is another list.  *)
Often == [e \in Thinkers |-> IF e = "quick" THEN 2 ELSE 3]
AtTwo == [e \in Daily |-> 2]
EitherKind == {Thinkers, Daily}
Sc == INSTANCE Scripts WITH
  Limit <- Environments, Lists <- Listings, derailed <- astray,
  tasks <- clockTasks, since <- listedSince

serverVars == <<mainThread, loader, threads, serverTasks, gameState,
                acceptors, running, portState, posted, deathTimer,
                inService, unsaved, latecomers, disturbed, commands,
                errors>>
throttleVars == <<known, lastAttempt, blockTime, inARow, statusAsked,
                  unread, sinceAccepted, burst, chain, refused>>
accountsVars == <<days, counting, since, onAccount, premiumCopy, told, left,
                  overdrawn, gifts>>
entriesVars == <<gamemaster, deleted, locked, ban, archived, playersOnline,
                 jobs, logins, entered, ghosts, ordinary, wrongly, ended,
                 banLost, doubled, bans, banWrites>>
packetsVars == <<openConns, inParsing, acceptPackets, holds, client,
                 connecting, lifeState, shut, debugAssertSent, gameTasks,
                 sent, ticks, last, disorder, tooLate, grace>>
watchdogVars == <<runsAt, handlers, stopEvent, lockHeld, currentProcess,
                  child, exitCode, attempt, started, signals, blind,
                  intruded>>
buddiesVars == <<friendsOnline, ghost, connected, VIPList, limit, vipRows,
                 vipEntries, shownOnline, shared, crowded, requests>>
viewVars == <<world, place, unseen, knownCreatureSet, central, drawn,
              figures, heardOf, thrown>>
scriptsVars == <<creatureEvents, table, eventsList, scriptEnv, tempItems,
                 object, timerEvents, refs, waiting, ready, think, astray,
                 reloads, deeds>>
clockVars == <<clock, listed, nextExecution, clockTasks, eventId, lag,
               listedSince, executed, loads>>
allVars == <<part, vars, serverVars, throttleVars, accountsVars,
             entriesVars, packetsVars, watchdogVars, buddiesVars, viewVars,
             scriptsVars, clockVars>>

MCInit ==
  /\ Init /\ Se!ServerInit /\ En!ThrottleInit /\ En!AccountsInit /\ En!EntriesInit /\
     Pk!Init /\ Se!WatchdogInit /\ Bu!BuddyInit /\ Bu!ViewInit /\ Sc!Init /\
     Sc!ClockInit
  /\ part \in {"connection", "server", "throttle", "accounts", "entries",
               "packets", "watchdog", "buddies", "view", "scripts", "clock"}
  /\ part # "view" => <<5, 5, 1>> \in world
  /\ part # "scripts" => Len(table) = 3
  /\ part # "clock" => listed = Daily

ConnectionNext ==
  /\ part = "connection" /\ Next
  /\ UNCHANGED <<part, serverVars, throttleVars, accountsVars, entriesVars,
                 packetsVars, watchdogVars, buddiesVars, viewVars,
                 scriptsVars, clockVars>>
ServerNext ==
  /\ part = "server" /\ Se!ServerNext
  /\ UNCHANGED <<part, vars, throttleVars, accountsVars, entriesVars,
                 packetsVars, watchdogVars, buddiesVars, viewVars,
                 scriptsVars, clockVars>>
ThrottleNext ==
  /\ part = "throttle" /\ En!ThrottleNext
  /\ UNCHANGED <<part, vars, serverVars, accountsVars, entriesVars,
                 packetsVars, watchdogVars, buddiesVars, viewVars,
                 scriptsVars, clockVars>>
AccountsNext ==
  /\ part = "accounts" /\ En!AccountsNext
  /\ UNCHANGED <<part, vars, serverVars, throttleVars, entriesVars,
                 packetsVars, watchdogVars, buddiesVars, viewVars,
                 scriptsVars, clockVars>>
EntriesNext ==
  /\ part = "entries" /\ En!EntriesNext
  /\ UNCHANGED <<part, vars, serverVars, throttleVars, accountsVars,
                 packetsVars, watchdogVars, buddiesVars, viewVars,
                 scriptsVars, clockVars>>
PacketsNext ==
  /\ part = "packets" /\ Pk!Next
  /\ UNCHANGED <<part, vars, serverVars, throttleVars, accountsVars,
                 entriesVars, watchdogVars, buddiesVars, viewVars,
                 scriptsVars, clockVars>>
WatchdogNext ==
  /\ part = "watchdog" /\ Se!WatchdogNext
  /\ UNCHANGED <<part, vars, serverVars, throttleVars, accountsVars,
                 entriesVars, packetsVars, buddiesVars, viewVars,
                 scriptsVars, clockVars>>
BuddiesNext ==
  /\ part = "buddies" /\ Bu!BuddyNext
  /\ UNCHANGED <<part, vars, serverVars, throttleVars, accountsVars,
                 entriesVars, packetsVars, watchdogVars, viewVars,
                 scriptsVars, clockVars>>
ViewNext ==
  /\ part = "view" /\ Bu!ViewNext
  /\ UNCHANGED <<part, vars, serverVars, throttleVars, accountsVars,
                 entriesVars, packetsVars, watchdogVars, buddiesVars,
                 scriptsVars, clockVars>>
ScriptsNext ==
  /\ part = "scripts" /\ Sc!Next
  /\ UNCHANGED <<part, vars, serverVars, throttleVars, accountsVars,
                 entriesVars, packetsVars, watchdogVars, buddiesVars,
                 viewVars, clockVars>>
ClockNext ==
  /\ part = "clock" /\ Sc!ClockNext
  /\ UNCHANGED <<part, vars, serverVars, throttleVars, accountsVars,
                 entriesVars, packetsVars, watchdogVars, buddiesVars,
                 viewVars, scriptsVars>>

MCNext ==
  \/ ConnectionNext \/ ServerNext \/ ThrottleNext \/ AccountsNext
  \/ EntriesNext \/ PacketsNext \/ WatchdogNext \/ BuddiesNext
  \/ ViewNext \/ ScriptsNext \/ ClockNext

(* A file is a list of events; there is room for one environment at least; *)
(* an event thinks or has a time of day, and numbers are numbers.          *)
ASSUME ScriptsAssumption ==
  /\ Files \subseteq Seq(Sc!Functions)
  /\ Environments \in Nat \ {0} /\ Day \in Nat \ {0}
  /\ MaxLoads \in Nat \ {0}
  /\ {MaxTimers, MaxReloads, MaxDeeds, MaxClock, MinTicks} \subseteq Nat
  /\ Thinkers \intersect Daily = {}
  /\ Listings \subseteq SUBSET (Thinkers \union Daily)
  /\ Interval \in [Thinkers -> Nat] /\ Hour \in [Daily -> 0 .. Day - 1]

(* A burst is shorter than the window and than a block; a day lasts, and   *)
(* nobody is granted more than the most; packets are of the kinds that     *)
(* there are; one of the limits is the highest; numbers are numbers.       *)
ASSUME EntriesAssumption ==
  /\ {MaxCommands, MaxErrors, MaxRestarts, MaxSignals, MaxStarts} \subseteq Nat
  /\ {Window, Rapid, BlockTime, Penalty, StatusTimeout, MaxBlock} \subseteq Nat
  /\ Limit \in Nat \ {0} /\ Rapid <= Window /\ Rapid < BlockTime
  /\ BlockTime <= MaxBlock + Penalty
  /\ {MaxBans, MaxWrites, MaxJobs, MaxLogins} \subseteq Nat
  /\ DayLength \in Nat \ {0} /\ {Most, MaxSince, MaxGifts} \subseteq Nat
  /\ Granted \in 0 .. Most /\ Amounts \subseteq Nat
  /\ PacketKinds \subseteq Pk!Timed \union Pk!Untimed \union {"logout", "leave"}
  /\ {Expiration, MaxPackets, MaxTicks} \subseteq Nat
  /\ MaxRequests \in Nat /\ Limits \subseteq Nat
  /\ \E n \in Limits : \A m \in Limits : m <= n

(* The fairness of Connection, where the connection is what runs.          *)
ConnectionFairness ==
  /\ WF_vars(part = "connection" /\ phase = "greeting" /\ Accept)
  /\ WF_vars(part = "connection" /\ ~socketOpen /\ ReadFails)
  /\ WF_vars(part = "connection" /\ ~socketOpen /\ WriteFails)
  /\ WF_vars(part = "connection" /\ (ParseHeader \/ ParsePacket \/ ParsePacketReturns))
  /\ SF_vars(part = "connection" /\ WriteSucceeds)
  /\ WF_vars(part = "connection" /\ ReadTimerFires)
  /\ WF_vars(part = "connection" /\ WriteTimerFires)
  /\ SF_vars(part = "connection" /\ HandleTimeout)
  /\ WF_vars(part = "connection" /\ Destroy)

MCSpec == MCInit /\ [][MCNext]_allVars /\ ConnectionFairness
-----------------------------------------------------------------------------
(* The watchdog alone, and what its docstrings say of it (see Server).     *)
WatchdogAlone == MCInit /\ part = "watchdog" /\ [][MCNext]_allVars
ShutdownIsGraceful == Se!GracefulShutdown

(* Invariant: how players come into the game and what they send is taken   *)
(* up; see ServerIsSound and WatchdogIsSound in Server, BurstsAreCut,      *)
(* EntriesAreSound and AccountsAreSound in Entries, PacketsAreSound in     *)
(* Packets; and whom a client is told of, see BuddiesAreSound in Screen.   *)
EntriesAreSound ==
  /\ part = "buddies" => Bu!BuddyTypeOK /\ Bu!BuddiesAreSound
  /\ part = "watchdog" => Se!WatchdogTypeOK /\ Se!WatchdogIsSound
  /\ part = "server" => Se!ServerTypeOK /\ Se!ServerIsSound
  /\ part = "throttle" => En!ThrottleTypeOK /\ En!BurstsAreCut
  /\ part = "accounts" => En!AccountsTypeOK /\ En!AccountsAreSound
  /\ part = "entries" => En!EntriesTypeOK /\ En!EntriesAreSound
  /\ part = "packets" => Pk!TypeOK /\ Pk!PacketsAreSound

(* Invariant: see that of the same name in Screen, which comes with the    *)
(* types of its variables.                                                 *)
ViewIsSound == part = "view" => Bu!ViewTypeOK /\ Bu!ViewIsSound

(* Invariant: what scripts do and when they run; see ScriptsAreSound and   *)
(* ClockIsSound in Scripts.                                                *)
ScriptsAreSound ==
  /\ part = "scripts" => Sc!TypeOK /\ Sc!ScriptsAreSound
  /\ part = "clock" => Sc!ClockTypeOK /\ Sc!ClockIsSound
===============================================================================
