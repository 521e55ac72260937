# A verification development for the Lloegrys server

The server is a fork of The Forgotten Server: one C++ process that holds a game
world in memory, with a few threads, a database behind it and clients in front
of it. This directory holds TLA+ models of its parts, TLC configurations that
check them on small instances, and proofs of theorems about them for every
instance. The repository has no documentation and no tests, so the models are
translated from the code (`src/src/*.cpp`, `*.h` and `src/watchdog.py`), and
what the code *promises* is taken from its comments and from what its callers
rely on. `PROJECT.json` maps every definition to the lines it stands for.

## 1. The system

### 1.1 Threads

| Thread | Runs | Talks to the others through |
|---|---|---|
| dispatcher | all of the game: one `Task` at a time | the list `Dispatcher::taskList` |
| scheduler | nothing itself: moves events that are due to the dispatcher | `Scheduler::eventList`, `eventIds` |
| database tasks | asynchronous queries | `DatabaseTasks::tasks`; callbacks go to the dispatcher |
| network (`io_service`, the main thread) | accepts, reads, writes, timers | posts tasks to the dispatcher; `Connection` objects under their own lock |

Nearly all state of the game is touched by the dispatcher only. Within a task
nothing interleaves; what makes the game hard is the *order* of the tasks, what
is remembered from one task to the next (pointers, identifiers, cached answers),
and the objects that two threads share: the three queues and the connections.

### 1.2 Components

| Component | State | Operations | Correct when |
|---|---|---|---|
| `Dispatcher` (tasks.cpp) | list, thread state, condition variable | addTask at either end, stop, shutdown, the loop | no wakeup lost; everything accepted before the end is served |
| `Scheduler` (scheduler.cpp) | priority queue, set of active ids, 32 bit counter | addEvent, stopEvent, stop, shutdown, the loop | never early, never oversleeps, stopEvent exact |
| `DatabaseTasks` (databasetasks.cpp) | list of queries | addTask, flush, stop, shutdown, the loop | every accepted query executed, callbacks once and in order |
| `Connection` (connection.cpp, protocol.cpp) | socket, message queue, two timers, state, its protocol | accept, parse, send, close, timeouts, destructor | writes do not overlap, order kept, silence noticed, released once |
| `ProtocolGame` (protocolgame.cpp) | player it controls, connect event, what its client was shown | login, connect, logout, release, parsing, sending | one protocol per player, exact reference counter; the client shows what is there |
| `OutputMessagePool` (outputmessage.cpp) | buffered protocols | add, remove, sendAll | output is always sent in the end |
| `WaitingList` (waitlist.cpp) | two lists of entries with timeouts | clientLogin, cleanup | a place claimed in time is kept; nobody overtakes |
| Start and end, ports, watchdog (otserv.cpp, server.cpp, watchdog.py) | game state, open ports, current process | loader, save, shutdown; open, accept, close; run, request_stop | nothing accepted is lost; when the watchdog ends no child is left |
| Accounts, bans, logins (ban.cpp, iologindata.cpp, game.cpp) | connection times, bans, premium days, who is online | accept, login, ban, expiry, scripts | bursts are cut, bans last as long as given, days are counted once |
| Items and cylinders (item, container, tile, player, game) | tree of parents, counts, slots, weights, abilities | query*, add, remove, move, exchange | nothing is lost or made; weights and abilities are those of what is there |
| Trade (game.cpp, player.cpp) | state, partner, offer of each player; `Game::tradeItems` | request, accept, close, every move of an item | mutual; what is accepted is what was shown; both or neither |
| Shops (npc.cpp, player.cpp) | windows, shoppers, references into Lua | open, close, buy, sell, reopen | four records agree; goods are paid for |
| Market and mail (iomarket.cpp, game.cpp) | offers in the database, banks, depots | create, accept, cancel, expire | goods and money conserved |
| Saving (iologindata.cpp, iomapserialize.cpp, database.cpp) | rows, transactions | save and load of players, houses, tiles | all or nothing; what was saved is what is loaded |
| Decay (game.cpp, item.cpp) | buckets, references | start, check, transform, stop | an item decays in time, once, and its references are exact |
| Party (party.cpp) | leader, members, invitations, shared experience | invite, join, revoke, pass, leave, logout | pointers of both sides agree; cached answer current |
| Chat, guilds, speech (chat.cpp, guild.cpp, player.cpp) | channels, their users, buffers, mutes | open, close, invite, speak, mute | who hears is entitled to; a mute lasts |
| Houses and beds (house.cpp, bed.cpp) | owners, lists, sleepers | buy, sell, list, visit, sleep, wake | nobody stays inside who may not; both halves of a bed agree |
| Creatures (creature.cpp, monster.cpp) | targets, friends, summons, reference counters | appear, move, attack, convince, remove | no dangling pointer, lists as sight has it |
| Spawns and raids (spawn.cpp, raids.cpp) | blocks, spawned map, chains of events | check, spawn, remove; raid events, force, reload | what is missing comes back; a raid that runs goes on |
| Fights, combats, conditions, casting, growth (player, combat, condition, spells, weapons) | health, skulls, conditions, cooldowns, skills | blows, deaths, casts, levels | what a condition changed is taken back; frags, skulls, costs and losses are just |
| Walking, paths, sight, hunting (creature, map, monster) | walk events, caches, lists of directions | steps, searches, flights, dances | one walk at a time; caches as the map is |
| Scripts and global events (luascript.cpp, globalevent.cpp) | stack of environments, temporary items, timers, tasks | calls, timers, reloads | everything released once; chains go on |
| Quests, files, configuration, tools | | | not modelled, see `PROJECT.json` |

### 1.3 How they interact

```
 watchdog ~ process
 client ~ socket ~ Connection --(login, packets, release)--> Dispatcher <--(events due)-- Scheduler
                       ^                                      |    |  ^                      ^
                       +------(send, disconnect)--------------+    |  +--(callbacks)--+      |
                                     ProtocolGame, OutputMessagePool, WaitingList     |  (addEvent)
                                     the world: players, monsters, items, houses,     |
                                     channels, scripts, ...                           |
                                                                   +--(queries)--> DatabaseTasks
```

### 1.4 What is hard here

`PROJECT.json` lists the hazards, each at its line, with the properties that
would show it. In short: condition variables that are signalled outside the lock
and only sometimes; thread states tested without it; identifiers that wrap
around; timers that have fired when they are cancelled; close from four
directions; a connect event that overtakes the release of the client that it
replaces; entries erased through the wrong list; raw pointers to items, players,
creatures, parties and tiles that other handlers move, hand over or delete; two
moves that should be one; copies kept up by hand (of flags, weights, lists, windows
and rows); scripts that run in the middle of a handler and call the same handler
again; reloads under what is in use; saves of several tables that may fail between
any two of them.

## 2. The modules

### 2.1 Which module models what

| Module | Models | Run | Proved in |
|---|---|---|---|
| `WorkQueue` | abstract: jobs accepted, held by a worker, served in order | refined in `workers` | |
| `Dispatcher` | the dispatcher and the threads that call it | `workers` | `DispatcherProofs` |
| `Scheduler` | the scheduler, its clock, its callers | `scheduler`, `scheduler_timeout` | `SchedulerProofs` |
| `DatabaseTasks` | the worker and the `flush()` of `shutdown()` | `workers` | `DatabaseTasksProofs` |
| `MCWorkers` | `Dispatcher` beside `DatabaseTasks` | `workers` | |
| `Connection` | one connection from accept to destructor | `connection`, `connection_close` | `NetworkProofs` |
| `PlayerSession` | one character, its protocols, the output pool | `player_session`, `player_session_leak` | `PlayerSessionProofs` |
| `MCNetwork` | `Connection`, and beside it `Server` (start, end, ports, watchdog), `Entries` (throttle; bans and logins; premium days), `Packets`, `Screen` (VIP lists; the part of the map that is shown), `Scripts` (scripts; the clock of the global events) | `connection`, `watchdog_stop` | `NetworkProofs` |
| `MCPlayers` | `WaitingList`, and beside it `Conditions`, `Fights`, `Combats`, `Casting`, `Growth`, `Walking`, `Terrain` (paths; sight and its caches), `Hunting`, `Creatures` | `players`, `waiting_list_timeout` | `PlayersProofs` |
| `MCGoods` | `Trade` (items and trades), and beside it `Shops`, `Market`, `Tiles`, `Inventory`, `Decay`, `Saving` | `goods` | `TradeProofs` |
| `MCBeings` | `Party`, and beside it `Talk` (chat; speech), `Wildlife` (spawns; raids), `House` (houses and beds), `Windows` (open containers) | `beings` | `BeingsProofs` |

`MCWorkers` and the last four put components of one neighbourhood into one run. Such components
share no state: in the code they meet only in that the dispatcher runs their
handlers one after the other, so that what one of them can reach does not depend
on the others. The hosting module EXTENDS one of them (`MCWorkers` both) and INSTANCEs the others; a
variable `part`, chosen in the first state and never changed, says which component
this behaviour is of; the others keep one of their initial states, and each
property reads `part = "..." => ...`. This is the *sum* of the components'
state graphs and not their product, so that a run costs what its parts cost
one by one. Components that do share state are one module (a trade and the items
it is about, a house and its beds, the output pool and the protocols in it).

### 2.2 How state and actions correspond to the code

Handlers run on the dispatcher thread one at a time, so a handler is one action
unless the code gives up control inside it: a script that may call the same
handlers again, a lock given back, a task posted, a database statement that may
fail. `PROJECT.json` maps each definition to its lines. Per module:

- **Dispatcher, Scheduler, DatabaseTasks.** Each thread has a program counter
  with the points where the lock is taken, given back or waited for:
  a stretch of code under one lock is one action, `notify_one` after the unlock is
  an action of its own (`Notify`, `NotifyWorker`), and a waiting thread may wake spuriously.
  Reading `threadState` without the lock is a step of its own (`CheckState`, `WorkerChecks`),
  because the code does so. `fate` and `outcome` are histories of what became of each task, event
  or query. The identifier of the scheduler wraps at `MaxId` as the 32 bit counter
  does, past 0.
- **Connection.** A handler runs under `connectionLock` and is one action; only
  `parsePacket` is two, as the protocol it calls may send and close. An operation
  started completes later, with an error or not; a timer that fired has a handler
  posted which `cancel()` does not take back; starting an operation may throw.
- **PlayerSession.** The dispatcher's queue is explicit (`tasks`), with the push
  to the front that `connect()` makes. Player objects bear the names of the
  protocols that created them; `refs` is the counter of the code, against which
  `RefsExact` recounts.
- **WaitingList.** `drift` is the difference between `size()` of a list and its
  nodes which `erase` through the other list makes (libstdc++ keeps the size in
  the list object). Time is in units of five seconds, the step of the retry times.
  `Keeping` is the loop of `cleanupList` and `erase`.
- **Server, Entries, Packets.** The states of the game, the ports, the
  loader, and the order in which threads are stopped and joined, which each end some
  time after they were told to. `main()` waits for the loader without a predicate, so it
  may wake at any time (`MainWakes`; `disturbed` remembers that it came too early);
  attempts of one
  address and the blocks they earn, bans as rows with their history, marks of who is
  online; the days of an account, counted by days passed, with the copy a player
  took when he came in; a packet between the network thread that parses it and the
  dispatcher that acts on it, with its expiration. The watchdog's lock and its signal
  handler, which interrupts it anywhere, are steps.
- **Screen.** A VIP list, its rows and what the client shows, kept apart as the code
  keeps them; the map as columns sent and columns shown, and the list of creatures
  the client knows, with its limit.
- **Scripts.** The stack of environments with its limit, `tempItems`, registry
  references of timers, creature events that a reload replaces, and the chains of
  tasks of the global events with their due times.
- **Fights, Combats, Conditions, Casting, Growth.** Formulas of damage are choices
  from small sets; what is exact is who may be hurt, marked, locked and paid, and that
  each change a condition or a level made is taken back by the same amount.
- **Walking, Terrain, Hunting.** Cells of a small map; an event of the scheduler is
  waiting, handed over (when it cannot be stopped any more) or gone. The path search
  is the loop over the nodes as in the code, compared with the shortest path.
- **Trade.** A world is `[parent, count]`; an object that counts nothing does not
  exist. `Destinations`, `MaxCount` and `MoveDestinations` are
  `Player::queryDestination`, `queryMaxCount` and the search of `internalMoveItem`;
  `Touched` collects the notifications that end in `checkTradeState`. Positions,
  weight and scripts are refusals that may always happen.
- **Shops, Market, Saving, Inventory, Decay.** What is kept in several places is
  several variables (a window and the set of shoppers; memory and rows; weight and its
  cache; an item and its bucket), and properties compare them. A stream that `Saving`
  reads back is taken token by token with a stack of open containers, as
  `unserializeItemNode` takes it.
- **Tiles, Windows.** The stack of a tile and the copy of its first things that a
  client has, changed only by what is sent; windows by number, and the browse field
  with its references.
- **Party, Talk, House, Creatures, Wildlife.** Objects are records, and what is
  deleted is a value of its own (`NoParty`, a freed creature) which no pointer may
  reach. A task of the raids is with the scheduler or handed to the dispatcher, where
  `stopEvent` does not find it. The handlers of `Game` are actions; the methods they call are operators on one
  record that holds all the variables (`Now`), as they call each other.

## 3. The runs

All bounds are constants of the modules and are named in the cfgs and, for the
components that are instances, beside the INSTANCE (of `MCNetwork` in the cfg alone).

| Run | Bounds | Shows |
|---|---|---|
| `workers` | dispatcher: 2 threads, the tasks themselves, 3 tasks, 1 with expiration; database: 2 callers, 3 queries, 2 with callback | `NoLostWakeup`, `NothingLeftBehind`, `Served` (liveness), `OnlyTheHeldIsOvertaken`, `CallbacksInOrder`, `AcceptedIsExecuted` (liveness), and that both refine `WorkQueue` |
| `scheduler` | 2 callers, 3 events, delays 0 and 1, clock to 1, ids to 2 (wraps) | `NeverEarly`, `NeverOversleeps`, `StopIsExact`, `EventuallyDispatched` (liveness) |
| `scheduler_timeout` (violation) | 1 caller, 2 events | finding 1 |
| `connection` | 3 messages; 1 port, 2 characters, 3 players with VIP lists, 3 starts; for the rest see the cfg | `OneWriteAtATime`, `InOrder`, `Attentive`, `GracefulCloseFlushes`, `ConnectionsEnd` (liveness); `EntriesAreSound`: the server's life, watchdog, throttle, bans, days, packets, VIP lists; `ViewIsSound`: the map shown; `ScriptsAreSound`: scripts and the clock |
| `connection_close` (violation) | 2 messages | finding 2 |
| `watchdog_stop` (violation) | 2 signals, 3 starts | finding 5 |
| `player_session` | 3 protocols, `sendAll` events counted to 1 | `ControlIsSound`, `AutosendRuns`, `ClosedIsReleased` (liveness) |
| `player_session_leak` (violation) | 2 protocols | finding 3 |
| `players` | 4 players (2 premium, 1 privileged, 2 diligent), 1 place, drift to 5; for the rest see `MCPlayers` | `PlaceIsKept`, `FairAdmission`, `PremiumGetsIn` (liveness); `FightsAreSound`: fights, combats, conditions, casts, growth, paths, sight, hunts; `WalksAreSound`: walks; `CreaturesAreSound` |
| `waiting_list_timeout` (violation) | 2 players | finding 4 |
| `goods` | 3 players; a bag and 3 stack objects; 1 slot, a bag for 2 things, stacks of 2; for the rest see `MCGoods` | `TradesAreSound`, `OfferIsFrozen`, `BothOrNeither`: trades; `ItemsAreSound`: slots, decay, shops and tiles; `SavesAreSound`; `LedgerBalances`: market and mail |
| `beings` | 3 players, 2 `Party` objects; for the rest see `MCBeings` | `PartiesHold`, `ChannelsAreSound` (chat and speech), `WildlifeIsSound` (spawns and raids), `HousesAreSound`, `WindowsAreSound` |

Why the bounds are enough to be of interest: three tasks fill a list past the
empty/non-empty boundary at which signals are sent, with one in execution; two
callers race each other and the shutdown; three events with two delays give every
order of deadlines, and ids to 2 make two events share one; three protocols give a
takeover of a takeover; four players make a list with both priorities and one that
leaves it; a third player may disturb a trade of two; three players can hand a
party on and leave it; two monsters and a player make every relation of creatures
(master, summon, target, friend, follower) of every kind; two chains of raid events
make one that a reload stops and one that it misses; a limit (of environments, of known creatures, of slots, of attempts) is
always small enough to be reached. Symmetry is used in `beings` only, which checks
no liveness, and over the players of `Party` only, who occur nowhere else; in `beings` one
of two speakers is premium, one hears public channels, one of two tenants may change the guild,
and lists are written in one of two houses, since everything else is the same for both.

`CHECK_DEADLOCK FALSE` stands where the system really stops: threads end,
connections are destroyed, protocols log in once, a process that was shut down is
over, and a waiting list may be empty with nobody left to come.

Larger instances that were run once and passed (distinct states): raids with four chains,
2,721,000; parties at all
places and levels, 758,000; chat with two private channels, 250,000; chat in which all hear public channels, 147,000; a house with two
beds, 498,000; lists written in both houses, 237,000; conditions with three additions, 476,000; fights of three hits,
725,000; walks with three requests, 1,008,000; tiles of four items, 43,000; windows
with two fields, 384,000; inventories of six items, 477,000; two areas of combat,
386,000; decay of three objects, 103,000; shops with two players and three purses,
155,000; VIP lists with three requests, 156,000; speech with a buffer of four,
56,000; maps of nine and seven columns, 27,000; the clock to 8, 57,000; trades of two
players with a bag for two things and stacks of three, 15,000, in which the first
of the two moves may put its stack onto the very stack that the second is to move.

### Fairness

- The loop of a thread and a `notify_one` that is owed are weakly fair: the
  operating system runs threads, and nothing else is needed, for no lock is held
  across a wait. Callers are *not* fair: nobody has to add a task, stop or shut
  down. A spurious wakeup is not fair either.
- The clock of the scheduler ticks.
- In `Connection` only what the library guarantees is fair: operations on a closed
  socket are aborted, handlers that are posted run, timers that run fire. The peer
  is not fair: it may never read and never write, and only timeouts help then. The
  handlers of a timeout and of a write that the peer did let complete are strongly
  fair, because the network thread takes posted handlers in turn while other handlers come and go.
- In `PlayerSession` the dispatcher runs its tasks, the events become due and
  `cleanup()` follows each task; clients are not fair.
- In `WaitingList` time passes and players leave some time (the server
  removes those that are idle); only `Diligent` clients
  come when they were told.

No other component has a liveness property; where the code must go on (raids, spawn
checks, global events, decay), the invariant says that there is a task to come, which
the liveness of the scheduler and the dispatcher then serves.

## 4. Findings

1. `scheduler.cpp:38`: the comment "we had a timeout, so there has to be an event
   we have to execute" is wrong during `shutdown()`, which empties the queue between
   the end of the wait and the reacquisition of the lock; the thread then takes the
   top of an empty queue.
2. `connection.cpp:83`: a connection closed with messages in its queue is to be
   closed "by the destructor or onWriteOperation", but with a peer that does not
   read neither comes: the pending write holds the object, and when its timer fires
   `close(FORCE_CLOSE)` returns early, as the state is CLOSED already.
3. `protocolgame.cpp:178`: `connect()` takes "Connection expired" for "release has
   been called"; between the two the player is attached to a released protocol for
   good.
4. `waitlist.cpp:89`: a premium entry is erased through the other list, whose size
   goes wrong; the timeout of later entries is not "15 seconds longer than expected
   retry attempt".
5. `watchdog.py:214`: "Signal graceful shutdown and terminate the child if needed"
   (`watchdog.py:212`; likewise `:288`) fails in two ways. A signal that comes while the main
   thread holds the lock waits for that lock for ever, on the same thread. And one that comes
   when the child was started but is not recorded yet finds nothing to terminate; the watchdog
   then waits for a server that nobody stops. TLC finds the first, and the second when
   `GracefulShutdown` is checked without its second conjunct. `WatchdogIsSound` says that
   it fails in no third.

Weaknesses that the models allow for, of which the code says nothing, and which are
therefore not findings. The properties hold beside them, and say where they do not
reach:

- *Threads.* A thread of the scheduler or of the database tasks that read the old
  state just before `shutdown()` sleeps for ever, and `join` hangs. The loader may
  finish before `main()` waits for it, which then waits for ever. If `main()` wakes
  spuriously while it loads, the server serves before its last port is added, or it is said
  not to be online and the threads are ended under the loader, which may leave ports open and
  the thread of the database running (`EndIsClean`). A callback is refused when the
  dispatcher was stopped before the query was done. A login queued before the game shuts down
  is served after everybody was kicked and saved.
- *Sessions.* Two chains of `sendAll` may run. Tasks queued before a death run at
  health 0; acts of the old client may run after the new one took over.
- *Premium days and bans.* `removePremiumDays` reckons with a stale copy and may go below zero,
  which is read back as a large number. Two checks of one expired ban write its
  history twice.
- *Trade.* An exchange whose second move fails is not undone (`game.cpp:2592`), which
  `OnlyByStacking` describes exactly. An acceptance given before the counter offer was
  shown counts (`game.cpp:2519`).
- *Shops.* A script that opens a shop inside an opening leaks the callbacks of the
  inner one; one that always reopens makes `closeAllShopWindows` loop.
- *Items.* An exchange may put a stack beside others into a full bag and then fail.
  Internal additions to a slot with a full stack of the same kind overwrite it.
  A clone of a decaying item never decays.
- *Saving.* A failed row of a house is not noticed; what moves between a player and a
  house doubles or vanishes when one of the two is saved and the server crashes.
- *Views.* An item that becomes immovable in place stays in an open browse field. VIP
  rows beyond the limit are shown by the client and can never be removed.
- *Houses, chat, parties.* A bed is used from beside it, through the wall too, and puts a
  stranger into the house until the kick; a second bed may be used in that instant; who leaves
  the guild that a list names stays inside. A player who is moved to a guild without a rank of
  level 1 leaves a pointer in the old guild, which dangles when he is gone. A reload empties the
  public channels; a player may invite itself to a party.
- *Creatures, spawns, raids.* A removed summon stays in the target list of a monster that
  does not look; a startup placement that fails schedules no check; a raid
  without events keeps running. A reload while the dispatcher has `checkRaids` leaves two
  chains of them; a raid's task that the dispatcher has, or that a forced or twice started raid
  does not know of, runs on the deleted raid.
- *Fights.* A player at health 0 who gains a level before the check lives on. An expired
  haste that was not swept yet may be renewed. A blocked blow still brings its
  conditions.
- *Walks.* An event that was handed to the dispatcher cannot be stopped. After a
  diagonal step to the south the shifted walk cache is wrong in two rows.
- *Scripts.* A creature event whose script a reload took away is still executed; a timer
  event overtaken by a reload doubles its chain or loses its day.

## 5. The proofs

`tlapm` checks every theorem; they hold for every value of the constants that
satisfies the ASSUMEs of the modules, which say only that model values differ,
that numbers are numbers and that what one list of constants names is known to the
others. TLC evaluates each ASSUME in the run of a module that extends its module.
Each proof has the same plan: an inductive invariant, checked with TLC before it was
proved; one lemma per action; a theorem that joins them.

- **DispatcherProofs.** `IInv` joins the type invariant and `NoLostWakeup` to
  `HeldInv` (the thread holds exactly the job that is running, at the points of its
  loop where it holds one), `ListInv` (the list holds exactly the queued jobs, each
  once) and `ShutdownInv` (what `stop` and `shutdown` have done so far; after both
  the terminating task is last). `NoLostWakeup` alone is not inductive, because the
  jobs in the list and those in hand must be told apart first. From `IInv`
  follow `TypeCorrect`, `WakeupSafety`, `OrderlyShutdown` and `EachTaskOnce` (an
  action property that is proved but not among the runs), and `StepSimulation`
  shows each step to be one of `WorkQueue` or a stutter: `ImplementsWorkQueue`.
- **SchedulerProofs.** `QueueInv` (the queue holds exactly the pending events),
  `IdsInv` (`eventIds` tells the stopped of them from the others), `SleepInv` (while
  the thread sleeps, an event due by its deadline is in the queue, unless that was
  cleared) and
  `ShutdownInv` make the conjunction inductive: `NoEventIsEarly`, `NoOversleeping`,
  `ExactStops`.
- **DatabaseTasksProofs.** Two threads may run queries, the worker and the caller of
  `shutdown()`. `HeldInv` says what each holds and when, `ListInv` that the list is the
  end of what was accepted, and
  `LastInv` that what is in hand was taken last; that only what was executed called back is
  a part of `CallbacksInOrder`. The order of execution cannot be
  shown without the place of each query among the accepted, hence `Taken`. `TypeCorrect`,
  `ExecutionOrder`, `CallbackOrder`, and `ImplementsWorkQueue`: both threads are workers
  of one abstract queue.
- **NetworkProofs.** For the connection, `States` ties state, protocol, reads, timers and
  manager together; `Socket` and `Backlog` tie the queue, the pending write and the socket.
  `WritesNeverOverlap`, `OrderKept`, `ReleaseOnce`, `SilenceIsNoticed`,
  `GracefulClose`. For the scripts, `Scripts_are_sound` rests on five invariants and that of
  the clock. `Stack`: timers and global events run at the bottom of the stack only, where
  nobody else is. `EventsInv`: the functions of the loaded events are in the table under their
  ids, which a load keeps up function by function (`LoadingKeeps`, by induction over the
  file). `TimersInv`: the scheduler and the dispatcher never have the same timer.
  `ItemsInv`: a temporary item belongs to one environment, and what has not been created to
  none, without which a release at the end of one script could be a second one. `ChainInv`:
  while the global events run their task is the one that was taken. `ClockInv` adds to
  what is checked that the task ids are bounded by their number, so that `FreeId` finds one
  (`TaskAdded`, by cardinality), and that an event of the day stands at its hour: that there
  is no other time of it before the next (`OneTimeMore`) is arithmetic of remainders.
  `ScriptsAssumption` says that events at an interval and events of the day are apart, that
  each has its interval or its hour within the day, and that the bounds are numbers.
  `Entries_are_sound` has an invariant for each of seven components, none of which is
  inductive as the run checks it. `ServerInv`: what the loader and `main()` may find where
  they are (`Stages`: a `main()` that was disturbed may be ahead of the loader), that a task
  which ends a thread is there only after the shutdown began
  or when `main()` has no services (`TasksFit`), that a port listens only while somebody
  will close it, and that it keeps its event or its task whatever `main()` does.
  `WatchdogInv`: while a stop was asked for and no call was blind, some call on the stack
  will still read the process or terminate it; and unless a signal came while the lock was
  held, it is the topmost call or the main thread that holds it. `ThrottleInv`: who has come in within the shortest
  time is counted. `AccountsInv`: the balance of days holds from one list to the next.
  `EntriesInv`: the table of who is online is that of who is in the game, the
  jobs of a ban are in order, and one that ran out is in its history or will be (`Kept`).
  `PacketsInv`: the tasks of a protocol are in the order of its life, and the acts
  queued at a death are counted (`grace`), also while a packet is being parsed.
  `BuddiesInv`: two characters of one account that have met are marked, and special
  ones are watched by accounts of special ones only. `EntriesAssumption` says that a
  burst is shorter than its window and than a block, which adds up; that a day
  lasts; that the kinds of packets are those there are; and that one of the limits of a VIP list is the
  highest.
- **PlayerSessionProofs.** Control and the reference counter depend on what is queued:
  `QueueInv` orders the login of a protocol before its release, each at most once, even
  when `connect()` pushes to the front; `LoginInv` and `EventInv` say that who was not
  logged in, or waits for its connect event, plays nobody; `CountInv` recounts the
  references. `Control`, `Autosend`.
- **TradeProofs.** Two inductive invariants. `Pairs`, `SomethingOffered`, `Registered` and
  the types of the trade variables form `IInv`, whatever the items do: the players whose
  trades are closed, with their partners, are closed under partnership
  (`EndedIsClosed`), so that `CloseTrades`, the one way in which any move ends trades, keeps
  it: `TradeIsMutual`. `WInv` adds the world (`WellFormed`: everything in one place, no
  container in itself, stacks within their size) and `Standing` (offers are apart and at
  hand). That a move leaves what stands as it was, whatever way it merges, splits or
  exchanges, is the case analysis of `Touched`: `TypeCorrect`, `NothingOfferedTwice`,
  `ShownIsAccepted`. The exchange is two moves in a row. Units are counted as the
  elements of a finite set and so add up over disjoint things (`UnitsAddUp`); `Taken`
  and `Given` account for one move, also where it splits or stacks and where mine is put
  on theirs before theirs leaves; `OtherStays` says that the first move leaves the other
  offer as it was but for that. That the second move finds a place (`SecondFindsPlace`)
  needs `NothingOverfull`, itself inductive (`NothingIsOverfull`): with a container that
  holds more than it has room for, what leaves makes no room, and TLC shows the loss.
  `BothSidesOrNone` is `BothOrNeither`. All of it is stated of `Trade`;
  `Trades_are_sound` carries it over to `MCSpec`, whose other components leave the
  variables of trades alone.
  The ledger has a third invariant, `MarketInv`: the types, `ChestUntouched` (a depot that has not been opened is as it was stored,
  so that a save which skips it loses nothing) and `AnswersAgree` (an offer keeps its owner, its kind and
  its price as long as an answer of the database speaks of it, so that what is
  processed late is settled with the right player). Without the last two, late answers and
  the opening of depots do not balance in every state that has the types. Each step is then accounted
  for as what two players, the two kinds of offers and the fees gain (`Balances`), where the two
  may be the same player, and gains that cancel keep both totals (`LedgerKept`). The
  totals are sums over finite sets by the folds of the library: that a sum
  unfolds (`SumUnfolds`), and grows by what one of its terms grows (`SumGain`), follows from the least
  set for which it does not, which exists since inclusion of finite sets is
  well-founded. `TheLedgerBalances` is `LedgerBalances`, for any players, purses,
  prices, fee, and any bounds on offers, queries and failures; `MarketAssumption` says
  that the players are finitely many and that the numbers are numbers. The check of this
  module takes about twelve minutes.
- **PlayersProofs.** `InTime` says that the entry of whoever was told to come outlives
  that moment by 15 seconds, whatever the size of the premium list has drifted to, as it
  errs on the larger side only. What `Keeping` leaves of a list is characterised by
  induction over its length. `TypeCorrect`, `PlacesAreKept`, `NobodyOvertakes`.
  The handlers of a walk call each other with the player in hand, so that each lemma is
  about a record passed through (`Sound`, `Going`, `Waits`). An event is stopped by its
  id, so that a walk would lose its next event if one of the other two ids were that of
  an event of the walk: `Linked` says that an event which carries one of the three
  ids is of the kind of that id, and that what waits in the scheduler for a wish carries
  it. That a new id is one nobody has needs a bound on the events: each request leaves at
  most one behind (`Room`, `FreeIdIsFree`). `Walks_are_sound` is all
  that the run checks of `Walking`, its types included, for any line of cells,
  wishes, places of what is wished, and number of requests; `WalkAssumption` says that
  there are three cells at least and that the wishes lie on them.
- **BeingsProofs.** Theorems about `MCSpec`, one inductive invariant for each component.
  `PartyInv` is what the run checks, of all objects at once, but the handlers call each
  other in the middle, so that most lemmas are about one record passed through
  (`Uninvited`, `Left`, `Disbanded`): `Parties_hold`. `ChatInv` adds to the entitlement of
  hearers who was ever invited, and that a guild knows as its members those in the game and
  those who left it for a guild without ranks; `SpeechInv` that a mute
  does not end before the buffer has lost its surplus: `Channels_are_sound`. `SpawnsInv`
  counts the references of each monster from the lists it is in; `RaidsInv` adds that a
  raid with events has one left, that tasks and lists are of raids that were loaded, and that
  a raid has two tasks only if it was forced or started while one was pending (`blurred`): `Wildlife_is_sound`.
  `HouseInv` adds that deals of different houses are apart: `Houses_are_sound`. `WindowsInv` has three parts. Containers lie in no circle, so that
  the places around one are well defined: `TopOf` and `Outwards` are recursive functions,
  which unfold because they exist on ever larger sets of containers (`TopUnfolds`,
  `AllAreReached`), and what goes on from the outer container to the inner holds of all
  (`FromOutside`). `Counted`: the references of the browse field are its windows, its
  event and those who left, in every step of a handler, also where several windows
  close at once (`RecountAll`). `Fair`: each window is of what its player may reach, and what the
  client shows is open. The case that decides is a container that is moved with others in
  it: who is not told of it had no window of anything in it, or may reach it still
  (`NoticedIs`, `MoveIsKept`). `Windows_are_sound`, for any players, containers of any
  nesting, cells in a line, and numbers of windows; `WindowsAssumption` says that those are
  finitely many and told apart, and that nothing lies in a circle at first.

Only model-checked, and why:

- Liveness (`Served`, `EventuallyDispatched`, `AcceptedIsExecuted`, `ConnectionsEnd`,
  `ClosedIsReleased`, `PremiumGetsIn`): ENABLED and fairness are out
  of the prover's reach.
- `SavesAreSound`: that what is read back is what was written is an induction over the
  stream of a tree of containers.
- `CreaturesAreSound`: its handlers are folds over sets of spectators, in an order left
  open, so that each would need the induction that the sums of the ledger have.
- `ViewIsSound`: what is drawn of the map is put together by folds over rows and
  columns, likewise.
- `FightsAreSound`, `ItemsAreSound`: not proved yet. Each joins several
  components; the invariant of one of them would prove nothing that is listed.

Induction over data is possible only where the property is a set given in first-order
terms, since the theorems of the library that take an operator cannot be instantiated:
`LeastNatural` and `UpTo` of `PlayersProofs` and `NetworkProofs` get it from the least
element of a set of numbers, `LeastSet` of `TradeProofs` and `AllAreReached` of
`BeingsProofs` from a least set.

## 6. The plan

The components of section 1.2 are modelled. What is left, in this order:

1. `FightsAreSound`, one component after the other, over `MCPlayers`.
2. `ItemsAreSound`, one component after the other, the shops first.

Runs are kept few: where a module grows, its run does, and a property gives way
to a deeper one.

## 7. Not modelled, and why

Parsers and composers of files, packets and SQL (conversions), scripts (they may
call anything; where the code asks one, the models let it refuse, say that it
allows, or let it call back into the component), the bindings of Lua (ten thousand
lines that convert arguments), random choices and formulas (a choice from a small set),
quests (a comparison of numbers), rendering of texts. Data races on C++ objects below
the grain of a handler (for instance `parsePacket` reading `player` on the network
thread) are listed but not modelled: their outcome is not a value of the program. Two
characters of one account at a time (`ALLOW_CLONES`) are left out of
`PlayerSession`. The hazard of `scheduler.cpp:121` (the state is stored without the
lock while the thread is about to sleep) has no property: the hang is real and nothing
in the repository denies it.
What each partly modelled component leaves out
stands in its note in `PROJECT.json`.
