-------------------------------- MODULE Server --------------------------------
(***************************************************************************)
(* The life of the process: how the server starts and ends, and the        *)
(* watchdog that starts it again.                                          *)
(***************************************************************************)
EXTENDS Integers, Sequences, FiniteSets
-----------------------------------------------------------------------------
(***************************************************************************)
(* The life of the server process: main() waits for the loader, which is   *)
(* the first task of the dispatcher (otserv.cpp), and then serves the      *)
(* network; the game goes through its states (Game::setGameState); and a   *)
(* shutdown ends the threads, the ports and the connections                *)
(* (Game::shutdown, ServiceManager::stop).                                 *)
(*                                                                         *)
(* Three threads take part.  main() first waits, without a predicate, so   *)
(* that it may wake while the loader is at work, and later runs the        *)
(* handlers of the network; the dispatcher runs tasks, each of them in one *)
(* step but the loader's; the scheduler only lets the events of the ports  *)
(* fire.  Inside the threads see Dispatcher, Scheduler and DatabaseTasks:  *)
(* here each has a state, and ends some time after that says so.           *)
(* Left out: what is loaded, and how players and the map are saved.        *)
(***************************************************************************)
CONSTANTS
  Ports, Players,
  Privileged,      (* players with PlayerFlag_CanAlwaysLogin               *)
  MaxCommands, MaxErrors (* bounds: what scripts ask for, ports that fail  *)

VARIABLES
  main,            (* where main() is                                      *)
  loader,          (* where mainLoader is                                  *)
  threads,         (* the state of each thread                             *)
  tasks,           (* of the dispatcher, but the loader                    *)
  gameState,
  acceptors,       (* the ports of the ServiceManager                      *)
  running,         (* ServiceManager::running                              *)
  port,            (* each port: its socket, pendingStart, is there an event?*)
  posted,          (* the ports whose onStopServer the network will run    *)
  deathTimer,
  online,
  unsaved,         (* history: who has something to lose                   *)
  late,            (* history: who came in after the shutdown had begun    *)
  disturbed,       (* history: did main() wake while the loader worked?    *)
  commands, errors

gameVars == <<gameState, online, unsaved, late>>
netVars == <<acceptors, running, port, posted, deathTimer>>
serverVars == <<main, disturbed, loader, threads, tasks, gameVars, netVars, commands, errors>>

Idle == [socket |-> "none", pendingStart |-> FALSE, event |-> FALSE]

ServerTypeOK ==
  /\ main \in {"starting", "asleep", "woken", "online", "serving", "joinScheduler",
               "joinDatabase", "joinDispatcher", "exited"}
  /\ loader \in {"config", "database", "data", "init", "services", "done", "failed"}
  /\ threads \in [{"dispatcher", "scheduler", "database"} ->
                    {"none", "running", "closing", "terminated", "ended"}]
  /\ gameState \in {"startup", "init", "normal", "closed", "shutdown", "closing", "maintain"}
  /\ acceptors \subseteq Ports /\ running \in BOOLEAN /\ posted \subseteq Ports
  /\ port \in [Ports -> [socket : {"none", "open", "closed"},
                         pendingStart : BOOLEAN, event : BOOLEAN]]
  /\ deathTimer \in BOOLEAN
  /\ online \subseteq Players /\ unsaved \subseteq online /\ late \subseteq Players
  /\ disturbed \in BOOLEAN
  /\ commands \in 0..MaxCommands /\ errors \in 0..MaxErrors

(* Game starts in the state "normal", and the loader's task is there.      *)
ServerInit ==
  /\ main = "starting" /\ disturbed = FALSE /\ loader = "config"
  /\ threads = [t \in {"dispatcher", "scheduler", "database"} |->
                  IF t = "database" THEN "none" ELSE "running"]
  /\ tasks = <<>> /\ gameState = "normal"
  /\ acceptors = {} /\ running = FALSE /\ port = [p \in Ports |-> Idle]
  /\ posted = {} /\ deathTimer = FALSE
  /\ online = {} /\ unsaved = {} /\ late = {} /\ commands = 0 /\ errors = 0
-----------------------------------------------------------------------------
(* Dispatcher::addTask: after stop() a task is thrown away.                *)
Added(task) == IF threads["dispatcher"] = "running" THEN Append(tasks, task) ELSE tasks
Task(op, of) == [op |-> op, of |-> of]

(* ThreadHolder: stop() and shutdown() of the threads in S.  One that was  *)
(* told to end goes on if it is stopped before it has looked.              *)
Alive(S) == {t \in S : threads[t] \notin {"none", "ended"}}
Told(S, state) == [t \in DOMAIN threads |-> IF t \in Alive(S) THEN state ELSE threads[t]]
Stopped == Told(DOMAIN threads, "closing")
Workers == {"scheduler", "database"}

(* notify_all wakes main() only if it waits already.                       *)
Notify == main' = IF main = "asleep" THEN "woken" ELSE main

(* ServicePort::open, which a busy address makes fail; the event to try    *)
(* again is lost when the scheduler is stopped                             *)
Later == threads["scheduler"] = "running"
Open(p, works) ==
  IF works THEN [port[p] EXCEPT !.socket = "open", !.pendingStart = FALSE]
  ELSE [socket |-> IF port[p].socket = "open" THEN "closed" ELSE port[p].socket,
        pendingStart |-> TRUE, event |-> Later]
Fail(works) == errors' = IF works THEN errors ELSE errors + 1
-----------------------------------------------------------------------------
(* main()                                                                  *)
MainWaits ==
  /\ main = "starting" /\ main' = "asleep"
  /\ UNCHANGED <<disturbed, loader, threads, tasks, gameVars, netVars,
                 commands, errors>>

(* A spurious wakeup; whether it is one nobody asks.                       *)
MainWakes ==
  /\ main = "asleep" /\ main' = "woken"
  /\ disturbed' = (disturbed \/ loader \notin {"done", "failed"})
  /\ UNCHANGED <<loader, threads, tasks, gameVars, netVars, commands, errors>>

(* No services, or not yet: main() itself ends the threads.                *)
MainChecks ==
  /\ main = "woken"
  /\ IF acceptors # {}
     THEN main' = "online" /\ UNCHANGED <<threads, tasks>>
     ELSE /\ main' = "joinScheduler" /\ tasks' = Append(tasks, Task("terminate", "all"))
          /\ threads' = Told(Workers, "terminated")
  /\ UNCHANGED <<disturbed, loader, gameVars, netVars, commands, errors>>

(* ServiceManager::run                                                     *)
MainRuns ==
  /\ main = "online" /\ main' = "serving" /\ running' = TRUE
  /\ UNCHANGED <<disturbed, loader, threads, tasks, gameVars, acceptors, port, posted, deathTimer,
                 commands, errors>>

(* join() waits for a thread, if it was started by then.                   *)
Joins(place, t, next) == main = place /\ t \notin Alive({t}) /\ main' = next
MainJoins ==
  /\ \/ Joins("joinScheduler", "scheduler", "joinDatabase")
     \/ Joins("joinDatabase", "database", "joinDispatcher")
     \/ Joins("joinDispatcher", "dispatcher", "exited")
  /\ UNCHANGED <<disturbed, loader, threads, tasks, gameVars, netVars,
                 commands, errors>>

(* threadMain looks at its state.                                          *)
ThreadEnds(t) ==
  /\ threads[t] = "terminated" /\ threads' = [threads EXCEPT ![t] = "ended"]
  /\ UNCHANGED <<main, disturbed, loader, tasks, gameVars, netVars, commands,
                 errors>>
-----------------------------------------------------------------------------
(* Game::setGameState of a state that is not the present one.  Shutting    *)
(* down and closing kick players, and save the game after that.            *)
Kicked(state) ==
  CASE state = "shutdown" -> online
    [] state = "closed" -> online \ Privileged
    [] OTHER -> {}
SetGameState(state) ==
  IF gameState = "shutdown" \/ gameState = state
  THEN UNCHANGED <<gameState, online, unsaved, threads, late>> /\ tasks' = Tail(tasks)
  ELSE /\ gameState' = state /\ online' = online \ Kicked(state)
       /\ unsaved' = IF state \in {"shutdown", "closed"} THEN {} ELSE unsaved
       /\ late' = late
       /\ IF state = "shutdown"
          THEN /\ tasks' = Append(Tail(tasks), Task("shutdown", "all"))
               /\ threads' = Stopped
          ELSE tasks' = Tail(tasks) /\ UNCHANGED threads

(* mainLoader, with a step for each part another thread may come between   *)
LoadConfig(works) ==
  /\ loader = "config" /\ gameState' = "startup"
  /\ loader' = IF works THEN "database" ELSE "failed"
  /\ IF works THEN main' = main ELSE Notify
  /\ UNCHANGED <<disturbed, threads, tasks, online, unsaved, late, netVars,
                 commands, errors>>

LoadDatabase(works) ==
  /\ loader = "database" /\ loader' = IF works THEN "data" ELSE "failed"
  /\ threads' = IF works THEN [threads EXCEPT !["database"] = "running"] ELSE threads
  /\ IF works THEN main' = main ELSE Notify
  /\ UNCHANGED <<disturbed, tasks, gameVars, netVars, commands, errors>>

LoadData(works) ==
  /\ loader = "data" /\ loader' = IF works THEN "init" ELSE "failed"
  /\ IF works THEN main' = main ELSE Notify
  /\ UNCHANGED <<disturbed, threads, tasks, gameVars, netVars, commands,
                 errors>>

(* A script that runs at the start may ask for a shutdown.                 *)
LoadInit(shuts) ==
  /\ loader = "init" /\ loader' = "services"
  /\ IF shuts
     THEN /\ gameState' = "shutdown" /\ tasks' = Append(tasks, Task("shutdown", "all"))
          /\ threads' = Stopped /\ commands < MaxCommands /\ commands' = commands + 1
     ELSE gameState' = "init" /\ UNCHANGED <<tasks, threads, commands>>
  /\ UNCHANGED <<main, disturbed, online, unsaved, late, netVars, errors>>

LoadServices(p, works) ==
  /\ loader = "services" /\ p \notin acceptors /\ (works \/ errors < MaxErrors)
  /\ port' = [port EXCEPT ![p] = Open(p, works)] /\ acceptors' = acceptors \union {p}
  /\ Fail(works)
  /\ UNCHANGED <<main, disturbed, loader, threads, tasks, gameVars, running,
                 posted, deathTimer, commands>>

LoadDone ==
  /\ loader = "services" /\ acceptors = Ports /\ loader' = "done"
  /\ gameState' = IF gameState = "shutdown" THEN gameState ELSE "normal"
  /\ Notify
  /\ UNCHANGED <<disturbed, threads, tasks, online, unsaved, late, netVars,
                 commands, errors>>
-----------------------------------------------------------------------------
(* A task of the dispatcher                                                *)
Next1(op) ==
  /\ loader \in {"done", "failed"} /\ threads["dispatcher"] \notin {"terminated", "ended"}
  /\ tasks # <<>> /\ Head(tasks).op = op
Executed == tasks' = Tail(tasks)

ChangeState ==
  /\ Next1("state") /\ SetGameState(Head(tasks).of)
  /\ UNCHANGED <<main, disturbed, loader, netVars, commands, errors>>

(* Game::saveGameState, and Map::clean: under maintenance, and back        *)
SaveGameState ==
  /\ Next1("save") /\ Executed /\ unsaved' = {}
  /\ gameState' = IF gameState = "maintain" THEN "normal" ELSE gameState
  /\ UNCHANGED <<main, disturbed, loader, threads, online, late, netVars,
                 commands, errors>>

(* ProtocolGame::login                                                     *)
Login ==
  /\ Next1("login") /\ Executed
  /\ LET p == Head(tasks).of
         comes == p \in Privileged \/ gameState \notin {"closing", "closed"}
     IN  /\ online' = IF comes THEN online \union {p} ELSE online
         /\ unsaved' = IF comes THEN unsaved \union {p} ELSE unsaved
         /\ late' = IF comes /\ gameState = "shutdown" THEN late \union {p} ELSE late
  /\ UNCHANGED <<main, disturbed, loader, threads, gameState, netVars,
                 commands, errors>>

(* ServicePort::openAcceptor, if anything still holds the port             *)
OpenAcceptor(works) ==
  /\ Next1("open") /\ Executed /\ (works \/ errors < MaxErrors)
  /\ LET p == Head(tasks).of
     IN  IF p \in acceptors \union posted
         THEN port' = [port EXCEPT ![p] = Open(p, works)] /\ Fail(works)
         ELSE UNCHANGED <<port, errors>>
  /\ UNCHANGED <<main, disturbed, loader, threads, gameVars, acceptors,
                 running, posted, deathTimer, commands>>

(* Game::shutdown, which stops the services only if they are running, and  *)
(* whose own end is a task too                                             *)
Shutdown ==
  /\ Next1("shutdown") /\ tasks' = Append(Tail(tasks), Task("terminate", "all"))
  /\ threads' = Told(Workers, "terminated")
  /\ IF running
     THEN running' = FALSE /\ posted' = acceptors /\ acceptors' = {} /\ deathTimer' = TRUE
     ELSE UNCHANGED <<running, posted, acceptors, deathTimer>>
  /\ UNCHANGED <<main, disturbed, loader, gameVars, port, commands, errors>>

Terminate ==
  /\ Next1("terminate") /\ Executed
  /\ threads' = [threads EXCEPT !["dispatcher"] = "terminated"]
  /\ UNCHANGED <<main, disturbed, loader, gameVars, netVars, commands, errors>>

(* The event of a port that could not be opened                            *)
Fire(p) ==
  /\ port[p].event /\ threads["scheduler"] \in {"running", "closing"}
  /\ port' = [port EXCEPT ![p].event = FALSE]
  /\ tasks' = IF threads["dispatcher"] = "running" THEN <<Task("open", p)>> \o tasks ELSE tasks
  /\ UNCHANGED <<main, disturbed, loader, threads, gameVars, acceptors, running, posted,
                 deathTimer, commands, errors>>

(* A script asks for a save or another state, and a player does something. *)
Command(task) ==
  /\ loader = "done" /\ threads["dispatcher"] = "running" /\ commands < MaxCommands
  /\ commands' = commands + 1 /\ tasks' = Append(tasks, task)
  /\ UNCHANGED <<main, disturbed, loader, threads, gameVars, netVars, errors>>

Play(p) ==
  /\ p \in online \ unsaved /\ gameState # "shutdown" /\ unsaved' = unsaved \union {p}
  /\ UNCHANGED <<main, disturbed, loader, threads, tasks, gameState, online,
                 late, netVars, commands, errors>>
-----------------------------------------------------------------------------
(* The network, on the main thread: ProtocolGame::onRecvFirstMessage       *)
RequestLogin(p) ==
  /\ main = "serving" /\ \E q \in Ports : port[q].socket = "open"
  /\ gameState \notin {"shutdown", "startup", "maintain"}
  /\ p \notin online /\ \A i \in 1..Len(tasks) : tasks[i] # Task("login", p)
  /\ tasks' = Added(Task("login", p))
  /\ UNCHANGED <<main, disturbed, loader, threads, gameVars, netVars,
                 commands, errors>>

(* ServicePort::onAccept with an error other than its own closing          *)
AcceptError(p) ==
  /\ main = "serving" /\ port[p].socket = "open" /\ ~port[p].pendingStart /\ errors < MaxErrors
  /\ errors' = errors + 1
  /\ port' = [port EXCEPT ![p] = [socket |-> "closed", pendingStart |-> TRUE, event |-> Later]]
  /\ UNCHANGED <<main, disturbed, loader, threads, tasks, gameVars, acceptors, running, posted,
                 deathTimer, commands>>

OnStopServer(p) ==
  /\ main = "serving" /\ p \in posted /\ posted' = posted \ {p}
  /\ port' = [port EXCEPT ![p].socket = IF @ = "open" THEN "closed" ELSE @]
  /\ UNCHANGED <<main, disturbed, loader, threads, tasks, gameVars, acceptors, running,
                 deathTimer, commands, errors>>

(* Three seconds later: whatever is posted has been run by then.           *)
Die ==
  /\ main = "serving" /\ deathTimer /\ posted = {} /\ main' = "joinScheduler"
  /\ UNCHANGED <<disturbed, loader, threads, tasks, gameVars, netVars,
                 commands, errors>>

States == {"normal", "closed", "closing", "maintain", "shutdown"}
ServerNext ==
  \/ MainWaits \/ MainWakes \/ MainChecks \/ MainRuns \/ MainJoins
  \/ \E t \in DOMAIN threads : ThreadEnds(t)
  \/ \E works \in BOOLEAN : \/ LoadConfig(works) \/ LoadDatabase(works)
                            \/ LoadData(works) \/ LoadInit(works) \/ OpenAcceptor(works)
                            \/ \E p \in Ports : LoadServices(p, works)
  \/ LoadDone \/ ChangeState \/ SaveGameState \/ Login \/ Shutdown \/ Terminate
  \/ \E s \in States : Command(Task("state", s))
  \/ Command(Task("save", "all"))
  \/ \E p \in Players : RequestLogin(p) \/ Play(p)
  \/ \E p \in Ports : Fire(p) \/ AcceptError(p) \/ OnStopServer(p)
  \/ Die

ServerSpec == ServerInit /\ [][ServerNext]_serverVars
-----------------------------------------------------------------------------
(* While the server serves, each of its ports listens or is to be opened   *)
(* again: there is an event for that, or its task.                         *)
PortsAreServed ==
  main = "serving" /\ gameState # "shutdown" =>
    \A p \in acceptors :
      \/ port[p].socket = "open" /\ ~port[p].pendingStart
      \/ port[p].pendingStart
         /\ (port[p].event \/ \E i \in 1..Len(tasks) : tasks[i] = Task("open", p))

(* Nobody who was let in before a shutdown began loses anything by it, and *)
(* a closed server holds none but the privileged.                          *)
NobodyIsForgotten ==
  /\ gameState = "shutdown" => online \subseteq late
  /\ gameState = "closed" => online \subseteq Privileged
  /\ main = "exited" => unsaved \subseteq late

(* If main() sleeps until the loader is done, it serves when all is loaded *)
(* and not before, and when it ends it leaves no thread, open port or job  *)
(* behind.  If it was disturbed it may serve while the last ports are      *)
(* added; or it finds none, says that the server is not online and ends    *)
(* after the loader, which may leave ports open and the thread of the      *)
(* database to itself.  (It may wait or serve for ever: if the loader is   *)
(* done before it waits, a shutdown that a script asked for while loading  *)
(* comes before it serves, or the thread of the database is started before *)
(* it is joined.)                                                          *)
EndIsClean ==
  /\ main \in {"online", "serving"} =>
       loader = "done" \/ (disturbed /\ loader = "services" /\ acceptors # {})
  /\ main = "exited" =>
       /\ loader \in {"done", "failed"} /\ posted = {}
       /\ Alive(DOMAIN threads) \subseteq {"database"}
       /\ deathTimer \/ ~disturbed =>
            Alive(DOMAIN threads) = {} /\ \A p \in Ports : port[p].socket # "open"

ServerIsSound == PortsAreServed /\ NobodyIsForgotten /\ EndIsClean
-----------------------------------------------------------------------------
(***************************************************************************)
(* The watchdog that starts the server again when it has crashed           *)
(* (watchdog.py): Watchdog.run, and request_stop, which the handlers of    *)
(* signals call and main() at the end.                                     *)
(*                                                                         *)
(* A handler runs on the main thread, between two steps of it or of        *)
(* another handler: only the innermost one goes on.  The lock is not       *)
(* reentrant, so that a handler which needs it while the main thread or an *)
(* outer handler has it waits for ever.  The thread that copies the output *)
(* is left out.                                                            *)
(***************************************************************************)
CONSTANTS
  MaxRestarts,     (* max_restarts, 0 for as many as there are             *)
  RestartOnSuccess,
  MaxSignals, MaxStarts (* bounds                                          *)

VARIABLES
  at,              (* where run() is                                       *)
  handlers,        (* the calls of request_stop, the innermost first:      *)
                   (* where each is, and what it read                      *)
  stopEvent, locked,
  currentProcess,  (* is the process recorded?                             *)
  child,           (* "asked" to terminate, or not                         *)
  exitCode,
  attempt,         (* and reports written                                  *)
  started, signals,
  blind,           (* history: did a call miss a process being started?    *)
  intruded         (* history: did a signal come while the lock was held?  *)

runVars == <<at, currentProcess, exitCode, attempt, started>>
watchdogVars == <<runVars, handlers, stopEvent, locked, child, signals, blind, intruded>>

WatchdogTypeOK ==
  /\ at \in {"check", "spawn", "record", "recorded", "wait", "clear", "cleared", "decide",
             "delay", "returned", "ended"}
  /\ handlers \in Seq([at : {"set", "lock", "held", "look", "wait"}, saw : BOOLEAN])
  /\ stopEvent \in BOOLEAN /\ locked \in BOOLEAN /\ currentProcess \in BOOLEAN
  /\ child \in {"none", "alive", "asked", "dead"} /\ exitCode \in {"success", "crash"}
  /\ attempt \in 0..MaxStarts /\ started \in 0..MaxStarts /\ signals \in 0..MaxSignals
  /\ blind \in BOOLEAN /\ intruded \in BOOLEAN

WatchdogInit ==
  /\ at = "check" /\ handlers = <<>> /\ stopEvent = FALSE /\ locked = FALSE
  /\ currentProcess = FALSE /\ child = "none" /\ exitCode = "success" /\ attempt = 0
  /\ started = 0 /\ signals = 0 /\ blind = FALSE /\ intruded = FALSE

Running == child \in {"alive", "asked"}
RequestStop == <<[at |-> "set", saw |-> FALSE]>>
-----------------------------------------------------------------------------
(* Watchdog.run                                                            *)
InRun(place) == handlers = <<>> /\ at = place
Check ==
  /\ InRun("check") /\ at' = IF stopEvent THEN "returned" ELSE "spawn"
  /\ UNCHANGED <<handlers, stopEvent, locked, currentProcess, child, exitCode, attempt, started,
                 signals, blind, intruded>>

Spawn(works) ==
  /\ InRun("spawn") /\ (works => started < MaxStarts)
  /\ at' = (IF works THEN "record" ELSE "returned")
  /\ child' = (IF works THEN "alive" ELSE child)
  /\ started' = (IF works THEN started + 1 ELSE started)
  /\ UNCHANGED <<handlers, stopEvent, locked, currentProcess, exitCode, attempt, signals, blind,
                 intruded>>

(* self._current_process, under the lock                                   *)
Acquire(place, next) == InRun(place) /\ ~locked /\ locked' = TRUE /\ at' = next
Take ==
  /\ Acquire("record", "recorded") \/ Acquire("clear", "cleared")
  /\ UNCHANGED <<handlers, stopEvent, currentProcess, child, exitCode, attempt, started, signals,
                 blind, intruded>>

Store ==
  /\ at \in {"recorded", "cleared"} /\ InRun(at) /\ locked' = FALSE
  /\ currentProcess' = (at = "recorded")
  /\ at' = IF at = "recorded" THEN "wait" ELSE "decide"
  /\ UNCHANGED <<handlers, stopEvent, child, exitCode, attempt, started,
                 signals, blind, intruded>>

Waited ==
  /\ InRun("wait") /\ child = "dead" /\ at' = "clear"
  /\ UNCHANGED <<handlers, stopEvent, locked, currentProcess, child, exitCode, attempt, started,
                 signals, blind, intruded>>

(* Is it the end, by request, by success or by too many crashes?  If not,  *)
(* there is a report, and a delay that a request cuts short.               *)
Decide ==
  /\ InRun("decide")
  /\ LET ends == stopEvent \/ (exitCode = "success" /\ ~RestartOnSuccess)
         spent == MaxRestarts # 0 /\ attempt + 1 >= MaxRestarts
     IN  /\ attempt' = IF ends THEN attempt ELSE attempt + 1
         /\ at' = IF ends \/ spent THEN "returned" ELSE "delay"
  /\ UNCHANGED <<handlers, stopEvent, locked, currentProcess, child, exitCode, started, signals,
                 blind, intruded>>

Delay ==
  /\ InRun("delay") /\ at' = "check"
  /\ UNCHANGED <<handlers, stopEvent, locked, currentProcess, child, exitCode, attempt, started,
                 signals, blind, intruded>>

(* main(): finally watchdog.request_stop()                                 *)
Return ==
  /\ InRun("returned") /\ at' = "ended" /\ handlers' = RequestStop
  /\ UNCHANGED <<stopEvent, locked, currentProcess, child, exitCode, attempt, started, signals,
                 blind, intruded>>
-----------------------------------------------------------------------------
(* A signal, and the steps of request_stop                                 *)
Signal ==
  /\ at # "ended" /\ signals < MaxSignals /\ signals' = signals + 1
  /\ handlers' = RequestStop \o handlers /\ intruded' = (intruded \/ locked)
  /\ UNCHANGED <<runVars, stopEvent, locked, child, blind>>

Inner(place) == handlers # <<>> /\ Head(handlers).at = place
Goes(place) == handlers' = <<[Head(handlers) EXCEPT !.at = place]>> \o Tail(handlers)

SetEvent ==
  /\ Inner("set") /\ stopEvent' = TRUE /\ Goes("lock")
  /\ UNCHANGED <<runVars, locked, child, signals, blind, intruded>>

AcquireInHandler ==
  /\ Inner("lock") /\ ~locked /\ locked' = TRUE /\ Goes("held")
  /\ UNCHANGED <<runVars, stopEvent, child, signals, blind, intruded>>

ReadProcess ==
  /\ Inner("held") /\ locked' = FALSE
  /\ handlers' = <<[at |-> "look", saw |-> currentProcess]>> \o Tail(handlers)
  /\ blind' = (blind \/ at \in {"spawn", "record", "recorded"})
  /\ UNCHANGED <<runVars, stopEvent, child, signals, intruded>>

TerminateChild ==
  /\ Inner("look")
  /\ IF Head(handlers).saw /\ Running
     THEN child' = "asked" /\ Goes("wait")
     ELSE UNCHANGED child /\ handlers' = Tail(handlers)
  /\ UNCHANGED <<runVars, stopEvent, locked, signals, blind, intruded>>

(* It ends within ten seconds, or is killed.                               *)
Kill ==
  /\ Inner("wait") /\ child' = "dead" /\ handlers' = Tail(handlers)
  /\ exitCode' = IF Running THEN "crash" ELSE exitCode
  /\ UNCHANGED <<at, currentProcess, attempt, started, stopEvent, locked,
                 signals, blind, intruded>>

Exit(code) ==
  /\ Running /\ child' = "dead" /\ exitCode' = code
  /\ UNCHANGED <<at, currentProcess, attempt, started, handlers, stopEvent, locked, signals, blind,
                 intruded>>

WatchdogNext ==
  \/ Check \/ Take \/ Store \/ Waited \/ Decide \/ Delay \/ Return
  \/ \E works \in BOOLEAN : Spawn(works)
  \/ Signal \/ SetEvent \/ AcquireInHandler \/ ReadProcess \/ TerminateChild \/ Kill
  \/ \E code \in {"success", "crash"} : Exit(code)

WatchdogSpec == WatchdogInit /\ [][WatchdogNext]_watchdogVars
-----------------------------------------------------------------------------
(* What the docstrings say: request_stop is to "signal graceful shutdown   *)
(* and terminate the child if needed", and "signals trigger graceful       *)
(* shutdown".  When all its calls have returned, the watchdog does not go  *)
(* on to wait for a server that runs; and no call waits for a lock that    *)
(* the thread it runs on holds.  Neither is so.                            *)
GracefulShutdown ==
  /\ stopEvent /\ handlers = <<>> /\ at = "wait" => ~Running
  /\ ~(Inner("lock") /\ locked)

(* The shutdown is not always graceful (see above), but it fails in two    *)
(* ways only: the server that it misses was being started when a call      *)
(* looked, and not recorded; and the lock that a call waits for in vain    *)
(* was held when a signal came.  When the watchdog has ended no server is  *)
(* left, and no server was started but the first and one for each report.  *)
WatchdogIsSound ==
  /\ stopEvent /\ handlers = <<>> /\ at = "wait" /\ Running => blind
  /\ Inner("lock") /\ locked => intruded
  /\ at = "ended" => ~Running
  /\ started <= attempt + 1 /\ (MaxRestarts # 0 => attempt <= MaxRestarts)
===============================================================================
