------------------------------ MODULE GlibProxy ------------------------------
(***************************************************************************)
(* The Linux proxy (proxy/src/glibMain.cpp): one thread runs a GLib main   *)
(* loop that keeps a BLE link to the stylus while the socket server has a  *)
(* client and broadcasts every notification of the stylus; SIGINT runs     *)
(* on_user_abort on top of whatever that thread is doing, and a second one *)
(* on top of the listener.                                                 *)
(*                                                                         *)
(* The server is SocketServer: the thread Main calls Start, HasActiveClient *)
(* and Send, and the signal handler calls Shutdown.  gattlib and GLib are  *)
(* the environment.  A handle that gattlib_disconnect was called with is   *)
(* freed: link is "none" then, or "freed" when it failed notifications and *)
(* is still assigned.  A call with a freed or a NULL handle is undefined;  *)
(* of its outcomes the model has the one without an effect.  Neither       *)
(* library may be called from a signal handler: such a call does not       *)
(* return when the interrupted code holds the lock that it takes.          *)
(***************************************************************************)
EXTENDS SocketServer

CONSTANTS
  Main,           (* the thread of the main loop                             *)
  MaxSignals,     (* bound on the number of SIGINTs                          *)
  NotifyMayFail   (* may the link fail before notifications have started?    *)

ASSUME ProxyAssumption ==
  /\ Main \in Threads
  /\ MaxSignals \in Nat
  /\ NotifyMayFail \in BOOLEAN

VARIABLES
  mainAt,         (* where the main thread stands outside the server's calls *)
  handler,        (* where on_user_abort stands                              *)
  gattConnection, (* "NULL" or "handle"                                      *)
  link,           (* what the handle is worth                                *)
  doQuit,
  running,        (* is_running of the main loop                             *)
  heldLock,       (* the library lock that the interrupted code holds        *)
  signals,        (* how many SIGINTs have arrived                           *)
  signalAt        (* history: where the last one found the main thread       *)

mainVars  == <<mainAt>>
bleVars   == <<gattConnection, link>>
abortVars == <<handler, heldLock, signals, signalAt>>
quitVars  == <<doQuit, running>>

proxyVars == <<mainVars, bleVars, abortVars, quitVars>>
allVars   == <<vars, proxyVars>>

ProxyInit ==
  /\ Init
  /\ mainAt = "start"
  /\ handler = "idle"
  /\ gattConnection = "NULL"
  /\ link = "none"
  /\ doQuit = FALSE
  /\ running = FALSE
  /\ heldLock = "none"
  /\ signals = 0
  /\ signalAt = "none"

-----------------------------------------------------------------------------
(* main: start the server, install the handler, run the loop.              *)

(* The main thread moves only while no signal handler runs on its stack.   *)
Thread(from) == handler = "idle" /\ mainAt = from

Goto(to) == mainAt' = to /\ UNCHANGED <<bleVars, abortVars, quitVars>>

(* The result of Start is not looked at.                                   *)
MainStarts ==
  /\ Thread("start")
  /\ \/ StartListens /\ UNCHANGED proxyVars
     \/ StartSpawns /\ UNCHANGED proxyVars
     \/ StartReturns /\ Goto("signal")
     \/ StartFails /\ Goto("signal")

MainInstallsHandler ==
  /\ Thread("signal")
  /\ Goto("newloop")
  /\ UNCHANGED vars

(* Until here hMainloop is NULL.                                           *)
MainCreatesLoop ==
  /\ Thread("newloop")
  /\ Goto("run")
  /\ UNCHANGED vars

(* g_main_loop_run starts with is_running = TRUE.                          *)
MainRunsLoop ==
  /\ Thread("run")
  /\ running' = TRUE
  /\ mainAt' = "loop"
  /\ UNCHANGED <<vars, bleVars, abortVars, doQuit>>

MainExits ==
  /\ Thread("loop")
  /\ call[Main] = "none"
  /\ ~running
  /\ Goto("exited")
  /\ UNCHANGED vars

-----------------------------------------------------------------------------
(* The callbacks of the loop.                                              *)

Dispatches == Thread("loop") /\ call[Main] = "none" /\ running

(* monitorConnection, every millisecond.                                   *)
MonitorBegins ==
  /\ Dispatches
  /\ Goto("ask")
  /\ UNCHANGED vars

(* "HasActiveClient() && !doQuit": doQuit is read only if there is one.     *)
MonitorAsks ==
  /\ Thread("ask")
  /\ \/ HasActiveClientBegins(Main) /\ UNCHANGED proxyVars
     \/ /\ HasActiveClientReturns(Main)
        /\ Goto(IF ClientsThere THEN "decide" ELSE "unwanted")

MonitorDecides_ignoresQuit ==
  /\ Thread("decide")
  /\ Goto("wanted")
  /\ UNCHANGED vars

MonitorDecides ==
  /\ Thread("decide")
  /\ Goto(IF doQuit THEN "unwanted" ELSE "wanted")
  /\ UNCHANGED vars

MonitorTests_keeps ==
  /\ \/ /\ Thread("wanted")
        /\ Goto(IF gattConnection = "NULL" THEN "connect" ELSE "loop")
     \/ Thread("unwanted") /\ Goto("loop")
  /\ UNCHANGED vars

MonitorTests ==
  /\ \/ /\ Thread("wanted")
        /\ Goto(IF gattConnection = "NULL" THEN "connect" ELSE "loop")
     \/ /\ Thread("unwanted")
        /\ Goto(IF gattConnection = "NULL" THEN "loop" ELSE "stop")
  /\ UNCHANGED vars

(* activateConnection: gattlib_connect returns a handle or NULL.           *)
ConnectSucceeds ==
  /\ Thread("connect")
  /\ link' = "open"
  /\ mainAt' = "assign"
  /\ UNCHANGED <<vars, gattConnection, abortVars, quitVars>>

ConnectFails ==
  /\ Thread("connect")
  /\ gattConnection' = "NULL"
  /\ mainAt' = "loop"
  /\ UNCHANGED <<vars, link, abortVars, quitVars>>

ConnectAssigns ==
  /\ Thread("assign")
  /\ gattConnection' = "handle"
  /\ mainAt' = "notify"
  /\ UNCHANGED <<vars, link, abortVars, quitVars>>

(* The callbacks are registered and notifications start.                   *)
NotifyStarts ==
  /\ Thread("notify")
  /\ link = "open" \/ gattConnection = "NULL"
  /\ mainAt' = "loop"
  /\ UNCHANGED <<vars, gattConnection, link, abortVars, quitVars>>

(* gattlib_notification_start fails: the handle is freed, and kept.        *)
NotifyFails ==
  /\ Thread("notify")
  /\ NotifyMayFail
  /\ gattConnection = "handle"
  /\ link' = "freed"
  /\ mainAt' = "loop"
  /\ UNCHANGED <<vars, gattConnection, abortVars, quitVars>>

(* notification_handler.                                                   *)
NotificationArrives ==
  /\ Dispatches
  /\ link = "open"
  /\ \E v \in Values : SendBegins(Main, v)
  /\ UNCHANGED proxyVars

SendGoesOn ==
  /\ Thread("loop")
  /\ \/ \E c \in Conns : SendDelivers(Main, c) \/ SendFails(Main, c)
     \/ SendReturns(Main)
  /\ UNCHANGED proxyVars

(* disconnected_handler, as the callback of gattlib.                       *)
DisconnectArrives ==
  /\ Dispatches
  /\ link = "lost"
  /\ Goto("stop")
  /\ UNCHANGED vars

(* deActivateConnection: the handle is freed, then forgotten.              *)
DeactivateStops ==
  /\ Thread("stop")
  /\ IF gattConnection = "NULL"
     THEN mainAt' = "loop" /\ UNCHANGED link
     ELSE mainAt' = "clear" /\ link' = "none"
  /\ UNCHANGED <<vars, gattConnection, abortVars, quitVars>>

DeactivateClears_not ==
  /\ Thread("clear")
  /\ mainAt' = "loop"
  /\ UNCHANGED <<vars, bleVars, abortVars, quitVars>>

DeactivateClears ==
  /\ Thread("clear")
  /\ gattConnection' = "NULL"
  /\ mainAt' = "loop"
  /\ UNCHANGED <<vars, link, abortVars, quitVars>>

-----------------------------------------------------------------------------
(* on_user_abort.                                                          *)

(* The locks that the main thread may hold: GLib's while the loop is made, *)
(* started or between two callbacks, and in a gattlib call, which runs the *)
(* loop itself, either one.                                                *)
LocksAt(at) ==
  CASE at \in {"connect", "notify", "stop"} -> {"none", "glib", "gattlib"}
    [] at \in {"newloop", "run"} -> {"none", "glib"}
    [] at = "loop" /\ call[Main] = "none" -> {"none", "glib"}
    [] OTHER -> {"none"}

(* The kernel prefers the main thread as long as it does not block SIGINT, *)
(* which it does while it is in the handler.                               *)
Interrupt ==
  /\ handler = "idle"
  /\ mainAt \notin {"start", "signal", "exited"}
  /\ signals < MaxSignals
  /\ signals' = signals + 1
  /\ signalAt' = mainAt
  /\ heldLock' \in LocksAt(mainAt)
  /\ handler' = "begin"
  /\ UNCHANGED <<vars, mainVars, bleVars, quitVars>>

(* A SIGINT during the handler is delivered to the listener, which runs    *)
(* on_user_abort as well.  Its Shutdown makes the thread join itself, join *)
(* throws and the process ends.  Without a listener the signal waits until *)
(* the handler has returned, as in Interrupt.                              *)
InterruptsListener ==
  /\ handler \notin {"idle", "aborted"}
  /\ listener \notin {"none", "done"}
  /\ signals < MaxSignals
  /\ signals' = signals + 1
  /\ doQuit' = TRUE
  /\ handler' = "aborted"
  /\ UNCHANGED <<vars, mainVars, bleVars, heldLock, signalAt, running>>

HandlerGoes(from, to) ==
  /\ handler = from
  /\ handler' = to
  /\ UNCHANGED <<mainVars, signals, signalAt>>

AbortBegins ==
  /\ HandlerGoes("begin", "deactivate")
  /\ doQuit' = TRUE
  /\ UNCHANGED <<vars, bleVars, heldLock, running>>

(* deActivateConnection.                                                   *)
AbortDeactivates_keepsLink ==
  /\ HandlerGoes("deactivate", "shutdown")
  /\ gattConnection' = "NULL"
  /\ UNCHANGED <<vars, link, heldLock, quitVars>>

AbortDeactivates ==
  /\ HandlerGoes("deactivate", "shutdown")
  /\ \/ gattConnection = "NULL" /\ UNCHANGED bleVars
     \/ /\ gattConnection = "handle" /\ heldLock # "gattlib"
        /\ gattConnection' = "NULL" /\ link' = "none"
  /\ UNCHANGED <<vars, heldLock, quitVars>>

AbortShutsDown_skips ==
  /\ HandlerGoes("shutdown", "quit")
  /\ UNCHANGED <<vars, bleVars, heldLock, quitVars>>

AbortShutsDown ==
  /\ HandlerGoes("shutdown", "join")
  /\ ShutdownBegins
  /\ UNCHANGED <<bleVars, heldLock, quitVars>>

AbortJoined ==
  /\ HandlerGoes("join", "quit")
  /\ ShutdownReturns
  /\ UNCHANGED <<bleVars, heldLock, quitVars>>

(* g_main_loop_quit, under GLib's lock; without a loop, which does not run *)
(* either, it only complains.                                              *)
AbortQuitsLoop_never ==
  /\ HandlerGoes("quit", "idle")
  /\ heldLock # "glib"
  /\ heldLock' = "none"
  /\ UNCHANGED <<vars, bleVars, quitVars>>

AbortQuitsLoop ==
  /\ HandlerGoes("quit", "idle")
  /\ heldLock # "glib"
  /\ heldLock' = "none"
  /\ running' = FALSE
  /\ UNCHANGED <<vars, bleVars, doQuit>>

-----------------------------------------------------------------------------
(* The link breaks.                                                        *)

LinkBreaks ==
  /\ link = "open"
  /\ NotifyMayFail \/ mainAt \notin {"assign", "notify"}
  /\ link' = "lost"
  /\ UNCHANGED <<vars, mainVars, gattConnection, abortVars, quitVars>>

MainThread ==
  \/ MainStarts \/ MainInstallsHandler \/ MainCreatesLoop \/ MainRunsLoop
  \/ MainExits
  \/ MonitorBegins \/ MonitorAsks \/ MonitorDecides \/ MonitorTests
  \/ ConnectSucceeds \/ ConnectFails \/ ConnectAssigns
  \/ NotifyStarts \/ NotifyFails
  \/ NotificationArrives \/ SendGoesOn
  \/ DisconnectArrives \/ DeactivateStops \/ DeactivateClears

OnUserAbort ==
  \/ AbortBegins \/ AbortDeactivates \/ AbortShutsDown \/ AbortJoined
  \/ AbortQuitsLoop

(* The listener and the clients, until the process ends.                   *)
Others ==
  /\ mainAt # "exited" /\ handler # "aborted"
  /\ Listen \/ \E c \in Conns : Client(c)
  /\ UNCHANGED proxyVars

ProxyNext == MainThread \/ Interrupt \/ InterruptsListener \/ OnUserAbort
               \/ LinkBreaks \/ Others

ProxySpec == ProxyInit /\ [][ProxyNext]_allVars

(***************************************************************************)
(* Fairness: the threads run.  In the loop every ready source has its turn *)
(* (SF), the mutex is not withheld for ever from one thread (SF), and a    *)
(* stylus that is asked again and again is at last reached (SF).  The      *)
(* handler goes on as far as it can: a lock held by the code that it has   *)
(* interrupted is never released.                                          *)
(***************************************************************************)
ProxyFairness ==
  /\ WF_allVars(MainStarts) /\ WF_allVars(MainInstallsHandler)
  /\ WF_allVars(MainCreatesLoop) /\ WF_allVars(MainRunsLoop)
  /\ WF_allVars(MainExits)
  /\ SF_allVars(MonitorBegins) /\ SF_allVars(MonitorAsks)
  /\ WF_allVars(MonitorDecides) /\ WF_allVars(MonitorTests)
  /\ SF_allVars(ConnectSucceeds) /\ WF_allVars(ConnectFails)
  /\ WF_allVars(ConnectAssigns) /\ WF_allVars(NotifyStarts \/ NotifyFails)
  /\ WF_allVars(SendGoesOn)
  /\ SF_allVars(DisconnectArrives)
  /\ WF_allVars(DeactivateStops) /\ WF_allVars(DeactivateClears)
  /\ WF_allVars(OnUserAbort)
  /\ WF_allVars((ListenEnters \/ ListenTests \/ SelectIdle) /\ Others)
  /\ SF_allVars(SelectReady /\ Others)
  /\ SF_allVars((\E c \in Conns : Accept(c)) /\ Others)
  /\ SF_allVars((Store \/ DetectDisconnectedClients \/ ListenExits) /\ Others)
  /\ \A c \in Conns : WF_allVars(ClientReads(c) /\ Others)

ProxyFairSpec == ProxySpec /\ ProxyFairness

-----------------------------------------------------------------------------
(* Properties.                                                             *)

(* No link is forgotten: without a handle there is nothing connected, but  *)
(* for the moment between gattlib_connect's return and the assignment.     *)
NoForgottenLink ==
  gattConnection = "NULL" /\ mainAt # "assign" => link = "none"

(* "closes connections and cleans up" (line 146): when main returns, the   *)
(* listener has been joined, and the connections and the socket that Start *)
(* listened on are closed; one that a failed Start left is not.            *)
ExitClosesSockets ==
  mainAt = "exited" =>
    /\ listener = "none"
    /\ started => listenSocket = "closed"
    /\ \A c \in Conns : srv[c] \in {"none", "closed"}

(* The same of the link: main returns with a link to the stylus only if    *)
(* the last signal came when monitorConnection had found doQuit false and  *)
(* gattConnection was still NULL, so that there was no handle to close.    *)
ExitClosesLink ==
  mainAt = "exited" /\ link \in {"open", "lost"} =>
    signalAt \in {"wanted", "connect", "assign"}

(* A client that is connected gets a link, or goes, or the proxy quits,    *)
(* wherever the link breaks and whoever was connected before: as long as   *)
(* notifications could be started.                                         *)
LinkFollowsClient ==
  activeConnections # {} ~>
    link = "open" \/ activeConnections = {} \/ doQuit \/ link = "freed"

(* "If active client, sets up BLE connection" (line 93), in any case.      *)
ActiveClientGetsLink ==
  activeConnections # {} ~>
    link = "open" \/ activeConnections = {} \/ doQuit

(* "else disconnects to let BLE to save power" (line 93), with the clients *)
(* the server knows of.                                                    *)
IdleLinkIsDropped ==
  link # "none" ~> link = "none" \/ activeConnections # {} \/ doQuit

(* "Press ctrl-c to quit." (line 142), when the signal finds the loop      *)
(* running and the main thread outside the critical sections of the server *)
(* and of the libraries: the program ends, unless a further signal is      *)
(* caught in a library's.  A second one that hits the listener ends it too, *)
(* though not in order.                                                    *)
Aborting ==
  handler = "begin" /\ heldLock = "none" /\ mainAt \notin {"newloop", "run"}

Ended == mainAt = "exited" \/ handler = "aborted"

OrdinaryInterruptQuits ==
  Aborting /\ call[Main] = "none" ~> Ended \/ heldLock # "none"

(* The same wherever in the loop the signal finds the main thread, but for *)
(* the libraries' own critical sections.                                   *)
InterruptQuits == Aborting ~> Ended
=============================================================================
