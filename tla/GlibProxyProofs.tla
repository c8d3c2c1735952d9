--------------------------- MODULE GlibProxyProofs ---------------------------
(***************************************************************************)
(* Proofs about GlibProxy.  The proxy is a restriction of SocketServer, so *)
(* that the inductive invariants of SocketServerProofs hold of it as well  *)
(* and are used for what the proxy promises about the server's sockets.    *)
(***************************************************************************)
EXTENDS GlibProxy, SocketServerProofs

-----------------------------------------------------------------------------
(* The server inside the proxy.                                            *)

LEMMA ProxyStepIsServerStep == [ProxyNext]_allVars => [Next]_vars
<1> SUFFICES ASSUME [ProxyNext]_allVars PROVE [Next]_vars
  OBVIOUS
<1>1. CASE MainStarts
  BY <1>1 DEF MainStarts, Next, Control
<1>2. CASE MonitorAsks
  BY <1>2, ProxyAssumption DEF MonitorAsks, Next, HasActiveClient
<1>3. CASE NotificationArrives
  BY <1>3, ProxyAssumption DEF NotificationArrives, Next, Send
<1>4. CASE SendGoesOn
  BY <1>4, ProxyAssumption DEF SendGoesOn, Next, Send
<1>5. CASE AbortShutsDown
  BY <1>5 DEF AbortShutsDown, Next, Control
<1>6. CASE AbortJoined
  BY <1>6 DEF AbortJoined, Next, Control
<1>7. CASE Others
  BY <1>7 DEF Others, Next
<1>8. CASE UNCHANGED vars
  BY <1>8
<1>9. MainInstallsHandler \/ MainCreatesLoop \/ MainRunsLoop \/ MainExits
        \/ MonitorBegins \/ MonitorDecides \/ MonitorTests
        \/ ConnectSucceeds \/ ConnectFails \/ ConnectAssigns \/ NotifyStarts
        \/ NotifyFails \/ DisconnectArrives \/ DeactivateStops
        \/ DeactivateClears \/ Interrupt \/ InterruptsListener \/ AbortBegins
        \/ AbortDeactivates \/ AbortQuitsLoop \/ LinkBreaks
      => UNCHANGED vars
  BY DEF MainInstallsHandler, MainCreatesLoop, MainRunsLoop, MainExits,
         MonitorBegins, MonitorDecides, MonitorTests, ConnectSucceeds,
         ConnectFails, ConnectAssigns, NotifyStarts, NotifyFails,
         DisconnectArrives, DeactivateStops, DeactivateClears, Interrupt,
         InterruptsListener, AbortBegins, AbortDeactivates, AbortQuitsLoop,
         LinkBreaks
<1>10. UNCHANGED allVars => UNCHANGED vars
  BY DEF allVars
<1> QED
  BY <1>1, <1>2, <1>3, <1>4, <1>5, <1>6, <1>7, <1>8, <1>9, <1>10
  DEF ProxyNext, MainThread, OnUserAbort

(* The actions of the proxy are the server's, restricted: what is proved   *)
(* of the server alone holds in the proxy.                                 *)
LEMMA ProxyHasServer == ProxySpec => Spec
<1>1. ProxyInit => Init
  BY DEF ProxyInit
<1>2. QED
  BY <1>1, ProxyStepIsServerStep, PTL DEF ProxySpec, Spec

(* So the clients of the proxy see the atomic broadcast of StylusFeed.     *)
THEOREM ProxyImplementsFeed == ProxySpec => ImplementsFeed
  BY ProxyHasServer, ServerImplementsFeed, PTL

-----------------------------------------------------------------------------
(* The BLE link.                                                           *)

(* A handle is dropped only when its link is gone, and a link is made only *)
(* when there is no handle: also if the signal handler came in between.    *)
LinkInv ==
  /\ NoForgottenLink
  /\ mainAt = "clear" => link = "none"
  /\ mainAt = "connect" => gattConnection = "NULL"

LEMMA LinkStep == LinkInv /\ [ProxyNext]_allVars => LinkInv'
<1> SUFFICES ASSUME LinkInv, [ProxyNext]_allVars PROVE LinkInv'
  OBVIOUS
<1> USE DEF LinkInv, NoForgottenLink, Thread, Goto, proxyVars, mainVars,
            bleVars, abortVars, quitVars
<1>1. CASE MainStarts \/ MainInstallsHandler \/ MainCreatesLoop
             \/ MainRunsLoop \/ MainExits
  BY <1>1 DEF MainStarts, MainInstallsHandler, MainCreatesLoop, MainRunsLoop,
              MainExits
<1>2. CASE MonitorBegins \/ MonitorAsks \/ MonitorDecides \/ MonitorTests
  BY <1>2 DEF MonitorBegins, MonitorAsks, MonitorDecides, MonitorTests,
              Dispatches
<1>3. CASE ConnectSucceeds \/ ConnectFails \/ ConnectAssigns
             \/ NotifyStarts \/ NotifyFails
  BY <1>3 DEF ConnectSucceeds, ConnectFails, ConnectAssigns, NotifyStarts,
              NotifyFails
<1>4. CASE NotificationArrives \/ SendGoesOn
  BY <1>4 DEF NotificationArrives, SendGoesOn
<1>5. CASE DisconnectArrives \/ DeactivateStops \/ DeactivateClears
  BY <1>5 DEF DisconnectArrives, DeactivateStops, DeactivateClears, Dispatches
<1>6. CASE Interrupt \/ InterruptsListener \/ OnUserAbort
  BY <1>6 DEF Interrupt, InterruptsListener, OnUserAbort, HandlerGoes,
              AbortBegins, AbortDeactivates, AbortShutsDown, AbortJoined,
              AbortQuitsLoop
<1>7. CASE LinkBreaks \/ Others
  BY <1>7 DEF LinkBreaks, Others
<1>8. CASE UNCHANGED allVars
  BY <1>8 DEF allVars
<1> QED
  BY <1>1, <1>2, <1>3, <1>4, <1>5, <1>6, <1>7, <1>8 DEF ProxyNext, MainThread

(* No interleaving of the loop with on_user_abort forgets an open link     *)
(* while main has the handle: at most the one being made survives.         *)
THEOREM NoForgottenLinkCorrect == ProxySpec => []NoForgottenLink
<1>1. ProxyInit => LinkInv
  BY DEF ProxyInit, LinkInv, NoForgottenLink
<1>2. LinkInv => NoForgottenLink
  BY DEF LinkInv
<1>3. QED
  BY <1>1, <1>2, LinkStep, PTL DEF ProxySpec

-----------------------------------------------------------------------------
(* The end of the program.                                                 *)

(* The loop is told to quit only after the listener has been joined, and   *)
(* Start is never called again.                                            *)
Joined == listener = "none" /\ ctl \in {"idle", "joining"}

ExitInv ==
  /\ mainAt = "start" => handler = "idle" /\ ~doQuit
  /\ mainAt # "start" => ctl \in {"idle", "joining"}
  /\ handler = "quit" => Joined
  /\ handler = "idle" /\ doQuit => Joined
  /\ mainAt \notin {"start", "signal", "newloop", "run"} /\ ~running => Joined
  /\ mainAt = "exited" => ~running

LEMMA ServerKeepsJoined ==
  ASSUME Listen \/ \E c \in Conns : Client(c)
  PROVE  UNCHANGED ctl /\ (listener = "none" => listener' = "none")
  BY DEF Listen, ListenEnters, ListenTests, SelectReady, SelectIdle, Accept,
         AcceptFails, Store, DetectDisconnectedClients, ListenExits, Client,
         Connect, ClientReads, ClientWrites, ClientCloses, controlVars,
         listenVars

LEMMA ExitStep == ExitInv /\ [ProxyNext]_allVars => ExitInv'
<1> SUFFICES ASSUME ExitInv, [ProxyNext]_allVars PROVE ExitInv'
  OBVIOUS
<1> USE DEF ExitInv, Joined, Thread, Goto, proxyVars, mainVars, bleVars,
            abortVars, quitVars, vars, controlVars, listenVars
<1>1. CASE MainStarts
  BY <1>1 DEF MainStarts, StartFails, StartListens, StartSpawns, StartReturns
<1>2. CASE MainInstallsHandler \/ MainCreatesLoop \/ MainRunsLoop \/ MainExits
  BY <1>2 DEF MainInstallsHandler, MainCreatesLoop, MainRunsLoop, MainExits
<1>3. CASE MonitorBegins \/ MonitorAsks \/ MonitorDecides \/ MonitorTests
  BY <1>3 DEF MonitorBegins, MonitorAsks, MonitorDecides, MonitorTests,
              Dispatches,
              HasActiveClientBegins, HasActiveClientReturns
<1>4. CASE ConnectSucceeds \/ ConnectFails \/ ConnectAssigns
             \/ NotifyStarts \/ NotifyFails
  BY <1>4 DEF ConnectSucceeds, ConnectFails, ConnectAssigns, NotifyStarts,
              NotifyFails
<1>5. CASE NotificationArrives \/ SendGoesOn
  <2>1. ASSUME NEW t, NEW v, SendBegins(t, v) PROVE UNCHANGED <<ctl, listener>>
    BY <2>1 DEF SendBegins
  <2>2. ASSUME NEW t, NEW c, SendDelivers(t, c) \/ SendFails(t, c)
        PROVE  UNCHANGED <<ctl, listener>>
    BY <2>2 DEF SendDelivers, SendFails
  <2>3. ASSUME NEW t, SendReturns(t) PROVE UNCHANGED <<ctl, listener>>
    BY <2>3 DEF SendReturns
  <2>4. UNCHANGED <<ctl, listener>> /\ UNCHANGED proxyVars
    BY <1>5, <2>1, <2>2, <2>3 DEF NotificationArrives, SendGoesOn
  <2> QED
    BY <2>4
<1>6. CASE DisconnectArrives \/ DeactivateStops \/ DeactivateClears
  BY <1>6 DEF DisconnectArrives, DeactivateStops, DeactivateClears, Dispatches
<1>7. CASE Interrupt \/ InterruptsListener
  BY <1>7 DEF Interrupt, InterruptsListener
<1>8. CASE OnUserAbort
  BY <1>8 DEF OnUserAbort, HandlerGoes, AbortBegins, AbortDeactivates,
              AbortShutsDown, AbortJoined, AbortQuitsLoop, ShutdownBegins,
              ShutdownReturns
<1>9. CASE LinkBreaks
  BY <1>9 DEF LinkBreaks
<1>10. CASE Others
  BY <1>10, ServerKeepsJoined DEF Others
<1>11. CASE UNCHANGED allVars
  BY <1>11 DEF allVars
<1> QED
  BY <1>1, <1>2, <1>3, <1>4, <1>5, <1>6, <1>7, <1>8, <1>9, <1>10, <1>11
  DEF ProxyNext, MainThread

(* When main returns after Ctrl-C, the listener thread has been joined,    *)
(* every connection is closed and so is the socket of a successful Start,  *)
(* at whatever point the signals arrived.                                  *)
THEOREM ExitClosesSocketsCorrect == ProxySpec => []ExitClosesSockets
<1>1. ProxyInit => Init /\ ExitInv /\ QuietInv
  BY DEF ProxyInit, Init, ExitInv, QuietInv, Waiting
<1>2. TypeInv /\ LockInv /\ QuietInv /\ ExitInv => ExitClosesSockets
  <2> SUFFICES ASSUME TypeInv, LockInv, QuietInv, ExitInv, mainAt = "exited"
               PROVE  /\ listener = "none"
                      /\ started => listenSocket = "closed"
                      /\ \A c \in Conns : srv[c] \in {"none", "closed"}
    BY DEF ExitClosesSockets
  <2>1. Joined
    BY DEF ExitInv
  <2>2. /\ activeConnections = {} /\ Waiting = {}
        /\ started => listenSocket = "closed"
    BY <2>1 DEF Joined, QuietInv
  <2>3. messageSocket = NoSocket
    BY <2>1 DEF Joined, TypeInv, HeldSocket
  <2> QED
    BY <2>1, <2>2, <2>3, ServerAssumption
    DEF Joined, Waiting, TypeInv, TypeOK, LockInv, SocketAccounting
<1>3. QED
  BY <1>1, <1>2, ProxyStepIsServerStep, TypeInitially, TypeStep,
     LockInitially, LockStep, QuietStep, ExitStep, PTL
  DEF ProxySpec

(* A signal can miss the link or the loop.                                 *)

Late == {"wanted", "connect", "assign"}

(* Once the handler has been through deActivateConnection there is no      *)
(* handle, and monitorConnection makes no new one, unless it was on its    *)
(* way to gattlib_connect already.                                         *)
AbortInv ==
  /\ handler \in {"begin", "deactivate"} => signalAt = mainAt
  /\ handler \notin {"idle", "begin"} => doQuit
  /\ doQuit /\ handler \in {"idle", "shutdown", "join", "quit"} =>
       signalAt \in Late \/ (gattConnection = "NULL" /\ mainAt \notin Late)
  /\ mainAt \notin {"start", "signal", "newloop", "run"} /\ ~running => doQuit
  /\ mainAt = "exited" => ~running /\ handler = "idle"

LEMMA AbortStep == AbortInv /\ [ProxyNext]_allVars => AbortInv'
<1> SUFFICES ASSUME AbortInv, [ProxyNext]_allVars PROVE AbortInv'
  OBVIOUS
<1> USE DEF AbortInv, Late, Thread, Goto, proxyVars, mainVars, bleVars,
            abortVars, quitVars
<1>1. CASE MainStarts \/ MainInstallsHandler \/ MainCreatesLoop
             \/ MainRunsLoop \/ MainExits
  BY <1>1 DEF MainStarts, MainInstallsHandler, MainCreatesLoop, MainRunsLoop,
              MainExits
<1>2. CASE MonitorBegins \/ MonitorAsks \/ MonitorDecides \/ MonitorTests
  BY <1>2 DEF MonitorBegins, MonitorAsks, MonitorDecides, MonitorTests,
              Dispatches
<1>3. CASE ConnectSucceeds \/ ConnectFails \/ ConnectAssigns
             \/ NotifyStarts \/ NotifyFails
  BY <1>3 DEF ConnectSucceeds, ConnectFails, ConnectAssigns, NotifyStarts,
              NotifyFails
<1>4. CASE NotificationArrives \/ SendGoesOn
  BY <1>4 DEF NotificationArrives, SendGoesOn
<1>5. CASE DisconnectArrives \/ DeactivateStops \/ DeactivateClears
  BY <1>5 DEF DisconnectArrives, DeactivateStops, DeactivateClears, Dispatches
<1>6. CASE Interrupt \/ InterruptsListener
  BY <1>6 DEF Interrupt, InterruptsListener
<1>7. CASE OnUserAbort
  BY <1>7 DEF OnUserAbort, HandlerGoes, AbortBegins, AbortDeactivates,
              AbortShutsDown, AbortJoined, AbortQuitsLoop
<1>8. CASE LinkBreaks \/ Others
  BY <1>8 DEF LinkBreaks, Others
<1>9. CASE UNCHANGED allVars
  BY <1>9 DEF allVars
<1> QED
  BY <1>1, <1>2, <1>3, <1>4, <1>5, <1>6, <1>7, <1>8, <1>9
  DEF ProxyNext, MainThread

(* However many signals came, main returns with a link only if the last    *)
(* one found the main thread between its test of doQuit and the assignment *)
(* of the handle.                                                          *)
THEOREM ExitClosesLinkCorrect == ProxySpec => []ExitClosesLink
<1>1. ProxyInit => LinkInv /\ AbortInv
  BY DEF ProxyInit, LinkInv, NoForgottenLink, AbortInv, Late
<1>2. LinkInv /\ AbortInv => ExitClosesLink
  BY DEF LinkInv, NoForgottenLink, AbortInv, Late, ExitClosesLink
<1>3. QED
  BY <1>1, <1>2, LinkStep, AbortStep, PTL DEF ProxySpec

(* on_user_abort is through and the loop runs, with nobody listening.      *)
Missed ==
  /\ handler = "idle" /\ doQuit /\ running
  /\ listener = "none"
  /\ mainAt \notin {"start", "signal", "newloop", "run", "exited"}

LEMMA MissedStep ==
  ASSUME ExitInv, [ProxyNext]_allVars
  PROVE  /\ MainRunsLoop /\ doQuit => Missed'
         /\ Missed => Missed' \/ Interrupt
<1> USE DEF ExitInv, Joined, Missed, Thread, Goto, proxyVars, mainVars,
            bleVars, abortVars, quitVars, vars, listenVars
<1>1. MainRunsLoop /\ doQuit => Missed'
  BY DEF MainRunsLoop
<1> SUFFICES ASSUME Missed, ~Interrupt PROVE Missed'
  BY <1>1
<1>2. ~(MainStarts \/ MainInstallsHandler \/ MainCreatesLoop \/ MainRunsLoop
          \/ MainExits \/ InterruptsListener \/ OnUserAbort)
  BY DEF MainStarts, MainInstallsHandler, MainCreatesLoop, MainRunsLoop,
         MainExits, InterruptsListener, OnUserAbort, HandlerGoes, AbortBegins,
         AbortDeactivates, AbortShutsDown, AbortJoined, AbortQuitsLoop
<1>3. CASE MonitorBegins \/ MonitorAsks \/ MonitorDecides \/ MonitorTests
  BY <1>3 DEF MonitorBegins, MonitorAsks, MonitorDecides, MonitorTests,
              Dispatches, HasActiveClientBegins, HasActiveClientReturns
<1>4. CASE ConnectSucceeds \/ ConnectFails \/ ConnectAssigns
             \/ NotifyStarts \/ NotifyFails
  BY <1>4 DEF ConnectSucceeds, ConnectFails, ConnectAssigns, NotifyStarts,
              NotifyFails
<1>5. CASE NotificationArrives \/ SendGoesOn
  BY <1>5 DEF NotificationArrives, SendGoesOn, SendBegins, SendDelivers,
              SendFails, SendReturns
<1>6. CASE DisconnectArrives \/ DeactivateStops \/ DeactivateClears
  BY <1>6 DEF DisconnectArrives, DeactivateStops, DeactivateClears, Dispatches
<1>7. CASE LinkBreaks
  BY <1>7 DEF LinkBreaks
<1>8. CASE Others
  BY <1>8, ServerKeepsJoined DEF Others
<1>9. CASE UNCHANGED allVars
  BY <1>9 DEF allVars
<1> QED
  BY <1>2, <1>3, <1>4, <1>5, <1>6, <1>7, <1>8, <1>9 DEF ProxyNext, MainThread

(* A signal between its installation and g_main_loop_run is missed: the    *)
(* loop is started although on_user_abort has quit it and has joined the   *)
(* listener, and runs, without a listener, until there is another SIGINT.  *)
THEOREM MissedIsForEver ==
  ProxySpec => [][/\ MainRunsLoop /\ doQuit => Missed'
                  /\ Missed => Missed' \/ Interrupt]_allVars
<1>1. ProxyInit => ExitInv
  BY DEF ProxyInit, Init, ExitInv
<1>2. ExitInv /\ [ProxyNext]_allVars =>
        [/\ MainRunsLoop /\ doQuit => Missed'
         /\ Missed => Missed' \/ Interrupt]_allVars
  BY MissedStep
<1>3. QED
  BY <1>1, <1>2, ExitStep, PTL DEF ProxySpec

-----------------------------------------------------------------------------
(* The handler and the server's mutex.                                     *)

(* The join waits for the listener, which has still to close its sockets   *)
(* under the mutex, and the mutex is held by the thread that joins.        *)
Deadlocked ==
  handler = "join" /\ call[Main] # "none" /\ listener \notin {"none", "done"}

LEMMA DeadlockStep ==
  ASSUME LockInv, Deadlocked, [ProxyNext]_allVars
  PROVE  Deadlocked' \/ InterruptsListener
<1>1. /\ handler = "join" /\ call[Main] # "none"
      /\ listener \notin {"none", "done"} /\ ~LockFree
  BY ProxyAssumption, ServerAssumption, OneSender DEF Deadlocked, LockInv, LockFree
<1>2. ~MainThread /\ ~Interrupt /\ ~OnUserAbort
  BY <1>1
  DEF MainThread, Thread, Dispatches, MainStarts, MainInstallsHandler, MainCreatesLoop,
      MainRunsLoop, MainExits, MonitorBegins, MonitorAsks, MonitorDecides,
      MonitorTests, ConnectSucceeds, ConnectFails, ConnectAssigns, NotifyStarts, NotifyFails,
      NotificationArrives, SendGoesOn, DisconnectArrives, DeactivateStops,
      DeactivateClears, Interrupt, OnUserAbort, HandlerGoes, AbortBegins,
      AbortDeactivates, AbortShutsDown, AbortJoined, AbortQuitsLoop, ShutdownReturns
<1>3. CASE Others
  <2>1. UNCHANGED <<handler, call>>
    BY <1>3 DEF Others, proxyVars, abortVars, threadVars, Listen, ListenEnters,
                ListenTests, SelectReady, SelectIdle, Accept, AcceptFails, Store,
                DetectDisconnectedClients, ListenExits, Client, Connect, ClientReads,
                ClientWrites, ClientCloses
  <2>2. listener' \notin {"none", "done"}
    BY <1>1, <1>3
    DEF Others, listenVars, Listen, ListenEnters, ListenTests, SelectReady, SelectIdle,
        Accept, AcceptFails, Store, DetectDisconnectedClients, ListenExits, Client,
        Connect, ClientReads, ClientWrites, ClientCloses
  <2> QED
    BY <1>1, <2>1, <2>2 DEF Deadlocked
<1>4. CASE LinkBreaks \/ UNCHANGED allVars
  BY <1>4 DEF LinkBreaks, allVars, vars, proxyVars, abortVars, threadVars, listenVars,
              Deadlocked
<1> QED
  BY <1>2, <1>3, <1>4 DEF ProxyNext

(* When a signal finds the main thread inside the mutex and the listener   *)
(* still runs, no step of the listener, of a client or of the stylus ends  *)
(* the wait of on_user_abort: only a second SIGINT does, which is handled  *)
(* on the listener and ends the process by its join of itself.  This is    *)
(* behind the finding on Ctrl-C.                                           *)
THEOREM DeadlockIsForEver ==
  ProxySpec => [][Deadlocked => Deadlocked' \/ InterruptsListener]_allVars
<1>1. LockInv /\ [ProxyNext]_allVars =>
        [Deadlocked => Deadlocked' \/ InterruptsListener]_allVars
  BY DeadlockStep
<1>2. ProxyInit => Init
  BY DEF ProxyInit
<1> QED
  BY <1>1, <1>2, ProxyStepIsServerStep, TypeInitially, TypeStep, LockInitially,
     LockStep, PTL
  DEF ProxySpec

-----------------------------------------------------------------------------
(* The handle.                                                             *)

(* The handle that main keeps is good, but between the two statements of   *)
(* deActivateConnection and after notifications could not be started: only *)
(* there may on_user_abort free it a second time.                          *)
HandleIsGood ==
  gattConnection = "handle" =>
    \/ link \in {"open", "lost"}
    \/ mainAt = "clear"
    \/ NotifyMayFail /\ link = "freed"

HandleInv ==
  /\ HandleIsGood /\ LinkInv
  /\ link \in {"none", "open", "lost", "freed"}
  /\ mainAt = "assign" => link \in {"open", "lost"} /\ gattConnection = "NULL"

LEMMA HandleStep == HandleInv /\ [ProxyNext]_allVars => HandleInv'
<1> SUFFICES ASSUME HandleInv, [ProxyNext]_allVars PROVE HandleInv'
  OBVIOUS
<1>0. LinkInv'
  BY LinkStep DEF HandleInv
<1> USE <1>0 DEF HandleInv, HandleIsGood, LinkInv, NoForgottenLink, Thread, Goto,
        proxyVars, mainVars, bleVars, abortVars, quitVars
<1>1. CASE MainStarts \/ MainInstallsHandler \/ MainCreatesLoop
             \/ MainRunsLoop \/ MainExits
  BY <1>1 DEF MainStarts, MainInstallsHandler, MainCreatesLoop, MainRunsLoop,
              MainExits
<1>2. CASE MonitorBegins \/ MonitorAsks \/ MonitorDecides \/ MonitorTests
  BY <1>2 DEF MonitorBegins, MonitorAsks, MonitorDecides, MonitorTests,
              Dispatches
<1>3. CASE ConnectSucceeds \/ ConnectFails \/ ConnectAssigns
             \/ NotifyStarts \/ NotifyFails
  BY <1>3 DEF ConnectSucceeds, ConnectFails, ConnectAssigns, NotifyStarts,
              NotifyFails
<1>4. CASE NotificationArrives \/ SendGoesOn
  BY <1>4 DEF NotificationArrives, SendGoesOn
<1>5. CASE DisconnectArrives \/ DeactivateStops \/ DeactivateClears
  BY <1>5 DEF DisconnectArrives, DeactivateStops, DeactivateClears, Dispatches
<1>6. CASE Interrupt \/ InterruptsListener \/ OnUserAbort
  BY <1>6 DEF Interrupt, InterruptsListener, OnUserAbort, HandlerGoes,
              AbortBegins, AbortDeactivates, AbortShutsDown, AbortJoined,
              AbortQuitsLoop
<1>7. CASE LinkBreaks \/ Others
  BY <1>7 DEF LinkBreaks, Others
<1>8. CASE UNCHANGED allVars
  BY <1>8 DEF allVars
<1> QED
  BY <1>1, <1>2, <1>3, <1>4, <1>5, <1>6, <1>7, <1>8 DEF ProxyNext, MainThread

(* The converse of NoForgottenLink: activateConnection, the disconnection  *)
(* and on_user_abort leave no dangling handle but in these two places, the *)
(* second of which is behind the finding on an active client.              *)
THEOREM HandleCorrect == ProxySpec => []HandleIsGood
<1>1. ProxyInit => HandleInv
  BY DEF ProxyInit, HandleInv, HandleIsGood, LinkInv, NoForgottenLink
<1>2. HandleInv => HandleIsGood
  BY DEF HandleInv
<1> QED
  BY <1>1, <1>2, HandleStep, PTL DEF ProxySpec
=============================================================================
