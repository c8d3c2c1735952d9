------------------------------- MODULE WinProxy -------------------------------
(***************************************************************************)
(* The Windows proxy (proxy/src/winMain.cpp).  The main thread asks for a  *)
(* device, starts the server and then, while the server has a client,      *)
(* connects to the stylus and waits.  Threads of the WinRT pool run        *)
(* stylusValueHandler, which broadcasts a sample, and                      *)
(* stylusSessionStatusChanged, which writes the sessionStatus that main    *)
(* writes as well.                                                         *)
(*                                                                         *)
(* The server is SocketServer and the prompt DeviceFinder.  WinRT is the   *)
(* environment: an asynchronous call yields a result, an error or an       *)
(* exception; status events are delivered in any order, also after their   *)
(* session is gone.                                                        *)
(***************************************************************************)
EXTENDS SocketServer, DeviceFinder

CONSTANTS
  Main,           (* the main thread                                         *)
  ServiceLists,   (* the services a device may have, in their order          *)
  MaxEvents       (* bound on the events of one status under way             *)

Pool == Threads \ {Main}

ASSUME WinAssumption ==
  /\ Main \in Threads
  /\ ServiceLists \subseteq Seq({"stylus", "other"})
  /\ MaxEvents \in Nat \ {0}

VARIABLES
  mainAt,         (* where main stands                                       *)
  bleDev,         (* "null", or "open" until Close or its release            *)
  services,       (* the services that the search has not reached            *)
  sessionStatus,  (* the global variable                                     *)
  valueHandler,   (* "none", or stylusValueHandler is registered for a       *)
                  (* stylus that was asked to notify, or that is "silent"    *)
  statusHandler,  (* is stylusSessionStatusChanged registered?               *)
  session,        (* "none", or the true state of the GATT session           *)
  statusEvents,   (* how many events of either status are under way          *)
  busy            (* the pool threads inside stylusValueHandler              *)

deviceVars  == <<bleDev, services>>
handlerVars == <<valueHandler, statusHandler>>
eventVars   == <<sessionStatus, session, statusEvents>>
winVars     == <<mainAt, deviceVars, handlerVars, eventVars, busy>>
allVars     == <<vars, finderVars, winVars>>

(* An address on the command line makes the prompt unnecessary.            *)
WinInit ==
  /\ Init /\ FinderInit
  /\ mainAt \in {"prompt", "start"}
  /\ bleDev = "null" /\ services = <<>>
  /\ valueHandler = "none" /\ statusHandler = FALSE
  /\ sessionStatus = "Active" /\ session = "none"
  /\ statusEvents = [e \in {"Active", "Closed"} |-> 0]
  /\ busy = {}

Goto(from, to) == mainAt = from /\ mainAt' = to

-----------------------------------------------------------------------------
(* The prompt and the start of the server.                                 *)

Prompts ==
  /\ mainAt = "prompt"
  /\ Watcher \/ PromptUserForDevice
  /\ UNCHANGED <<vars, winVars>>

FinderForgotten ==
  /\ devices' = <<>> /\ adding' = NoId /\ watching' = FALSE
  /\ prompt' = "start" /\ typed' = 0 /\ devId' = NoId
  /\ printed' = {} /\ invalid' = {}

(* FromIdAsync yields nothing for a device that has gone, which ends the   *)
(* process, as this is not inside the try.  Nothing reads the list after   *)
(* that: it is not followed further.                                       *)
GetsAddress ==
  /\ prompt = "done"
  /\ \/ devId # NoId /\ Goto("prompt", "start")
     \/ /\ devId = NoId \/ \E i \in invalid : devices[i] = devId
        /\ Goto("prompt", "exited")
  /\ FinderForgotten
  /\ UNCHANGED <<vars, deviceVars, handlerVars, eventVars, busy>>

(* The result of Start is not looked at.                                   *)
MainStarts ==
  /\ \/ mainAt = "start" /\ UNCHANGED mainAt /\ (StartListens \/ StartSpawns)
     \/ Goto("start", "ask") /\ (StartReturns \/ StartFails)
  /\ UNCHANGED <<finderVars, deviceVars, handlerVars, eventVars, busy>>

-----------------------------------------------------------------------------
(* The loop of main.                                                       *)

(* HasActiveClient is called to decide whether to connect, whether to go   *)
(* on waiting, and which message to print.  The sleeps change nothing.     *)
Asks ==
  /\ mainAt \in {"ask", "wait", "report"} /\ UNCHANGED mainAt
  /\ HasActiveClientBegins(Main)
  /\ UNCHANGED <<finderVars, deviceVars, handlerVars, eventVars, busy>>

Decides ==
  /\ Goto("ask", IF ClientsThere THEN "connect" ELSE "ask")
  /\ HasActiveClientReturns(Main)
  /\ UNCHANGED <<finderVars, deviceVars, handlerVars, eventVars, busy>>

(* FromBluetoothAddressAsync: a device, or nothing or an exception.        *)
Connects ==
  /\ \/ Goto("connect", "services") /\ bleDev' = "open"
     \/ Goto("connect", "ask") /\ UNCHANGED bleDev
  /\ UNCHANGED <<vars, finderVars, services, handlerVars, eventVars, busy>>

(* The local found is true exactly while the value handler is registered.  *)
(* After the last service main waits for what was found.                   *)
Onward(rest, handler) == IF rest # <<>> THEN "visit"
                         ELSE IF handler # "none" THEN "wait" ELSE "report"

(* GetGattServicesAsync: without success the list is empty.                *)
GetsServices ==
  /\ \/ services' \in ServiceLists /\ session' = "active"
     \/ services' = <<>> /\ UNCHANGED session
  /\ Goto("services", Onward(services', valueHandler))
  /\ UNCHANGED <<vars, finderVars, bleDev, handlerVars, sessionStatus,
                 statusEvents, busy>>

(* The next service of the list; sessionStatus is set for each.            *)
Visits ==
  /\ sessionStatus' = "Active"
  /\ \/ /\ services # <<>> /\ Head(services) = "stylus"
        /\ Goto("visit", "register") /\ UNCHANGED services
     \/ /\ services # <<>> /\ Head(services) # "stylus"
        /\ services' = Tail(services)
        /\ Goto("visit", Onward(services', valueHandler))
  /\ UNCHANGED <<vars, finderVars, bleDev, handlerVars, session, statusEvents,
                 busy>>

Registers ==
  /\ Goto("register", "result")
  /\ statusHandler' = TRUE
  /\ UNCHANGED <<vars, finderVars, deviceVars, valueHandler, eventVars, busy>>

(* The characteristic, which of a stylus can notify, or an error.  The     *)
(* loop before it that is to wait ends at once; get() waits.  The request  *)
(* for notifications is sent without a look at what becomes of it: it has  *)
(* its effect or fails, here or a while later, which makes no difference.  *)
GetsResult ==
  /\ services # <<>> /\ services' = Tail(services)
  /\ \/ session = "active" /\ valueHandler' \in {"asked", "silent"}
     \/ UNCHANGED valueHandler
  /\ Goto("result", Onward(services', valueHandler'))
  /\ UNCHANGED <<vars, finderVars, bleDev, statusHandler, eventVars, busy>>

(* The condition of the loop that waits; gattServices does not change.     *)
GoesOn_clients == ClientsThere
GoesOn_session == sessionStatus = "Active"
GoesOn == ClientsThere /\ sessionStatus = "Active"

(* The handler is revoked when the wait is over.                           *)
Waits ==
  /\ \/ Goto("wait", "wait") /\ GoesOn /\ UNCHANGED valueHandler
     \/ Goto("wait", "report") /\ ~GoesOn /\ valueHandler' = "none"
  /\ HasActiveClientReturns(Main)
  /\ UNCHANGED <<finderVars, deviceVars, statusHandler, eventVars, busy>>

(* One more event of that status is under way.                             *)
Tells(e) ==
  /\ statusEvents[e] < MaxEvents
  /\ statusEvents' = [statusEvents EXCEPT ![e] = @ + 1]

(* The device, its session and its handlers go, and a last event may be    *)
(* under way.                                                              *)
Releases ==
  /\ bleDev' = "null" /\ services' = <<>> /\ session' = "none"
  /\ valueHandler' = "none" /\ statusHandler' = FALSE
  /\ \/ UNCHANGED statusEvents
     \/ statusHandler /\ session = "active" /\ Tells("Closed")
  /\ UNCHANGED <<finderVars, sessionStatus, busy>>

(* The answer is printed only.                                             *)
Closes == Goto("report", "ask") /\ HasActiveClientReturns(Main) /\ Releases

Catches_leaves ==
  /\ Goto("services", "exited") \/ Goto("result", "exited")
  /\ UNCHANGED vars /\ Releases

(* An exception of an asynchronous call, or GetAt(0) of an empty list: the *)
(* locals of the try block are released.                                   *)
Catches ==
  /\ Goto("services", "ask") \/ Goto("result", "ask")
  /\ UNCHANGED vars /\ Releases

Loop == \/ Asks \/ Decides \/ Connects \/ GetsServices \/ Visits
        \/ Registers \/ GetsResult \/ Waits \/ Closes \/ Catches

-----------------------------------------------------------------------------
(* The thread pool.                                                        *)

(* The stylus goes out of reach or comes back.                             *)
SessionChanges ==
  LET now == IF session = "active" THEN "lost" ELSE "active"
      event == IF now = "active" THEN "Active" ELSE "Closed"
  IN  /\ mainAt # "exited" /\ session # "none"
      /\ session' = now
      /\ IF statusHandler THEN Tells(event) ELSE UNCHANGED statusEvents
      /\ UNCHANGED <<vars, finderVars, mainAt, deviceVars, handlerVars,
                     sessionStatus, busy>>

stylusSessionStatusChanged(e) ==
  /\ mainAt # "exited"
  /\ statusEvents[e] > 0
  /\ sessionStatus' = e
  /\ statusEvents' = [statusEvents EXCEPT ![e] = @ - 1]
  /\ UNCHANGED <<vars, finderVars, mainAt, deviceVars, handlerVars, session,
                 busy>>

(* The stylus sends its changes after a successful request only.           *)
SampleArrives(t) ==
  /\ valueHandler = "asked" /\ session = "active"
  /\ t \notin busy
  /\ busy' = busy \cup {t}
  /\ UNCHANGED <<vars, finderVars, mainAt, deviceVars, handlerVars, eventVars>>

(* A thread inside the handler sends also when it was revoked since.       *)
stylusValueHandler(t) ==
  /\ mainAt # "exited"
  /\ t \in busy
  /\ \/ /\ \/ \E v \in Values : SendBegins(t, v)
           \/ \E c \in Conns : SendDelivers(t, c) \/ SendFails(t, c)
        /\ UNCHANGED busy
     \/ SendReturns(t) /\ busy' = busy \ {t}
  /\ UNCHANGED <<finderVars, mainAt, deviceVars, handlerVars, eventVars>>

Callbacks ==
  \/ SessionChanges
  \/ \E e \in {"Active", "Closed"} : stylusSessionStatusChanged(e)
  \/ \E t \in Pool : SampleArrives(t) \/ stylusValueHandler(t)

(* The listener and the clients, until the process ends.                   *)
Others ==
  /\ mainAt # "exited"
  /\ Listen \/ \E c \in Conns : Client(c)
  /\ UNCHANGED <<finderVars, winVars>>

WinNext ==
  Prompts \/ GetsAddress \/ MainStarts \/ Loop \/ Callbacks \/ Others

WinSpec == WinInit /\ [][WinNext]_allVars

(***************************************************************************)
(* Fairness: threads run; the mutex is not withheld for ever from one of   *)
(* them; an event is delivered; a stylus that is asked again and again is  *)
(* at last reached, and then answers with the service.                     *)
(***************************************************************************)
Reaches == Connects /\ bleDev' = "open"
Answers == GetsServices /\ "stylus" \in Range(services')
Subscribes == GetsResult /\ valueHandler' # "none"

WinFairness ==
  /\ WF_allVars(MainStarts)
  /\ WF_allVars(Decides \/ Connects \/ GetsServices \/ Visits \/ Registers
                  \/ GetsResult \/ Waits \/ Closes)
  /\ SF_allVars(Asks)
  /\ SF_allVars(Reaches) /\ SF_allVars(Answers) /\ SF_allVars(Subscribes)
  /\ WF_allVars(\E e \in {"Active", "Closed"} : stylusSessionStatusChanged(e))
  /\ \A t \in Pool : SF_allVars(stylusValueHandler(t))
  /\ WF_allVars((ListenEnters \/ ListenTests \/ SelectIdle) /\ Others)
  /\ SF_allVars(SelectReady /\ Others)
  /\ SF_allVars((\E c \in Conns : Accept(c)) /\ Others)
  /\ SF_allVars((Store \/ DetectDisconnectedClients) /\ Others)
  /\ \A c \in Conns : WF_allVars(ClientReads(c) /\ Others)

WinFairSpec == WinSpec /\ WinFairness

-----------------------------------------------------------------------------
(* Properties.                                                             *)

InWait == mainAt = "wait"

(* A client that is connected makes the stylus send its changes, however   *)
(* often connecting fails or throws at first, or it goes; unless the       *)
(* session is lost again and again.  The one failure that main does not    *)
(* see is that of the request for notifications, its last call: it then    *)
(* waits with a stylus that is silent.                                     *)
ClientGetsStylus ==
  \/ []<>(session = "lost")
  \/ activeConnections # {} ~>
       valueHandler # "none" \/ activeConnections = {}

(* "No client, disconnecting from Stylus." (line 178): the device is       *)
(* closed, from whatever point of the search.                              *)
IdleDeviceIsClosed ==
  bleDev = "open" ~> bleDev = "null" \/ activeConnections # {}

(* A session that ends while main waits, and does not come back, ends the  *)
(* wait, if nothing but Closed events, of whatever session, is under way:  *)
(* an Active of an earlier session, or of this one, may be delivered last. *)
ClosedEndsWait ==
  InWait /\ statusEvents["Closed"] > 0 /\ statusEvents["Active"] = 0
    ~> session # "lost" \/ ~InWait

(* "keep track of session status (connected or not)" (line 32): a session  *)
(* that is lost when main waits ends the wait or comes back.               *)
LostSessionIsNoticed == InWait /\ session = "lost" ~> session # "lost" \/ ~InWait
=============================================================================
