---------------------------- MODULE SocketServer ----------------------------
(***************************************************************************)
(* The socket server of the stylus proxy (proxy/src/SocketServer.cpp): a   *)
(* listener thread accepts local clients into activeConnections, any       *)
(* number of other threads broadcast samples to them with Send and ask     *)
(* HasActiveClient, and one controlling thread calls Start and Shutdown.   *)
(* activeConnections_mutex guards the list.                                *)
(*                                                                         *)
(* The kernel's side of the AF_UNIX sockets and the clients are the        *)
(* environment.  A connection is used once: a client that reconnects is a  *)
(* new member of Conns.  The order of the std::list is not observable, so  *)
(* the list is a set and an iteration is the set of elements it has left.  *)
(***************************************************************************)
EXTENDS Naturals, Sequences, FiniteSets

CONSTANTS
  Conns,        (* connections that clients may open                          *)
  Threads,      (* threads that call Send and HasActiveClient                 *)
  Values,       (* the samples that are broadcast                             *)
  Nobody,       (* not a thread: the mutex is free                            *)
  NoSocket,     (* not a connection: INVALID_SOCKET                           *)
  Backlog,      (* connections that may wait for accept, listen(_, Backlog)   *)
  SockBuf,      (* samples a socket buffers before send blocks                *)
  MaxSends,     (* bound on the number of broadcasts                          *)
  AllowRestart  (* may Start be called after Shutdown?                        *)

ASSUME ServerAssumption ==
  /\ Nobody \notin Threads
  /\ NoSocket \notin Conns
  /\ Backlog \in Nat
  /\ SockBuf \in Nat \ {0}
  /\ MaxSends \in Nat
  /\ AllowRestart \in BOOLEAN

VARIABLES
  isRunning, stopServer, listenSocket, activeConnections,
  activeConnections_mutex, (* the thread inside the critical section           *)
  listener,       (* where listenThread stands in Listen                       *)
  messageSocket,  (* the socket accept returned and Listen has not stored yet  *)
  ctl,            (* where the controlling thread stands in Start or Shutdown  *)
  up,             (* history: the last control call was a successful Start     *)
  started,        (* history: the last Start that did something was successful *)
  call,           (* the call in which a thread holds the mutex                *)
  todo,           (* the connections the iteration of Send has not reached     *)
  value,          (* the argument of Send                                      *)
  cli,            (* the client's end of a connection                          *)
  srv,            (* the server's end of a connection                          *)
  reset,          (* closed by the client with unread data: ECONNRESET         *)
  stray,          (* bytes the client wrote that the server has not read       *)
  selectError,    (* history: where select failed in the detection just made   *)
  log,            (* history: the samples in the order of the broadcasts       *)
  base,           (* history: length of log when the connection was stored     *)
  sent,           (* the samples the kernel accepted for a connection          *)
  taken           (* how many of them the client has read                      *)

controlVars == <<isRunning, stopServer, listenSocket, ctl, up, started>>
listenVars  == <<listener, messageSocket, selectError>>
listVars    == <<activeConnections, activeConnections_mutex>>
threadVars  == <<call, todo, value>>
socketVars  == <<cli, srv, reset, stray>>
dataVars    == <<log, base, sent, taken>>

vars == <<controlVars, listenVars, listVars, threadVars, socketVars, dataVars>>

ListenerStates == {"none", "enter", "loop", "select", "accept", "store",
                   "detect", "exit", "done"}

TypeOK ==
  /\ isRunning \in BOOLEAN /\ stopServer \in BOOLEAN
  /\ up \in BOOLEAN /\ started \in BOOLEAN
  /\ listenSocket \in {"none", "unbound", "listening", "closed"}
  /\ activeConnections \subseteq Conns
  /\ activeConnections_mutex \in Threads \cup {Nobody}
  /\ listener \in ListenerStates
  /\ messageSocket \in Conns \cup {NoSocket}
  /\ selectError \subseteq Conns
  /\ ctl \in {"idle", "bound", "spawned", "joining"}
  /\ call \in [Threads -> {"none", "send", "hasActive"}]
  /\ todo \in [Threads -> SUBSET Conns]
  /\ value \in [Threads -> Values]
  /\ cli \in [Conns -> {"none", "open", "closed"}]
  /\ srv \in [Conns -> {"none", "queued", "open", "closed"}]
  /\ reset \in [Conns -> BOOLEAN]
  /\ stray \in [Conns -> {0, 1}]
  /\ log \in Seq(Values)
  /\ base \in [Conns -> Nat]
  /\ sent \in [Conns -> Seq(Values)]
  /\ taken \in [Conns -> Nat]

Init ==
  /\ isRunning = FALSE /\ stopServer = FALSE
  /\ up = FALSE /\ started = FALSE
  /\ listenSocket = "none"
  /\ activeConnections = {}
  /\ activeConnections_mutex = Nobody
  /\ listener = "none"
  /\ messageSocket = NoSocket
  /\ selectError = {}
  /\ ctl = "idle"
  /\ call = [t \in Threads |-> "none"]
  /\ todo = [t \in Threads |-> {}]
  /\ value \in [Threads -> Values]
  /\ cli = [c \in Conns |-> "none"]
  /\ srv = [c \in Conns |-> "none"]
  /\ reset = [c \in Conns |-> FALSE]
  /\ stray = [c \in Conns |-> 0]
  /\ log = <<>>
  /\ base = [c \in Conns |-> 0]
  /\ sent = [c \in Conns |-> <<>>]
  /\ taken = [c \in Conns |-> 0]

-----------------------------------------------------------------------------
(* The mutex, the sockets as the kernel sees them.                         *)

LockFree_ignored == TRUE
LockFree == activeConnections_mutex = Nobody

Waiting == {c \in Conns : srv[c] = "queued"}

Unread(c) == Len(sent[c]) - taken[c]

(* closesocket on every member of S.                                       *)
CloseAll_leaks(S) == srv
CloseAll(S) == [c \in Conns |-> IF c \in S THEN "closed" ELSE srv[c]]

-----------------------------------------------------------------------------
(* Start and Shutdown, on the controlling thread.                          *)

(* Start returns true at once if the server runs.  When socket fails there *)
(* is no descriptor; when remove, bind or listen fails there is one, which *)
(* Start does not close: "unbound" stands for a descriptor left that way.  *)
StartFails ==
  /\ ctl = "idle" /\ ~isRunning
  /\ AllowRestart \/ ~stopServer
  /\ listenSocket' \in {"none", "unbound"}
  /\ started' = FALSE
  /\ UNCHANGED <<isRunning, stopServer, ctl, up, listenVars, listVars,
                 threadVars, socketVars, dataVars>>

(* socket, remove, bind and listen succeed.                                *)
StartListens ==
  /\ ctl = "idle" /\ ~isRunning
  /\ AllowRestart \/ ~stopServer
  /\ listenSocket' = "listening"
  /\ ctl' = "bound"
  /\ UNCHANGED <<isRunning, stopServer, up, started, listenVars, listVars,
                 threadVars, socketVars, dataVars>>

(* listenThread = std::thread(Listen): terminates the process, a deadlock  *)
(* here, when the old thread was never joined.                             *)
StartSpawns ==
  /\ ctl = "bound"
  /\ listener = "none"
  /\ listener' = "enter"
  /\ ctl' = "spawned"
  /\ UNCHANGED <<isRunning, stopServer, listenSocket, up, started,
                 messageSocket, selectError, listVars, threadVars, socketVars,
                 dataVars>>

StartReturns ==
  /\ ctl = "spawned"
  /\ isRunning' = TRUE
  /\ up' = TRUE
  /\ started' = TRUE
  /\ ctl' = "idle"
  /\ UNCHANGED <<stopServer, listenSocket, listenVars, listVars, threadVars,
                 socketVars, dataVars>>

ShutdownBegins ==
  /\ ctl = "idle"
  /\ stopServer' = TRUE
  /\ up' = FALSE
  /\ ctl' = "joining"
  /\ UNCHANGED <<isRunning, listenSocket, started, listenVars, listVars,
                 threadVars, socketVars, dataVars>>

(* join returns when the thread has ended, or there is no thread to join.  *)
ShutdownReturns ==
  /\ ctl = "joining"
  /\ listener \in {"none", "done"}
  /\ listener' = "none"
  /\ ctl' = "idle"
  /\ UNCHANGED <<isRunning, stopServer, listenSocket, up, started,
                 messageSocket, selectError, listVars, threadVars, socketVars,
                 dataVars>>

-----------------------------------------------------------------------------
(* Listen, on listenThread.                                                *)

ListenEnters ==
  /\ listener = "enter"
  /\ listener' = "loop"
  /\ isRunning' = TRUE
  /\ UNCHANGED <<stopServer, listenSocket, ctl, up, started, messageSocket,
                 selectError, listVars, threadVars, socketVars, dataVars>>

ListenTests_returns ==
  /\ listener = "loop"
  /\ listener' = IF stopServer THEN "done" ELSE "select"
  /\ selectError' = {}
  /\ UNCHANGED <<controlVars, messageSocket, listVars, threadVars,
                 socketVars, dataVars>>

ListenTests ==
  /\ listener = "loop"
  /\ listener' = IF stopServer THEN "exit" ELSE "select"
  /\ selectError' = {}
  /\ UNCHANGED <<controlVars, messageSocket, listVars, threadVars,
                 socketVars, dataVars>>

SelectReady_never == FALSE /\ UNCHANGED vars

SelectReady ==
  /\ listener = "select"
  /\ Waiting # {}
  /\ listener' = "accept"
  /\ UNCHANGED <<controlVars, messageSocket, selectError, listVars,
                 threadVars, socketVars, dataVars>>

(* The two second timeout, or an error that is only printed.               *)
SelectIdle_fatal ==
  /\ listener = "select"
  /\ listener' = "exit"
  /\ UNCHANGED <<controlVars, messageSocket, selectError, listVars,
                 threadVars, socketVars, dataVars>>

SelectIdle ==
  /\ listener = "select"
  /\ listener' = "detect"
  /\ UNCHANGED <<controlVars, messageSocket, selectError, listVars,
                 threadVars, socketVars, dataVars>>

Accept(c) ==
  /\ listener = "accept"
  /\ c \in Waiting
  /\ messageSocket' = c
  /\ srv' = [srv EXCEPT ![c] = "open"]
  /\ listener' = "store"
  /\ UNCHANGED <<controlVars, selectError, listVars, threadVars, cli, reset,
                 stray, dataVars>>

(* accept returns INVALID_SOCKET, which is not stored.                     *)
AcceptFails ==
  /\ listener = "accept"
  /\ listener' = "detect"
  /\ UNCHANGED <<controlVars, messageSocket, selectError, listVars,
                 threadVars, socketVars, dataVars>>

(* push_back(messageSocket) inside the critical section.                   *)
Store ==
  /\ listener = "store"
  /\ LockFree
  /\ activeConnections' = activeConnections \cup {messageSocket}
  /\ base' = [base EXCEPT ![messageSocket] = Len(log)]
  /\ messageSocket' = NoSocket
  /\ listener' = "detect"
  /\ UNCHANGED <<controlVars, selectError, activeConnections_mutex,
                 threadVars, socketVars, log, sent, taken>>

(* recvfrom fails only once the data before the error is consumed.  An     *)
(* orderly close is an end of file, recvfrom returns 0, and the connection *)
(* stays in the list.                                                      *)
RecvFails_onData(c) == reset[c] \/ stray[c] > 0
RecvFails_never(c) == FALSE
RecvFails(c) == reset[c] /\ stray[c] = 0

(* select may fail on any connection, which is then taken for disconnected *)
(* without a look at its data; recvfrom decides about the others.          *)
DetectDisconnectedClients ==
  /\ listener = "detect"
  /\ LockFree
  /\ \E failing \in SUBSET activeConnections :
       LET broken == failing \cup {c \in activeConnections : RecvFails(c)}
       IN  /\ activeConnections' = activeConnections \ broken
           /\ srv' = CloseAll(broken)
           /\ stray' = [c \in Conns |-> IF c \in activeConnections
                                        THEN 0 ELSE stray[c]]
           /\ selectError' = failing
  /\ listener' = "loop"
  /\ UNCHANGED <<controlVars, messageSocket, activeConnections_mutex,
                 threadVars, cli, reset, dataVars>>

(* Leaving the loop: every connection and the listening socket are closed; *)
(* the kernel drops the connections that wait for accept.                  *)
ListenExits ==
  /\ listener = "exit"
  /\ LockFree
  /\ srv' = CloseAll(activeConnections \cup Waiting)
  /\ activeConnections' = {}
  /\ listenSocket' = "closed"
  /\ isRunning' = FALSE
  /\ listener' = "done"
  /\ UNCHANGED <<stopServer, ctl, up, started, messageSocket, selectError,
                 activeConnections_mutex, threadVars, cli, reset, stray,
                 dataVars>>

-----------------------------------------------------------------------------
(* Send and HasActiveClient, on any of the calling threads.                *)

SendBegins(t, v) ==
  /\ call[t] = "none"
  /\ LockFree
  /\ Len(log) < MaxSends
  /\ activeConnections_mutex' = t
  /\ call' = [call EXCEPT ![t] = "send"]
  /\ todo' = [todo EXCEPT ![t] = activeConnections]
  /\ value' = [value EXCEPT ![t] = v]
  /\ log' = Append(log, v)
  /\ UNCHANGED <<controlVars, listenVars, activeConnections, socketVars, base,
                 sent, taken>>

(* What an iteration has left after it erased or passed c.                 *)
Rest_stops(S, c) == {}
Rest(S, c) == S \ {c}

(* send blocks while the socket's buffer is full and the peer is there.    *)
SendDelivers(t, c) ==
  /\ call[t] = "send"
  /\ c \in todo[t]
  /\ cli[c] = "open" /\ Unread(c) < SockBuf
  /\ sent' = [sent EXCEPT ![c] = Append(@, value[t])]
  /\ todo' = [todo EXCEPT ![t] = Rest(@, c)]
  /\ UNCHANGED <<controlVars, listenVars, listVars, call, value, socketVars,
                 log, base, taken>>

SendFails(t, c) ==
  /\ call[t] = "send"
  /\ c \in todo[t]
  /\ cli[c] = "closed"
  /\ srv' = CloseAll({c})
  /\ activeConnections' = activeConnections \ {c}
  /\ todo' = [todo EXCEPT ![t] = Rest(@, c)]
  /\ UNCHANGED <<controlVars, listenVars, activeConnections_mutex, call,
                 value, cli, reset, stray, dataVars>>

SendReturns(t) ==
  /\ call[t] = "send"
  /\ todo[t] = {}
  /\ call' = [call EXCEPT ![t] = "none"]
  /\ activeConnections_mutex' = Nobody
  /\ UNCHANGED <<controlVars, listenVars, activeConnections, todo, value,
                 socketVars, dataVars>>

HasActiveClientBegins(t) ==
  /\ call[t] = "none"
  /\ LockFree
  /\ activeConnections_mutex' = t
  /\ call' = [call EXCEPT ![t] = "hasActive"]
  /\ UNCHANGED <<controlVars, listenVars, activeConnections, todo, value,
                 socketVars, dataVars>>

(* What it returns, read by the caller in the step in which it returns.    *)
ClientsThere == activeConnections # {}

HasActiveClientReturns(t) ==
  /\ call[t] = "hasActive"
  /\ activeConnections_mutex' = Nobody
  /\ call' = [call EXCEPT ![t] = "none"]
  /\ UNCHANGED <<controlVars, listenVars, activeConnections, todo, value,
                 socketVars, dataVars>>

-----------------------------------------------------------------------------
(* The clients and the kernel.                                             *)

Connect(c) ==
  /\ cli[c] = "none"
  /\ listenSocket = "listening"
  /\ Cardinality(Waiting) <= Backlog
  /\ cli' = [cli EXCEPT ![c] = "open"]
  /\ srv' = [srv EXCEPT ![c] = "queued"]
  /\ UNCHANGED <<controlVars, listenVars, listVars, threadVars, reset, stray,
                 dataVars>>

ClientReads(c) ==
  /\ cli[c] = "open"
  /\ Unread(c) > 0
  /\ taken' = [taken EXCEPT ![c] = @ + 1]
  /\ UNCHANGED <<controlVars, listenVars, listVars, threadVars, socketVars,
                 log, base, sent>>

(* The server does not expect data, but reads it one byte at a time.       *)
ClientWrites(c) ==
  /\ cli[c] = "open"
  /\ srv[c] \in {"queued", "open"}
  /\ stray[c] = 0
  /\ stray' = [stray EXCEPT ![c] = 1]
  /\ UNCHANGED <<controlVars, listenVars, listVars, threadVars, cli, srv,
                 reset, dataVars>>

ClientCloses(c) ==
  /\ cli[c] = "open"
  /\ cli' = [cli EXCEPT ![c] = "closed"]
  /\ reset' = [reset EXCEPT ![c] = Unread(c) > 0]
  /\ UNCHANGED <<controlVars, listenVars, listVars, threadVars, srv, stray,
                 dataVars>>

-----------------------------------------------------------------------------
Control == StartFails \/ StartListens \/ StartSpawns \/ StartReturns
             \/ ShutdownBegins \/ ShutdownReturns

Listen ==
  \/ ListenEnters \/ ListenTests \/ SelectReady \/ SelectIdle
  \/ \E c \in Conns : Accept(c)
  \/ AcceptFails \/ Store \/ DetectDisconnectedClients \/ ListenExits

Send(t) ==
  \/ \E v \in Values : SendBegins(t, v)
  \/ \E c \in Conns : SendDelivers(t, c) \/ SendFails(t, c)
  \/ SendReturns(t)

HasActiveClient(t) == HasActiveClientBegins(t) \/ HasActiveClientReturns(t)

Client(c) == Connect(c) \/ ClientReads(c) \/ ClientWrites(c) \/ ClientCloses(c)

Next ==
  \/ Control
  \/ Listen
  \/ \E t \in Threads : Send(t) \/ HasActiveClient(t)
  \/ \E c \in Conns : Client(c)

Spec == Init /\ [][Next]_vars

(***************************************************************************)
(* Fairness.  Threads that can run do run.  A thread that waits for the    *)
(* mutex gets it if it is free again and again (SF), as the other threads  *)
(* hold it briefly and sleep in between.  select keeps reporting a waiting *)
(* connection, and accept does not fail for ever.  A connected client      *)
(* reads, as SocketClient's thread does, or else Send may block for ever.  *)
(***************************************************************************)
Fairness ==
  /\ WF_vars(StartSpawns) /\ WF_vars(StartReturns) /\ WF_vars(ShutdownReturns)
  /\ WF_vars(ListenEnters) /\ WF_vars(ListenTests) /\ WF_vars(SelectIdle)
  /\ SF_vars(SelectReady)
  /\ \A c \in Conns : SF_vars(Accept(c))
  /\ SF_vars(Store)
  /\ SF_vars(DetectDisconnectedClients)
  /\ SF_vars(ListenExits)
  /\ \A t \in Threads :
       /\ \A c \in Conns : WF_vars(SendDelivers(t, c) \/ SendFails(t, c))
       /\ WF_vars(SendReturns(t))
       /\ WF_vars(HasActiveClientReturns(t))
  /\ \A c \in Conns : WF_vars(ClientReads(c))

FairSpec == Spec /\ Fairness

-----------------------------------------------------------------------------
(* Properties.                                                             *)

(* A thread is inside Send or HasActiveClient exactly while it owns the    *)
(* mutex, and no connection is closed behind the back of an iteration: what *)
(* Send has still to visit is in the list.                                 *)
LockDiscipline ==
  \A t \in Threads :
    /\ call[t] # "none" <=> activeConnections_mutex = t
    /\ todo[t] # {} => call[t] = "send"
    /\ todo[t] \subseteq activeConnections

(* No descriptor leaks and none is used after closesocket: the server's    *)
(* open ends are the list and the one socket Listen is about to store,     *)
(* whichever of Send, DetectDisconnectedClients and the end of Listen      *)
(* removed the others.                                                     *)
HeldSocket == messageSocket # NoSocket <=> listener = "store"

SocketAccounting ==
  /\ \A c \in Conns :
       srv[c] = "open" <=> (c \in activeConnections \/ c = messageSocket)
  /\ messageSocket \notin activeConnections
  /\ HeldSocket

(* Every client sees the broadcasts in the one order in which Send was     *)
(* entered, without a gap or a repetition from the moment it was stored;   *)
(* the broadcast under way is missing only where Send has not yet been.    *)
UnderWay(c) == \E t \in Threads : c \in todo[t]

StreamsAgree ==
  \A c \in Conns :
    /\ base[c] + Len(sent[c]) <= Len(log)
    /\ \A i \in 1 .. Len(sent[c]) : sent[c][i] = log[base[c] + i]
    /\ c \in activeConnections =>
         base[c] + Len(sent[c]) = IF UnderWay(c) THEN Len(log) - 1 ELSE Len(log)

(* The threads, the mutex and the iteration implement StylusFeed: a         *)
(* broadcast takes effect for all clients when Send enters the critical     *)
(* section, a client joins when it is stored and leaves when it is erased.  *)
Stream(c) == IF UnderWay(c)
             THEN Append(sent[c], value[activeConnections_mutex])
             ELSE sent[c]

StreamsNow == [c \in activeConnections |-> Stream(c)]

Feed == INSTANCE StylusFeed WITH
          Subscribers <- Conns, Samples <- Values, feed <- StreamsNow

ImplementsFeed == Feed!Spec

(* Once Shutdown has returned every connection is closed, even one that    *)
(* was being accepted when it was called, and the listening socket of a    *)
(* successful Start is closed.  The descriptor that a Start leaves behind  *)
(* when it fails is not among them: only the end of Listen closes the      *)
(* listening socket, and there was no Listen.                              *)
ShutdownIsComplete ==
  stopServer /\ ctl = "idle" /\ listener = "none" =>
    /\ started => listenSocket = "closed"
    /\ \A c \in Conns : srv[c] \in {"none", "closed"}

(* After a successful Start, and until Shutdown is called, the thread that *)
(* takes care of incoming connections is there and the socket listens.     *)
StartedMeansListening ==
  up => /\ isRunning
        /\ listenSocket = "listening"
        /\ listener \notin {"none", "exit", "done"}

(* The thread object that Start assigns to is not joinable: assigning to a *)
(* joinable std::thread terminates the process.                            *)
NoThreadOverwritten == ctl = "bound" => listener = "none"

(* A connection leaves the list because its client closed its end, at the  *)
(* end of Listen, or because a select of DetectDisconnectedClients failed  *)
(* on this very connection: a failed send or select elsewhere, unread data *)
(* and the listener's own select error take nobody out.                    *)
HealthyClientsStay ==
  [][\A c \in Conns :
       c \in activeConnections /\ c \notin activeConnections'
         => cli[c] = "closed" \/ listener = "exit" \/ c \in selectError']_vars

(* A client that waits for accept is served, or dropped by Shutdown.       *)
WaitingIsServed ==
  \A c \in Conns : srv[c] = "queued" ~> srv[c] # "queued"

(* A client that broke off with unread data is noticed without any Send.   *)
ResetIsNoticed ==
  \A c \in Conns : srv[c] = "open" /\ reset[c] ~> srv[c] = "closed"

(* A client that closed its end is noticed.                                *)
DisconnectIsNoticed ==
  \A c \in Conns : srv[c] = "open" /\ cli[c] = "closed" ~> srv[c] = "closed"
=============================================================================
