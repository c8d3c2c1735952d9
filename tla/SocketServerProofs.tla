------------------------- MODULE SocketServerProofs -------------------------
(***************************************************************************)
(* Proofs about SocketServer, for any sets of connections, threads and     *)
(* samples and any bounds.                                                 *)
(***************************************************************************)
EXTENDS SocketServer, TLAPS

(* Store puts messageSocket into the list, so that typing needs to know    *)
(* that there is one whenever Listen is about to store it.                 *)
TypeInv == TypeOK /\ HeldSocket

LEMMA TypeInitially == Init => TypeInv
<1> SUFFICES ASSUME Init PROVE TypeOK /\ HeldSocket
  BY DEF TypeInv
<1>1. HeldSocket
  BY DEF Init, HeldSocket
<1>2. TypeOK
  <2>1. <<>> \in Seq(Values)
    OBVIOUS
  <2>2. sent \in [Conns -> Seq(Values)] /\ log \in Seq(Values)
    BY <2>1 DEF Init
  <2> QED
    BY <2>2, ServerAssumption DEF Init, TypeOK, ListenerStates
<1> QED
  BY <1>1, <1>2

LEMMA TypeStep == TypeInv /\ [Next]_vars => TypeInv'
<1> SUFFICES ASSUME TypeInv, [Next]_vars PROVE TypeInv'
  OBVIOUS
<1> USE ServerAssumption DEF TypeInv, TypeOK, HeldSocket, controlVars, listenVars, listVars,
          threadVars, socketVars, dataVars
<1>1. CASE StartFails
  BY <1>1 DEF StartFails
<1>2. CASE StartListens
  BY <1>2 DEF StartListens
<1>3. CASE StartSpawns
  BY <1>3 DEF StartSpawns, ListenerStates
<1>4. CASE StartReturns
  BY <1>4 DEF StartReturns
<1>5. CASE ShutdownBegins
  BY <1>5 DEF ShutdownBegins
<1>6. CASE ShutdownReturns
  BY <1>6 DEF ShutdownReturns, ListenerStates
<1>7. CASE ListenEnters
  BY <1>7 DEF ListenEnters, ListenerStates
<1>8. CASE ListenTests
  BY <1>8 DEF ListenTests, ListenerStates
<1>9. CASE SelectReady
  BY <1>9 DEF SelectReady, ListenerStates
<1>10. CASE SelectIdle
  BY <1>10 DEF SelectIdle, ListenerStates
<1>11. ASSUME NEW c \in Conns, Accept(c) PROVE TypeInv'
  BY <1>11 DEF Accept, ListenerStates
<1>12. CASE AcceptFails
  BY <1>12 DEF AcceptFails, ListenerStates
<1>13. CASE Store
  BY <1>13 DEF Store, ListenerStates
<1>14. CASE DetectDisconnectedClients
  BY <1>14 DEF DetectDisconnectedClients, CloseAll, ListenerStates
<1>15. CASE ListenExits
  BY <1>15 DEF ListenExits, CloseAll, ListenerStates
<1>16. ASSUME NEW t \in Threads, NEW v \in Values, SendBegins(t, v)
       PROVE  TypeInv'
  BY <1>16 DEF SendBegins
<1>17. ASSUME NEW t \in Threads, NEW c \in Conns, SendDelivers(t, c)
       PROVE  TypeInv'
  BY <1>17 DEF SendDelivers, Rest
<1>18. ASSUME NEW t \in Threads, NEW c \in Conns, SendFails(t, c)
       PROVE  TypeInv'
  BY <1>18 DEF SendFails, Rest, CloseAll
<1>19. ASSUME NEW t \in Threads, SendReturns(t) PROVE TypeInv'
  BY <1>19 DEF SendReturns
<1>20. ASSUME NEW t \in Threads, HasActiveClient(t) PROVE TypeInv'
  BY <1>20 DEF HasActiveClient, HasActiveClientBegins, HasActiveClientReturns
<1>21. ASSUME NEW c \in Conns, Client(c) PROVE TypeInv'
  <2>1. CASE Connect(c)
    BY <2>1 DEF Connect
  <2>2. CASE ClientReads(c)
    BY <2>2 DEF ClientReads
  <2>3. CASE ClientWrites(c)
    BY <2>3 DEF ClientWrites
  <2>4. CASE ClientCloses(c)
    BY <2>4 DEF ClientCloses
  <2> QED
    BY <1>21, <2>1, <2>2, <2>3, <2>4 DEF Client
<1>22. CASE UNCHANGED vars
  BY <1>22 DEF vars
<1> QED
  BY <1>1, <1>2, <1>3, <1>4, <1>5, <1>6, <1>7, <1>8, <1>9, <1>10, <1>11,
     <1>12, <1>13, <1>14, <1>15, <1>16, <1>17, <1>18, <1>19, <1>20, <1>21,
     <1>22
  DEF Next, Control, Listen, Send

(* The variables of SocketServer keep their types: in particular the list  *)
(* holds sockets only, whatever accept returned.                           *)
THEOREM TypeCorrect == Spec => []TypeOK
<1>1. TypeInv => TypeOK
  BY DEF TypeInv
<1>2. QED
  BY <1>1, TypeInitially, TypeStep, PTL DEF Spec

-----------------------------------------------------------------------------
(* The mutex and the descriptors.                                          *)

(* Connect puts a connection into the backlog; that it is not open already *)
(* needs both ends to be untouched together.                               *)
BothEndsFresh == \A c \in Conns : cli[c] = "none" <=> srv[c] = "none"

LockInv == LockDiscipline /\ SocketAccounting /\ BothEndsFresh

(* Nobody is inside the critical section while the mutex is free, and only *)
(* its owner while it is taken.                                            *)
LEMMA FreeMeansIdle ==
  ASSUME LockDiscipline, LockFree
  PROVE  \A t \in Threads : call[t] = "none" /\ todo[t] = {}
<1> SUFFICES ASSUME NEW t \in Threads PROVE call[t] = "none" /\ todo[t] = {}
  OBVIOUS
<1>1. activeConnections_mutex # t
  BY ServerAssumption DEF LockFree, ServerAssumption
<1>2. call[t] = "none"
  BY <1>1 DEF LockDiscipline
<1> QED
  BY <1>2 DEF LockDiscipline

LEMMA OneSender ==
  ASSUME LockDiscipline, NEW t \in Threads, call[t] # "none"
  PROVE  /\ activeConnections_mutex = t
         /\ \A u \in Threads : u # t => call[u] = "none" /\ todo[u] = {}
<1>1. activeConnections_mutex = t
  BY DEF LockDiscipline
<1>2. ASSUME NEW u \in Threads, u # t PROVE call[u] = "none" /\ todo[u] = {}
  <2>1. call[u] = "none"
    BY <1>1, <1>2 DEF LockDiscipline
  <2> QED
    BY <2>1 DEF LockDiscipline
<1> QED
  BY <1>1, <1>2

LEMMA LockInitially == Init => LockInv
  BY ServerAssumption
  DEF Init, LockInv, LockDiscipline, SocketAccounting, HeldSocket, BothEndsFresh

LEMMA LockStep == TypeInv /\ LockInv /\ [Next]_vars => LockInv'
<1> SUFFICES ASSUME TypeInv, LockInv, [Next]_vars PROVE LockInv'
  OBVIOUS
<1> USE ServerAssumption
    DEF TypeInv, TypeOK, LockInv, LockDiscipline, SocketAccounting, HeldSocket,
        BothEndsFresh, controlVars, listenVars, listVars, threadVars,
        socketVars, dataVars
<1>1. CASE Control
  BY <1>1 DEF Control, StartFails, StartListens, StartSpawns, StartReturns,
              ShutdownBegins, ShutdownReturns
<1>2. CASE ListenEnters \/ ListenTests \/ SelectReady \/ SelectIdle \/ AcceptFails
  BY <1>2 DEF ListenEnters, ListenTests, SelectReady, SelectIdle, AcceptFails
<1>3. ASSUME NEW c \in Conns, Accept(c) PROVE LockInv'
  BY <1>3 DEF Accept, Waiting
<1>4. CASE Store
  BY <1>4 DEF Store, LockFree
<1>5. CASE DetectDisconnectedClients
  <2>1. \A t \in Threads : call[t] = "none" /\ todo[t] = {}
    BY <1>5, FreeMeansIdle DEF DetectDisconnectedClients
  <2> QED
    BY <1>5, <2>1 DEF DetectDisconnectedClients, CloseAll
<1>6. CASE ListenExits
  <2>1. \A t \in Threads : call[t] = "none" /\ todo[t] = {}
    BY <1>6, FreeMeansIdle DEF ListenExits
  <2> QED
    BY <1>6, <2>1 DEF ListenExits, CloseAll, Waiting
<1>7. ASSUME NEW t \in Threads, NEW v \in Values, SendBegins(t, v)
      PROVE  LockInv'
  BY <1>7 DEF SendBegins, LockFree
<1>8. ASSUME NEW t \in Threads, NEW c \in Conns, SendDelivers(t, c)
      PROVE  LockInv'
  BY <1>8 DEF SendDelivers, Rest
<1>9. ASSUME NEW t \in Threads, NEW c \in Conns, SendFails(t, c)
      PROVE  LockInv'
  <2>1. \A u \in Threads : u # t => todo[u] = {}
    BY <1>9, OneSender DEF SendFails
  <2>2. c \in activeConnections /\ c # messageSocket
    BY <1>9 DEF SendFails
  <2> QED
    BY <1>9, <2>1, <2>2 DEF SendFails, Rest, CloseAll
<1>10. ASSUME NEW t \in Threads, SendReturns(t) PROVE LockInv'
  <2>1. \A u \in Threads : u # t => call[u] = "none"
    BY <1>10, OneSender DEF SendReturns
  <2> QED
    BY <1>10, <2>1 DEF SendReturns
<1>11. ASSUME NEW t \in Threads, HasActiveClient(t) PROVE LockInv'
  <2>1. CASE HasActiveClientBegins(t)
    <3>1. \A u \in Threads : call[u] = "none" /\ todo[u] = {}
      BY <2>1, FreeMeansIdle DEF HasActiveClientBegins
    <3> QED
      BY <2>1, <3>1 DEF HasActiveClientBegins
  <2>2. CASE HasActiveClientReturns(t)
    <3>1. \A u \in Threads : u # t => call[u] = "none"
      BY <2>2, OneSender DEF HasActiveClientReturns
    <3> QED
      BY <2>2, <3>1 DEF HasActiveClientReturns
  <2> QED
    BY <1>11, <2>1, <2>2 DEF HasActiveClient
<1>12. ASSUME NEW c \in Conns, Client(c) PROVE LockInv'
  <2>1. CASE Connect(c)
    BY <2>1 DEF Connect
  <2>2. CASE ClientReads(c)
    BY <2>2 DEF ClientReads
  <2>3. CASE ClientWrites(c)
    BY <2>3 DEF ClientWrites
  <2>4. CASE ClientCloses(c)
    BY <2>4 DEF ClientCloses
  <2> QED
    BY <1>12, <2>1, <2>2, <2>3, <2>4 DEF Client
<1>13. CASE UNCHANGED vars
  BY <1>13 DEF vars
<1> QED
  BY <1>1, <1>2, <1>3, <1>4, <1>5, <1>6, <1>7, <1>8, <1>9, <1>10, <1>11,
     <1>12, <1>13
  DEF Next, Listen, Send

(* Sends, questions and the listener exclude each other, and a connection  *)
(* Send has still to visit is never closed by another thread.              *)
THEOREM LockCorrect == Spec => []LockDiscipline
<1>1. LockInv => LockDiscipline
  BY DEF LockInv
<1>2. QED
  BY <1>1, TypeInitially, TypeStep, LockInitially, LockStep, PTL DEF Spec

(* Every descriptor the server has open is in the list, or is the one that *)
(* Listen is about to store: nothing leaks and nothing is closed twice.    *)
THEOREM AccountingCorrect == Spec => []SocketAccounting
<1>1. LockInv => SocketAccounting
  BY DEF LockInv
<1>2. QED
  BY <1>1, TypeInitially, TypeStep, LockInitially, LockStep, PTL DEF Spec

-----------------------------------------------------------------------------
(* Start and Shutdown.                                                     *)

(* Once Listen has left, and before Start listens again, the socket of a   *)
(* successful Start is closed, and with it all that was connected to it.   *)
QuietInv ==
  /\ ctl = "spawned" => listener # "none"
  /\ ctl # "bound" /\ listener \in {"none", "done"} =>
       /\ listenSocket # "listening"
       /\ started \/ ctl = "spawned" => listenSocket = "closed"
       /\ activeConnections = {}
       /\ Waiting = {}

LEMMA QuietStep == TypeInv /\ LockInv /\ QuietInv /\ [Next]_vars => QuietInv'
<1> SUFFICES ASSUME TypeInv, LockInv, QuietInv, [Next]_vars PROVE QuietInv'
  OBVIOUS
<1> USE DEF QuietInv, Waiting, controlVars, listenVars, listVars,
            threadVars, socketVars, dataVars
<1>1. CASE Control
  BY <1>1 DEF Control, StartFails, StartListens, StartSpawns, StartReturns,
              ShutdownBegins, ShutdownReturns
<1>2. CASE Listen /\ ~ListenExits
  BY <1>2 DEF Listen, ListenEnters, ListenTests, SelectReady, SelectIdle,
              Accept, AcceptFails, Store, DetectDisconnectedClients
<1>3. CASE ListenExits
  BY <1>3 DEF ListenExits, CloseAll
<1>4. ASSUME NEW t \in Threads, Send(t) PROVE QuietInv'
  BY <1>4 DEF Send, SendBegins, SendDelivers, SendFails, SendReturns, CloseAll
<1>5. ASSUME NEW t \in Threads, HasActiveClient(t) PROVE QuietInv'
  BY <1>5 DEF HasActiveClient, HasActiveClientBegins, HasActiveClientReturns
<1>6. ASSUME NEW c \in Conns, Client(c) PROVE QuietInv'
  BY <1>6 DEF Client, Connect, ClientReads, ClientWrites, ClientCloses
<1>7. CASE UNCHANGED vars
  BY <1>7 DEF vars
<1> QED
  BY <1>1, <1>2, <1>3, <1>4, <1>5, <1>6, <1>7 DEF Next

(* After Shutdown has returned every connection is closed, those that were *)
(* waiting for accept are gone, and so is the socket of a successful Start, *)
(* whenever Shutdown was called.                                           *)
THEOREM ShutdownCorrect == Spec => []ShutdownIsComplete
<1>1. Init => QuietInv
  BY DEF Init, QuietInv, Waiting
<1>2. TypeInv /\ LockInv /\ QuietInv => ShutdownIsComplete
  <2> SUFFICES ASSUME TypeInv, LockInv, QuietInv,
                      ctl = "idle", listener = "none"
               PROVE  /\ started => listenSocket = "closed"
                      /\ \A c \in Conns : srv[c] \in {"none", "closed"}
    BY DEF ShutdownIsComplete
  <2>1. /\ activeConnections = {} /\ Waiting = {}
        /\ started => listenSocket = "closed"
    BY DEF QuietInv
  <2>2. messageSocket = NoSocket
    BY DEF TypeInv, HeldSocket
  <2> QED
    BY <2>1, <2>2, ServerAssumption
    DEF Waiting, TypeInv, TypeOK, LockInv, SocketAccounting
<1>3. QED
  BY <1>1, <1>2, TypeInitially, TypeStep, LockInitially, LockStep, QuietStep,
     PTL DEF Spec

(* Where a Start that failed leaves its descriptor, no listener is about:  *)
(* a running listener has a listening socket, and Start returns at once.   *)
RunningListens ==
  /\ ctl = "bound" => listener \in {"none", "done"} /\ listenSocket = "listening"
  /\ listener \notin {"none", "done"} => listenSocket = "listening"
  /\ ctl = "idle" /\ listener \notin {"none", "done"} => isRunning

LEMMA RunningStep ==
  ASSUME RunningListens, [Next]_vars
  PROVE  /\ RunningListens'
         /\ listenSocket = "unbound" =>
              listenSocket' = "unbound" \/ StartListens \/ StartFails
<1> USE DEF RunningListens, controlVars, listenVars
<1>1. CASE Control
  BY <1>1 DEF Control, StartFails, StartListens, StartSpawns, StartReturns,
              ShutdownBegins, ShutdownReturns
<1>2. CASE Listen
  BY <1>2 DEF Listen, ListenEnters, ListenTests, SelectReady, SelectIdle,
              Accept, AcceptFails, Store, DetectDisconnectedClients,
              ListenExits
<1>3. CASE UNCHANGED <<controlVars, listenVars>>
  BY <1>3
<1>4. ASSUME NEW t \in Threads, Send(t) \/ HasActiveClient(t)
      PROVE  UNCHANGED <<controlVars, listenVars>>
  BY <1>4 DEF Send, SendBegins, SendDelivers, SendFails, SendReturns,
              HasActiveClient, HasActiveClientBegins, HasActiveClientReturns
<1>5. ASSUME NEW c \in Conns, Client(c)
      PROVE  UNCHANGED <<controlVars, listenVars>>
  BY <1>5 DEF Client, Connect, ClientReads, ClientWrites, ClientCloses
<1> QED
  BY <1>1, <1>2, <1>3, <1>4, <1>5 DEF Next, vars

(* The descriptor that a failed Start has left open, of a socket that is   *)
(* not bound or does not listen, is closed by nobody, Shutdown included:   *)
(* the next Start that gets as far loses it by assigning to listenSocket.  *)
THEOREM UnboundStaysOpen ==
  Spec => [][listenSocket = "unbound" =>
               listenSocket' = "unbound" \/ StartListens \/ StartFails]_vars
<1>1. Init => RunningListens
  BY DEF Init, RunningListens
<1>2. RunningListens /\ [Next]_vars =>
        /\ RunningListens'
        /\ [listenSocket = "unbound" =>
              listenSocket' = "unbound" \/ StartListens \/ StartFails]_vars
  BY RunningStep
<1>3. QED
  BY <1>1, <1>2, PTL DEF Spec

(* Where the controlling thread and the listener may stand while nobody    *)
(* has called Shutdown.                                                    *)
StartInv ==
  /\ up => ~stopServer /\ ctl = "idle" /\ isRunning
  /\ ctl \in {"bound", "spawned"} => ~stopServer
  /\ ctl = "joining" \/ listener \in {"exit", "done"} => stopServer
  /\ ctl = "bound" => listener = "none" /\ listenSocket = "listening"
  /\ ctl = "spawned" => listener # "none"
  /\ ~stopServer /\ ctl = "idle" => (isRunning <=> listener # "none")
  /\ ~stopServer /\ listener # "none" => listenSocket = "listening"

LEMMA StartInitially == Init => StartInv
  BY DEF Init, StartInv

LEMMA StartStep ==
  ASSUME ~AllowRestart, TypeInv, StartInv, [Next]_vars
  PROVE  StartInv'
<1> USE DEF StartInv, controlVars, listenVars
<1>1. CASE Control
  BY <1>1, ServerAssumption
  DEF Control, StartFails, StartListens, StartSpawns, StartReturns,
      ShutdownBegins, ShutdownReturns, TypeInv, TypeOK
<1>2. CASE Listen
  BY <1>2 DEF Listen, ListenEnters, ListenTests, SelectReady, SelectIdle,
              Accept, AcceptFails, Store, DetectDisconnectedClients,
              ListenExits, TypeInv, TypeOK
<1>3. CASE UNCHANGED <<controlVars, listenVars>>
  BY <1>3
<1>4. ASSUME NEW t \in Threads, Send(t) \/ HasActiveClient(t)
      PROVE  UNCHANGED <<controlVars, listenVars>>
  BY <1>4 DEF Send, SendBegins, SendDelivers, SendFails, SendReturns,
              HasActiveClient, HasActiveClientBegins, HasActiveClientReturns
<1>5. ASSUME NEW c \in Conns, Client(c)
      PROVE  UNCHANGED <<controlVars, listenVars>>
  BY <1>5 DEF Client, Connect, ClientReads, ClientWrites, ClientCloses
<1> QED
  BY <1>1, <1>2, <1>3, <1>4, <1>5 DEF Next, vars

(* As long as the server is never started a second time after Shutdown, a  *)
(* successful Start means that the listener runs on a listening socket.    *)
THEOREM StartCorrect == ~AllowRestart => (Spec => []StartedMeansListening)
<1> SUFFICES ASSUME ~AllowRestart PROVE Spec => []StartedMeansListening
  OBVIOUS
<1>1. TypeInv /\ StartInv /\ [Next]_vars => StartInv'
  BY StartStep
<1>2. StartInv => StartedMeansListening
  BY DEF StartInv, StartedMeansListening
<1>3. QED
  BY <1>1, <1>2, TypeInitially, TypeStep, StartInitially, PTL DEF Spec

(* Without a restart Start never assigns to a thread that was not joined.  *)
THEOREM NoThreadOverwrittenCorrect ==
  ~AllowRestart => (Spec => []NoThreadOverwritten)
<1> SUFFICES ASSUME ~AllowRestart PROVE Spec => []NoThreadOverwritten
  OBVIOUS
<1>1. TypeInv /\ StartInv /\ [Next]_vars => StartInv'
  BY StartStep
<1>2. StartInv => NoThreadOverwritten
  BY DEF StartInv, NoThreadOverwritten
<1>3. QED
  BY <1>1, <1>2, TypeInitially, TypeStep, StartInitially, PTL DEF Spec

-----------------------------------------------------------------------------
(* The streams the clients receive.                                        *)

(* StreamsAgree is kept by a delivery because what Send delivers is the    *)
(* end of the log, and by Store because a connection is empty until then.  *)
SendsTheLast ==
  \A t \in Threads :
    call[t] = "send" => Len(log) > 0 /\ log[Len(log)] = value[t]

EmptyUntilStored ==
  \A c \in Conns :
    srv[c] \in {"none", "queued"} \/ c = messageSocket => sent[c] = <<>>

StreamInv == StreamsAgree /\ SendsTheLast /\ EmptyUntilStored

LEMMA StreamInitially == Init => StreamInv
<1> SUFFICES ASSUME Init PROVE StreamInv
  OBVIOUS
<1>1. \A c \in Conns : sent[c] = <<>> /\ base[c] = 0
  BY DEF Init
<1>2. activeConnections = {} /\ log = <<>>
        /\ \A t \in Threads : call[t] = "none"
  BY DEF Init
<1> QED
  BY <1>1, <1>2
  DEF StreamInv, StreamsAgree, SendsTheLast, EmptyUntilStored

LEMMA StreamStep ==
  ASSUME TypeInv, LockInv, StreamInv, [Next]_vars
  PROVE  StreamInv'
<1> USE DEF StreamInv, controlVars, listenVars, listVars, threadVars,
            socketVars, dataVars
<1>1. CASE UNCHANGED <<activeConnections, call, todo, value, srv,
                       messageSocket, log, base, sent>>
  BY <1>1 DEF StreamsAgree, SendsTheLast, EmptyUntilStored, UnderWay
<1>2. CASE Control
  BY <1>1, <1>2
  DEF Control, StartFails, StartListens, StartSpawns, StartReturns,
      ShutdownBegins, ShutdownReturns
<1>3. CASE ListenEnters \/ ListenTests \/ SelectReady \/ SelectIdle \/ AcceptFails
  BY <1>1, <1>3
  DEF ListenEnters, ListenTests, SelectReady, SelectIdle, AcceptFails
<1>4. ASSUME NEW c \in Conns, Accept(c) PROVE StreamInv'
  <2>1. StreamsAgree' /\ SendsTheLast'
    BY <1>4 DEF Accept, StreamsAgree, SendsTheLast, UnderWay
  <2>2. EmptyUntilStored'
    BY <1>4, ServerAssumption
    DEF Accept, Waiting, EmptyUntilStored, TypeInv, TypeOK
  <2> QED
    BY <2>1, <2>2
<1>5. CASE Store
  <2>1. /\ messageSocket \in Conns
        /\ sent[messageSocket] = <<>>
    BY <1>5 DEF Store, EmptyUntilStored, TypeInv, TypeOK, HeldSocket
  <2>2. ~UnderWay(messageSocket)
    BY <1>5, FreeMeansIdle DEF Store, LockInv, UnderWay
  <2>3. StreamsAgree'
    <3> SUFFICES ASSUME NEW c \in Conns
                 PROVE  /\ base'[c] + Len(sent[c]) <= Len(log)
                        /\ \A i \in 1 .. Len(sent[c]) :
                             sent[c][i] = log[base'[c] + i]
                        /\ c \in activeConnections' =>
                             base'[c] + Len(sent[c]) =
                               IF UnderWay(c) THEN Len(log) - 1 ELSE Len(log)
      BY <1>5 DEF Store, StreamsAgree, UnderWay
    <3>1. CASE c = messageSocket
      <4>1. base'[c] = Len(log) /\ Len(sent[c]) = 0 /\ Len(log) \in Nat
        BY <1>5, <2>1, <3>1 DEF Store, TypeInv, TypeOK
      <4> QED
        BY <4>1, <2>2, <3>1
    <3>2. CASE c # messageSocket
      <4>1. base'[c] = base[c] /\ (c \in activeConnections' <=> c \in activeConnections)
        BY <1>5, <3>2 DEF Store, TypeInv, TypeOK
      <4> QED
        BY <4>1 DEF StreamsAgree
    <3> QED
      BY <3>1, <3>2
  <2>4. SendsTheLast' /\ EmptyUntilStored'
    BY <1>5, ServerAssumption
    DEF Store, SendsTheLast, EmptyUntilStored, TypeInv, TypeOK
  <2> QED
    BY <2>3, <2>4
<1>6. CASE DetectDisconnectedClients \/ ListenExits
  <2>1. /\ activeConnections' \subseteq activeConnections
        /\ \A c \in Conns : srv'[c] \in {"none", "queued"} => srv[c] = srv'[c]
        /\ UNCHANGED <<messageSocket, threadVars, dataVars>>
    BY <1>6 DEF DetectDisconnectedClients, ListenExits, CloseAll
  <2> QED
    BY <2>1 DEF StreamsAgree, SendsTheLast, EmptyUntilStored, UnderWay
<1>7. ASSUME NEW t \in Threads, NEW v \in Values, SendBegins(t, v)
      PROVE  StreamInv'
  <2>1. \A u \in Threads : call[u] = "none" /\ todo[u] = {}
    BY <1>7, FreeMeansIdle DEF SendBegins, LockInv
  <2>2. /\ Len(log') = Len(log) + 1 /\ Len(log) \in Nat
        /\ log'[Len(log')] = v
        /\ \A i \in 1 .. Len(log) : log'[i] = log[i]
    BY <1>7 DEF SendBegins, TypeInv, TypeOK
  <2>3. StreamsAgree'
    <3> SUFFICES ASSUME NEW c \in Conns
                 PROVE  /\ base[c] + Len(sent[c]) <= Len(log')
                        /\ \A i \in 1 .. Len(sent[c]) :
                             sent[c][i] = log'[base[c] + i]
                        /\ c \in activeConnections =>
                             base[c] + Len(sent[c]) =
                               IF UnderWay(c)' THEN Len(log') - 1 ELSE Len(log')
      BY <1>7 DEF SendBegins, StreamsAgree, UnderWay
    <3>1. base[c] \in Nat /\ Len(sent[c]) \in Nat
      BY DEF TypeInv, TypeOK
    <3>2. /\ base[c] + Len(sent[c]) <= Len(log)
          /\ \A i \in 1 .. Len(sent[c]) : sent[c][i] = log[base[c] + i]
      BY DEF StreamsAgree
    <3>3. c \in activeConnections => base[c] + Len(sent[c]) = Len(log)
      BY <2>1 DEF StreamsAgree, UnderWay
    <3>4. c \in activeConnections => UnderWay(c)'
      BY <1>7 DEF SendBegins, UnderWay, TypeInv, TypeOK
    <3>5. ASSUME NEW i \in 1 .. Len(sent[c])
          PROVE  sent[c][i] = log'[base[c] + i]
      <4>1. base[c] + i \in 1 .. Len(log)
        BY <2>2, <3>1, <3>2
      <4> QED
        BY <2>2, <3>2, <4>1
    <3> QED
      BY <2>2, <3>1, <3>2, <3>3, <3>4, <3>5
  <2>4. SendsTheLast'
    BY <1>7, <2>1, <2>2 DEF SendBegins, SendsTheLast, TypeInv, TypeOK
  <2>5. EmptyUntilStored'
    BY <1>7 DEF SendBegins, EmptyUntilStored
  <2> QED
    BY <2>3, <2>4, <2>5
<1>8. ASSUME NEW t \in Threads, NEW c \in Conns, SendDelivers(t, c)
      PROVE  StreamInv'
  <2>1. /\ activeConnections_mutex = t
        /\ \A u \in Threads : u # t => todo[u] = {}
    BY <1>8, OneSender DEF SendDelivers, LockInv
  <2>2. c \in activeConnections /\ UnderWay(c)
    BY <1>8 DEF SendDelivers, LockInv, LockDiscipline, UnderWay
  <2>3. ~UnderWay(c)'
    BY <1>8, <2>1 DEF SendDelivers, Rest, UnderWay, TypeInv, TypeOK
  <2>4. \A d \in Conns : d # c => (UnderWay(d)' <=> UnderWay(d))
    BY <1>8, <2>1 DEF SendDelivers, Rest, UnderWay, TypeInv, TypeOK
  <2>5. /\ Len(sent'[c]) = Len(sent[c]) + 1 /\ Len(sent[c]) \in Nat
        /\ sent'[c][Len(sent[c]) + 1] = value[t]
        /\ \A i \in 1 .. Len(sent[c]) : sent'[c][i] = sent[c][i]
    BY <1>8 DEF SendDelivers, TypeInv, TypeOK
  <2>6. StreamsAgree'
    <3> SUFFICES ASSUME NEW d \in Conns
                 PROVE  /\ base[d] + Len(sent'[d]) <= Len(log)
                        /\ \A i \in 1 .. Len(sent'[d]) :
                             sent'[d][i] = log[base[d] + i]
                        /\ d \in activeConnections =>
                             base[d] + Len(sent'[d]) =
                               IF UnderWay(d)' THEN Len(log) - 1 ELSE Len(log)
      BY <1>8 DEF SendDelivers, StreamsAgree
    <3>1. CASE d # c
      <4>1. sent'[d] = sent[d]
        BY <1>8, <3>1 DEF SendDelivers
      <4> QED
        BY <4>1, <2>4, <3>1 DEF StreamsAgree
    <3>2. CASE d = c
      <4>1. base[c] \in Nat /\ Len(log) \in Nat
        BY DEF TypeInv, TypeOK
      <4>2. base[c] + Len(sent[c]) = Len(log) - 1
        BY <2>2 DEF StreamsAgree
      <4>3. log[Len(log)] = value[t]
        BY <1>8 DEF SendDelivers, SendsTheLast
      <4>4. base[c] + Len(sent'[c]) = Len(log)
        BY <2>5, <4>1, <4>2
      <4>5. ASSUME NEW i \in 1 .. Len(sent'[c])
            PROVE  sent'[c][i] = log[base[c] + i]
        <5>1. CASE i = Len(sent[c]) + 1
          BY <2>5, <4>1, <4>2, <4>3, <5>1
        <5>2. CASE i # Len(sent[c]) + 1
          <6>1. i \in 1 .. Len(sent[c])
            BY <2>5, <5>2
          <6> QED
            BY <2>5, <6>1 DEF StreamsAgree
        <5> QED
          BY <5>1, <5>2
      <4> QED
        BY <3>2, <2>3, <4>1, <4>4, <4>5
    <3> QED
      BY <3>1, <3>2
  <2>7. SendsTheLast'
    BY <1>8 DEF SendDelivers, SendsTheLast
  <2>8. EmptyUntilStored'
    BY <1>8, <2>2, ServerAssumption
    DEF SendDelivers, EmptyUntilStored, LockInv, SocketAccounting
  <2> QED
    BY <2>6, <2>7, <2>8
<1>9. ASSUME NEW t \in Threads, NEW c \in Conns, SendFails(t, c)
      PROVE  StreamInv'
  <2>1. \A d \in Conns : d # c => (UnderWay(d)' <=> UnderWay(d))
    BY <1>9 DEF SendFails, Rest, UnderWay, TypeInv, TypeOK
  <2>2. /\ activeConnections' = activeConnections \ {c}
        /\ UNCHANGED <<log, base, sent>>
    BY <1>9 DEF SendFails
  <2>3. StreamsAgree'
    BY <2>1, <2>2 DEF StreamsAgree
  <2>4. SendsTheLast' /\ EmptyUntilStored'
    BY <1>9 DEF SendFails, CloseAll, SendsTheLast, EmptyUntilStored
  <2> QED
    BY <2>3, <2>4
<1>10. ASSUME NEW t \in Threads, SendReturns(t) PROVE StreamInv'
  BY <1>10
  DEF SendReturns, StreamsAgree, SendsTheLast, EmptyUntilStored, UnderWay,
      TypeInv, TypeOK
<1>11. ASSUME NEW t \in Threads, HasActiveClient(t) PROVE StreamInv'
  BY <1>11
  DEF HasActiveClient, HasActiveClientBegins, HasActiveClientReturns,
      StreamsAgree, SendsTheLast, EmptyUntilStored, UnderWay, TypeInv, TypeOK
<1>12. ASSUME NEW c \in Conns, Client(c) PROVE StreamInv'
  <2>1. /\ \A d \in Conns : srv'[d] \in {"none", "queued"}
                              => srv[d] \in {"none", "queued"}
        /\ UNCHANGED <<activeConnections, call, todo, value, messageSocket,
                       log, base, sent>>
    BY <1>12
    DEF Client, Connect, ClientReads, ClientWrites, ClientCloses, LockInv,
        BothEndsFresh, TypeInv, TypeOK
  <2> QED
    BY <2>1 DEF StreamsAgree, SendsTheLast, EmptyUntilStored, UnderWay
<1>13. CASE UNCHANGED vars
  BY <1>1, <1>13 DEF vars
<1> QED
  BY <1>2, <1>3, <1>4, <1>5, <1>6, <1>7, <1>8, <1>9, <1>10, <1>11, <1>12,
     <1>13
  DEF Next, Listen, Send

LEMMA SafetyStep ==
  TypeInv /\ LockInv /\ StreamInv /\ [Next]_vars => StreamInv'
  BY StreamStep

(* Every client receives a gapless segment of the one sequence of          *)
(* broadcasts, and lags behind it by at most the broadcast under way.      *)
THEOREM StreamsCorrect == Spec => []StreamsAgree
<1>1. StreamInv => StreamsAgree
  BY DEF StreamInv
<1>2. QED
  BY <1>1, TypeInitially, TypeStep, LockInitially, LockStep, StreamInitially,
     SafetyStep, PTL DEF Spec

-----------------------------------------------------------------------------
(* The refinement of StylusFeed.                                           *)

(* The streams depend only on the iteration, its sample and what was sent. *)
LEMMA FeedStutters ==
  ASSUME activeConnections' = activeConnections,
         \A c \in activeConnections : Stream(c)' = Stream(c)
  PROVE  StreamsNow' = StreamsNow
  BY DEF StreamsNow

LEMMA FeedLeaves ==
  ASSUME NEW S \in SUBSET Conns,
         activeConnections' = activeConnections \ S,
         \A c \in activeConnections' : Stream(c)' = Stream(c)
  PROVE  Feed!Next
<1>1. StreamsNow' = [c \in DOMAIN StreamsNow \ S |-> StreamsNow[c]]
  BY DEF StreamsNow
<1> QED
  BY <1>1 DEF Feed!Next, Feed!Leave

LEMMA FeedStep ==
  ASSUME TypeInv, LockInv, StreamInv, [Next]_vars
  PROVE  [Feed!Next]_StreamsNow
<1> USE DEF controlVars, listenVars, listVars, threadVars, socketVars, dataVars
<1>1. CASE UNCHANGED <<listVars, todo, value, sent>>
  BY <1>1, FeedStutters DEF Stream, UnderWay
<1>2. CASE Control
  BY <1>1, <1>2
  DEF Control, StartFails, StartListens, StartSpawns, StartReturns,
      ShutdownBegins, ShutdownReturns
<1>3. CASE Listen /\ ~Store /\ ~DetectDisconnectedClients /\ ~ListenExits
  BY <1>1, <1>3
  DEF Listen, ListenEnters, ListenTests, SelectReady, SelectIdle, Accept,
      AcceptFails
<1>4. CASE Store
  <2>1. /\ messageSocket \in Conns
        /\ messageSocket \notin activeConnections
        /\ sent[messageSocket] = <<>>
    BY <1>4
    DEF Store, TypeInv, TypeOK, HeldSocket, LockInv, SocketAccounting,
        StreamInv, EmptyUntilStored
  <2>2. \A c \in Conns : Stream(c) = sent[c] /\ Stream(c)' = sent[c]
    BY <1>4, FreeMeansIdle DEF Store, LockInv, Stream, UnderWay
  <2>3. activeConnections \subseteq Conns
    BY DEF TypeInv, TypeOK
  <2>4. StreamsNow' = [r \in DOMAIN StreamsNow \cup {messageSocket} |->
                         IF r = messageSocket THEN <<>> ELSE StreamsNow[r]]
    BY <1>4, <2>1, <2>2, <2>3 DEF Store, StreamsNow
  <2> QED
    BY <2>1, <2>4 DEF Feed!Next, Feed!Subscribe, StreamsNow
<1>5. CASE DetectDisconnectedClients
  <2>1. \A c \in Conns : Stream(c)' = Stream(c)
    BY <1>5 DEF DetectDisconnectedClients, Stream, UnderWay
  <2>2. PICK S \in SUBSET Conns : activeConnections' = activeConnections \ S
    BY <1>5 DEF DetectDisconnectedClients, TypeInv, TypeOK
  <2>3. \A c \in activeConnections' : Stream(c)' = Stream(c)
    BY <2>1, <2>2 DEF TypeInv, TypeOK
  <2>4. Feed!Next
    BY <2>2, <2>3, FeedLeaves
  <2> QED
    BY <2>4
<1>6. CASE ListenExits
  <2>1. \A c \in Conns : Stream(c)' = Stream(c)
    BY <1>6 DEF ListenExits, Stream, UnderWay
  <2>2. activeConnections' = activeConnections \ Conns
    BY <1>6 DEF ListenExits, TypeInv, TypeOK
  <2>3. activeConnections' = {}
    BY <2>2 DEF TypeInv, TypeOK
  <2>4. Conns \in SUBSET Conns
    OBVIOUS
  <2>5. Feed!Next
    BY <2>2, <2>3, <2>4, FeedLeaves
  <2> QED
    BY <2>5
<1>7. ASSUME NEW t \in Threads, NEW v \in Values, SendBegins(t, v)
      PROVE  Feed!Next
  <2>1. \A c \in activeConnections : Stream(c) = sent[c]
    BY <1>7, FreeMeansIdle DEF SendBegins, LockInv, Stream, UnderWay
  <2>2. activeConnections' = activeConnections
    BY <1>7 DEF SendBegins
  <2>3. \A c \in activeConnections : Stream(c)' = Append(sent[c], v)
    BY <1>7 DEF SendBegins, Stream, UnderWay, TypeInv, TypeOK
  <2>4. StreamsNow' = [r \in DOMAIN StreamsNow |-> Append(StreamsNow[r], v)]
    BY <2>1, <2>2, <2>3 DEF StreamsNow
  <2> QED
    BY <2>4 DEF Feed!Next, Feed!Publish
<1>8. ASSUME NEW t \in Threads, NEW c \in Conns, SendDelivers(t, c)
      PROVE  StreamsNow' = StreamsNow
  <2>1. /\ activeConnections_mutex = t
        /\ \A u \in Threads : u # t => todo[u] = {}
    BY <1>8, OneSender DEF SendDelivers, LockInv
  <2>2. \A d \in Conns : UnderWay(d)' <=> UnderWay(d) /\ d # c
    BY <1>8, <2>1 DEF SendDelivers, Rest, UnderWay, TypeInv, TypeOK
  <2>3. UnderWay(c)
    BY <1>8 DEF SendDelivers, UnderWay
  <2>4. sent'[c] = Append(sent[c], value[t])
          /\ \A d \in Conns : d # c => sent'[d] = sent[d]
    BY <1>8 DEF SendDelivers, TypeInv, TypeOK
  <2>5. UNCHANGED <<activeConnections, activeConnections_mutex, value>>
    BY <1>8 DEF SendDelivers
  <2>6. \A d \in Conns : Stream(d)' = Stream(d)
    BY <2>1, <2>2, <2>3, <2>4, <2>5 DEF Stream
  <2> QED
    BY <2>5, <2>6, FeedStutters DEF TypeInv, TypeOK
<1>9. ASSUME NEW t \in Threads, NEW c \in Conns, SendFails(t, c)
      PROVE  Feed!Next
  <2>1. \A d \in Conns : d # c => (UnderWay(d)' <=> UnderWay(d))
    BY <1>9 DEF SendFails, Rest, UnderWay, TypeInv, TypeOK
  <2>2. /\ activeConnections' = activeConnections \ {c}
        /\ UNCHANGED <<activeConnections_mutex, value, sent>>
    BY <1>9 DEF SendFails
  <2>3. \A d \in activeConnections' : Stream(d)' = Stream(d)
    BY <2>1, <2>2 DEF Stream, TypeInv, TypeOK
  <2>4. {c} \in SUBSET Conns
    OBVIOUS
  <2> QED
    BY <2>2, <2>3, <2>4, FeedLeaves
<1>10. ASSUME NEW t \in Threads, SendReturns(t)
       PROVE  StreamsNow' = StreamsNow
  <2>1. \A c \in Conns : ~UnderWay(c) /\ ~UnderWay(c)'
    BY <1>10, OneSender DEF SendReturns, LockInv, UnderWay
  <2>2. UNCHANGED <<activeConnections, sent>>
    BY <1>10 DEF SendReturns
  <2> QED
    BY <2>1, <2>2, FeedStutters DEF Stream, TypeInv, TypeOK
<1>11. ASSUME NEW t \in Threads, HasActiveClient(t)
       PROVE  StreamsNow' = StreamsNow
  <2>1. \A c \in Conns : ~UnderWay(c) /\ ~UnderWay(c)'
    <3>1. CASE HasActiveClientBegins(t)
      BY <3>1, FreeMeansIdle DEF HasActiveClientBegins, LockInv, UnderWay
    <3>2. CASE HasActiveClientReturns(t)
      <4>1. todo[t] = {}
        BY <3>2 DEF HasActiveClientReturns, LockInv, LockDiscipline
      <4> QED
        BY <3>2, <4>1, OneSender
        DEF HasActiveClientReturns, LockInv, UnderWay
    <3> QED
      BY <1>11, <3>1, <3>2 DEF HasActiveClient
  <2>2. UNCHANGED <<activeConnections, sent>>
    BY <1>11
    DEF HasActiveClient, HasActiveClientBegins, HasActiveClientReturns
  <2> QED
    BY <2>1, <2>2, FeedStutters DEF Stream, TypeInv, TypeOK
<1>12. ASSUME NEW c \in Conns, Client(c)
       PROVE  UNCHANGED <<listVars, todo, value, sent>>
  BY <1>12 DEF Client, Connect, ClientReads, ClientWrites, ClientCloses
<1>13. CASE UNCHANGED vars
  BY <1>1, <1>13 DEF vars
<1> QED
  BY <1>1, <1>2, <1>3, <1>4, <1>5, <1>6, <1>7, <1>8, <1>9, <1>10, <1>11,
     <1>12, <1>13
  DEF Next, Listen, Send

(* The threads, the mutex and the partial iterations of Send are invisible *)
(* to the clients: the server implements the atomic broadcast StylusFeed.  *)
THEOREM ServerImplementsFeed == Spec => ImplementsFeed
<1>1. Init => Feed!Init
  BY DEF Init, Feed!Init, StreamsNow
<1>2. TypeInv /\ LockInv /\ StreamInv /\ [Next]_vars => [Feed!Next]_StreamsNow
  BY FeedStep
<1>3. QED
  BY <1>1, <1>2, TypeInitially, TypeStep, LockInitially, LockStep,
     StreamInitially, SafetyStep, PTL
  DEF Spec, ImplementsFeed, Feed!Spec

-----------------------------------------------------------------------------
(* What StylusFeed promises two clients.                                   *)

(* The shorter of two streams is the end of the longer one.                *)
Agree(f) ==
  /\ \A r \in DOMAIN f : f[r] \in Seq(Values)
  /\ \A r, s \in DOMAIN f : Len(f[r]) <= Len(f[s]) =>
       \A k \in 1 .. Len(f[r]) : f[r][k] = f[s][Len(f[s]) - Len(f[r]) + k]

LEMMA SubscribeAgrees ==
  ASSUME NEW f, NEW g, NEW c, Agree(f),
         g = [r \in DOMAIN f \cup {c} |-> IF r = c THEN <<>> ELSE f[r]]
  PROVE  Agree(g)
<1>1. <<>> \in Seq(Values) /\ Len(<<>>) = 0
  OBVIOUS
<1>2. ASSUME NEW r \in DOMAIN g, r # c PROVE r \in DOMAIN f /\ g[r] = f[r]
  BY <1>2
<1>3. c \in DOMAIN g /\ g[c] = <<>>
  OBVIOUS
<1>4. \A r \in DOMAIN g : g[r] \in Seq(Values)
  BY <1>1, <1>2, <1>3 DEF Agree
<1>5. ASSUME NEW r \in DOMAIN g, NEW s \in DOMAIN g, Len(g[r]) <= Len(g[s]),
             NEW k \in 1 .. Len(g[r])
      PROVE  g[r][k] = g[s][Len(g[s]) - Len(g[r]) + k]
  <2>1. r # c
    BY <1>1, <1>3, <1>5
  <2>2. s # c
    <3>1. Len(g[r]) \in Nat
      BY <1>4
    <3> QED
      BY <1>1, <1>3, <1>5, <3>1
  <2> QED
    BY <1>2, <1>5, <2>1, <2>2 DEF Agree
<1> QED
  BY <1>4, <1>5 DEF Agree

LEMMA PublishAgrees ==
  ASSUME NEW f, NEW g, NEW v \in Values, Agree(f),
         g = [r \in DOMAIN f |-> Append(f[r], v)]
  PROVE  Agree(g)
<1>1. ASSUME NEW r \in DOMAIN g
      PROVE  /\ r \in DOMAIN f /\ f[r] \in Seq(Values)
             /\ g[r] \in Seq(Values) /\ Len(g[r]) = Len(f[r]) + 1
             /\ Len(f[r]) \in Nat
             /\ \A k \in 1 .. Len(f[r]) : g[r][k] = f[r][k]
             /\ g[r][Len(f[r]) + 1] = v
  <2>1. r \in DOMAIN f /\ g[r] = Append(f[r], v)
    OBVIOUS
  <2>2. f[r] \in Seq(Values)
    BY <2>1 DEF Agree
  <2> QED
    BY <2>1, <2>2
<1>2. ASSUME NEW r \in DOMAIN g, NEW s \in DOMAIN g, Len(g[r]) <= Len(g[s]),
             NEW k \in 1 .. Len(g[r])
      PROVE  g[r][k] = g[s][Len(g[s]) - Len(g[r]) + k]
  <2>1. PICK n \in Nat : n = Len(f[r])
    BY <1>1
  <2>2. PICK m \in Nat : m = Len(f[s])
    BY <1>1
  <2>3. Len(g[r]) = n + 1 /\ Len(g[s]) = m + 1 /\ n <= m
    BY <1>1, <1>2, <2>1, <2>2
  <2>4. CASE k = n + 1
    <3>1. (m + 1) - (n + 1) + k = m + 1
      BY <2>4
    <3>2. g[r][k] = v /\ g[s][m + 1] = v
      BY <1>1, <2>1, <2>2, <2>4
    <3> QED
      BY <2>3, <3>1, <3>2
  <2>5. CASE k # n + 1
    <3>1. /\ k \in 1 .. n /\ (m - n) + k \in 1 .. m
          /\ (m + 1) - (n + 1) + k = (m - n) + k
      BY <2>3, <2>5
    <3>2. g[r][k] = f[r][k] /\ g[s][(m - n) + k] = f[s][(m - n) + k]
      BY <1>1, <2>1, <2>2, <3>1
    <3>3. f[r][k] = f[s][(m - n) + k]
      BY <1>1, <2>1, <2>2, <2>3, <3>1 DEF Agree
    <3> QED
      BY <2>3, <3>1, <3>2, <3>3
  <2> QED
    BY <2>4, <2>5
<1> QED
  BY <1>1, <1>2 DEF Agree

LEMMA LeaveAgrees ==
  ASSUME NEW f, NEW g, NEW S, Agree(f), g = [r \in DOMAIN f \ S |-> f[r]]
  PROVE  Agree(g)
<1>1. \A r \in DOMAIN g : r \in DOMAIN f /\ g[r] = f[r]
  OBVIOUS
<1> QED
  BY <1>1 DEF Agree

LEMMA FeedAgreesStep ==
  Agree(StreamsNow) /\ [Feed!Next]_StreamsNow => Agree(StreamsNow)'
<1> SUFFICES ASSUME Agree(StreamsNow), [Feed!Next]_StreamsNow
             PROVE  Agree(StreamsNow')
  BY DEF Agree
<1>1. ASSUME NEW c \in Conns, Feed!Subscribe(c) PROVE Agree(StreamsNow')
  <2>1. StreamsNow' = [r \in DOMAIN StreamsNow \cup {c} |->
                         IF r = c THEN <<>> ELSE StreamsNow[r]]
    BY <1>1 DEF Feed!Subscribe
  <2> QED
    BY <2>1, SubscribeAgrees
<1>2. ASSUME NEW v \in Values, Feed!Publish(v) PROVE Agree(StreamsNow')
  BY <1>2, PublishAgrees DEF Feed!Publish
<1>3. ASSUME NEW S \in SUBSET Conns, Feed!Leave(S) PROVE Agree(StreamsNow')
  BY <1>3, LeaveAgrees DEF Feed!Leave
<1>4. CASE UNCHANGED StreamsNow
  BY <1>4
<1> QED
  BY <1>1, <1>2, <1>3, <1>4 DEF Feed!Next

(* Any two clients that are in the list have the same samples from the     *)
(* moment the later one came: the stream of the one is the end of the      *)
(* other's.                                                                *)
ClientsAgree ==
  \A c, d \in activeConnections : Len(Stream(c)) <= Len(Stream(d)) =>
    \A k \in 1 .. Len(Stream(c)) :
      Stream(c)[k] = Stream(d)[Len(Stream(d)) - Len(Stream(c)) + k]

(* StylusFeed keeps its promise, whoever subscribes and leaves.            *)
THEOREM FeedAgrees == ImplementsFeed => []Agree(StreamsNow)
<1>1. Feed!Init => Agree(StreamsNow)
  BY DEF Feed!Init, Agree
<1>2. QED
  BY <1>1, FeedAgreesStep, PTL DEF ImplementsFeed, Feed!Spec

(* Send, Store and the removals keep it, with any number of threads.       *)
THEOREM ClientsAgreeCorrect == Spec => []ClientsAgree
<1>1. Agree(StreamsNow) => ClientsAgree
  BY DEF Agree, StreamsNow, ClientsAgree
<1>2. QED
  BY <1>1, ServerImplementsFeed, FeedAgrees, PTL

-----------------------------------------------------------------------------
(* Who is taken out of the list.                                           *)

ResetIsClosed == \A c \in Conns : reset[c] => cli[c] = "closed"

LEMMA ResetStep ==
  ASSUME TypeInv, ResetIsClosed, [Next]_vars
  PROVE  ResetIsClosed'
<1> USE DEF ResetIsClosed, controlVars, listenVars, listVars, threadVars,
            socketVars, dataVars
<1>1. CASE Control
  BY <1>1 DEF Control, StartFails, StartListens, StartSpawns, StartReturns,
              ShutdownBegins, ShutdownReturns
<1>2. CASE Listen
  BY <1>2 DEF Listen, ListenEnters, ListenTests, SelectReady, SelectIdle,
              Accept, AcceptFails, Store, DetectDisconnectedClients,
              ListenExits
<1>3. ASSUME NEW t \in Threads, Send(t) \/ HasActiveClient(t)
      PROVE  ResetIsClosed'
  BY <1>3 DEF Send, SendBegins, SendDelivers, SendFails, SendReturns,
              HasActiveClient, HasActiveClientBegins, HasActiveClientReturns
<1>4. ASSUME NEW c \in Conns, Client(c) PROVE ResetIsClosed'
  BY <1>4 DEF Client, Connect, ClientReads, ClientWrites, ClientCloses,
              TypeInv, TypeOK
<1>5. CASE UNCHANGED vars
  BY <1>5 DEF vars
<1> QED
  BY <1>1, <1>2, <1>3, <1>4, <1>5 DEF Next

Removal ==
  \A c \in Conns : c \in activeConnections /\ c \notin activeConnections'
                    => cli[c] = "closed" \/ listener = "exit"
                         \/ c \in selectError'

LEMMA RemovalStep ==
  ASSUME ResetIsClosed, [Next]_vars
  PROVE  Removal
<1> USE DEF Removal, controlVars, listenVars, listVars
<1>1. CASE Control
  BY <1>1 DEF Control, StartFails, StartListens, StartSpawns, StartReturns,
              ShutdownBegins, ShutdownReturns
<1>2. CASE Listen
  BY <1>2 DEF Listen, ListenEnters, ListenTests, SelectReady, SelectIdle,
              Accept, AcceptFails, Store, DetectDisconnectedClients,
              ListenExits, RecvFails, ResetIsClosed
<1>3. ASSUME NEW t \in Threads, Send(t) \/ HasActiveClient(t)
      PROVE  Removal
  BY <1>3 DEF Send, SendBegins, SendDelivers, SendFails, SendReturns,
              HasActiveClient, HasActiveClientBegins, HasActiveClientReturns
<1>4. ASSUME NEW c \in Conns, Client(c) PROVE Removal
  BY <1>4 DEF Client, Connect, ClientReads, ClientWrites, ClientCloses
<1>5. CASE UNCHANGED vars
  BY <1>5 DEF vars
<1> QED
  BY <1>1, <1>2, <1>3, <1>4, <1>5 DEF Next

(* A client that keeps its end open stays in the list until the listener   *)
(* ends or a select fails on its own connection: neither a failed send or  *)
(* select elsewhere nor stray data drops it.                               *)
THEOREM HealthyClientsStayCorrect == Spec => HealthyClientsStay
<1>1. Init => ResetIsClosed
  BY DEF Init, ResetIsClosed
<1>2. TypeInv /\ ResetIsClosed /\ [Next]_vars => ResetIsClosed'
  BY ResetStep
<1>3. ResetIsClosed /\ [Next]_vars => [Removal]_vars
  BY RemovalStep
<1>4. QED
  BY <1>1, <1>2, <1>3, TypeInitially, TypeStep, PTL
  DEF Spec, HealthyClientsStay, Removal

-----------------------------------------------------------------------------
(* What cannot come back, and what cannot go on.                           *)

(* No listener, of this Start or of a later one, will see a client.        *)
Closing ==
  stopServer /\ listener \in {"none", "enter", "loop", "exit", "done"}

ServesNobody ==
  Closing => /\ Closing'
             /\ \A c \in Conns : srv'[c] = "open" => srv[c] = "open"

LEMMA ClosingStep == ASSUME TypeInv, [Next]_vars PROVE ServesNobody
<1> USE DEF ServesNobody, Closing, controlVars, listenVars, socketVars
<1>1. CASE Control
  BY <1>1
  DEF Control, StartFails, StartListens, StartSpawns, StartReturns,
      ShutdownBegins, ShutdownReturns
<1>2. CASE Listen
  BY <1>2
  DEF Listen, ListenEnters, ListenTests, SelectReady, SelectIdle, Accept,
      AcceptFails, Store, DetectDisconnectedClients, ListenExits, CloseAll
<1>3. ASSUME NEW t \in Threads, Send(t) \/ HasActiveClient(t)
      PROVE  ServesNobody
  BY <1>3
  DEF Send, SendBegins, SendDelivers, SendFails, SendReturns, CloseAll,
      HasActiveClient, HasActiveClientBegins, HasActiveClientReturns
<1>4. ASSUME NEW c \in Conns, Client(c) PROVE ServesNobody
  <2>1. UNCHANGED <<stopServer, listener>>
    BY <1>4 DEF Client, Connect, ClientReads, ClientWrites, ClientCloses
  <2>2. \A d \in Conns : srv'[d] = "open" => srv[d] = "open"
    BY <1>4
    DEF Client, Connect, ClientReads, ClientWrites, ClientCloses, TypeInv, TypeOK
  <2> QED
    BY <2>1, <2>2
<1>5. CASE UNCHANGED vars
  BY <1>5 DEF vars
<1> QED
  BY <1>1, <1>2, <1>3, <1>4, <1>5 DEF Next

(* stopServer is never reset: when Shutdown has been called and Listen has *)
(* left its loop body, no connection is ever accepted again, however often *)
(* Start is called.                                                        *)
THEOREM RestartServesNobody ==
  Spec => [][Closing => /\ Closing'
                        /\ \A c \in Conns : srv'[c] = "open" => srv[c] = "open"]_vars
<1>1. TypeInv /\ [Next]_vars =>
        [Closing => /\ Closing'
                    /\ \A c \in Conns : srv'[c] = "open" => srv[c] = "open"]_vars
  BY ClosingStep DEF ServesNobody
<1>2. QED
  BY <1>1, TypeInitially, TypeStep, PTL DEF Spec

(* Send is about to write to a client whose buffer is full.                *)
Stuck(t, c) == /\ call[t] = "send"
               /\ c \in todo[t]
               /\ cli[c] = "open" /\ Unread(c) = SockBuf

WaitsForClient ==
  \A t \in Threads : \A c \in Conns : Stuck(t, c) =>
    \/ Stuck(t, c)' /\ activeConnections_mutex' = t
    \/ ClientReads(c) \/ ClientCloses(c)

LEMMA StuckStep ==
  ASSUME TypeInv, LockInv, [Next]_vars PROVE WaitsForClient
<1> SUFFICES ASSUME NEW t \in Threads, NEW c \in Conns, Stuck(t, c),
                    ~ClientReads(c), ~ClientCloses(c)
             PROVE  Stuck(t, c)' /\ activeConnections_mutex' = t
  BY DEF WaitsForClient
<1>0. /\ activeConnections_mutex = t /\ ~LockFree /\ todo[t] # {}
      /\ \A u \in Threads : u # t => call[u] = "none" /\ todo[u] = {}
  BY OneSender, ServerAssumption DEF Stuck, LockInv, LockFree
<1> USE <1>0 DEF Stuck, Unread, controlVars, listenVars, listVars, threadVars,
                 socketVars, dataVars
<1>1. CASE Control \/ Listen
  BY <1>1
  DEF Control, StartFails, StartListens, StartSpawns, StartReturns,
      ShutdownBegins, ShutdownReturns, Listen, ListenEnters, ListenTests,
      SelectReady, SelectIdle, Accept, AcceptFails, Store,
      DetectDisconnectedClients, ListenExits
<1>2. ASSUME NEW u \in Threads, HasActiveClient(u)
      PROVE  Stuck(t, c)' /\ activeConnections_mutex' = t
  BY <1>2 DEF HasActiveClient, HasActiveClientBegins, HasActiveClientReturns
<1>3. ASSUME NEW u \in Threads, Send(u)
      PROVE  Stuck(t, c)' /\ activeConnections_mutex' = t
  <2>1. u = t
    BY <1>3 DEF Send, SendBegins, SendDelivers, SendFails, SendReturns
  <2>2. PICK d \in Conns : SendDelivers(t, d) \/ SendFails(t, d)
    BY <1>3, <2>1 DEF Send, SendBegins, SendReturns
  <2>3. d # c
    <3>1. ~(SockBuf < SockBuf)
      BY ServerAssumption
    <3> QED
      BY <2>2, <3>1 DEF SendDelivers, SendFails
  <2>4. c \in todo'[t] /\ sent'[c] = sent[c]
    BY <2>2, <2>3 DEF SendDelivers, SendFails, Rest, TypeInv, TypeOK
  <2> QED
    BY <2>2, <2>4 DEF SendDelivers, SendFails
<1>4. ASSUME NEW d \in Conns, Client(d)
      PROVE  Stuck(t, c)' /\ activeConnections_mutex' = t
  <2>1. UNCHANGED <<activeConnections_mutex, call, todo, sent>>
    BY <1>4 DEF Client, Connect, ClientReads, ClientWrites, ClientCloses
  <2>2. cli'[c] = cli[c] /\ taken'[c] = taken[c]
    BY <1>4
    DEF Client, Connect, ClientReads, ClientWrites, ClientCloses, TypeInv, TypeOK
  <2> QED
    BY <2>1, <2>2
<1>5. CASE UNCHANGED vars
  BY <1>5 DEF vars
<1> QED
  BY <1>1, <1>2, <1>3, <1>4, <1>5 DEF Next

(* A client that does not read holds up everybody: from the moment its     *)
(* buffer is full, Send keeps activeConnections_mutex until this client    *)
(* reads or closes, and no other step ends its wait, Shutdown's neither.   *)
THEOREM SendWaitsForClient ==
  Spec => [][\A t \in Threads : \A c \in Conns : Stuck(t, c) =>
               \/ Stuck(t, c)' /\ activeConnections_mutex' = t
               \/ ClientReads(c) \/ ClientCloses(c)]_vars
<1>1. TypeInv /\ LockInv /\ [Next]_vars => [WaitsForClient]_vars
  BY StuckStep
<1>2. QED
  BY <1>1, TypeInitially, TypeStep, LockInitially, LockStep, PTL
  DEF Spec, WaitsForClient
=============================================================================
