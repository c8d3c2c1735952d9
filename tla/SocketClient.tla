---------------------------- MODULE SocketClient ----------------------------
(***************************************************************************)
(* The client's side of the socket (proxyClient/SocketClient.h): a thread  *)
(* connects to the server's path again and again, puts messages of         *)
(* dataSize bytes together and keeps the newest one for Get.               *)
(*                                                                         *)
(* The owner of the object calls Start, Shutdown and the destructor while  *)
(* the thread runs.  Get and the memcpy of Listen hold dataMutex over      *)
(* nothing but a copy and are a step each.  The server and the kernel are  *)
(* the environment: a message is written whole, but may arrive in pieces.  *)
(***************************************************************************)
EXTENDS Integers, Sequences

CONSTANTS
  dataSize,     (* bytes of a message                                        *)
  Values,       (* what the server broadcasts                                *)
  Zero,         (* the value of T { 0 }                                      *)
  MaxMessages,  (* bound on the messages of the server                       *)
  MaxRestarts   (* bound on how often the server comes up                    *)

ASSUME ClientAssumption ==
  /\ dataSize \in Nat \ {0}
  /\ MaxMessages \in Nat
  /\ MaxRestarts \in Nat

VARIABLES
  at,            (* where Listen stands                                      *)
  stopClient, connected,
  listenSocket,  (* "INVALID", or the descriptor of the last socket()        *)
  descriptor,    (* what the kernel thinks of that descriptor                *)
  dataBuffer,    (* its first byteCounter bytes                              *)
  data,
  owner,         (* how far the destructor has come                          *)
  serverUp, restarts,
  connection,    (* none, queued by the kernel, up, or ended by the server   *)
  stream,        (* bytes the server wrote and Listen has not received       *)
  arrived,       (* how many of them the client's kernel has                 *)
  messages       (* history: the values broadcast                            *)

ownerVars  == <<owner, stopClient>>
socketVars == <<listenSocket, descriptor>>
serverVars == <<serverUp, restarts, messages>>
linkVars   == <<connection, stream, arrived>>

clientVars == <<at, connected, dataBuffer, data, ownerVars, socketVars,
                serverVars, linkVars>>

(* Byte p of message n; message 0 is the initial T { 0 }.                  *)
Byte == (0 .. MaxMessages) \X (1 .. dataSize)
Message(n) == [p \in 1 .. dataSize |-> <<n, p>>]

TypeOK ==
  /\ at \in {"none", "test", "socket", "connect", "inner", "select", "recv",
             "call", "blocked", "check", "close", "clear", "gone"}
  /\ stopClient \in BOOLEAN /\ connected \in BOOLEAN
  /\ listenSocket \in {"INVALID", "fd"}
  /\ descriptor \in {"closed", "open"}
  /\ dataBuffer \in Seq(Byte) /\ Len(dataBuffer) <= dataSize
  /\ data \in [1 .. dataSize -> Byte]
  /\ owner \in {"new", "alive", "closing", "joining", "gone"}
  /\ serverUp \in BOOLEAN /\ restarts \in 0 .. MaxRestarts
  /\ connection \in {"none", "queued", "up", "ended"}
  /\ stream \in Seq(Byte) /\ arrived \in 0 .. Len(stream)
  /\ messages \in Seq(Values) /\ Len(messages) <= MaxMessages

Init ==
  /\ at = "none"
  /\ stopClient = FALSE /\ connected = FALSE
  /\ listenSocket = "INVALID" /\ descriptor = "closed"
  /\ dataBuffer = <<>>
  /\ data = Message(0)
  /\ owner = "new"
  /\ serverUp = FALSE /\ restarts = 0
  /\ connection = "none" /\ stream = <<>> /\ arrived = 0
  /\ messages = <<>>

(* The value that bytes make up, or a mixture of several.                  *)
Content(d) ==
  [p \in 1 .. dataSize |->
     <<IF d[p][1] = 0 THEN Zero ELSE messages[d[p][1]], d[p][2]>>]

-----------------------------------------------------------------------------
(* The owner.                                                              *)

Start ==
  /\ owner = "new"
  /\ owner' = "alive"
  /\ at' = "test"
  /\ UNCHANGED <<connected, dataBuffer, data, stopClient, socketVars,
                 serverVars, linkVars>>

Shutdown ==
  /\ owner = "alive"
  /\ stopClient' = TRUE
  /\ UNCHANGED <<at, connected, dataBuffer, data, owner, socketVars,
                 serverVars, linkVars>>

(* ~SocketClient, up to its look at listenSocket.                          *)
DestroyBegins ==
  /\ owner \in {"new", "alive"}
  /\ stopClient' = TRUE
  /\ owner' = IF listenSocket = "INVALID" THEN "joining" ELSE "closing"
  /\ UNCHANGED <<at, connected, dataBuffer, data, socketVars, serverVars,
                 linkVars>>

(* Nothing is left of the connection, unless the thread is in recvfrom,    *)
(* which goes on with the socket it was called with.                       *)
DestroyCloses ==
  /\ owner = "closing"
  /\ descriptor' = "closed"
  /\ IF at = "blocked"
     THEN UNCHANGED linkVars
     ELSE connection' = "none" /\ stream' = <<>> /\ arrived' = 0
  /\ owner' = "joining"
  /\ UNCHANGED <<at, connected, dataBuffer, data, stopClient, listenSocket,
                 serverVars>>

DestroyJoins ==
  /\ owner = "joining"
  /\ at \in {"none", "gone"}
  /\ owner' = "gone"
  /\ UNCHANGED <<at, connected, dataBuffer, data, stopClient, socketVars,
                 serverVars, linkVars>>

-----------------------------------------------------------------------------
(* Listen.                                                                 *)

Moves(from, to) == at = from /\ at' = to

ListenTests_ignores ==
  /\ Moves("test", "socket")
  /\ UNCHANGED <<connected, dataBuffer, data, ownerVars, socketVars,
                 serverVars, linkVars>>

ListenTests ==
  /\ Moves("test", IF stopClient THEN "gone" ELSE "socket")
  /\ UNCHANGED <<connected, dataBuffer, data, ownerVars, socketVars,
                 serverVars, linkVars>>

OpensSocket ==
  /\ Moves("socket", "connect")
  /\ listenSocket' = "fd" /\ descriptor' = "open"
  /\ connected' = TRUE
  /\ UNCHANGED <<dataBuffer, data, ownerVars, serverVars, linkVars>>

OpenFails ==
  /\ Moves("socket", "test")
  /\ UNCHANGED <<connected, dataBuffer, data, ownerVars, socketVars,
                 serverVars, linkVars>>

ConnectSucceeds ==
  /\ Moves("connect", "inner")
  /\ descriptor = "open" /\ serverUp
  /\ connection' = "queued"
  /\ UNCHANGED <<connected, dataBuffer, data, ownerVars, socketVars,
                 serverVars, stream, arrived>>

ConnectFails_leaves ==
  /\ Moves("connect", "gone")
  /\ descriptor = "closed" \/ ~serverUp
  /\ UNCHANGED <<connected, dataBuffer, data, ownerVars, socketVars,
                 serverVars, linkVars>>

ConnectFails ==
  /\ Moves("connect", "close")
  /\ descriptor = "closed" \/ ~serverUp
  /\ UNCHANGED <<connected, dataBuffer, data, ownerVars, socketVars,
                 serverVars, linkVars>>

InnerTests ==
  /\ Moves("inner", IF ~stopClient /\ connected THEN "select" ELSE "close")
  /\ UNCHANGED <<connected, dataBuffer, data, ownerVars, socketVars,
                 serverVars, linkVars>>

Ready == arrived > 0 \/ connection = "ended"

SelectReady ==
  /\ Moves("select", "recv")
  /\ Ready
  /\ dataBuffer' = <<>>
  /\ UNCHANGED <<connected, data, ownerVars, socketVars, serverVars, linkVars>>

SelectTimesOut ==
  /\ Moves("select", "inner")
  /\ ~Ready
  /\ UNCHANGED <<connected, dataBuffer, data, ownerVars, socketVars,
                 serverVars, linkVars>>

SelectFails ==
  /\ Moves("select", "inner")
  /\ descriptor = "closed"
  /\ connected' = FALSE
  /\ UNCHANGED <<dataBuffer, data, ownerVars, socketVars, serverVars, linkVars>>

RecvTests_once ==
  /\ Moves("recv", IF dataBuffer = <<>> /\ ~stopClient THEN "call" ELSE "check")
  /\ UNCHANGED <<connected, dataBuffer, data, ownerVars, socketVars,
                 serverVars, linkVars>>

RecvTests ==
  /\ Moves("recv", IF Len(dataBuffer) < dataSize /\ ~stopClient
                   THEN "call" ELSE "check")
  /\ UNCHANGED <<connected, dataBuffer, data, ownerVars, socketVars,
                 serverVars, linkVars>>

(* recvfrom waits while nothing has arrived.                               *)
RecvBlocks ==
  /\ Moves("call", "blocked")
  /\ descriptor = "open" /\ ~Ready
  /\ UNCHANGED <<connected, dataBuffer, data, ownerVars, socketVars,
                 serverVars, linkVars>>

InRecv == at = "blocked" \/ (at = "call" /\ descriptor = "open")

RecvGets ==
  /\ InRecv
  /\ \E k \in 1 .. dataSize - Len(dataBuffer) :
       /\ k <= arrived
       /\ dataBuffer' = dataBuffer \o SubSeq(stream, 1, k)
       /\ stream' = SubSeq(stream, k + 1, Len(stream))
       /\ arrived' = arrived - k
  /\ at' = "recv"
  /\ UNCHANGED <<connected, data, ownerVars, socketVars, serverVars, connection>>

(* res <= 0: the stream has ended, or the descriptor is not open.          *)
RecvEnds ==
  /\ \/ (InRecv /\ connection = "ended" /\ arrived = 0)
     \/ (at = "call" /\ descriptor = "closed")
  /\ at' = "check"
  /\ connected' = FALSE
  /\ UNCHANGED <<dataBuffer, data, ownerVars, socketVars, serverVars, linkVars>>

(* Only a whole message is stored, under dataMutex.                        *)
Stores_always ==
  /\ Moves("check", "inner")
  /\ data' = [p \in 1 .. dataSize |->
                IF p <= Len(dataBuffer) THEN dataBuffer[p] ELSE data[p]]
  /\ UNCHANGED <<connected, dataBuffer, ownerVars, socketVars, serverVars,
                 linkVars>>

Stores_resets ==
  /\ Moves("check", "inner")
  /\ data' = IF Len(dataBuffer) = dataSize THEN dataBuffer ELSE Message(0)
  /\ UNCHANGED <<connected, dataBuffer, ownerVars, socketVars, serverVars,
                 linkVars>>

Stores ==
  /\ Moves("check", "inner")
  /\ data' = IF Len(dataBuffer) = dataSize THEN dataBuffer ELSE data
  /\ UNCHANGED <<connected, dataBuffer, ownerVars, socketVars, serverVars,
                 linkVars>>

(* Sleep, shutdown and closesocket, whoever has closed it before.          *)
Closes_not ==
  /\ Moves("close", "clear")
  /\ UNCHANGED <<connected, dataBuffer, data, ownerVars, socketVars,
                 serverVars, linkVars>>

Closes ==
  /\ Moves("close", "clear")
  /\ descriptor' = "closed"
  /\ connection' = "none" /\ stream' = <<>> /\ arrived' = 0
  /\ UNCHANGED <<connected, dataBuffer, data, ownerVars, listenSocket,
                 serverVars>>

Clears ==
  /\ Moves("clear", "test")
  /\ listenSocket' = "INVALID"
  /\ connected' = FALSE
  /\ UNCHANGED <<dataBuffer, data, ownerVars, descriptor, serverVars, linkVars>>

Listen ==
  \/ ListenTests \/ OpensSocket \/ OpenFails \/ ConnectSucceeds \/ ConnectFails
  \/ InnerTests \/ SelectReady \/ SelectTimesOut \/ SelectFails
  \/ RecvTests \/ RecvBlocks \/ RecvGets \/ RecvEnds
  \/ Stores \/ Closes \/ Clears

-----------------------------------------------------------------------------
(* The server and the kernel.                                              *)

ServerStarts ==
  /\ ~serverUp /\ restarts < MaxRestarts
  /\ serverUp' = TRUE
  /\ restarts' = restarts + 1
  /\ UNCHANGED <<at, connected, dataBuffer, data, ownerVars, socketVars,
                 messages, linkVars>>

(* What is still on its way may be lost.                                   *)
ServerStops ==
  /\ serverUp
  /\ serverUp' = FALSE
  /\ connection' = IF connection = "none" THEN "none" ELSE "ended"
  /\ stream' = SubSeq(stream, 1, arrived)
  /\ UNCHANGED <<at, connected, dataBuffer, data, ownerVars, socketVars,
                 restarts, messages, arrived>>

ServerAccepts ==
  /\ connection = "queued"
  /\ connection' = "up"
  /\ UNCHANGED <<at, connected, dataBuffer, data, ownerVars, socketVars,
                 serverVars, stream, arrived>>

ServerSends(v) ==
  /\ serverUp
  /\ Len(messages) < MaxMessages
  /\ messages' = Append(messages, v)
  /\ stream' = IF connection = "up"
               THEN stream \o Message(Len(messages) + 1) ELSE stream
  /\ UNCHANGED <<at, connected, dataBuffer, data, ownerVars, socketVars,
                 serverUp, restarts, connection, arrived>>

ByteArrives ==
  /\ arrived < Len(stream)
  /\ arrived' = arrived + 1
  /\ UNCHANGED <<at, connected, dataBuffer, data, ownerVars, socketVars,
                 serverVars, connection, stream>>

Server ==
  \/ ServerStarts \/ ServerStops \/ ServerAccepts
  \/ \E v \in Values : ServerSends(v)
  \/ ByteArrives

Owner ==
  \/ Start \/ Shutdown \/ DestroyBegins \/ DestroyCloses \/ DestroyJoins

Next == Owner \/ Listen \/ Server

Spec == Init /\ [][Next]_clientVars

-----------------------------------------------------------------------------
(* Properties.                                                             *)

(* What Get returns is one whole message, whatever pieces it came in and   *)
(* however often the connection was lost in the middle of one.             *)
WholeMessages == \E n \in 0 .. Len(messages) : data = Message(n)

(* A later Get never returns an older message than an earlier one.         *)
NeverOlder == [][data[1][1] <= data'[1][1]]_clientVars

(* While the object lives the thread uses its own open descriptor only,    *)
(* although the destructor may close it under the thread's hands; and when *)
(* the destructor returns, no thread uses the object and no descriptor is  *)
(* left open.                                                              *)
OwnDescriptor ==
  /\ at \in {"connect", "inner", "select", "recv", "call", "blocked", "check",
             "close"} =>
       /\ listenSocket = "fd"
       /\ descriptor = "open" \/ owner \in {"joining", "gone"}
  /\ at \in {"none", "test", "socket", "clear", "gone"} =>
       descriptor = "closed"
  /\ owner = "gone" => at \in {"none", "gone"}
=============================================================================
