------------------------------- MODULE AClient -------------------------------
(***************************************************************************)
(* The example client (proxyClient/aClient.cpp): it polls a SocketClient   *)
(* for a value that differs from the last one, takes it, and after some    *)
(* rounds shuts the client down and returns, which destroys the client.    *)
(***************************************************************************)
EXTENDS SocketClient

CONSTANT Rounds  (* how many values are printed: 100 in the code             *)

ASSUME RoundsAssumption == Rounds \in Nat \ {0}

VARIABLES
  main,   (* where main stands                                               *)
  value,  (* the last value, as it was received                              *)
  i

mainVars == <<main, value, i>>
vars == <<clientVars, mainVars>>

MainInit ==
  /\ Init
  /\ main = "start"
  /\ value = Message(0)
  /\ i = 0

MainStarts ==
  /\ main = "start"
  /\ Start
  /\ main' = "poll"
  /\ UNCHANGED <<value, i>>

(* while (value == myClient.Get()): anything but an equal value.           *)
Polls ==
  /\ main = "poll"
  /\ Content(value) # Content(data)
  /\ main' = "take"
  /\ UNCHANGED <<clientVars, value, i>>

(* value = myClient.Get(), a second time, and the value is printed.        *)
Takes ==
  /\ main = "take"
  /\ value' = data
  /\ i' = i + 1
  /\ main' = IF i' < Rounds THEN "poll" ELSE "shutdown"
  /\ UNCHANGED clientVars

MainShutsDown ==
  /\ main = "shutdown"
  /\ Shutdown
  /\ main' = "return"
  /\ UNCHANGED <<value, i>>

(* ~SocketClient.                                                          *)
MainReturns ==
  /\ main = "return"
  /\ \/ (DestroyBegins \/ DestroyCloses) /\ UNCHANGED main
     \/ DestroyJoins /\ main' = "done"
  /\ UNCHANGED <<value, i>>

Main == MainStarts \/ Polls \/ Takes \/ MainShutsDown \/ MainReturns

(* The client's thread and the server.                                     *)
Others == Listen \/ Server

MainNext == Main \/ (Others /\ UNCHANGED mainVars)

MainSpec == MainInit /\ [][MainNext]_vars

(* The threads run, socket() does not fail for ever, the server's listener *)
(* accepts, and the kernel delivers what was written.                      *)
Fairness ==
  /\ WF_vars(Main)
  /\ WF_vars(Listen /\ UNCHANGED mainVars)
  /\ SF_vars(OpensSocket /\ UNCHANGED mainVars)
  /\ WF_vars(ServerAccepts /\ UNCHANGED mainVars)
  /\ WF_vars(ByteArrives /\ UNCHANGED mainVars)

FairSpec == MainSpec /\ Fairness

-----------------------------------------------------------------------------
(* Properties.                                                             *)

(* The client finds the server, also one that comes up late or again.      *)
FindsServer ==
  serverUp ~> connection = "up" \/ ~serverUp \/ stopClient

(* What the server sends over a connection that stays is the value of Get  *)
(* in the end.                                                             *)
GetsMessages ==
  \A n \in 1 .. MaxMessages :
    connection = "up" /\ (\E j \in 1 .. Len(stream) : stream[j][1] = n)
      ~> data[1][1] >= n \/ connection # "up" \/ stopClient

(* The program ends once it has its values, whatever the thread is doing   *)
(* when its object is destroyed.                                           *)
ReturnEnds == main = "return" ~> main = "done"
=============================================================================
