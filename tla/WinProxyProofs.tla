---------------------------- MODULE WinProxyProofs ----------------------------
(***************************************************************************)
(* Proofs about WinProxy.  Whatever main and the threads of the pool do,   *)
(* the server inside the proxy is SocketServer, so that the theorems of    *)
(* SocketServerProofs hold of it; and the prompt keeps its numbers.        *)
(***************************************************************************)
EXTENDS WinProxy, SocketServerProofs

-----------------------------------------------------------------------------
(* The server inside the proxy.                                            *)

LEMMA WinStepIsServerStep == [WinNext]_allVars => [Next]_vars
<1> SUFFICES ASSUME [WinNext]_allVars PROVE [Next]_vars
  OBVIOUS
<1> USE DEF Pool
<1>1. CASE MainStarts
  BY <1>1 DEF MainStarts, Next, Control
<1>2. CASE Asks \/ Decides \/ Waits \/ Closes
  <2>1. HasActiveClientBegins(Main) \/ HasActiveClientReturns(Main)
    BY <1>2 DEF Asks, Decides, Waits, Closes
  <2> QED
    BY <2>1, WinAssumption DEF Next, HasActiveClient
<1>3. ASSUME NEW t \in Pool, stylusValueHandler(t) PROVE [Next]_vars
  BY <1>3 DEF stylusValueHandler, Next, Send
<1>4. CASE Others
  BY <1>4 DEF Others, Next
<1>5. Prompts \/ GetsAddress => UNCHANGED vars
  BY DEF Prompts, GetsAddress
<1>6. Connects \/ GetsServices \/ Visits \/ Registers \/ GetsResult \/ Catches
      => UNCHANGED vars
  BY DEF Connects, GetsServices, Visits, Registers, GetsResult, Catches
<1>7. SessionChanges \/ (\E e \in {"Active", "Closed"} : stylusSessionStatusChanged(e))
        \/ (\E t \in Pool : SampleArrives(t)) => UNCHANGED vars
  BY DEF SessionChanges, stylusSessionStatusChanged, SampleArrives
<1>8. UNCHANGED allVars => UNCHANGED vars
  BY DEF allVars
<1> QED
  BY <1>1, <1>2, <1>3, <1>4, <1>5, <1>6, <1>7, <1>8
  DEF WinNext, Loop, Callbacks

(* Main and any number of pool threads, which run the value handler at the *)
(* same time, drive the server within SocketServer.                        *)
THEOREM WinUsesServer == WinSpec => Spec
<1>1. WinInit => Init
  BY DEF WinInit
<1>2. QED
  BY <1>1, WinStepIsServerStep, PTL DEF WinSpec, Spec

(* So the clients of the Windows proxy see the atomic broadcast of         *)
(* StylusFeed, although samples are handled on several threads.            *)
THEOREM WinImplementsFeed == WinSpec => ImplementsFeed
  BY WinUsesServer, ServerImplementsFeed, PTL

-----------------------------------------------------------------------------
(* The prompt.                                                             *)

(* The device that the callback has pushed is the last one of the list     *)
(* when it is printed; what main reads is the place of the first digit.    *)
FinderInv ==
  /\ devices \in Seq(Ids)
  /\ typed \in Nat
  /\ adding # NoId => adding \in Ids
  /\ adding # NoId /\ Listed(adding) => devices[Len(devices)] = adding
  /\ \A line \in printed :
       line[1] \in DOMAIN devices /\ devices[line[1]] = line[2]
  /\ \A i, j \in DOMAIN devices : devices[i] = devices[j] => i = j
  /\ prompt = "done" /\ devId # NoId =>
       FirstDigit(typed) \in DOMAIN devices /\ devices[FirstDigit(typed)] = devId

LEMMA PushKeeps ==
  ASSUME FinderInv, AddedPushes
  PROVE  FinderInv'
<1>1. /\ adding \in Ids /\ ~Listed(adding)
      /\ devices \in Seq(Ids) /\ devices' = Append(devices, adding)
      /\ UNCHANGED <<adding, watching, prompt, typed, devId, printed, invalid>>
  BY DEF AddedPushes, Pushing, FinderInv
<1>2. /\ devices' \in Seq(Ids)
      /\ Len(devices') = Len(devices) + 1
      /\ devices'[Len(devices')] = adding
      /\ \A i \in DOMAIN devices : i \in DOMAIN devices' /\ devices'[i] = devices[i]
      /\ DOMAIN devices' = DOMAIN devices \cup {Len(devices')}
  BY <1>1
<1>3. \A i \in DOMAIN devices : devices[i] # adding
  BY <1>1 DEF Listed, Range
<1>4. \A i, j \in DOMAIN devices' : devices'[i] = devices'[j] => i = j
  BY <1>2, <1>3 DEF FinderInv
<1> QED
  BY <1>1, <1>2, <1>4 DEF FinderInv

LEMMA FinderStep == FinderInv /\ [WinNext]_allVars => FinderInv'
<1> SUFFICES ASSUME FinderInv, [WinNext]_allVars PROVE FinderInv'
  OBVIOUS
<1>1. ASSUME NEW d \in Ids, AddedTests(d) PROVE FinderInv'
  BY <1>1 DEF AddedTests, FinderInv, Listed
<1>2. ASSUME NEW d \in Ids, Removed(d) PROVE FinderInv'
  BY <1>2 DEF Removed, FinderInv, Listed
<1>3. CASE AddedPushes
  BY <1>3, PushKeeps
<1>4. CASE AddedPrints
  <2>1. Len(devices) \in DOMAIN devices
    BY <1>4 DEF AddedPrints, FinderInv, Listed, Range
  <2> QED
    BY <1>4, <2>1 DEF AddedPrints, FinderInv, Listed
<1>5. CASE StartsWatcher \/ StopsWatcher \/ ReadsTornList
  BY <1>5 DEF StartsWatcher, StopsWatcher, ReadsTornList, FinderInv, Listed
<1>6. CASE ReadsList
  BY <1>6 DEF ReadsList, FinderInv, Listed
<1>7. ASSUME NEW n \in 0 .. MaxTyped, UserTypes(n) PROVE FinderInv'
  BY <1>7, FinderAssumption DEF UserTypes, FinderInv, Listed
<1>8. CASE GetsAddress
  BY <1>8 DEF GetsAddress, FinderForgotten, FinderInv, Listed
<1>9. CASE UNCHANGED finderVars
  BY <1>9 DEF finderVars, FinderInv, Listed
<1>10. MainStarts \/ Loop \/ Callbacks \/ Others \/ UNCHANGED allVars
       => UNCHANGED finderVars
  <2>1. MainStarts \/ Others \/ UNCHANGED allVars => UNCHANGED finderVars
    BY DEF MainStarts, Others, allVars
  <2>2. Callbacks => UNCHANGED finderVars
    BY DEF Callbacks, SessionChanges, stylusSessionStatusChanged,
           SampleArrives, stylusValueHandler
  <2>3. Loop => UNCHANGED finderVars
    BY DEF Loop, Asks, Decides, Connects, GetsServices, Visits, Registers,
           GetsResult, Waits, Closes, Catches, Releases
  <2> QED
    BY <2>1, <2>2, <2>3
<1> QED
  BY <1>1, <1>2, <1>3, <1>4, <1>5, <1>6, <1>7, <1>8, <1>9, <1>10
  DEF WinNext, Prompts, Watcher, PromptUserForDevice

LEMMA FinderMeans == FinderInv => NumbersAreKept
<1> SUFFICES ASSUME FinderInv,
                    prompt = "done", devId # NoId, typed \in 1 .. Base - 1
             PROVE  devices[typed] = devId
  BY DEF FinderInv, NumbersAreKept
<1>1. FirstDigit(typed) = typed
  BY FinderAssumption DEF FirstDigit
<1> QED
  BY <1>1 DEF FinderInv

(* The printed numbers stay true and select what they were printed with,   *)
(* for any devices that come and go while the user types.                  *)
THEOREM NumbersCorrect == WinSpec => []NumbersAreKept
<1>1. WinInit => FinderInv
  BY DEF WinInit, FinderInit, FinderInv
<1>2. QED
  BY <1>1, FinderStep, FinderMeans, PTL DEF WinSpec

-----------------------------------------------------------------------------
(* The session.                                                            *)

(* The stylus was found, its session is lost, and nothing tells main: the  *)
(* flag does not say so, and no event that will is under way.              *)
Hidden ==
  /\ valueHandler # "none" /\ session = "lost"
  /\ sessionStatus # "Closed" /\ statusEvents["Closed"] = 0

(* The status handler is registered before the value handler and stays as  *)
(* long.                                                                   *)
SessionInv ==
  /\ statusEvents \in [{"Active", "Closed"} -> Nat]
  /\ mainAt = "result" => statusHandler
  /\ valueHandler # "none" => statusHandler

LEMMA TellsKeeps ==
  ASSUME SessionInv, NEW event \in {"Active", "Closed"}, Tells(event)
  PROVE  /\ statusEvents' \in [{"Active", "Closed"} -> Nat]
         /\ event = "Closed" => statusEvents'["Closed"] # 0
  BY DEF Tells, SessionInv

LEMMA ReleaseKeeps ==
  ASSUME SessionInv, Releases, mainAt' # "result"
  PROVE  SessionInv' /\ ~Hidden'
<1>1. valueHandler' = "none"
  BY DEF Releases
<1>2. statusEvents' \in [{"Active", "Closed"} -> Nat]
  BY TellsKeeps DEF Releases, SessionInv
<1> QED
  BY <1>1, <1>2 DEF SessionInv, Hidden

LEMMA ChangeKeeps ==
  ASSUME SessionInv, SessionChanges
  PROVE  SessionInv' /\ (Hidden' => Hidden)
<1>1. UNCHANGED <<mainAt, valueHandler, statusHandler, sessionStatus>>
  BY DEF SessionChanges, handlerVars
<1>2. CASE ~statusHandler
  <2>1. valueHandler = "none" /\ statusEvents' = statusEvents
    BY <1>2 DEF SessionInv, SessionChanges
  <2> QED
    BY <1>1, <2>1 DEF SessionInv, Hidden
<1>3. CASE statusHandler
  <2>1. \/ session' = "lost" /\ Tells("Closed")
        \/ session' = "active" /\ Tells("Active")
    BY <1>3 DEF SessionChanges
  <2>2. /\ statusEvents' \in [{"Active", "Closed"} -> Nat]
        /\ session' = "lost" => statusEvents'["Closed"] # 0
    BY <2>1, TellsKeeps
  <2> QED
    BY <1>1, <2>2 DEF SessionInv, Hidden
<1> QED
  BY <1>2, <1>3

LEMMA DeliveryKeeps ==
  ASSUME SessionInv, NEW e \in {"Active", "Closed"}, stylusSessionStatusChanged(e)
  PROVE  SessionInv' /\ (Hidden' => e = "Active")
<1>1. /\ statusEvents[e] > 0 /\ sessionStatus' = e
      /\ statusEvents' = [statusEvents EXCEPT ![e] = @ - 1]
      /\ UNCHANGED <<mainAt, valueHandler, statusHandler>>
  BY DEF stylusSessionStatusChanged, handlerVars
<1>2. statusEvents' \in [{"Active", "Closed"} -> Nat]
  BY <1>1 DEF SessionInv
<1> QED
  BY <1>1, <1>2 DEF SessionInv, Hidden

LEMMA SessionStep ==
  ASSUME SessionInv, [WinNext]_allVars
  PROVE  /\ SessionInv'
         /\ Hidden' => Hidden \/ stylusSessionStatusChanged("Active") \/ Visits
<1> USE DEF Goto, deviceVars, handlerVars, eventVars
<1> DEFINE
  Holds ==
    /\ SessionInv'
    /\ Hidden' => Hidden \/ stylusSessionStatusChanged("Active") \/ Visits
<1>1. CASE GetsServices
  <2>1. /\ mainAt' \in {"visit", "wait", "report"}
        /\ UNCHANGED <<valueHandler, statusHandler, sessionStatus, statusEvents>>
        /\ session' = "active" \/ session' = session
    BY <1>1 DEF GetsServices, Onward
  <2> QED
    BY <2>1 DEF SessionInv, Hidden
<1>2. CASE Visits
  <2>1. /\ mainAt' \in {"register", "visit", "wait", "report"}
        /\ UNCHANGED <<valueHandler, statusHandler, statusEvents>>
    BY <1>2 DEF Visits, Onward
  <2> QED
    BY <1>2, <2>1 DEF SessionInv
<1>3. CASE Registers
  BY <1>3 DEF Registers, SessionInv, Hidden
<1>4. CASE GetsResult
  <2>1. /\ mainAt = "result" /\ mainAt' \in {"visit", "wait", "report"}
        /\ UNCHANGED <<statusHandler, sessionStatus, session, statusEvents>>
        /\ session = "active" \/ valueHandler' = valueHandler
    BY <1>4 DEF GetsResult, Onward
  <2> QED
    BY <2>1 DEF SessionInv, Hidden
<1>5. CASE Waits
  <2>1. /\ mainAt' \in {"wait", "report"}
        /\ valueHandler' = valueHandler \/ valueHandler' = "none"
        /\ UNCHANGED <<statusHandler, sessionStatus, session, statusEvents>>
    BY <1>5 DEF Waits
  <2> QED
    BY <2>1 DEF SessionInv, Hidden
<1>6. CASE Closes \/ Catches
  BY <1>6, ReleaseKeeps DEF Closes, Catches
<1>7. CASE Prompts \/ GetsAddress \/ MainStarts \/ Asks \/ Decides \/ Connects \/ Others
  <2>1. /\ UNCHANGED <<valueHandler, statusHandler, sessionStatus, session,
                      statusEvents>>
        /\ \/ mainAt' = mainAt
           \/ mainAt' \in {"start", "exited", "ask", "connect", "services"}
    BY <1>7 DEF Prompts, GetsAddress, MainStarts, Asks, Decides, Connects,
                Others, winVars
  <2> QED
    BY <2>1 DEF SessionInv, Hidden
<1>8. ASSUME NEW t \in Pool, SampleArrives(t) \/ stylusValueHandler(t) PROVE Holds
  <2>1. UNCHANGED <<mainAt, valueHandler, statusHandler, sessionStatus, session,
                    statusEvents>>
    BY <1>8 DEF SampleArrives, stylusValueHandler
  <2> QED
    BY <2>1 DEF SessionInv, Hidden
<1>9. ASSUME NEW e \in {"Active", "Closed"}, stylusSessionStatusChanged(e) PROVE Holds
  BY <1>9, DeliveryKeeps
<1>10. CASE UNCHANGED allVars
  BY <1>10 DEF allVars, winVars, SessionInv, Hidden
<1>11. CASE Callbacks
  BY <1>8, <1>9, <1>11, ChangeKeeps DEF Callbacks
<1>12. CASE Loop
  BY <1>1, <1>2, <1>3, <1>4, <1>5, <1>6, <1>7, <1>12 DEF Loop
<1> QED
  BY <1>7, <1>10, <1>11, <1>12 DEF WinNext

(* "keep track of session status" (line 32): what hides the loss of a      *)
(* stylus that was found is the delivery of an Active event, which may be  *)
(* one of an earlier session, or main's own assignment for a service       *)
(* behind the stylus' (line 120); no failure or exception of a call, no    *)
(* order of the callbacks and no retry does it otherwise.                  *)
THEOREM LossIsSeenCorrect ==
  WinSpec => [][Hidden' => Hidden \/ stylusSessionStatusChanged("Active")
                             \/ Visits]_allVars
<1>1. WinInit => SessionInv
  BY DEF WinInit, SessionInv
<1>2. SessionInv /\ [WinNext]_allVars =>
        /\ SessionInv'
        /\ Hidden' => Hidden \/ stylusSessionStatusChanged("Active") \/ Visits
  BY SessionStep
<1>3. SessionInv /\ [WinNext]_allVars =>
        [Hidden' => Hidden \/ stylusSessionStatusChanged("Active") \/ Visits]_allVars
  BY <1>2
<1> QED
  BY <1>1, <1>2, <1>3, PTL DEF WinSpec
=============================================================================
