--------------------------- MODULE TeensyLoopProofs ---------------------------
(***************************************************************************)
(* Proofs about TeensyLoop: for every set of currents, the motors are      *)
(* driven within their limits, are watched while they are enabled, and     *)
(* what loop() records is what they are driven with.                       *)
(***************************************************************************)
EXTENDS TeensyLoop, TLAPS

(* Whatever is asked for, the duty is between 10 and 90 percent.           *)
LEMMA DutyRange ==
  \A ma \in Int : Limit(ma) \in Int /\ DutyFor(Limit(ma)) \in Allowed
  BY DEF Allowed, Limit, DutyFor, pwmMax, escon_max_milliamps

(* No current gives the duty that setup and the watchdog write.            *)
LEMMA NeutralRange ==
  Neutral \in Allowed /\ Neutral \in Int /\ DutyFor(0) = Neutral /\ Limit(0) = 0
  BY DEF Allowed, Limit, DutyFor, Neutral, pwmMax, escon_max_milliamps

LEMMA AmpsAreNumbers == [Motors -> Amps] \subseteq [Motors -> Int]
  <1>1. Amps \subseteq Int  BY AmpsAssumption
  <1> QED  BY <1>1

-----------------------------------------------------------------------------
(* What is known of a message on its way through loop().                   *)

NoCurrent == \A m \in Motors : milliamps[m] = 0

Route ==
  /\ pc = "calibrate" => msg = "calibrate"
  /\ pc \in {"force", "compute"} => msg = "force"
  /\ pc = "current" => msg = "current"
  /\ pc \in {"enable", "arm"} => msg # "malformed"
  /\ pc = "enable" => msg \in {"force", "current"}

ZeroAsked ==
  pc # "read" /\ msg \in {"malformed", "calibrate"} => NoCurrent

(* The motors before i have been written.                                  *)
Written ==
  /\ pc # "write" => i = 0
  /\ pc = "write" => \A m \in Motors : m < i => duty[m] = DutyFor(milliamps[m])
  /\ pc = "answer" => \A m \in Motors : duty[m] = DutyFor(milliamps[m])

LoopInv ==
  /\ TypeOK
  /\ EnabledIsWatched
  /\ DutyIsLimited
  /\ Route
  /\ ZeroAsked
  /\ Written

-----------------------------------------------------------------------------

LEMMA InitInv == Init => LoopInv
  <1> SUFFICES ASSUME Init PROVE LoopInv  OBVIOUS
  <1>1. TypeOK
    <2>1. Neutral \in Int  BY NeutralRange
    <2>2. /\ milliamps \in [Motors -> Int] /\ duty \in [Motors -> Int]
          /\ i \in Motors
      BY <2>1 DEF Init, Motors
    <2>3. answer \in [position : BOOLEAN, info : BOOLEAN]  BY DEF Init
    <2> QED  BY <2>2, <2>3 DEF Init, TypeOK, Kinds
  <1>2. DutyIsLimited  BY NeutralRange DEF Init, DutyIsLimited
  <1>3. EnabledIsWatched  BY DEF Init, EnabledIsWatched
  <1>4. Route /\ ZeroAsked /\ Written
    BY DEF Init, Route, ZeroAsked, Written, NoCurrent
  <1> QED  BY <1>1, <1>2, <1>3, <1>4 DEF LoopInv

LEMMA NextInv == LoopInv /\ [Next]_vars => LoopInv'
  <1> SUFFICES ASSUME LoopInv, [Next]_vars PROVE LoopInv'  OBVIOUS
  <1>t. TypeOK  BY DEF LoopInv
  <1>1. ASSUME NEW kind \in Kinds, Receives(kind) PROVE LoopInv'
    <2>1. milliamps' \in [Motors -> Int]  BY <1>1 DEF Receives
    <2>2. TypeOK'
      BY <1>t, <1>1, <2>1 DEF Receives, Goto, TypeOK, Motors, Kinds, modeVars
    <2>3. EnabledIsWatched' /\ DutyIsLimited'
      BY <1>1 DEF LoopInv, EnabledIsWatched, DutyIsLimited, Receives, Goto
    <2>4. Route'  BY <1>1 DEF Receives, Goto, Route, Kinds
    <2>5. ZeroAsked' /\ Written'
      BY <1>1 DEF Receives, Goto, ZeroAsked, NoCurrent, Written, Motors, Kinds
    <2> QED  BY <2>2, <2>3, <2>4, <2>5 DEF LoopInv
  <1>2. ASSUME Calibrates PROVE LoopInv'
    <2>1. TypeOK'
      BY <1>t, <1>2 DEF Calibrates, Goto, TypeOK, motorVars, modeVars
    <2> QED
      BY <1>2, <2>1 DEF LoopInv, Calibrates, Goto, EnabledIsWatched,
         DutyIsLimited, Route, ZeroAsked, NoCurrent, Written, motorVars
  <1>3. ASSUME SetsForces PROVE LoopInv'
    <2>1. TypeOK'  BY <1>t, <1>3 DEF SetsForces, Goto, TypeOK, motorVars
    <2> QED
      BY <1>3, <2>1 DEF LoopInv, SetsForces, Goto, EnabledIsWatched,
         DutyIsLimited, Route, ZeroAsked, NoCurrent, Written, motorVars
  <1>4. ASSUME ComputesAmps PROVE LoopInv'
    <2>1. milliamps' \in [Motors -> Int]
      BY <1>4, AmpsAreNumbers DEF ComputesAmps
    <2> QED
      BY <1>4, <2>1 DEF LoopInv, ComputesAmps, Goto, TypeOK, EnabledIsWatched,
         DutyIsLimited, Route, ZeroAsked, NoCurrent, Written, modeVars
  <1>5. ASSUME SetsCurrents PROVE LoopInv'
    <2>1. milliamps' \in [Motors -> Int]
      BY <1>5, AmpsAreNumbers DEF SetsCurrents
    <2>2. TypeOK'  BY <1>t, <1>5, <2>1 DEF SetsCurrents, Goto, TypeOK
    <2> QED
      BY <1>5, <2>2 DEF LoopInv, SetsCurrents, Goto, EnabledIsWatched,
         DutyIsLimited, Route, ZeroAsked, NoCurrent, Written
  <1>6. ASSUME Enables PROVE LoopInv'
    BY <1>6 DEF LoopInv, Enables, Goto, TypeOK, EnabledIsWatched,
       DutyIsLimited, Route, ZeroAsked, NoCurrent, Written, modeVars
  <1>7. ASSUME ArmsWatchdog PROVE LoopInv'
    <2>1. TypeOK'
      BY <1>t, <1>7 DEF ArmsWatchdog, Goto, TypeOK, motorVars, modeVars
    <2>2. Written'
      BY <1>7 DEF LoopInv, ArmsWatchdog, Goto, Written, Motors, motorVars
    <2> QED
      BY <1>7, <2>1, <2>2 DEF LoopInv, ArmsWatchdog, Goto, EnabledIsWatched,
         DutyIsLimited, Route, ZeroAsked, NoCurrent, motorVars
  <1>8. ASSUME WritesMotor PROVE LoopInv'
    <2>0. /\ i \in Motors /\ milliamps \in [Motors -> Int]
          /\ duty \in [Motors -> Int] /\ pc = "write"
      BY <1>t, <1>8 DEF TypeOK, WritesMotor, Goto
    <2>1. milliamps[i] \in Int  BY <2>0
    <2>1a. Limit(milliamps[i]) \in Int  BY <2>1, DutyRange
    <2>2. milliamps' = [milliamps EXCEPT ![i] = Limit(milliamps[i])]
      BY <1>8 DEF WritesMotor
    <2>3. milliamps' \in [Motors -> Int] /\ milliamps'[i] = Limit(milliamps[i])
      BY <2>0, <2>1a, <2>2
    <2>4. duty' = [duty EXCEPT ![i] = DutyFor(Limit(milliamps[i]))]
      BY <1>8, <2>3 DEF WritesMotor
    <2>5. DutyFor(Limit(milliamps[i])) \in Allowed
      BY <2>1, DutyRange, Zenon
    <2>5a. DutyFor(Limit(milliamps[i])) \in Int
      <3>1. \A n \in Allowed : n \in Int  BY DEF Allowed
      <3> QED  BY <2>5, <3>1, Zenon
    <2>6. duty' \in [Motors -> Int]  BY <2>0, <2>4, <2>5a
    <2>7. TypeOK'
      BY <1>t, <1>8, <2>3, <2>6
      DEF WritesMotor, Goto, TypeOK, Motors, Kinds, modeVars
    <2>8. DutyIsLimited'
      BY <2>0, <2>4, <2>5 DEF LoopInv, DutyIsLimited
    <2>9. EnabledIsWatched' /\ Route'
      BY <1>8 DEF LoopInv, EnabledIsWatched, Route, WritesMotor, Goto
    <2>10. ZeroAsked'
      BY <1>8, <2>0, <2>2, NeutralRange
      DEF LoopInv, ZeroAsked, NoCurrent, WritesMotor, Goto
    <2>11. \A m \in Motors : m <= i => duty'[m] = DutyFor(milliamps'[m])
      <3> SUFFICES ASSUME NEW m \in Motors, m <= i
                   PROVE  duty'[m] = DutyFor(milliamps'[m])
        OBVIOUS
      <3>1. CASE m = i  BY <3>1, <2>0, <2>3, <2>4
      <3>2. CASE m # i
        <4>1. duty[m] = DutyFor(milliamps[m])
          BY <3>2, <2>0 DEF LoopInv, Written, Motors
        <4>2. duty'[m] = duty[m] /\ milliamps'[m] = milliamps[m]
          BY <3>2, <2>0, <2>2, <2>4
        <4> QED  BY <4>1, <4>2
      <3> QED  BY <3>1, <3>2
    <2>12. Written'
      BY <1>8, <2>0, <2>11 DEF Written, WritesMotor, Goto, Motors
    <2> QED  BY <2>7, <2>8, <2>9, <2>10, <2>12 DEF LoopInv
  <1>9. ASSUME Answers PROVE LoopInv'
    <2>1. answer' \in [position : BOOLEAN, info : BOOLEAN]
      BY <1>9, <1>t DEF Answers, TypeOK
    <2> QED
      BY <1>9, <2>1 DEF LoopInv, Answers, Goto, TypeOK, EnabledIsWatched,
         DutyIsLimited, Route, ZeroAsked, NoCurrent, Written, motorVars, modeVars
  <1>10. ASSUME wdCallback PROVE LoopInv'
    <2>1. TypeOK'
      <3>1. duty' \in [Motors -> Int]
        BY <1>10, NeutralRange DEF wdCallback
      <3> QED  BY <1>t, <1>10, <3>1 DEF wdCallback, TypeOK
    <2>2. EnabledIsWatched'  BY <1>10 DEF wdCallback, EnabledIsWatched
    <2>3. DutyIsLimited'
      BY <1>10, NeutralRange DEF wdCallback, DutyIsLimited
    <2>4. Route' /\ ZeroAsked'
      BY <1>10 DEF LoopInv, wdCallback, Route, ZeroAsked, NoCurrent
    <2>5. pc \in {"write", "answer"} => NoCurrent
      BY <1>10 DEF LoopInv, ZeroAsked, wdCallback, JustArmed
    <2>6. Written'
      BY <1>10, <2>5, NeutralRange
      DEF LoopInv, wdCallback, Written, NoCurrent
    <2> QED  BY <2>1, <2>2, <2>3, <2>4, <2>6 DEF LoopInv
  <1>11. ASSUME calib_button PROVE LoopInv'
    BY <1>11 DEF LoopInv, calib_button, TypeOK, EnabledIsWatched,
       DutyIsLimited, Route, ZeroAsked, NoCurrent, Written, motorVars, modeVars
  <1>12. ASSUME UNCHANGED vars PROVE LoopInv'
    BY <1>12 DEF LoopInv, vars, TypeOK, EnabledIsWatched,
       DutyIsLimited, Route, ZeroAsked, NoCurrent, Written, motorVars, modeVars
  <1> QED
    BY <1>1, <1>2, <1>3, <1>4, <1>5, <1>6, <1>7, <1>8, <1>9, <1>10, <1>11, <1>12
    DEF Next, loop

LEMMA AnswersAreTrue == LoopInv => RecordedIsApplied
  BY NeutralRange DEF LoopInv, ZeroAsked, NoCurrent, Written, RecordedIsApplied

-----------------------------------------------------------------------------

(* The duty of each motor stays between 10 and 90 percent, for every       *)
(* current a message or the kinematics may ask for.                        *)
THEOREM DutyCorrect == Spec => []DutyIsLimited
  <1>1. LoopInv => DutyIsLimited  BY DEF LoopInv
  <1> QED  BY InitInv, NextInv, <1>1, PTL DEF Spec

(* The motors are enabled only under the watchdog, wherever it fires.      *)
THEOREM WatchedCorrect == Spec => []EnabledIsWatched
  <1>1. LoopInv => EnabledIsWatched  BY DEF LoopInv
  <1> QED  BY InitInv, NextInv, <1>1, PTL DEF Spec

(* When an answer is sent, the recorded currents are those of the motors.  *)
THEOREM ReportCorrect == Spec => []RecordedIsApplied
  BY InitInv, NextInv, AnswersAreTrue, PTL DEF Spec

(* Between two messages the motors are at the currents that were answered, *)
(* all of them, or the watchdog has stopped all of them: never a mixture,  *)
(* wherever it interrupted the three writes.                               *)
RestIsWhole ==
  pc = "read" =>
    \/ \A m \in Motors : duty[m] = DutyFor(milliamps[m])
    \/ ~enable_pin /\ force = "zero" /\ \A m \in Motors : duty[m] = Neutral

LEMMA RestStep == LoopInv /\ RestIsWhole /\ [Next]_vars => RestIsWhole'
<1> SUFFICES ASSUME LoopInv, RestIsWhole, [Next]_vars PROVE RestIsWhole'
  OBVIOUS
<1> USE DEF motorVars, modeVars
<1>1. CASE Answers
  <2>1. RecordedIsApplied /\ pc = "answer"
    BY <1>1, AnswersAreTrue DEF Answers, Goto
  <2> QED
    BY <1>1, <2>1 DEF Answers, Goto, RecordedIsApplied, RestIsWhole
<1>2. CASE wdCallback
  BY <1>2 DEF wdCallback, RestIsWhole
<1>3. CASE calib_button \/ UNCHANGED vars
  BY <1>3 DEF calib_button, vars, RestIsWhole
<1>4. CASE \/ \E kind \in Kinds : Receives(kind)
           \/ Calibrates \/ SetsForces \/ ComputesAmps \/ SetsCurrents
           \/ Enables \/ ArmsWatchdog \/ WritesMotor
  <2>1. pc' # "read"
    BY <1>4
    DEF Kinds, Receives, Calibrates, SetsForces, ComputesAmps, SetsCurrents,
        Enables, ArmsWatchdog, WritesMotor, Goto
  <2> QED
    BY <2>1 DEF RestIsWhole
<1> QED
  BY <1>1, <1>2, <1>3, <1>4 DEF Next, loop

(* The watchdog never leaves the motors of one message half replaced.      *)
THEOREM RestIsWholeCorrect == Spec => []RestIsWhole
<1>1. Init => RestIsWhole
  BY DEF Init, RestIsWhole, DutyFor, Neutral, pwmMax, escon_max_milliamps
<1> QED
  BY <1>1, InitInv, NextInv, RestStep, PTL DEF Spec
=============================================================================
