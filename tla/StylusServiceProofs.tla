------------------------- MODULE StylusServiceProofs -------------------------
(***************************************************************************)
(* Proofs about StylusService, for every set of sensor readings, every     *)
(* threshold and any number of pending edges.                              *)
(***************************************************************************)
EXTENDS StylusService, TLAPS

(* Normalising a reading gives a rotation of at most 10 bits.              *)
LEMMA NormRange == \A a \in 0 .. 2047 : Norm(a) \in Rotations
  BY DEF Norm, Rotations

(* The host decodes what the stylus packed, for every rotation.            *)
LEMMA PackUnpack ==
  ASSUME NEW r \in Rotations, NEW b \in BOOLEAN
  PROVE  /\ Pack(r, b) \in Bytes \X Bytes
         /\ Unpack(Pack(r, b)) = [rotation |-> r, button |-> b]
<1> DEFINE high == (r \div 256) % 256
           data == Pack(r, b)
<1>1. r \in Int /\ 0 <= r /\ r <= 1022
  BY DEF Rotations
<1>2. high \in 0 .. 3 /\ r - 256 * high \in 0 .. 255
  BY <1>1
<1>3. /\ data[1] = IF b THEN high + 128 ELSE high
      /\ data[2] = r - 256 * high
      /\ data = << data[1], data[2] >>
  BY <1>2 DEF Pack
<1>4. data \in Bytes \X Bytes
  BY <1>2, <1>3 DEF Bytes
<1>5. data[1] % 4 = high
  BY <1>2, <1>3
<1>6. (data[1] >= 128) = b
  BY <1>2, <1>3
<1>7. (data[1] % 4) * 256 + data[2] = r
  <2>1. data[2] = r - 256 * high /\ high \in Int
    BY <1>2, <1>3
  <2> HIDE DEF data, high
  <2> QED
    BY <1>1, <1>5, <2>1
<1> QED
  BY <1>4, <1>6, <1>7 DEF Unpack

-----------------------------------------------------------------------------
(* The inductive invariant is the conjunction of the properties: each of   *)
(* them is kept by every callback on its own.                              *)
ServiceInv ==
  /\ TypeOK
  /\ OneTimeout
  /\ AwakeMeansPolling
  /\ RadioAgrees
  /\ SlowMeansIdle
  /\ PublishedIsRemembered

LEMMA ServiceInitially == Init => ServiceInv
<1> SUFFICES ASSUME Init PROVE ServiceInv
  OBVIOUS
<1>1. TypeOK
  <2>1. edges \in Seq(BOOLEAN)
    BY DEF Init
  <2>2. StylusData \in Bytes \X Bytes
    BY DEF Init, Bytes
  <2>3. pressed \in [Buttons -> BOOLEAN]
    BY DEF Init
  <2>4. preRotation \in Rotations
    BY DEF Init, Rotations
  <2>5. inactiveCounter \in 0 .. INACTIVE_THRESHOLD
    BY ServiceAssumption DEF Init
  <2>6. pending \subseteq Tokens /\ timeoutToken \in Tokens /\ angle \in Raw
    BY DEF Init
  <2> QED
    BY <2>1, <2>2, <2>3, <2>4, <2>5, <2>6 DEF Init, TypeOK
<1> QED
  BY <1>1
  DEF Init, ServiceInv, OneTimeout, AwakeMeansPolling, RadioAgrees,
      SlowMeansIdle, PublishedIsRemembered

(* Whatever calls updatePossition, with the timeouts left and the button   *)
(* state, the invariant's parts about its variables hold afterwards.       *)
LEMMA UpdateKeeps ==
  ASSUME ServiceInv, NEW left \in SUBSET pending, NEW button \in BOOLEAN,
         UpdatePossition(left, button)
  PROVE  /\ timeoutToken' \in Tokens /\ pending' \subseteq Tokens
         /\ inactiveCounter' \in 0 .. INACTIVE_THRESHOLD
         /\ preRotation' \in Rotations /\ preButton' \in BOOLEAN
         /\ updateInterval' \in {"hi", "low"} /\ radio' \in {"on", "off"}
         /\ MODE_SLEEP' \in BOOLEAN /\ connected' \in BOOLEAN
         /\ StylusData' \in Bytes \X Bytes /\ sent' \in BOOLEAN
         /\ OneTimeout' /\ AwakeMeansPolling' /\ RadioAgrees'
         /\ SlowMeansIdle' /\ PublishedIsRemembered'
<1>1. getRotation \in Rotations /\ preRotation \in Rotations
  <2>1. angle \in 0 .. 2047
    BY ServiceAssumption DEF ServiceInv, TypeOK
  <2>2. Norm(angle) \in Rotations
    BY <2>1, NormRange
  <2>3. 0 \in Rotations
    BY DEF Rotations
  <2> QED
    BY <2>2, <2>3 DEF getRotation, ServiceInv, TypeOK
<1>2. PICK link2 \in BOOLEAN, rotation \in Rotations :
        /\ Active(rotation, button) \/ Inactive(rotation, button, link2)
        /\ Rearm(left)
        /\ connected' = IF MODE_SLEEP' THEN FALSE ELSE link2
  <2>1. PICK link2 \in BOOLEAN, link1 \in BOOLEAN :
          LET rotation == IF link1 THEN getRotation ELSE preRotation
          IN  /\ Active(rotation, button) \/ Inactive(rotation, button, link2)
              /\ Rearm(left)
              /\ connected' = IF MODE_SLEEP' THEN FALSE ELSE link2
    <3>1. \A link2 \in BOOLEAN : {connected, link2} \subseteq BOOLEAN
      BY DEF ServiceInv, TypeOK
    <3> QED
      BY <3>1, Zenon DEF UpdatePossition
  <2>2. (IF link1 THEN getRotation ELSE preRotation) \in Rotations
    BY <1>1
  <2> QED
    BY <2>1, <2>2
<1>3. Active(rotation, button) \/ Inactive(rotation, button, link2)
  BY <1>2
<1>4. Rearm(left) /\ connected' = IF MODE_SLEEP' THEN FALSE ELSE link2
  BY <1>2
<1>5. /\ inactiveCounter' \in 0 .. INACTIVE_THRESHOLD
      /\ preRotation' \in Rotations /\ preButton' \in BOOLEAN
      /\ updateInterval' \in {"hi", "low"} /\ radio' \in {"on", "off"}
      /\ MODE_SLEEP' \in BOOLEAN /\ sent' \in BOOLEAN
      /\ (~MODE_SLEEP' <=> radio' = "on")
      /\ SlowMeansIdle'
  <2>1. CASE Active(rotation, button)
    <3>1. inactiveCounter' \in 0 .. INACTIVE_THRESHOLD
      BY <2>1, ServiceAssumption DEF Active
    <3>2. preRotation' \in Rotations /\ preButton' \in BOOLEAN
      BY <2>1 DEF Active
    <3>3. /\ updateInterval' = "hi" /\ radio' = "on"
          /\ MODE_SLEEP' = FALSE /\ sent' = TRUE
      BY <2>1 DEF Active
    <3>4. SlowMeansIdle'
      BY <3>3 DEF SlowMeansIdle
    <3>5. /\ MODE_SLEEP' \in BOOLEAN /\ sent' \in BOOLEAN
          /\ (~MODE_SLEEP' <=> radio' = "on")
          /\ updateInterval' \in {"hi", "low"} /\ radio' \in {"on", "off"}
      BY <3>3
    <3> QED
      BY <3>1, <3>2, <3>4, <3>5
  <2>2. CASE Inactive(rotation, button, link2)
    <3>1. /\ inactiveCounter' \in 0 .. INACTIVE_THRESHOLD
          /\ inactiveCounter = INACTIVE_THRESHOLD
               => inactiveCounter' = INACTIVE_THRESHOLD
      BY <2>2, ServiceAssumption DEF Inactive, Count, ServiceInv, TypeOK
    <3>2. /\ preRotation' \in Rotations /\ preButton' \in BOOLEAN
          /\ sent' \in BOOLEAN
      BY <2>2 DEF Inactive, sampleVars, ServiceInv, TypeOK
    <3>3. updateInterval' \in {"hi", "low"} /\ radio' \in {"on", "off"}
      BY <2>2 DEF Inactive, NRFsleep, ServiceInv, TypeOK
    <3>4. MODE_SLEEP' \in BOOLEAN /\ (~MODE_SLEEP' <=> radio' = "on")
      <4>1. CASE FallsAsleep(link2)
        <5>1. MODE_SLEEP' = TRUE /\ radio' = "off"
          BY <2>2, <4>1 DEF Inactive, NRFsleep
        <5> QED
          BY <5>1
      <4>2. CASE ~FallsAsleep(link2)
        <5>1. MODE_SLEEP' = FALSE /\ radio' = "on"
          BY <2>2, <4>2 DEF Inactive
        <5> QED
          BY <5>1
      <4> QED
        BY <4>1, <4>2
    <3>5. SlowMeansIdle'
      <4>1. ASSUME updateInterval' = "low" \/ radio' = "off"
            PROVE  inactiveCounter = INACTIVE_THRESHOLD
        BY <2>2, <4>1
        DEF Inactive, SlowsDown, FallsAsleep, SlowMeansIdle, ServiceInv
      <4> QED
        BY <3>1, <4>1 DEF SlowMeansIdle
    <3> QED
      BY <3>1, <3>2, <3>3, <3>4, <3>5
  <2> QED
    BY <1>3, <2>1, <2>2
<1>6. StylusData' \in Bytes \X Bytes /\ PublishedIsRemembered'
  <2>1. CASE Active(rotation, button)
    BY <2>1, PackUnpack DEF Active, PublishedIsRemembered
  <2>2. CASE Inactive(rotation, button, link2)
    BY <2>2 DEF Inactive, sampleVars, ServiceInv, TypeOK, PublishedIsRemembered
  <2> QED
    BY <1>3, <2>1, <2>2
<1>7. /\ timeoutToken' \in Tokens /\ pending' \subseteq Tokens
      /\ OneTimeout' /\ AwakeMeansPolling'
  BY <1>4 DEF Rearm, ServiceInv, TypeOK, OneTimeout, AwakeMeansPolling
<1>8. connected' \in BOOLEAN /\ RadioAgrees'
  <2>1. CASE MODE_SLEEP'
    <3>1. connected' = FALSE
      BY <1>4, <2>1
    <3> QED
      BY <1>5, <3>1 DEF RadioAgrees
  <2>2. CASE ~MODE_SLEEP'
    <3>1. connected' = link2
      BY <1>4, <2>2
    <3> QED
      BY <1>5, <2>2, <3>1 DEF RadioAgrees
  <2> QED
    BY <2>1, <2>2
<1> QED
  BY <1>5, <1>6, <1>7, <1>8

LEMMA ServiceStep == ServiceInv /\ [Next]_vars => ServiceInv'
<1> SUFFICES ASSUME ServiceInv, [Next]_vars PROVE ServiceInv'
  OBVIOUS
<1> USE DEF sampleVars, powerVars, timerVars, inputVars
<1>1. ASSUME NEW k \in Tokens, TimerFires(k) PROVE ServiceInv'
  <2>1. UpdatePossition(pending \ {k}, btn) /\ btn \in BOOLEAN
    BY <1>1 DEF TimerFires, ServiceInv, TypeOK
  <2> QED
    BY <1>1, <2>1, UpdateKeeps DEF TimerFires, ServiceInv, TypeOK
<1>2. CASE ButtonActivity
  <2>1. Head(edges) \in BOOLEAN /\ Tail(edges) \in Seq(BOOLEAN)
    BY <1>2 DEF ButtonActivity, ServiceInv, TypeOK
  <2>2. UpdatePossition(pending, Head(edges))
    BY <1>2 DEF ButtonActivity
  <2> QED
    BY <1>2, <2>1, <2>2, UpdateKeeps DEF ButtonActivity, ServiceInv, TypeOK
<1>3. CASE SpiStarts
  BY <1>3
  DEF SpiStarts, ServiceInv, TypeOK, OneTimeout, AwakeMeansPolling,
      RadioAgrees, SlowMeansIdle, PublishedIsRemembered
<1>4. ASSUME NEW b \in Buttons, Toggle(b) PROVE ServiceInv'
  <2>1. edges' \in Seq(BOOLEAN) /\ pressed' \in [Buttons -> BOOLEAN]
    <3>1. Level(b, ~pressed[b]) \in BOOLEAN
      BY DEF Level, ServiceInv, TypeOK
    <3>2. edges' \in Seq(BOOLEAN)
      BY <1>4, <3>1 DEF Toggle, ServiceInv, TypeOK
    <3>3. pressed' \in [Buttons -> BOOLEAN]
      BY <1>4 DEF Toggle, ServiceInv, TypeOK
    <3> QED
      BY <3>2, <3>3
  <2> QED
    BY <1>4, <2>1
    DEF Toggle, ServiceInv, TypeOK, OneTimeout, AwakeMeansPolling,
        RadioAgrees, SlowMeansIdle, PublishedIsRemembered
<1>5. CASE Turn
  BY <1>5
  DEF Turn, ServiceInv, TypeOK, OneTimeout, AwakeMeansPolling,
      RadioAgrees, SlowMeansIdle, PublishedIsRemembered
<1>6. CASE LinkChanges
  BY <1>6
  DEF LinkChanges, ServiceInv, TypeOK, OneTimeout, AwakeMeansPolling,
      RadioAgrees, SlowMeansIdle, PublishedIsRemembered
<1>7. CASE UNCHANGED vars
  BY <1>7
  DEF vars, ServiceInv, TypeOK, OneTimeout, AwakeMeansPolling,
      RadioAgrees, SlowMeansIdle, PublishedIsRemembered
<1> QED
  BY <1>1, <1>2, <1>3, <1>4, <1>5, <1>6, <1>7 DEF Next

(* There is never more than one timeout, and one while the stylus is awake: *)
(* for every set of timer numbers and every threshold.                     *)
THEOREM TimeoutCorrect == Spec => []TimeoutFollowsMode
<1>1. ServiceInv => TimeoutFollowsMode
  BY DEF ServiceInv, TimeoutFollowsMode
<1> QED
  BY <1>1, ServiceInitially, ServiceStep, PTL DEF Spec

(* Radio and mode agree, and only a full count of idle updates slows the   *)
(* stylus down or sends it to sleep, for every threshold.                  *)
THEOREM RadioCorrect == Spec => []RadioFollowsMode
<1>1. ServiceInv => RadioFollowsMode
  BY DEF ServiceInv, RadioFollowsMode
<1> QED
  BY <1>1, ServiceInitially, ServiceStep, PTL DEF Spec

(* What was published decodes, on the host, to what is remembered, for     *)
(* every set of sensor readings.                                           *)
THEOREM PublishedCorrect == Spec => []PublishedIsRemembered
<1>1. ServiceInv => PublishedIsRemembered
  BY DEF ServiceInv
<1> QED
  BY <1>1, ServiceInitially, ServiceStep, PTL DEF Spec

WakesByActivity ==
  radio = "off" /\ radio' # "off" => inactiveCounter' = 0 \/ connected'

LEMMA WakeStep == ServiceInv /\ [Next]_vars => WakesByActivity
<1> SUFFICES ASSUME ServiceInv, [Next]_vars PROVE WakesByActivity
  OBVIOUS
<1>1. ASSUME NEW left, NEW button, UpdatePossition(left, button)
      PROVE  WakesByActivity
  <2> SUFFICES ASSUME radio = "off", radio' # "off"
               PROVE  inactiveCounter' = 0 \/ connected'
    BY DEF WakesByActivity
  <2>1. PICK link \in BOOLEAN :
          /\ \E rotation : \/ Active(rotation, button)
                          \/ Inactive(rotation, button, link)
          /\ connected' = IF MODE_SLEEP' THEN FALSE ELSE link
    BY <1>1 DEF UpdatePossition
  <2>2. PICK rotation : \/ Active(rotation, button)
                        \/ Inactive(rotation, button, link)
    BY <2>1
  <2>3. CASE Active(rotation, button)
    BY <2>3 DEF Active
  <2>4. CASE Inactive(rotation, button, link)
    <3>1. ~FallsAsleep(link)
      BY <2>4 DEF Inactive, NRFsleep
    <3>2. link
      BY <3>1 DEF FallsAsleep, ServiceInv, SlowMeansIdle
    <3>3. ~MODE_SLEEP'
      BY <2>4, <3>1 DEF Inactive
    <3> QED
      BY <2>1, <3>2, <3>3
  <2> QED
    BY <2>2, <2>3, <2>4
<1>2. CASE UNCHANGED radio
  BY <1>2 DEF WakesByActivity
<1> QED
  BY <1>1, <1>2
  DEF Next, TimerFires, ButtonActivity, SpiStarts, Toggle, Turn, LinkChanges,
      vars, powerVars

(* A timeout left over from before the sleep, or an edge that repeats the  *)
(* last level, does not wake the stylus for longer than its own callback.  *)
THEOREM WakesOnlyByActivity == Spec => OnlyActivityWakes
<1>1. ServiceInv /\ [Next]_vars => [WakesByActivity]_vars
  BY WakeStep
<1>2. QED
  BY <1>1, ServiceInitially, ServiceStep, PTL
  DEF Spec, OnlyActivityWakes, WakesByActivity
=============================================================================
