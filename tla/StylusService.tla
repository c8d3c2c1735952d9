---------------------------- MODULE StylusService ----------------------------
(***************************************************************************)
(* The firmware of the stylus (firmware/stylus_service.js): it samples the *)
(* angle sensor and two buttons, publishes changes as a notifying BLE      *)
(* characteristic, slows down when nothing happens and switches the radio  *)
(* off when nobody is connected either.                                    *)
(*                                                                         *)
(* The interpreter runs one callback at a time, so that a callback is one  *)
(* step; but the BLE link is run by the radio stack and may change between *)
(* the two times that updatePossition asks for its state.                  *)
(***************************************************************************)
EXTENDS Integers, Sequences

CONSTANTS
  Tokens,              (* what setTimeout may return                         *)
  Raw,                 (* readings of the sensor, 11 bits                    *)
  INACTIVE_THRESHOLD,
  MaxEdges             (* bound on the button edges that wait to be handled  *)

ASSUME ServiceAssumption ==
  /\ Tokens # {}
  /\ Raw \subseteq 0 .. 2047
  /\ INACTIVE_THRESHOLD \in Nat \ {0}
  /\ MaxEdges \in Nat

Buttons == {"BTN1", "pin_button"}
Rotations == 0 .. 1022
Bytes == 0 .. 255

VARIABLES
  MODE_SLEEP, timeoutToken, updateInterval, inactiveCounter,
  preRotation, preButton, btn, StylusData, spi,
  pending,    (* timeouts of updatePossition that have not fired             *)
  radio,      (* before the first activateBLE, after it, after NRF.sleep     *)
  connected,  (* NRF.getSecurityStatus().connected                           *)
  sent,       (* history: updateServices has been called                     *)
  pressed,    (* the buttons                                                 *)
  edges,      (* levels of the edges whose watch callback has not run        *)
  angle       (* what the sensor would answer                                *)

sampleVars == <<preRotation, preButton, StylusData, sent>>
powerVars  == <<MODE_SLEEP, updateInterval, inactiveCounter, radio>>
timerVars  == <<timeoutToken, pending>>
inputVars  == <<pressed, angle>>

vars == <<sampleVars, powerVars, timerVars, inputVars, btn, spi,
          connected, edges>>

TypeOK ==
  /\ MODE_SLEEP \in BOOLEAN
  /\ timeoutToken \in Tokens
  /\ updateInterval \in {"hi", "low"}
  /\ inactiveCounter \in 0 .. INACTIVE_THRESHOLD
  /\ preRotation \in Rotations
  /\ preButton \in BOOLEAN /\ btn \in BOOLEAN
  /\ StylusData \in Bytes \X Bytes
  /\ spi \in BOOLEAN
  /\ pending \subseteq Tokens
  /\ radio \in {"boot", "on", "off"}
  /\ connected \in BOOLEAN /\ sent \in BOOLEAN
  /\ pressed \in [Buttons -> BOOLEAN]
  /\ edges \in Seq(BOOLEAN)
  /\ angle \in Raw

Init ==
  /\ MODE_SLEEP = TRUE
  /\ timeoutToken \in Tokens
  /\ pending = {timeoutToken}
  /\ updateInterval = "hi"
  /\ inactiveCounter = 0
  /\ preRotation = 1
  /\ preButton = FALSE
  /\ btn = FALSE
  /\ StylusData = <<0, 0>>
  /\ spi = FALSE
  /\ radio = "boot"
  /\ connected = FALSE
  /\ sent = FALSE
  /\ pressed = [b \in Buttons |-> FALSE]
  /\ edges = <<>>
  /\ angle \in Raw

-----------------------------------------------------------------------------
(* The sensor and the message.                                             *)

(* The level of a button's pin: pin_button has a pull-up and is grounded   *)
(* when pressed.                                                           *)
Level(b, down) == IF b = "pin_button" THEN ~down ELSE down

Norm(a) == ((a % 1024) + 1023 - 326) % 1023

(* The loop until three readings agree, or the limit, ends with a reading  *)
(* the sensor gave during the callback.  Without spi the answer is 0.      *)
getRotation == IF spi THEN Norm(angle) ELSE 0

(* Two elements of a Uint8Array; the button is the top bit of the first.   *)
Pack_noButton(rotation, button) ==
  <<(rotation \div 256) % 256, rotation % 256>>
Pack(rotation, button) ==
  LET high == (rotation \div 256) % 256
  IN  << IF button THEN (high + 128) % 256 ELSE high,
         (rotation - 256 * high) % 256 >>

(* What the host makes of the two bytes: 10 bits of rotation, the button.  *)
Unpack(data) == [rotation |-> (data[1] % 4) * 256 + data[2],
                 button   |-> data[1] >= 128]

-----------------------------------------------------------------------------
(* updatePossition.                                                        *)

(* Activity: the new sample is remembered and published.                   *)
Active_stale(rotation, button) ==
  /\ rotation # preRotation \/ button # preButton
  /\ updateInterval' = "hi"
  /\ preRotation' = rotation
  /\ preButton' = button
  /\ inactiveCounter' = 0
  /\ StylusData' = Pack(preRotation, preButton)
  /\ sent' = TRUE
  /\ MODE_SLEEP' = FALSE
  /\ radio' = "on"

Active(rotation, button) ==
  /\ rotation # preRotation \/ button # preButton
  /\ updateInterval' = "hi"
  /\ preRotation' = rotation
  /\ preButton' = button
  /\ inactiveCounter' = 0
  /\ StylusData' = Pack(rotation, button)
  /\ sent' = TRUE
  /\ MODE_SLEEP' = FALSE
  /\ radio' = "on"

Count_restarts == (inactiveCounter + 1) % (INACTIVE_THRESHOLD + 1)
Count == IF inactiveCounter < INACTIVE_THRESHOLD THEN inactiveCounter + 1
         ELSE INACTIVE_THRESHOLD

(* Beyond the threshold a link means the long interval, no link means      *)
(* sleep; link is the second answer of getSecurityStatus.                  *)
SlowsDown(link) == inactiveCounter = INACTIVE_THRESHOLD /\ link

FallsAsleep_never(link) == FALSE
FallsAsleep(link) == inactiveCounter = INACTIVE_THRESHOLD /\ ~link

(* The radio after NRF.sleep.                                              *)
NRFsleep_forgotten == "on"
NRFsleep == "off"

Inactive(rotation, button, link) ==
  /\ rotation = preRotation /\ button = preButton
  /\ inactiveCounter' = Count
  /\ updateInterval' = IF SlowsDown(link) THEN "low" ELSE updateInterval
  /\ IF FallsAsleep(link) THEN MODE_SLEEP' = TRUE /\ radio' = NRFsleep
     ELSE MODE_SLEEP' = FALSE /\ radio' = "on"
  /\ UNCHANGED sampleVars

(* clearTimeout(timeoutToken) and setTimeout, unless the radio was put to  *)
(* sleep; left is what is pending besides the timeout that is running.     *)
Rearm_keeps(left) ==
  IF MODE_SLEEP'
  THEN pending' = left /\ UNCHANGED timeoutToken
  ELSE \E k \in Tokens \ left : /\ timeoutToken' = k
                                /\ pending' = left \cup {k}

Rearm(left) ==
  IF MODE_SLEEP'
  THEN pending' = left /\ UNCHANGED timeoutToken
  ELSE \E k \in Tokens \ (left \ {timeoutToken}) :
         /\ timeoutToken' = k
         /\ pending' = (left \ {timeoutToken}) \cup {k}

(* The link may change once while the callback runs, and NRF.sleep ends    *)
(* it.  The rotation is sampled only if there is a link.                   *)
UpdatePossition(left, button) ==
  \E link2 \in BOOLEAN : \E link1 \in {connected, link2} :
    LET rotation == IF link1 THEN getRotation ELSE preRotation
    IN  /\ Active(rotation, button) \/ Inactive(rotation, button, link2)
        /\ Rearm(left)
        /\ connected' = IF MODE_SLEEP' THEN FALSE ELSE link2

TimerFires(k) ==
  /\ k \in pending
  /\ UpdatePossition(pending \ {k}, btn)
  /\ UNCHANGED <<inputVars, btn, spi, edges>>

(* buttonActivity, the watch callback of both buttons.                     *)
ButtonActivity ==
  /\ edges # <<>>
  /\ edges' = Tail(edges)
  /\ btn' = Head(edges)
  /\ UpdatePossition(pending, Head(edges))
  /\ UNCHANGED <<inputVars, spi>>

(* The timeout of one second that sets up the sensor.                      *)
SpiStarts ==
  /\ ~spi
  /\ spi' = TRUE
  /\ UNCHANGED <<sampleVars, powerVars, timerVars, inputVars, btn,
                 connected, edges>>

-----------------------------------------------------------------------------
(* The user and the radio.                                                 *)

Toggle(b) ==
  /\ Len(edges) < MaxEdges
  /\ pressed' = [pressed EXCEPT ![b] = ~@]
  /\ edges' = Append(edges, Level(b, ~pressed[b]))
  /\ UNCHANGED <<sampleVars, powerVars, timerVars, angle, btn, spi,
                 connected>>

Turn ==
  /\ angle' \in Raw
  /\ UNCHANGED <<sampleVars, powerVars, timerVars, pressed, btn, spi,
                 connected, edges>>

LinkChanges ==
  /\ connected \/ radio # "off"
  /\ connected' = ~connected
  /\ UNCHANGED <<sampleVars, powerVars, timerVars, inputVars, btn, spi,
                 edges>>

Next ==
  \/ \E k \in Tokens : TimerFires(k)
  \/ ButtonActivity
  \/ SpiStarts
  \/ \E b \in Buttons : Toggle(b)
  \/ Turn
  \/ LinkChanges

Spec == Init /\ [][Next]_vars

(* A timeout fires, and an edge is handled: the interpreter is idle        *)
(* between callbacks and takes the next one.                               *)
Fairness ==
  /\ \A k \in Tokens : WF_vars(TimerFires(k))
  /\ WF_vars(ButtonActivity)
  /\ WF_vars(SpiStarts)

FairSpec == Spec /\ Fairness

-----------------------------------------------------------------------------
(* Properties.                                                             *)

(* "Make sure we only have one active timeout" (line 152), however button  *)
(* callbacks and timeouts interleave, and while the stylus is asleep too;  *)
(* and it never stops sampling while it believes to be awake.              *)
OneTimeout == pending \subseteq {timeoutToken}

AwakeMeansPolling == ~MODE_SLEEP => timeoutToken \in pending

TimeoutFollowsMode == OneTimeout /\ AwakeMeansPolling

(* The mode and the radio do not diverge: the service is offered exactly   *)
(* while the stylus is awake, and no link outlives NRF.sleep.  The long    *)
(* interval, and sleep, are reached only through a full count of idle      *)
(* updates; neither is left over once something has happened.              *)
RadioAgrees ==
  /\ ~MODE_SLEEP <=> radio = "on"
  /\ radio = "off" => ~connected

SlowMeansIdle ==
  updateInterval = "low" \/ radio = "off"
    => inactiveCounter = INACTIVE_THRESHOLD

RadioFollowsMode == RadioAgrees /\ SlowMeansIdle

(* The two published bytes decode, on the host, to the rotation and button *)
(* that later samples are compared with: a change is never mistaken for    *)
(* old news because the published value differs from the remembered one.   *)
PublishedIsRemembered ==
  sent => Unpack(StylusData) = [rotation |-> preRotation,
                                button |-> preButton]

(* A sleeping stylus stays asleep, also when a timeout that was pending    *)
(* when it fell asleep still fires, unless there is activity or a central. *)
OnlyActivityWakes ==
  [][radio = "off" /\ radio' # "off"
       => inactiveCounter' = 0 \/ connected']_vars

(* Left alone and without a central, the stylus ends up asleep.            *)
LeftAloneSleeps ==
  <>[](edges = <<>> /\ ~connected) => <>[]MODE_SLEEP

(* While a central stays connected and the sensor rests, the published     *)
(* value becomes that of the sensor and the last handled edge; unless      *)
(* nothing was ever sent and the sensor rests at preRotation's start.      *)
RestIsPublished ==
  \A a \in Raw :
    <>[](connected /\ spi /\ angle = a)
      => <>[](\/ Unpack(StylusData) = [rotation |-> Norm(a), button |-> btn]
              \/ ~sent /\ Norm(a) = 1)
=============================================================================
