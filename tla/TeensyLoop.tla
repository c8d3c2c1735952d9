------------------------------ MODULE TeensyLoop ------------------------------
(***************************************************************************)
(* The controller of the haptic device                                     *)
(* (tmp/winworks-2020-11-04/polhem_teensy.ino): loop() handles one line    *)
(* from the computer at a time, drives three motors and answers, while two *)
(* timers interrupt it: wdCallback, which disables the motors when no      *)
(* message has come for 100 ms, and the button.                            *)
(*                                                                         *)
(* A statement that touches what an interrupt touches is a step.  The      *)
(* counters of the encoders and the kinematics are left out: a current     *)
(* that computeMotorAmps finds is any of Amps.  Handling a message takes   *)
(* far less than 100 ms, so that the watchdog does not fire between its    *)
(* begin and the answer to the same message.                               *)
(***************************************************************************)
EXTENDS Integers

CONSTANT Amps  (* milliamps a message, or the kinematics, may ask for        *)

ASSUME AmpsAssumption == Amps \subseteq Int /\ Amps # {}

Motors == 0 .. 2
Kinds  == {"malformed", "calibrate", "force", "current"}

escon_max_milliamps == 6000
pwmMax == 8191

VARIABLES
  pc,         (* where loop() stands                                         *)
  msg,        (* the kind of the last line                                   *)
  i,          (* the motor that is written next                              *)
  milliamps,
  duty,       (* what analogWrite has set                                    *)
  enable_pin,
  force,      (* force_x_mN and its like: "zero", or "set" by a message      *)
  compute_and_apply_forces,
  wdTimer,    (* has the watchdog been started?                              *)
  ix0_button_flag,
  answer      (* the last answer                                             *)

motorVars == <<milliamps, duty, enable_pin>>
modeVars  == <<force, compute_and_apply_forces>>
vars == <<pc, msg, i, motorVars, modeVars, wdTimer, ix0_button_flag, answer>>

TypeOK ==
  /\ pc \in {"read", "calibrate", "force", "compute", "current", "enable",
             "arm", "write", "answer"}
  /\ msg \in Kinds
  /\ i \in Motors
  /\ milliamps \in [Motors -> Int]
  /\ duty \in [Motors -> Int]
  /\ enable_pin \in BOOLEAN
  /\ force \in {"zero", "set"}
  /\ compute_and_apply_forces \in BOOLEAN
  /\ wdTimer \in BOOLEAN
  /\ ix0_button_flag \in BOOLEAN
  /\ answer \in [position : BOOLEAN, info : BOOLEAN]

(* analogWrite's argument for a current, and the one for no current.       *)
DutyFor(ma) ==
  (pwmMax * (4 * ma + 5 * escon_max_milliamps)) \div (10 * escon_max_milliamps)
Neutral == pwmMax \div 2

(* setup() leaves the motors disabled and at no current.                   *)
Init ==
  /\ pc = "read"
  /\ msg = "malformed"
  /\ i = 0
  /\ milliamps = [m \in Motors |-> 0]
  /\ duty = [m \in Motors |-> Neutral]
  /\ enable_pin = FALSE
  /\ force = "zero"
  /\ compute_and_apply_forces = FALSE
  /\ wdTimer = FALSE
  /\ ix0_button_flag = FALSE
  /\ answer = [position |-> FALSE, info |-> FALSE]

-----------------------------------------------------------------------------
(* loop().                                                                 *)

Goto(from, to) == pc = from /\ pc' = to

(* A line is complete.  A malformed one is answered too.                   *)
Receives_feeds(kind) ==
  /\ Goto("read", IF kind = "malformed" THEN "arm" ELSE kind)
  /\ msg' = kind
  /\ i' = 0
  /\ milliamps' = [m \in Motors |-> 0]
  /\ UNCHANGED <<duty, enable_pin, modeVars, wdTimer, ix0_button_flag, answer>>

Receives(kind) ==
  /\ Goto("read", IF kind = "malformed" THEN "write" ELSE kind)
  /\ msg' = kind
  /\ i' = 0
  /\ milliamps' = [m \in Motors |-> 0]
  /\ UNCHANGED <<duty, enable_pin, modeVars, wdTimer, ix0_button_flag, answer>>

Calibrates ==
  /\ Goto("calibrate", "arm")
  /\ ix0_button_flag' = FALSE
  /\ UNCHANGED <<msg, i, motorVars, modeVars, wdTimer, answer>>

SetsForces ==
  /\ Goto("force", "compute")
  /\ force' = "set"
  /\ compute_and_apply_forces' = TRUE
  /\ UNCHANGED <<msg, i, motorVars, wdTimer, ix0_button_flag, answer>>

ComputesAmps ==
  /\ Goto("compute", "enable")
  /\ milliamps' \in [Motors -> Amps]
  /\ UNCHANGED <<msg, i, duty, enable_pin, modeVars, wdTimer, ix0_button_flag,
                 answer>>

SetsCurrents ==
  /\ Goto("current", "enable")
  /\ compute_and_apply_forces' = FALSE
  /\ milliamps' \in [Motors -> Amps]
  /\ UNCHANGED <<msg, i, duty, enable_pin, force, wdTimer, ix0_button_flag,
                 answer>>

Enables_last ==
  /\ Goto("enable", "write")
  /\ enable_pin' = TRUE
  /\ UNCHANGED <<msg, i, milliamps, duty, modeVars, wdTimer, ix0_button_flag,
                 answer>>

Enables ==
  /\ Goto("enable", "arm")
  /\ enable_pin' = TRUE
  /\ UNCHANGED <<msg, i, milliamps, duty, modeVars, wdTimer, ix0_button_flag,
                 answer>>

ArmsWatchdog ==
  /\ Goto("arm", "write")
  /\ wdTimer' = TRUE
  /\ UNCHANGED <<msg, i, motorVars, modeVars, ix0_button_flag, answer>>

(* A current beyond the limit becomes none.                                *)
Limit_negated(ma) == IF ma <= escon_max_milliamps THEN ma ELSE 0
Limit(ma) ==
  IF ma <= escon_max_milliamps /\ ma >= -escon_max_milliamps THEN ma ELSE 0

WritesMotor_unlimited ==
  /\ Goto("write", IF i = 2 THEN "answer" ELSE "write")
  /\ duty' = [duty EXCEPT ![i] = DutyFor(Limit(milliamps[i]))]
  /\ i' = IF i = 2 THEN 0 ELSE i + 1
  /\ UNCHANGED <<msg, milliamps, enable_pin, modeVars, wdTimer,
                 ix0_button_flag, answer>>

WritesMotor ==
  /\ Goto("write", IF i = 2 THEN "answer" ELSE "write")
  /\ milliamps' = [milliamps EXCEPT ![i] = Limit(@)]
  /\ duty' = [duty EXCEPT ![i] = DutyFor(milliamps'[i])]
  /\ i' = IF i = 2 THEN 0 ELSE i + 1
  /\ UNCHANGED <<msg, enable_pin, modeVars, wdTimer, ix0_button_flag, answer>>

(* The position, with the milliamps, or the encoders.                      *)
Answers ==
  /\ Goto("answer", "read")
  /\ answer' = [position |-> compute_and_apply_forces,
                info     |-> ix0_button_flag]
  /\ UNCHANGED <<msg, i, motorVars, modeVars, wdTimer, ix0_button_flag>>

loop ==
  \/ \E kind \in Kinds : Receives(kind)
  \/ Calibrates \/ SetsForces \/ ComputesAmps \/ SetsCurrents
  \/ Enables \/ ArmsWatchdog \/ WritesMotor \/ Answers

-----------------------------------------------------------------------------
(* The interrupts.                                                         *)

(* Between the begin of the timer and the answer there are less than 100 ms. *)
JustArmed == pc \in {"write", "answer"} /\ msg # "malformed"

(* The timer is periodic: it fires again while no message restarts it.     *)
wdCallback ==
  /\ wdTimer /\ ~JustArmed
  /\ enable_pin' = FALSE
  /\ duty' = [m \in Motors |-> Neutral]
  /\ force' = "zero"
  /\ UNCHANGED <<pc, msg, i, milliamps, compute_and_apply_forces, wdTimer,
                 ix0_button_flag, answer>>

calib_button ==
  /\ ix0_button_flag' = TRUE
  /\ UNCHANGED <<pc, msg, i, motorVars, modeVars, wdTimer, answer>>

Next == loop \/ wdCallback \/ calib_button

Spec == Init /\ [][Next]_vars

(* The processor runs; a timer fires if it is not restarted again and      *)
(* again.  Nobody promises a message.                                      *)
Fairness ==
  /\ WF_vars(loop /\ pc # "read")
  /\ WF_vars(wdCallback /\ pc # "arm")

FairSpec == Spec /\ Fairness

-----------------------------------------------------------------------------
(* Properties.                                                             *)

(* Whenever the motors are enabled the watchdog runs, or the very next     *)
(* statement of the loop starts it.                                        *)
EnabledIsWatched == enable_pin => wdTimer \/ pc = "arm"

(* 10 to 90 percent of the duty cycle.                                     *)
Allowed == 819 .. 7371

(* No message, however malformed, and no result of the kinematics drives a *)
(* motor beyond 10 to 90 percent of the duty cycle.                        *)
DutyIsLimited == \A m \in Motors : duty[m] \in Allowed

(* When an answer is sent, the milliamps that loop() has recorded are      *)
(* those the motors have been set to, although the watchdog may fire while *)
(* they are set; a line that asks for no current leaves none.              *)
RecordedIsApplied ==
  pc = "answer" =>
    /\ \A m \in Motors : duty[m] = DutyFor(milliamps[m])
    /\ msg \in {"malformed", "calibrate"} => \A m \in Motors : duty[m] = Neutral

(* "100ms timeout for next message" (line 594): when the computer falls    *)
(* silent, or sends only what cannot be parsed, the motors end disabled,   *)
(* without current or force, wherever the silence begins and however the   *)
(* watchdog interrupts the last message.                                   *)
Silence == pc = "read" \/ msg = "malformed"

SilenceStops ==
  <>[]Silence =>
    <>[](~enable_pin /\ force = "zero" /\ \A m \in Motors : duty[m] = Neutral)
=============================================================================
