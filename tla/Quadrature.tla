------------------------------ MODULE Quadrature ------------------------------
(***************************************************************************)
(* One of the incremental encoders of the haptic device, as the firmware   *)
(* follows it (polhem_teensy.ino).  A change of a channel's pin makes its  *)
(* interrupt pending; the handler, which may be served later, reads that   *)
(* one pin and looks the transition up in a table.  encoder_raw does not   *)
(* start as the pins are, so that the first transitions may be misread.    *)
(*                                                                         *)
(* A handler is in time: the other channel does not change while one waits *)
(* for its handler.                                                        *)
(***************************************************************************)
EXTENDS Integers

CONSTANT Positions  (* where the axis may stand, in steps of the encoder     *)

ASSUME PositionsAssumption == Positions \subseteq Int

VARIABLES
  pos,          (* the true position                                         *)
  pending,      (* the channels with an interrupt that is not served         *)
  encoder_raw,  (* the channels as last read                                 *)
  prev_state,   (* -1, or the state of the last transition                   *)
  counter,
  offset,       (* history: counter - pos at the calibration, or the start   *)
  seen,         (* history: the channels that have been read                 *)
  sure          (* history: had both been read, and served, at that moment?  *)

encoderVars == <<pos, pending, encoder_raw, prev_state, counter, offset, seen,
                 sure>>

Channels == {"A", "B"}

(* The order of the states is 00, 01, 11, 10, with A before B.             *)
Pin(c, p) == IF p % 4 \in (IF c = "A" THEN {2, 3} ELSE {1, 2}) THEN 1 ELSE 0

stable == <<0, 1, -1, 0, -1, 0, 0, 1, 1, 0, 0, -1, 0, -1, 1, 0>>
Step(from, to) == stable[4 * from + to + 1]

EncoderInit ==
  /\ pos \in Positions
  /\ pending = {}
  /\ encoder_raw = [c \in Channels |-> 0]
  /\ prev_state = -1
  /\ counter = 0
  /\ offset = counter - pos
  /\ seen = {} /\ sure = FALSE

(* The axis moves by one step, which changes one of the channels.          *)
Moves(d) ==
  /\ pos + d \in Positions
  /\ \E c \in Channels :
       /\ Pin(c, pos) # Pin(c, pos + d)
       /\ pending \subseteq {c}
       /\ pending' = {c}
  /\ pos' = pos + d
  /\ UNCHANGED <<encoder_raw, prev_state, counter, offset, seen, sure>>

State(raw) == 2 * raw["A"] + raw["B"]

encoder_callback_once(c) ==
  LET cur == State([encoder_raw EXCEPT ![c] = Pin(c, pos)])
      prev == IF prev_state < 0 THEN cur ELSE prev_state
  IN  /\ c \in pending
      /\ counter' = counter + Step(prev, cur)
      /\ prev_state' = cur
      /\ pending' = pending \ {c}
      /\ seen' = seen \cup {c}
      /\ UNCHANGED <<pos, encoder_raw, offset, sure>>

encoder_callback(c) ==
  LET raw == [encoder_raw EXCEPT ![c] = Pin(c, pos)]
      cur == State(raw)
      prev == IF prev_state < 0 THEN cur ELSE prev_state
  IN  /\ c \in pending
      /\ encoder_raw' = raw
      /\ counter' = counter + Step(prev, cur)
      /\ prev_state' = cur
      /\ pending' = pending \ {c}
      /\ seen' = seen \cup {c}
      /\ UNCHANGED <<pos, offset, sure>>

(* The calibration command writes the counter.                             *)
Calibrates(v) ==
  /\ counter' = v
  /\ offset' = v - pos
  /\ sure' = (seen = Channels /\ pending = {})
  /\ UNCHANGED <<pos, pending, encoder_raw, prev_state, seen>>

EncoderNext ==
  \/ \E d \in {-1, 1} : Moves(d)
  \/ \E c \in Channels : encoder_callback(c)
  \/ Calibrates(0)

EncoderSpec == EncoderInit /\ [][EncoderNext]_encoderVars

-----------------------------------------------------------------------------
Error == counter - pos - offset

(* After a calibration of an axis that had moved, the counter follows the  *)
(* axis exactly, but for the transition whose handler is still to come.    *)
(* Before one, the first transitions are misread because encoder_raw does  *)
(* not start as the pins are: they lose up to three steps, and no more are *)
(* lost later.                                                             *)
CountIsExact == sure => IF pending = {} THEN Error = 0 ELSE Error \in -1 .. 1

CounterFollows == CountIsExact /\ Error \in -4 .. 4
=============================================================================
