------------------------------ MODULE SerialLink ------------------------------
(***************************************************************************)
(* The serial line between a host (uhaptikfabriken.h) and the haptic       *)
(* device (polhem_teensy.ino).  The host has no framing: it counts bytes.  *)
(* wait_online sends newlines until 63 bytes have come back, then every    *)
(* getPos takes the next 63 bytes for an answer.  The device answers each  *)
(* line, with 63 bytes once it got a force and with 64 bytes, the counters *)
(* of the encoders, before.  It may take longer than the host waits.       *)
(*                                                                         *)
(* A byte is the answer it belongs to and its place in it.  The places up  *)
(* to Fields hold the numbers, the others blanks.  The port is taken to be *)
(* in raw mode; the program leaves the mode as it is.                      *)
(***************************************************************************)
EXTENDS Quadrature, Sequences

CONSTANTS
  Fields, Blanks, (* bytes of a position answer: 60 and 3                    *)
  MaxSent,        (* bound on the messages                                   *)
  MaxProbes       (* bound on the newlines that wait for an answer           *)

ASSUME LinkAssumption ==
  Fields \in Nat \ {0} /\ Blanks \in Nat \ {0} /\ MaxSent \in Nat
    /\ MaxProbes \in Nat \ {0}

VARIABLES
  at,        (* where the host stands                                        *)
  toDevice,  (* the lines under way: the number of a message, or 0          *)
  toHost,    (* the bytes that the host has not read                         *)
  compute_and_apply_forces,
  sent,      (* the messages sent                                            *)
  taken,     (* the calls of getPos that have returned                       *)
  reading,   (* what the last of them has parsed                             *)
  late       (* history: has an answer come after the host's second?         *)

hostVars == <<at, sent, taken, reading, late>>
linkVars == <<hostVars, compute_and_apply_forces, toDevice, toHost>>
allVars == <<encoderVars, linkVars>>

Size == Fields + Blanks

Torn == [kind |-> "torn"]

LinkInit ==
  /\ EncoderInit
  /\ at = "opened"
  /\ toDevice = <<>> /\ toHost = <<>>
  /\ compute_and_apply_forces \in BOOLEAN
  /\ sent = 0 /\ taken = 0 /\ reading = Torn /\ late = FALSE

(* toChars.                                                                *)
Answer(a) ==
  [k \in 1 .. (IF a.kind = "encoders" THEN Size + 1 ELSE Size) |->
     [answer |-> a, place |-> k]]

(* fromChars: sscanf skips blanks and needs all fields of one answer.      *)
Parse(bytes) ==
  LET starts == {k \in 0 .. Len(bytes) - Fields :
                   /\ \A j \in 1 .. k : bytes[j].place > Fields
                   /\ \A j \in 1 .. Fields :
                        bytes[k + j] = [answer |-> bytes[k + 1].answer, place |-> j]}
  IN  IF starts = {} THEN Torn ELSE bytes[(CHOOSE k \in starts : TRUE) + 1].answer

-----------------------------------------------------------------------------
(* The host.                                                               *)

TransmitsProbe ==
  /\ at = "opened"
  /\ toDevice' = Append(toDevice, 0)
  /\ at' = "probing"
  /\ UNCHANGED <<encoderVars, compute_and_apply_forces, toHost, sent, taken, reading, late>>

Take(n) == toHost' = SubSeq(toHost, n + 1, Len(toHost))

ProbeSucceeds ==
  /\ at = "probing"
  /\ Len(toHost) >= Size
  /\ Take(Size)
  /\ at' = "online"
  /\ UNCHANGED <<encoderVars, compute_and_apply_forces, toDevice, sent, taken, reading, late>>

(* receive_bytes gives up after a second without input.                    *)
ProbeFails ==
  /\ at = "probing"
  /\ Len(toHost) < Size /\ Len(toDevice) < MaxProbes
  /\ toHost' = <<>>
  /\ at' = "opened"
  /\ late' = TRUE
  /\ UNCHANGED <<encoderVars, compute_and_apply_forces, toDevice, sent, taken, reading>>

(* The wakeup message of open, a force command, and setForce.              *)
Sends ==
  /\ at \in {"online", "ready"}
  /\ sent < MaxSent
  /\ toDevice' = Append(toDevice, sent + 1)
  /\ sent' = sent + 1
  /\ at' = "ready"
  /\ UNCHANGED <<encoderVars, compute_and_apply_forces, toHost, taken, reading, late>>

(* The caller asks for one position for each message.                      *)
GetPosBegins ==
  /\ at = "ready"
  /\ taken < sent
  /\ at' = "receiving"
  /\ UNCHANGED <<encoderVars, compute_and_apply_forces, toDevice, toHost, sent, taken,
                 reading, late>>

GetPosReturns ==
  /\ at = "receiving"
  /\ Len(toHost) >= Size
  /\ reading' = Parse(SubSeq(toHost, 1, Size))
  /\ Take(Size)
  /\ taken' = taken + 1
  /\ at' = "ready"
  /\ UNCHANGED <<encoderVars, compute_and_apply_forces, toDevice, sent, late>>

(* The buffer is parsed although the answer is not there, or not all of it. *)
GetPosTimesOut ==
  /\ at = "receiving"
  /\ Len(toHost) < Size
  /\ reading' = Torn
  /\ toHost' = <<>>
  /\ taken' = taken + 1
  /\ late' = TRUE
  /\ at' = "ready"
  /\ UNCHANGED <<encoderVars, compute_and_apply_forces, toDevice, sent>>

Host == TransmitsProbe \/ ProbeSucceeds \/ ProbeFails \/ Sends \/ GetPosBegins
          \/ GetPosReturns \/ GetPosTimesOut

-----------------------------------------------------------------------------
(* The device.                                                             *)

(* A newline alone holds no command, but is answered.                      *)
Replies(forces) ==
  /\ toHost' = toHost \o
       Answer([kind |-> IF forces THEN "position" ELSE "encoders",
               of |-> Head(toDevice),
               error |-> IF sure THEN counter - pos - offset ELSE 0])
  /\ toDevice' = Tail(toDevice)
  /\ compute_and_apply_forces' =
       (compute_and_apply_forces \/ Head(toDevice) # 0)
  /\ UNCHANGED <<encoderVars, hostVars>>

AnswersLine_before ==
  /\ toDevice # <<>>
  /\ Replies(compute_and_apply_forces)

AnswersLine ==
  /\ toDevice # <<>>
  /\ Replies(compute_and_apply_forces \/ Head(toDevice) # 0)

LinkNext == Host \/ AnswersLine \/ (EncoderNext /\ UNCHANGED linkVars)

LinkSpec == LinkInit /\ [][LinkNext]_allVars

-----------------------------------------------------------------------------
(* Properties.                                                             *)

(* While the device answers within the second, every getPos returns the    *)
(* position of the message it follows, whole and at most one step of the   *)
(* encoder off, although wait_online leaves the newline of an answer of 64 *)
(* bytes in the line and the messages may be ahead of the answers.         *)
AnswersInStep ==
  taken > 0 /\ ~late =>
    /\ reading.kind = "position"
    /\ reading.of = taken
    /\ reading.error \in -1 .. 1
=============================================================================
