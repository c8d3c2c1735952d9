---------------------------- MODULE SerialLinkProofs ----------------------------
(***************************************************************************)
(* Proofs about Quadrature and SerialLink, for every set of positions and  *)
(* every length of an answer.                                              *)
(*                                                                         *)
(* The counter lags behind the axis by at most the one step whose handler  *)
(* is to come, but for a loss that is fixed once both channels have been   *)
(* read; before, the channel that was not read yet may make the other one  *)
(* count backwards.                                                        *)
(*                                                                         *)
(* The host, which only counts bytes, stays in step because every answer   *)
(* after wait_online has the length that it counts, and the one byte too   *)
(* many that may be left before is a blank.                                *)
(***************************************************************************)
EXTENDS SerialLink, SequenceTheorems, TLAPS

TypeOK ==
  /\ pos \in Int /\ counter \in Int /\ offset \in Int
  /\ prev_state \in {-1, 0, 1, 2, 3}
  /\ pending \subseteq Channels /\ seen \subseteq Channels
  /\ encoder_raw \in [Channels -> {0, 1}]
  /\ sure \in BOOLEAN

(* The encoder as it is at position p.                                     *)
RawAt(p) ==
  encoder_raw["A"] = Pin("A", p) /\ encoder_raw["B"] = Pin("B", p)

OneChannel == ~(("A" \in pending) /\ ("B" \in pending))

(* The channels as read are those of pos + e, with e = 0 unless a handler  *)
(* is to come, and the counter is that of pos + e but for the loss.        *)
Follows(loss) ==
  /\ prev_state = State(encoder_raw)
  /\ \E e \in {-1, 0, 1} :
       /\ RawAt(pos + e)
       /\ "A" \notin pending => Pin("A", pos + e) = Pin("A", pos)
       /\ "B" \notin pending => Pin("B", pos + e) = Pin("B", pos)
       /\ Error = loss + e

(* Nothing has been read.  Error is the way from a pin u to the pin now.   *)
Unread ==
  /\ seen = {} /\ prev_state = -1
  /\ encoder_raw["A"] = 0 /\ encoder_raw["B"] = 0
  /\ pending = {} => Error = 0
  /\ "A" \in pending =>
       \E u \in {0, 1} : Error = IF Pin("B", pos) = 1 THEN u - Pin("A", pos)
                                 ELSE Pin("A", pos) - u
  /\ "B" \in pending =>
       \E u \in {0, 1} : Error = IF Pin("A", pos) = 0 THEN u - Pin("B", pos)
                                 ELSE Pin("B", pos) - u

(* One channel has been read, the other is 1 and taken for 0: the first    *)
(* one counts backwards.                                                   *)
BackwardsA ==
  /\ seen = {"A"} /\ "B" \notin pending
  /\ prev_state = State(encoder_raw)
  /\ Pin("B", pos) = 1 /\ encoder_raw["B"] = 0
  /\ "A" \notin pending => encoder_raw["A"] = Pin("A", pos)
  /\ \E m \in {0, 1, 2} : Error = m - encoder_raw["A"] - Pin("A", pos)

BackwardsB ==
  /\ seen = {"B"} /\ "A" \notin pending
  /\ prev_state = State(encoder_raw)
  /\ Pin("A", pos) = 1 /\ encoder_raw["A"] = 0
  /\ "B" \notin pending => encoder_raw["B"] = Pin("B", pos)
  /\ \E m \in {0, 1, 2} : Error = encoder_raw["B"] + Pin("B", pos) - m

Losses == {-3, -2, -1, 0, 1, 2, 3}

Phase ==
  \/ Unread \/ BackwardsA \/ BackwardsB
  \/ seen # {} /\ \E loss \in Losses : Follows(loss)

EncoderInv ==
  /\ TypeOK
  /\ OneChannel
  /\ Phase
  /\ sure => seen = Channels /\ Follows(0)

-----------------------------------------------------------------------------
(* The order of the states.                                                *)

(* The channels at neighbouring positions: one of them changes.            *)
LEMMA Neighbours ==
  ASSUME NEW p \in Int
  PROVE  \/ /\ Pin("A", p) = 0 /\ Pin("B", p) = 0
            /\ Pin("A", p + 1) = 0 /\ Pin("B", p + 1) = 1
            /\ Pin("A", p - 1) = 1 /\ Pin("B", p - 1) = 0
         \/ /\ Pin("A", p) = 0 /\ Pin("B", p) = 1
            /\ Pin("A", p + 1) = 1 /\ Pin("B", p + 1) = 1
            /\ Pin("A", p - 1) = 0 /\ Pin("B", p - 1) = 0
         \/ /\ Pin("A", p) = 1 /\ Pin("B", p) = 1
            /\ Pin("A", p + 1) = 1 /\ Pin("B", p + 1) = 0
            /\ Pin("A", p - 1) = 0 /\ Pin("B", p - 1) = 1
         \/ /\ Pin("A", p) = 1 /\ Pin("B", p) = 0
            /\ Pin("A", p + 1) = 0 /\ Pin("B", p + 1) = 0
            /\ Pin("A", p - 1) = 1 /\ Pin("B", p - 1) = 1
<1>1. p % 4 \in 0 .. 3
  OBVIOUS
<1>2. CASE p % 4 = 0
  <2>1. (p + 1) % 4 = 1 /\ (p - 1) % 4 = 3
    BY <1>2
  <2> QED
    BY <1>2, <2>1 DEF Pin
<1>3. CASE p % 4 = 1
  <2>1. (p + 1) % 4 = 2 /\ (p - 1) % 4 = 0
    BY <1>3
  <2> QED
    BY <1>3, <2>1 DEF Pin
<1>4. CASE p % 4 = 2
  <2>1. (p + 1) % 4 = 3 /\ (p - 1) % 4 = 1
    BY <1>4
  <2> QED
    BY <1>4, <2>1 DEF Pin
<1>5. CASE p % 4 = 3
  <2>1. (p + 1) % 4 = 0 /\ (p - 1) % 4 = 2
    BY <1>5
  <2> QED
    BY <1>5, <2>1 DEF Pin
<1> QED
  BY <1>1, <1>2, <1>3, <1>4, <1>5

LEMMA StepTable ==
  /\ Step(0, 0) = 0 /\ Step(1, 1) = 0 /\ Step(2, 2) = 0 /\ Step(3, 3) = 0
  /\ Step(0, 1) = 1 /\ Step(1, 3) = 1 /\ Step(3, 2) = 1 /\ Step(2, 0) = 1
  /\ Step(1, 0) = -1 /\ Step(3, 1) = -1 /\ Step(2, 3) = -1 /\ Step(0, 2) = -1
  BY DEF Step, stable

LEMMA StepRange ==
  \A from, to \in {0, 1, 2, 3} : Step(from, to) \in {-1, 0, 1}
<1> SUFFICES ASSUME NEW from \in {0, 1, 2, 3}, NEW to \in {0, 1, 2, 3}
             PROVE  Step(from, to) \in {-1, 0, 1}
  OBVIOUS
<1>1. CASE from = 0
  BY <1>1 DEF Step, stable
<1>2. CASE from = 1
  BY <1>2 DEF Step, stable
<1>3. CASE from = 2
  BY <1>3 DEF Step, stable
<1>4. CASE from = 3
  BY <1>4 DEF Step, stable
<1> QED
  BY <1>1, <1>2, <1>3, <1>4

(* The counter after a handler, from the state that was read before.       *)
LEMMA CallbackEffect ==
  ASSUME TypeOK, NEW c \in Channels, encoder_callback(c)
  PROVE  /\ c \in pending /\ pending' = pending \ {c} /\ seen' = seen \cup {c}
         /\ pos' = pos /\ offset' = offset /\ sure' = sure
         /\ encoder_raw' = [encoder_raw EXCEPT ![c] = Pin(c, pos)]
         /\ prev_state' = State(encoder_raw')
         /\ counter' = counter +
              Step(IF prev_state < 0 THEN prev_state' ELSE prev_state, prev_state')
  BY DEF encoder_callback

LEMMA PinRange == \A c \in Channels, p \in Int : Pin(c, p) \in {0, 1}
  BY DEF Pin

LEMMA EncoderInitially == EncoderInit => EncoderInv
<1> SUFFICES ASSUME EncoderInit PROVE EncoderInv
  OBVIOUS
<1>1. pos \in Int /\ offset \in Int /\ Error = 0
  BY PositionsAssumption DEF EncoderInit, Error
<1>2. TypeOK
  <2>1. encoder_raw \in [Channels -> {0, 1}]
    BY DEF EncoderInit
  <2>2. counter \in Int /\ prev_state \in {-1, 0, 1, 2, 3}
    BY DEF EncoderInit
  <2>3. pending = {} /\ seen = {} /\ sure = FALSE
    BY DEF EncoderInit
  <2> QED
    BY <1>1, <2>1, <2>2, <2>3 DEF TypeOK
<1>3. Unread
  BY <1>1 DEF EncoderInit, Unread, Channels
<1> QED
  BY <1>2, <1>3 DEF EncoderInit, EncoderInv, OneChannel, Phase

-----------------------------------------------------------------------------
(* A move of the axis.                                                     *)

LEMMA MoveTypes ==
  ASSUME TypeOK, OneChannel, NEW d \in {-1, 1}, Moves(d)
  PROVE  /\ TypeOK' /\ OneChannel'
         /\ pos' = pos + d /\ Error' = Error - d /\ Error \in Int
         /\ \/ /\ pending \subseteq {"A"} /\ pending' = {"A"}
               /\ Pin("A", pos) # Pin("A", pos + d)
            \/ /\ pending \subseteq {"B"} /\ pending' = {"B"}
               /\ Pin("B", pos) # Pin("B", pos + d)
         /\ UNCHANGED <<encoder_raw, prev_state, counter, offset, seen, sure>>
<1>1. pos' \in Int /\ pos' = pos + d
  BY DEF Moves, TypeOK
<1>2. /\ pending' \subseteq Channels
      /\ \/ /\ pending \subseteq {"A"} /\ pending' = {"A"}
            /\ Pin("A", pos) # Pin("A", pos + d)
         \/ /\ pending \subseteq {"B"} /\ pending' = {"B"}
            /\ Pin("B", pos) # Pin("B", pos + d)
  BY DEF Moves, Channels
<1>3. UNCHANGED <<encoder_raw, prev_state, counter, offset, seen, sure>>
  BY DEF Moves
<1>4. TypeOK'
  BY <1>1, <1>2, <1>3 DEF TypeOK
<1>5. OneChannel'
  BY <1>2 DEF OneChannel
<1>6. Error' = Error - d /\ Error \in Int
  BY <1>1, <1>3 DEF Error, TypeOK
<1> QED
  BY <1>1, <1>2, <1>3, <1>4, <1>5, <1>6

LEMMA MoveFollows ==
  ASSUME TypeOK, OneChannel, NEW d \in {-1, 1}, Moves(d),
         NEW loss \in Losses, Follows(loss)
  PROVE  Follows(loss)'
<1>1. PICK e \in {-1, 0, 1} :
        /\ RawAt(pos + e)
        /\ "A" \notin pending => Pin("A", pos + e) = Pin("A", pos)
        /\ "B" \notin pending => Pin("B", pos + e) = Pin("B", pos)
        /\ Error = loss + e
  BY DEF Follows
<1>2. pos \in Int
  BY DEF TypeOK
<1>3. e - d \in {-1, 0, 1}
  BY <1>1, <1>2, Neighbours, MoveTypes
<1>4. (pos + d) + (e - d) = pos + e
  BY <1>2
<1>5. RawAt((pos + d) + (e - d))
  BY <1>1, <1>4
<1>6. /\ "A" \notin pending' => Pin("A", pos + e) = Pin("A", pos + d)
      /\ "B" \notin pending' => Pin("B", pos + e) = Pin("B", pos + d)
  BY <1>1, <1>2, Neighbours, MoveTypes
<1>7. Error' = loss + (e - d)
  BY <1>1, MoveTypes DEF Losses
<1>8. prev_state' = State(encoder_raw') /\ pos' = pos + d
  BY MoveTypes DEF Follows
<1>9. pos' + (e - d) = pos + e /\ encoder_raw' = encoder_raw
  BY <1>4, <1>8, MoveTypes
<1> DEFINE f == e - d
<1>10. /\ encoder_raw'["A"] = Pin("A", pos' + f)
       /\ encoder_raw'["B"] = Pin("B", pos' + f)
  BY <1>1, <1>9 DEF RawAt
<1>11. /\ "A" \notin pending' => Pin("A", pos' + f) = Pin("A", pos')
       /\ "B" \notin pending' => Pin("B", pos' + f) = Pin("B", pos')
  BY <1>6, <1>8, <1>9
<1>12. f \in {-1, 0, 1} /\ Error' = loss + f
  BY <1>3, <1>7
<1> HIDE DEF f
<1> QED
  BY <1>8, <1>10, <1>11, <1>12 DEF Follows, RawAt

(* The four phases after a move.                                           *)
LEMMA MoveUnread ==
  ASSUME TypeOK, OneChannel, NEW d \in {-1, 1}, Moves(d), Unread
  PROVE  Unread'
<1>1. /\ pos \in Int /\ pos' = pos + d /\ Error' = Error - d /\ Error \in Int
      /\ UNCHANGED <<encoder_raw, prev_state, seen>>
  BY MoveTypes DEF TypeOK
<1>2. /\ Pin("A", pos) \in {0, 1} /\ Pin("B", pos) \in {0, 1}
      /\ Pin("A", pos + d) \in {0, 1} /\ Pin("B", pos + d) \in {0, 1}
  BY <1>1, PinRange DEF Channels
<1>3. CASE pending \subseteq {"A"} /\ pending' = {"A"}
             /\ Pin("A", pos) # Pin("A", pos + d)
  <2>1. PICK u \in {0, 1} : Error = IF Pin("B", pos) = 1
                                   THEN u - Pin("A", pos) ELSE Pin("A", pos) - u
    <3>1. CASE pending = {}
      <4>1. Error = 0
        BY <3>1 DEF Unread
      <4> QED
        BY <1>2, <4>1
    <3>2. CASE "A" \in pending
      BY <3>2 DEF Unread
    <3> QED
      BY <1>3, <3>1, <3>2
  <2>2. Error - d = IF Pin("B", pos + d) = 1
                    THEN u - Pin("A", pos + d) ELSE Pin("A", pos + d) - u
    BY <1>1, <1>3, <2>1, Neighbours
  <2> QED
    BY <1>1, <1>3, <2>2 DEF Unread
<1>4. CASE pending \subseteq {"B"} /\ pending' = {"B"}
             /\ Pin("B", pos) # Pin("B", pos + d)
  <2>1. PICK u \in {0, 1} : Error = IF Pin("A", pos) = 0
                                   THEN u - Pin("B", pos) ELSE Pin("B", pos) - u
    <3>1. CASE pending = {}
      <4>1. Error = 0
        BY <3>1 DEF Unread
      <4> QED
        BY <1>2, <4>1
    <3>2. CASE "B" \in pending
      BY <3>2 DEF Unread
    <3> QED
      BY <1>4, <3>1, <3>2
  <2>2. Error - d = IF Pin("A", pos + d) = 0
                    THEN u - Pin("B", pos + d) ELSE Pin("B", pos + d) - u
    BY <1>1, <1>4, <2>1, Neighbours
  <2> QED
    BY <1>1, <1>4, <2>2 DEF Unread
<1> QED
  BY <1>3, <1>4, MoveTypes

LEMMA MoveBackwardsA ==
  ASSUME TypeOK, OneChannel, NEW d \in {-1, 1}, Moves(d), BackwardsA
  PROVE  BackwardsA' \/ \E loss \in Losses : Follows(loss)'
<1>1. /\ pos \in Int /\ pos' = pos + d /\ Error' = Error - d /\ Error \in Int
      /\ UNCHANGED <<encoder_raw, prev_state, seen>>
      /\ encoder_raw["A"] \in {0, 1}
  BY MoveTypes DEF TypeOK, Channels
<1>2. PICK m \in {0, 1, 2} : Error = m - encoder_raw["A"] - Pin("A", pos)
  BY DEF BackwardsA
<1>3. CASE pending' = {"A"} /\ Pin("A", pos) # Pin("A", pos + d)
  <2>1. /\ Pin("B", pos + d) = 1
        /\ Error - d = m - encoder_raw["A"] - Pin("A", pos + d)
    BY <1>1, <1>2, <1>3, Neighbours DEF BackwardsA
  <2> QED
    BY <1>1, <1>3, <2>1 DEF BackwardsA
<1>4. CASE pending \subseteq {"B"} /\ pending' = {"B"}
             /\ Pin("B", pos) # Pin("B", pos + d)
  <2>1. encoder_raw["A"] = Pin("A", pos) /\ encoder_raw["B"] = 0
    BY <1>4 DEF BackwardsA
  <2>2. Pin("A", pos + d) = Pin("A", pos) /\ Pin("B", pos + d) = 0
    BY <1>1, <1>4, Neighbours DEF BackwardsA
  <2>3. Pin("A", pos) \in {0, 1}
    BY <1>1, <2>1
  <2>4. Error - d \in Losses
    BY <1>2, <2>1, <2>3 DEF Losses
  <2>5. PICK loss \in Losses : Error' = loss + 0
    BY <1>1, <2>4 DEF Losses
  <2>6. prev_state' = State(encoder_raw')
    BY <1>1 DEF BackwardsA
  <2>7. pos' + 0 = pos'
    BY <1>1
  <2>8. /\ encoder_raw'["A"] = Pin("A", pos' + 0)
        /\ encoder_raw'["B"] = Pin("B", pos' + 0)
        /\ Pin("A", pos' + 0) = Pin("A", pos')
        /\ Pin("B", pos' + 0) = Pin("B", pos')
    BY <1>1, <2>1, <2>2, <2>7
  <2>9. Follows(loss)'
    BY <2>5, <2>6, <2>8 DEF Follows, RawAt
  <2> QED
    BY <2>9
<1> QED
  BY <1>3, <1>4, MoveTypes

LEMMA MoveBackwardsB ==
  ASSUME TypeOK, OneChannel, NEW d \in {-1, 1}, Moves(d), BackwardsB
  PROVE  BackwardsB' \/ \E loss \in Losses : Follows(loss)'
<1>1. /\ pos \in Int /\ pos' = pos + d /\ Error' = Error - d /\ Error \in Int
      /\ UNCHANGED <<encoder_raw, prev_state, seen>>
      /\ encoder_raw["B"] \in {0, 1}
  BY MoveTypes DEF TypeOK, Channels
<1>2. PICK m \in {0, 1, 2} : Error = encoder_raw["B"] + Pin("B", pos) - m
  BY DEF BackwardsB
<1>3. CASE pending' = {"B"} /\ Pin("B", pos) # Pin("B", pos + d)
  <2>0. /\ Pin("A", pos + d) = 1 /\ Pin("B", pos) \in {0, 1}
        /\ Pin("B", pos + d) = Pin("B", pos) - d
    BY <1>1, <1>3, Neighbours DEF BackwardsB
  <2>1. /\ Pin("A", pos + d) = 1
        /\ Error - d = encoder_raw["B"] + Pin("B", pos + d) - m
    BY <1>1, <1>2, <2>0
  <2> QED
    BY <1>1, <1>3, <2>1 DEF BackwardsB
<1>4. CASE pending \subseteq {"A"} /\ pending' = {"A"}
             /\ Pin("A", pos) # Pin("A", pos + d)
  <2>1. encoder_raw["B"] = Pin("B", pos) /\ encoder_raw["A"] = 0
    BY <1>4 DEF BackwardsB
  <2>2. Pin("B", pos + d) = Pin("B", pos) /\ Pin("A", pos + d) = 0
    BY <1>1, <1>4, Neighbours DEF BackwardsB
  <2>3. Pin("B", pos) \in {0, 1}
    BY <1>1, <2>1
  <2>4. Error - d \in Losses
    BY <1>2, <2>1, <2>3 DEF Losses
  <2>5. PICK loss \in Losses : Error' = loss + 0
    BY <1>1, <2>4 DEF Losses
  <2>6. prev_state' = State(encoder_raw')
    BY <1>1 DEF BackwardsB
  <2>7. pos' + 0 = pos'
    BY <1>1
  <2>8. /\ encoder_raw'["A"] = Pin("A", pos' + 0)
        /\ encoder_raw'["B"] = Pin("B", pos' + 0)
        /\ Pin("A", pos' + 0) = Pin("A", pos')
        /\ Pin("B", pos' + 0) = Pin("B", pos')
    BY <1>1, <2>1, <2>2, <2>7
  <2>9. Follows(loss)'
    BY <2>5, <2>6, <2>8 DEF Follows, RawAt
  <2> QED
    BY <2>9
<1> QED
  BY <1>3, <1>4, MoveTypes

LEMMA MoveKeeps ==
  ASSUME EncoderInv, NEW d \in {-1, 1}, Moves(d)
  PROVE  EncoderInv'
<1> USE DEF EncoderInv
<1>1. TypeOK' /\ OneChannel' /\ seen' = seen /\ sure' = sure
  BY MoveTypes
<1>2. CASE Unread
  BY <1>1, <1>2, MoveUnread DEF Phase, Unread, Channels
<1>3. CASE BackwardsA
  <2>1. seen # {} /\ seen # Channels
    BY <1>3 DEF BackwardsA, Channels
  <2> QED
    BY <1>1, <1>3, <2>1, MoveBackwardsA DEF Phase
<1>4. CASE BackwardsB
  <2>1. seen # {} /\ seen # Channels
    BY <1>4 DEF BackwardsB, Channels
  <2> QED
    BY <1>1, <1>4, <2>1, MoveBackwardsB DEF Phase
<1>5. ASSUME seen # {}, NEW loss \in Losses, Follows(loss) PROVE EncoderInv'
  <2>1. Follows(loss)'
    BY <1>5, MoveFollows
  <2>2. sure => Follows(0)'
    BY MoveFollows DEF Losses
  <2> QED
    BY <1>1, <1>5, <2>1, <2>2 DEF Phase
<1> QED
  BY <1>2, <1>3, <1>4, <1>5 DEF Phase

-----------------------------------------------------------------------------
(* A handler.                                                              *)

LEMMA CallbackTypes ==
  ASSUME TypeOK, OneChannel, NEW c \in Channels, encoder_callback(c)
  PROVE  /\ TypeOK' /\ OneChannel'
         /\ pending = {c} /\ pending' = {} /\ seen' = seen \cup {c}
         /\ pos' = pos /\ sure' = sure
         /\ encoder_raw'[c] = Pin(c, pos)
         /\ \A o \in Channels : o # c => encoder_raw'[o] = encoder_raw[o]
         /\ prev_state' = State(encoder_raw')
         /\ Error \in Int
         /\ Error' = Error +
              Step(IF prev_state < 0 THEN prev_state' ELSE prev_state, prev_state')
<1>1. pos \in Int /\ Pin(c, pos) \in {0, 1}
  BY PinRange DEF TypeOK
<1>2. pending = {c} /\ pending' = {}
  BY CallbackEffect DEF TypeOK, OneChannel, Channels
<1>3. /\ encoder_raw' \in [Channels -> {0, 1}]
      /\ encoder_raw'[c] = Pin(c, pos)
      /\ \A o \in Channels : o # c => encoder_raw'[o] = encoder_raw[o]
  BY <1>1, CallbackEffect DEF TypeOK
<1>4. encoder_raw'["A"] \in {0, 1} /\ encoder_raw'["B"] \in {0, 1}
  BY <1>3 DEF Channels
<1>5. prev_state' = State(encoder_raw') /\ prev_state' \in {0, 1, 2, 3}
  BY <1>4, CallbackEffect DEF State
<1> DEFINE from == IF prev_state < 0 THEN prev_state' ELSE prev_state
<1>6. Step(from, prev_state') \in {-1, 0, 1}
  <2>1. from \in {0, 1, 2, 3}
    BY <1>5 DEF TypeOK
  <2> HIDE DEF from
  <2> QED
    BY <1>5, <2>1, StepRange
<1>7. /\ pos' = pos /\ offset' = offset /\ sure' = sure
      /\ seen' = seen \cup {c}
      /\ counter' = counter + Step(from, prev_state')
  BY CallbackEffect
<1> HIDE DEF from
<1>8. Error \in Int /\ Error' = Error + Step(from, prev_state')
  BY <1>6, <1>7 DEF Error, TypeOK
<1>9. TypeOK'
  <2>1. counter' \in Int /\ seen' \subseteq Channels
    BY <1>6, <1>7 DEF TypeOK
  <2> QED
    BY <1>2, <1>3, <1>5, <1>7, <2>1 DEF TypeOK
<1>10. OneChannel'
  BY <1>2 DEF OneChannel
<1> QED
  BY <1>2, <1>3, <1>5, <1>7, <1>8, <1>9, <1>10 DEF from

(* The handler counts the way from what had been read.                     *)
LEMMA StepBack ==
  ASSUME NEW p \in Int, NEW e \in {-1, 0, 1}
  PROVE  Step(2 * Pin("A", p + e) + Pin("B", p + e), 2 * Pin("A", p) + Pin("B", p))
           = -e
<1>1. p + 0 = p
  OBVIOUS
<1>2. CASE e = 0
  BY <1>1, <1>2, Neighbours, StepTable
<1>3. CASE e = 1
  BY <1>3, Neighbours, StepTable
<1>4. CASE e = -1
  <2>1. p + e = p - 1
    BY <1>4
  <2> QED
    BY <1>4, <2>1, Neighbours, StepTable
<1> QED
  BY <1>2, <1>3, <1>4

LEMMA SettledFollows ==
  ASSUME NEW p \in Int, pos' = p, prev_state' = State(encoder_raw'),
         encoder_raw'["A"] = Pin("A", p), encoder_raw'["B"] = Pin("B", p),
         NEW loss \in Int, Error' = loss
  PROVE  Follows(loss)'
<1>1. p + 0 = p /\ loss + 0 = loss
  OBVIOUS
<1>2. pos' + 0 = p /\ Error' = loss + 0
  BY <1>1, Zenon
<1>3. /\ encoder_raw'["A"] = Pin("A", pos' + 0)
      /\ encoder_raw'["B"] = Pin("B", pos' + 0)
      /\ Pin("A", pos' + 0) = Pin("A", pos')
      /\ Pin("B", pos' + 0) = Pin("B", pos')
  BY <1>2, Zenon
<1> QED
  BY <1>2, <1>3 DEF Follows, RawAt

LEMMA CallbackFollows ==
  ASSUME TypeOK, OneChannel, NEW c \in Channels, encoder_callback(c),
         NEW loss \in Losses, Follows(loss)
  PROVE  Follows(loss)'
<1>1. PICK e \in {-1, 0, 1} :
        /\ RawAt(pos + e)
        /\ "A" \notin pending => Pin("A", pos + e) = Pin("A", pos)
        /\ "B" \notin pending => Pin("B", pos + e) = Pin("B", pos)
        /\ Error = loss + e
  BY DEF Follows
<1>2. pos \in Int /\ pos' = pos /\ loss \in Int
  BY CallbackTypes DEF TypeOK, Losses
<1>3. encoder_raw'["A"] = Pin("A", pos) /\ encoder_raw'["B"] = Pin("B", pos)
  <2>1. CASE c = "A"
    BY <1>1, <2>1, CallbackTypes DEF RawAt, Channels
  <2>2. CASE c = "B"
    BY <1>1, <2>2, CallbackTypes DEF RawAt, Channels
  <2> QED
    BY <2>1, <2>2 DEF Channels
<1>4. prev_state' = 2 * Pin("A", pos) + Pin("B", pos)
  BY <1>3, CallbackTypes DEF State
<1>5. prev_state = 2 * Pin("A", pos + e) + Pin("B", pos + e)
  BY <1>1 DEF Follows, State, RawAt
<1>6. ~(prev_state < 0)
  <2>1. Pin("A", pos + e) \in {0, 1} /\ Pin("B", pos + e) \in {0, 1}
    BY <1>2, PinRange DEF Channels
  <2> QED
    BY <1>5, <2>1
<1>7. Step(prev_state, prev_state') = -e
  BY <1>2, <1>4, <1>5, StepBack
<1>8. Error' = Error + Step(prev_state, prev_state')
  BY <1>6, CallbackTypes
<1>9. Error' = loss
  BY <1>1, <1>2, <1>7, <1>8
<1>10. prev_state' = State(encoder_raw')
  BY CallbackTypes
<1> QED
  BY <1>2, <1>3, <1>9, <1>10, SettledFollows

LEMMA CallbackUnread ==
  ASSUME TypeOK, OneChannel, NEW c \in Channels, encoder_callback(c), Unread
  PROVE  BackwardsA' \/ BackwardsB' \/ \E loss \in Losses : Follows(loss)'
<1>1. /\ pending = {c} /\ pending' = {} /\ seen' = {c} /\ pos' = pos
      /\ encoder_raw'[c] = Pin(c, pos)
      /\ \A o \in Channels : o # c => encoder_raw'[o] = 0
      /\ prev_state' = State(encoder_raw')
  BY CallbackTypes DEF Unread, Channels
<1>2. /\ pos \in Int /\ Pin("A", pos) \in {0, 1} /\ Pin("B", pos) \in {0, 1}
      /\ Error \in Int
  BY PinRange, CallbackTypes DEF TypeOK, Channels
<1>3. Error' = Error
  <2>1. prev_state' \in {0, 1, 2, 3} /\ prev_state = -1
    <3>1. prev_state = -1 /\ prev_state' = 2 * encoder_raw'["A"] + encoder_raw'["B"]
      BY <1>1 DEF Unread, State
    <3>2. encoder_raw'["A"] \in {0, 1} /\ encoder_raw'["B"] \in {0, 1}
      BY CallbackTypes DEF TypeOK, Channels
    <3> QED
      BY <3>1, <3>2
  <2>2. Step(prev_state', prev_state') = 0
    BY <2>1, StepTable
  <2>3. Error' = Error + Step(prev_state', prev_state')
    BY <2>1, CallbackTypes
  <2> QED
    BY <1>2, <2>2, <2>3
<1>4. CASE c = "A"
  <2>1. PICK u \in {0, 1} : Error = IF Pin("B", pos) = 1
                                   THEN u - Pin("A", pos) ELSE Pin("A", pos) - u
    BY <1>1, <1>4 DEF Unread
  <2>2. encoder_raw'["A"] = Pin("A", pos) /\ encoder_raw'["B"] = 0
    BY <1>1, <1>4 DEF Channels
  <2>3. CASE Pin("B", pos) = 1
    <3>1. /\ u + Pin("A", pos) \in {0, 1, 2}
          /\ Error' = (u + Pin("A", pos)) - encoder_raw'["A"] - Pin("A", pos)
      BY <1>2, <1>3, <2>1, <2>2, <2>3
    <3> QED
      BY <1>1, <1>4, <2>2, <2>3, <3>1 DEF BackwardsA
  <2>4. CASE Pin("B", pos) = 0
    <3>1. Error \in Losses /\ Error \in Int
      BY <1>2, <2>1, <2>4 DEF Losses
    <3>2. PICK loss \in Losses : Error' = loss /\ loss \in Int
      BY <1>3, <3>1
    <3> QED
      BY <1>1, <1>2, <2>2, <2>4, <3>2, SettledFollows
  <2> QED
    BY <1>2, <2>3, <2>4
<1>5. CASE c = "B"
  <2>1. PICK u \in {0, 1} : Error = IF Pin("A", pos) = 0
                                   THEN u - Pin("B", pos) ELSE Pin("B", pos) - u
    BY <1>1, <1>5 DEF Unread
  <2>2. encoder_raw'["B"] = Pin("B", pos) /\ encoder_raw'["A"] = 0
    BY <1>1, <1>5 DEF Channels
  <2>3. CASE Pin("A", pos) = 1
    <3>1. /\ u + Pin("B", pos) \in {0, 1, 2}
          /\ Error' = encoder_raw'["B"] + Pin("B", pos) - (u + Pin("B", pos))
      BY <1>2, <1>3, <2>1, <2>2, <2>3
    <3> QED
      BY <1>1, <1>5, <2>2, <2>3, <3>1 DEF BackwardsB
  <2>4. CASE Pin("A", pos) = 0
    <3>1. Error \in Losses /\ Error \in Int
      BY <1>2, <2>1, <2>4 DEF Losses
    <3>2. PICK loss \in Losses : Error' = loss /\ loss \in Int
      BY <1>3, <3>1
    <3> QED
      BY <1>1, <1>2, <2>2, <2>4, <3>2, SettledFollows
  <2> QED
    BY <1>2, <2>3, <2>4
<1> QED
  BY <1>4, <1>5 DEF Channels

(* The counting backwards of one channel, while the other stays unread.    *)
LEMMA CallbackBackwardsA ==
  ASSUME TypeOK, OneChannel, NEW c \in Channels, encoder_callback(c), BackwardsA
  PROVE  BackwardsA'
<1>1. c = "A" /\ pending' = {} /\ seen' = {"A"} /\ pos' = pos
  BY CallbackTypes DEF BackwardsA, Channels
<1>2. /\ pos \in Int /\ Pin("A", pos) \in {0, 1} /\ encoder_raw["A"] \in {0, 1}
  BY PinRange DEF TypeOK, Channels
<1>3. /\ encoder_raw'["A"] = Pin("A", pos) /\ encoder_raw'["B"] = 0
      /\ prev_state' = State(encoder_raw')
  BY <1>1, CallbackTypes DEF BackwardsA, Channels
<1>4. prev_state = 2 * encoder_raw["A"] /\ prev_state' = 2 * Pin("A", pos)
  BY <1>2, <1>3 DEF BackwardsA, State
<1>5. Step(prev_state, prev_state') = encoder_raw["A"] - Pin("A", pos)
  BY <1>2, <1>4, StepTable
<1>6. Error' = Error + (encoder_raw["A"] - Pin("A", pos))
  BY <1>2, <1>4, <1>5, CallbackTypes
<1>7. PICK m \in {0, 1, 2} : Error = m - encoder_raw["A"] - Pin("A", pos)
  BY DEF BackwardsA
<1>8. Error' = m - encoder_raw'["A"] - Pin("A", pos)
  BY <1>2, <1>3, <1>6, <1>7
<1>9. Pin("B", pos) = 1
  BY DEF BackwardsA
<1> QED
  BY <1>1, <1>3, <1>8, <1>9 DEF BackwardsA

LEMMA CallbackBackwardsB ==
  ASSUME TypeOK, OneChannel, NEW c \in Channels, encoder_callback(c), BackwardsB
  PROVE  BackwardsB'
<1>1. c = "B" /\ pending' = {} /\ seen' = {"B"} /\ pos' = pos
  BY CallbackTypes DEF BackwardsB, Channels
<1>2. /\ pos \in Int /\ Pin("B", pos) \in {0, 1} /\ encoder_raw["B"] \in {0, 1}
  BY PinRange DEF TypeOK, Channels
<1>3. /\ encoder_raw'["B"] = Pin("B", pos) /\ encoder_raw'["A"] = 0
      /\ prev_state' = State(encoder_raw')
  BY <1>1, CallbackTypes DEF BackwardsB, Channels
<1>4. prev_state = encoder_raw["B"] /\ prev_state' = Pin("B", pos)
  BY <1>2, <1>3 DEF BackwardsB, State
<1>5. Step(prev_state, prev_state') = Pin("B", pos) - encoder_raw["B"]
  BY <1>2, <1>4, StepTable
<1>6. Error' = Error + (Pin("B", pos) - encoder_raw["B"])
  BY <1>2, <1>4, <1>5, CallbackTypes
<1>7. PICK m \in {0, 1, 2} : Error = encoder_raw["B"] + Pin("B", pos) - m
  BY DEF BackwardsB
<1>8. Error' = encoder_raw'["B"] + Pin("B", pos) - m
  BY <1>2, <1>3, <1>6, <1>7
<1>9. Pin("A", pos) = 1
  BY DEF BackwardsB
<1> QED
  BY <1>1, <1>3, <1>8, <1>9 DEF BackwardsB

LEMMA CallbackKeeps ==
  ASSUME EncoderInv, NEW c \in Channels, encoder_callback(c)
  PROVE  EncoderInv'
<1> USE DEF EncoderInv
<1>1. /\ TypeOK' /\ OneChannel' /\ seen' = seen \cup {c} /\ sure' = sure
  BY CallbackTypes
<1>2. seen' # {} /\ (seen = Channels => seen' = Channels)
  BY <1>1
<1>3. sure' => seen' = Channels /\ Follows(0)'
  BY <1>1, <1>2, CallbackFollows DEF Losses
<1>4. Phase'
  <2>1. CASE Unread
    BY <1>2, <2>1, CallbackUnread DEF Phase
  <2>2. CASE BackwardsA
    BY <2>2, CallbackBackwardsA DEF Phase
  <2>3. CASE BackwardsB
    BY <2>3, CallbackBackwardsB DEF Phase
  <2>4. ASSUME NEW loss \in Losses, Follows(loss) PROVE Phase'
    BY <1>2, <2>4, CallbackFollows DEF Phase
  <2> QED
    BY <2>1, <2>2, <2>3, <2>4 DEF Phase
<1> QED
  BY <1>1, <1>3, <1>4

-----------------------------------------------------------------------------
(* The calibration makes the error 0 where it is.                          *)

LEMMA CalibratesKeeps ==
  ASSUME EncoderInv, NEW v \in Int, Calibrates(v)
  PROVE  EncoderInv'
<1> USE DEF EncoderInv
<1>1. /\ UNCHANGED <<pos, pending, encoder_raw, prev_state, seen>>
      /\ counter' = v /\ offset' = v - pos
      /\ sure' = (seen = Channels /\ pending = {})
  BY DEF Calibrates
<1>2. pos \in Int /\ Error' = 0
  BY <1>1 DEF Error, TypeOK
<1>3. TypeOK' /\ OneChannel'
  <2>1. counter' \in Int /\ offset' \in Int /\ sure' \in BOOLEAN
    BY <1>1, <1>2
  <2> QED
    BY <1>1, <2>1 DEF TypeOK, OneChannel
<1>4. /\ Pin("A", pos) \in {0, 1} /\ Pin("B", pos) \in {0, 1}
      /\ encoder_raw["A"] \in {0, 1} /\ encoder_raw["B"] \in {0, 1}
  BY <1>2, PinRange DEF TypeOK, Channels
<1>5. ASSUME NEW loss \in Losses, Follows(loss)
      PROVE  /\ \E l \in Losses : Follows(l)'
             /\ pending = {} => Follows(0)'
  <2>1. PICK e \in {-1, 0, 1} :
          /\ RawAt(pos + e)
          /\ "A" \notin pending => Pin("A", pos + e) = Pin("A", pos)
          /\ "B" \notin pending => Pin("B", pos + e) = Pin("B", pos)
          /\ Error = loss + e
    BY <1>5 DEF Follows
  <2>2. -e \in Losses /\ 0 = -e + e
    BY DEF Losses
  <2>3. /\ RawAt(pos + e)'
        /\ "A" \notin pending' => Pin("A", pos' + e) = Pin("A", pos')
        /\ "B" \notin pending' => Pin("B", pos' + e) = Pin("B", pos')
        /\ prev_state' = State(encoder_raw')
    BY <1>1, <1>5, <2>1 DEF Follows, RawAt
  <2>4. \E l \in Losses : Follows(l)'
    <3>1. PICK l \in Losses : l = -e
      BY <2>2
    <3>2. Error' = l + e
      BY <1>2, <2>2, <3>1
    <3> QED
      BY <2>3, <3>2 DEF Follows, RawAt
  <2>5. ASSUME pending = {} PROVE Follows(0)'
    <3>1. e = 0
      BY <1>2, <2>1, <2>5, Neighbours
    <3>2. Error' = 0 + e
      BY <1>2, <3>1
    <3> QED
      BY <2>3, <3>2 DEF Follows, RawAt
  <2> QED
    BY <2>4, <2>5
<1>6. CASE Unread
  <2>1. Unread'
    BY <1>1, <1>2, <1>4, <1>6 DEF Unread
  <2>2. ~sure'
    <3>1. seen # Channels
      BY <1>6 DEF Unread, Channels
    <3> QED
      BY <1>1, <3>1, Zenon
  <2> QED
    BY <1>3, <2>1, <2>2 DEF Phase
<1>7. CASE BackwardsA
  <2>1. PICK m \in {0, 1, 2} : m = encoder_raw["A"] + Pin("A", pos)
    BY <1>4
  <2>2. Error' = m - encoder_raw["A"] - Pin("A", pos)
    BY <1>2, <1>4, <2>1
  <2>3. BackwardsA'
    BY <1>1, <1>7, <2>2 DEF BackwardsA
  <2>4. ~sure'
    <3>1. seen # Channels
      BY <1>7 DEF BackwardsA, Channels
    <3> QED
      BY <1>1, <3>1, Zenon
  <2> QED
    BY <1>3, <2>3, <2>4 DEF Phase
<1>8. CASE BackwardsB
  <2>1. PICK m \in {0, 1, 2} : m = encoder_raw["B"] + Pin("B", pos)
    BY <1>4
  <2>2. Error' = encoder_raw["B"] + Pin("B", pos) - m
    BY <1>2, <1>4, <2>1
  <2>3. BackwardsB'
    BY <1>1, <1>8, <2>2 DEF BackwardsB
  <2>4. ~sure'
    <3>1. seen # Channels
      BY <1>8 DEF BackwardsB, Channels
    <3> QED
      BY <1>1, <3>1, Zenon
  <2> QED
    BY <1>3, <2>3, <2>4 DEF Phase
<1>9. CASE seen # {} /\ \E loss \in Losses : Follows(loss)
  <2>1. Phase'
    BY <1>1, <1>5, <1>9 DEF Phase
  <2>2. sure' => seen' = Channels /\ Follows(0)'
    BY <1>1, <1>5, <1>9
  <2> QED
    BY <1>3, <2>1, <2>2
<1> QED
  BY <1>6, <1>7, <1>8, <1>9 DEF Phase

LEMMA EncoderStep == EncoderInv /\ [EncoderNext]_encoderVars => EncoderInv'
<1> SUFFICES ASSUME EncoderInv, [EncoderNext]_encoderVars PROVE EncoderInv'
  OBVIOUS
<1>1. ASSUME NEW d \in {-1, 1}, Moves(d) PROVE EncoderInv'
  BY <1>1, MoveKeeps
<1>2. ASSUME NEW c \in Channels, encoder_callback(c) PROVE EncoderInv'
  BY <1>2, CallbackKeeps
<1>3. CASE Calibrates(0)
  BY <1>3, CalibratesKeeps
<1>4. CASE UNCHANGED encoderVars
  <2> USE <1>4 DEF encoderVars
  <2>1. TypeOK' /\ OneChannel'
    BY DEF EncoderInv, TypeOK, OneChannel
  <2>2. Error' = Error /\ UNCHANGED <<seen, sure, pending>>
    BY DEF Error
  <2>3. \A loss \in Losses : Follows(loss) => Follows(loss)'
    BY <2>2 DEF Follows, RawAt
  <2>4. Phase'
    BY <2>2, <2>3 DEF EncoderInv, Phase, Unread, BackwardsA, BackwardsB
  <2> QED
    BY <2>1, <2>2, <2>3, <2>4 DEF EncoderInv, Losses
<1> QED
  BY <1>1, <1>2, <1>3, <1>4 DEF EncoderNext

(* What the invariant says of the counter.                                 *)
LEMMA EncoderMeans == EncoderInv => CounterFollows
<1> SUFFICES ASSUME EncoderInv PROVE CounterFollows
  OBVIOUS
<1> USE DEF EncoderInv
<1>1. /\ pos \in Int /\ Error \in Int
      /\ Pin("A", pos) \in {0, 1} /\ Pin("B", pos) \in {0, 1}
      /\ encoder_raw["A"] \in {0, 1} /\ encoder_raw["B"] \in {0, 1}
  BY PinRange DEF TypeOK, Channels, Error
<1>2. Error \in -4 .. 4
  <2>1. CASE Unread
    <3>1. pending = {} \/ "A" \in pending \/ "B" \in pending
      BY DEF TypeOK, Channels
    <3> QED
      BY <1>1, <2>1, <3>1 DEF Unread
  <2>2. CASE BackwardsA
    BY <1>1, <2>2 DEF BackwardsA
  <2>3. CASE BackwardsB
    BY <1>1, <2>3 DEF BackwardsB
  <2>4. ASSUME NEW loss \in Losses, Follows(loss) PROVE Error \in -4 .. 4
    BY <1>1, <2>4 DEF Follows, Losses
  <2> QED
    BY <2>1, <2>2, <2>3, <2>4 DEF Phase
<1>3. ASSUME sure PROVE IF pending = {} THEN Error = 0 ELSE Error \in -1 .. 1
  <2>1. PICK e \in {-1, 0, 1} :
          /\ "A" \notin pending => Pin("A", pos + e) = Pin("A", pos)
          /\ "B" \notin pending => Pin("B", pos + e) = Pin("B", pos)
          /\ Error = 0 + e
    BY <1>3 DEF Follows
  <2>2. CASE pending = {}
    <3>1. e = 0
      BY <1>1, <2>1, <2>2, Neighbours
    <3> QED
      BY <2>1, <2>2, <3>1
  <2> QED
    BY <2>1, <2>2
<1> QED
  BY <1>2, <1>3 DEF CounterFollows, CountIsExact

(* The counter of an encoder whose handlers are served in time stays the   *)
(* axis's position but for what the start loses, and is exact after a      *)
(* calibration of an axis that had moved (encoder_callback).               *)
THEOREM CounterCorrect == EncoderSpec => []CounterFollows
<1>1. EncoderInit => EncoderInv
  BY EncoderInitially
<1>2. EncoderInv /\ [EncoderNext]_encoderVars => EncoderInv'
  BY EncoderStep
<1>3. EncoderInv => CounterFollows
  BY EncoderMeans
<1> QED
  BY <1>1, <1>2, <1>3, PTL DEF EncoderSpec

-----------------------------------------------------------------------------
(* The link.                                                               *)

(* The bytes of the line, and the answer that the caller wants for m.      *)
Answers == [kind : {"position", "encoders"}, of : Nat, error : Int]

Bytes == [answer : Answers, place : Nat]

GoodAnswers(m) == [kind : {"position"}, of : {m}, error : -1 .. 1]

Answered == sent - Len(toDevice)

(* The line from wait_online on: the bytes of the newline's answer that    *)
(* the host has left, or a last byte of the answer before, and then the    *)
(* whole answers of the messages that it has not asked for yet.            *)
InLine(odd, n) ==
  /\ Len(toHost) = odd + n * Size
  /\ odd = 1 => toHost[1].place > Fields
  /\ \A i \in 0 .. n - 1 : \E a \in GoodAnswers(taken + 1 + i) :
       \A j \in 1 .. Size : toHost[odd + i * Size + j] = [answer |-> a, place |-> j]

Online ==
  /\ taken <= Answered
  /\ \A i \in 1 .. Len(toDevice) : toDevice[i] = Answered + i
  /\ \E odd \in {0, 1} : InLine(odd, Answered - taken)
  /\ taken > 0 => reading \in GoodAnswers(taken)

(* Before, there is at most the newline or its answer.                     *)
Probing ==
  \/ toDevice = <<0>> /\ toHost = <<>>
  \/ /\ toDevice = <<>>
     /\ \E a \in Answers : toHost = Answer(a)

InStep ==
  /\ at = "opened" => toDevice = <<>> /\ toHost = <<>>
  /\ at = "probing" => Probing
  /\ at \in {"online", "ready", "receiving"} => Online

LinkTypeOK ==
  /\ at \in {"opened", "probing", "online", "ready", "receiving"}
  /\ toDevice \in Seq(Nat) /\ toHost \in Seq(Bytes)
  /\ compute_and_apply_forces \in BOOLEAN /\ late \in BOOLEAN
  /\ sent \in Nat /\ taken \in Nat
  /\ at \in {"opened", "probing", "online"} => sent = 0 /\ taken = 0

LinkInv == LinkTypeOK /\ (~late => InStep)

(* The link moves the encoder as the encoder moves alone.                  *)
LEMMA LinkMovesEncoder == [LinkNext]_allVars => [EncoderNext]_encoderVars
  BY DEF LinkNext, allVars, Host, TransmitsProbe, ProbeSucceeds, ProbeFails, Sends,
         GetPosBegins, GetPosReturns, GetPosTimesOut, AnswersLine, Replies

LEMMA LinkHasEncoder == LinkSpec => EncoderSpec
<1>1. LinkInit => EncoderInit
  BY DEF LinkInit
<1> QED
  BY <1>1, LinkMovesEncoder, PTL DEF LinkSpec, EncoderSpec

(* The counter keeps to the axis while the device answers the host: what   *)
(* the line does to the encoder is what the encoder allows (loop and       *)
(* encoder_callback).                                                      *)
THEOREM LinkCounterCorrect == LinkSpec => []CounterFollows
  BY LinkHasEncoder, CounterCorrect, PTL

(* Whole answers of equal length.                                          *)
LEMMA SizeType ==
  Fields \in Nat \ {0} /\ Blanks \in Nat \ {0} /\ Size \in Nat /\ Fields < Size
  BY LinkAssumption DEF Size

LEMMA Blocks ==
  ASSUME NEW n \in Nat, NEW i \in 0 .. n - 1
  PROVE  /\ i * Size \in Nat /\ n * Size \in Nat
         /\ (i + 1) * Size = i * Size + Size
         /\ i * Size + Size <= n * Size
<1>1. Size \in Nat
  BY SizeType
<1>2. ASSUME NEW x \in Nat, NEW y \in Nat PROVE x * y \in Nat
  BY <1>2
<1>3. PICK k \in Nat : n = i + 1 + k
  BY n - i - 1 \in Nat /\ n = i + 1 + (n - i - 1)
<1>4. n * Size = i * Size + Size + k * Size
  BY <1>1, <1>3
<1>5. i * Size \in Nat /\ k * Size \in Nat /\ n * Size \in Nat
  BY <1>1, <1>2
<1> QED
  BY <1>1, <1>4, <1>5

LEMMA InBlock ==
  ASSUME NEW n \in Nat, NEW i \in 0 .. n - 1, NEW odd \in {0, 1}, NEW j \in 1 .. Size
  PROVE  odd + i * Size + j \in 1 .. odd + n * Size
<1>1. ASSUME NEW from \in Nat, NEW to \in Nat, from + Size <= to
      PROVE  odd + from + j \in 1 .. odd + to
  BY <1>1, SizeType
<1> QED
  BY <1>1, Blocks

(* fromChars finds the one answer that is whole in the bytes.              *)
LEMMA ParseWhole ==
  ASSUME NEW bytes \in Seq(Bytes), NEW a, NEW k \in 0 .. Len(bytes) - Fields,
         \A j \in 1 .. k : bytes[j].place > Fields,
         \A j \in 1 .. Fields : bytes[k + j] = [answer |-> a, place |-> j]
  PROVE  Parse(bytes) = a
<1> DEFINE starts == {l \in 0 .. Len(bytes) - Fields :
                        /\ \A j \in 1 .. l : bytes[j].place > Fields
                        /\ \A j \in 1 .. Fields :
                             bytes[l + j] = [answer |-> bytes[l + 1].answer, place |-> j]}
<1>1. Fields \in Nat \ {0} /\ Len(bytes) \in Nat /\ 1 \in 1 .. Fields
  BY SizeType
<1>2. bytes[k + 1] = [answer |-> a, place |-> 1]
  BY <1>1
<1>3. k \in starts
  BY <1>2
<1>4. ASSUME NEW l \in starts PROVE l = k
  <2>1. l \in 0 .. Len(bytes) - Fields /\ bytes[l + 1].place = 1
    <3>1. PICK x : bytes[l + 1] = [answer |-> x, place |-> 1]
      BY <1>1, <1>4
    <3>2. bytes[l + 1].place = 1
      BY <3>1
    <3> QED
      BY <1>4, <3>2
  <2>2. ~(l < k)
    <3>1. l < k => l + 1 \in 1 .. k
      BY <1>1, <2>1
    <3>2. ~(1 > Fields)
      BY <1>1
    <3> QED
      BY <2>1, <3>1, <3>2
  <2>3. ~(k < l)
    <3>1. k < l => k + 1 \in 1 .. l
      BY <1>1, <2>1
    <3>2. ~(1 > Fields)
      BY <1>1
    <3> QED
      BY <1>2, <1>4, <3>1, <3>2
  <2> QED
    BY <1>1, <2>1, <2>2, <2>3
<1>5. (CHOOSE l \in starts : TRUE) = k
  BY <1>3, <1>4
<1>6. Parse(bytes) = bytes[k + 1].answer
  BY <1>3, <1>5 DEF Parse
<1> QED
  BY <1>2, <1>6

LEMMA AnswerIs ==
  ASSUME NEW a \in Answers
  PROVE  /\ Answer(a) \in Seq(Bytes)
         /\ Len(Answer(a)) = IF a.kind = "encoders" THEN Size + 1 ELSE Size
         /\ \A j \in 1 .. Len(Answer(a)) : Answer(a)[j] = [answer |-> a, place |-> j]
<1> DEFINE n == IF a.kind = "encoders" THEN Size + 1 ELSE Size
<1>1. n \in Nat
  BY SizeType
<1>2. \A j \in 1 .. n : [answer |-> a, place |-> j] \in Bytes
  BY <1>1 DEF Bytes
<1>3. Answer(a) = [j \in 1 .. n |-> [answer |-> a, place |-> j]]
  BY DEF Answer
<1> HIDE DEF n
<1>4. Answer(a) \in Seq(Bytes) /\ Len(Answer(a)) = n
  BY <1>1, <1>2, <1>3
<1> QED
  BY <1>3, <1>4 DEF n

(* The device's answer to a message is one more whole answer in the line.  *)
LEMMA InLineGrows ==
  ASSUME LinkTypeOK, NEW odd \in {0, 1}, NEW n \in Nat, InLine(odd, n),
         NEW a \in Answers, a \in GoodAnswers(taken + 1 + n), taken' = taken,
         toHost' = toHost \o Answer(a)
  PROVE  InLine(odd, n + 1)'
<1>1. /\ toHost \in Seq(Bytes) /\ Len(toHost) = odd + n * Size
      /\ odd = 1 => toHost[1].place > Fields
  BY DEF LinkTypeOK, InLine
<1>2. /\ Answer(a) \in Seq(Bytes) /\ Len(Answer(a)) = Size
      /\ \A j \in 1 .. Size : Answer(a)[j] = [answer |-> a, place |-> j]
  BY AnswerIs DEF GoodAnswers
<1>3. n * Size \in Nat /\ (n + 1) * Size = n * Size + Size /\ Size \in Nat
  BY Blocks, SizeType
<1>4. /\ Len(toHost') = Len(toHost) + Size
      /\ \A b \in 1 .. Len(toHost) + Size :
           toHost'[b] = IF b <= Len(toHost) THEN toHost[b]
                        ELSE Answer(a)[b - Len(toHost)]
  BY <1>1, <1>2, ConcatProperties
<1>5. Len(toHost') = odd + (n + 1) * Size
  BY <1>1, <1>3, <1>4
<1>6. odd = 1 => toHost'[1].place > Fields
  BY <1>1, <1>3, <1>4
<1>7. ASSUME NEW i \in 0 .. (n + 1) - 1
      PROVE  \E x \in GoodAnswers(taken + 1 + i) : \A j \in 1 .. Size :
               toHost'[odd + i * Size + j] = [answer |-> x, place |-> j]
  <2>1. CASE i \in 0 .. n - 1
    <3>1. ASSUME NEW b \in 1 .. Len(toHost) PROVE toHost'[b] = toHost[b]
      <4>1. b \in 1 .. Len(toHost) + Size /\ b <= Len(toHost)
        BY <1>1, <1>3
      <4> QED
        BY <1>4, <4>1
    <3>2. \A j \in 1 .. Size : toHost'[odd + i * Size + j] = toHost[odd + i * Size + j]
      BY <1>1, <2>1, <3>1, InBlock
    <3> QED
      BY <2>1, <3>2 DEF InLine
  <2>2. CASE i = n
    <3>1. \A j \in 1 .. Size :
            toHost'[odd + n * Size + j] = Answer(a)[j]
      <4> TAKE j \in 1 .. Size
      <4> DEFINE b == odd + n * Size + j
      <4>1. /\ b \in 1 .. Len(toHost) + Size /\ ~(b <= Len(toHost))
            /\ b - Len(toHost) = j
        BY <1>1, <1>3
      <4> QED
        BY <1>4, <4>1
    <3>2. \A j \in 1 .. Size :
            toHost'[odd + i * Size + j] = [answer |-> a, place |-> j]
      BY <1>2, <2>2, <3>1
    <3> QED
      BY <2>2, <3>2
  <2>3. i \in 0 .. n - 1 \/ i = n
    BY <1>7
  <2> QED
    BY <2>1, <2>2, <2>3
<1> QED
  BY <1>5, <1>6, <1>7 DEF InLine

(* getPos takes the first of them, whole, and leaves its last byte for one *)
(* that stood before it.                                                   *)
LEMMA InLineTaken ==
  ASSUME LinkTypeOK, NEW odd \in {0, 1}, NEW n \in Nat, InLine(odd, n),
         Len(toHost) >= Size, taken' = taken + 1, Take(Size)
  PROVE  /\ n >= 1
         /\ Parse(SubSeq(toHost, 1, Size)) \in GoodAnswers(taken + 1)
         /\ InLine(odd, n - 1)'
<1>1. /\ toHost \in Seq(Bytes) /\ Len(toHost) = odd + n * Size /\ taken \in Nat
      /\ odd = 1 => toHost[1].place > Fields
  BY DEF LinkTypeOK, InLine
<1>2. /\ Fields \in Nat \ {0} /\ Size \in Nat /\ Fields < Size
  BY SizeType
<1>3. n >= 1
  <2>1. n = 0 => n * Size = 0
    BY <1>2
  <2> QED
    BY <1>1, <1>2, <2>1
<1>4. /\ 0 \in 0 .. n - 1 /\ n - 1 \in Nat /\ (n - 1) * Size \in Nat
      /\ n * Size = (n - 1) * Size + Size /\ 0 * Size = 0
  <2>1. 0 \in 0 .. n - 1 /\ n - 1 \in Nat /\ n - 1 \in 0 .. n - 1 /\ n - 1 + 1 = n
    BY <1>3
  <2>2. (n - 1) * Size \in Nat /\ (n - 1 + 1) * Size = (n - 1) * Size + Size
    BY <2>1, Blocks
  <2> QED
    BY <1>2, <2>1, <2>2
<1>5. /\ SubSeq(toHost, 1, Size) \in Seq(Bytes) /\ Len(SubSeq(toHost, 1, Size)) = Size
      /\ \A b \in 1 .. Size : SubSeq(toHost, 1, Size)[b] = toHost[b]
  <2>1. \A b \in 1 .. Size : toHost[b] \in Bytes
    BY <1>1, <1>2, ElementOfSeq
  <2> QED
    BY <1>2, <2>1, SubSeqProperties
<1>6. /\ Len(toHost') = Len(toHost) - Size
      /\ \A b \in 1 .. Len(toHost) - Size : toHost'[b] = toHost[Size + b]
  <2>1. \A b \in Size + 1 .. Len(toHost) : toHost[b] \in Bytes
    BY <1>1, <1>2, ElementOfSeq
  <2>2. Len(toHost) \in Int /\ Size + 1 \in Int
    BY <1>1, <1>2
  <2>3. /\ Len(toHost') = IF Size + 1 <= Len(toHost)
                          THEN Len(toHost) - (Size + 1) + 1 ELSE 0
        /\ \A b \in 1 .. Len(toHost) - (Size + 1) + 1 :
             toHost'[b] = toHost[Size + 1 + b - 1]
    BY <2>1, <2>2, SubSeqProperties DEF Take
  <2> QED
    BY <1>2, <2>2, <2>3
<1>7. PICK a \in GoodAnswers(taken + 1) : \A j \in 1 .. Size :
        toHost[odd + j] = [answer |-> a, place |-> j]
  <2>1. PICK a \in GoodAnswers(taken + 1 + 0) : \A j \in 1 .. Size :
          toHost[odd + 0 * Size + j] = [answer |-> a, place |-> j]
    BY <1>4 DEF InLine
  <2>2. taken + 1 + 0 = taken + 1 /\ \A j \in 1 .. Size : odd + 0 * Size + j = odd + j
    BY <1>1, <1>4
  <2> QED
    BY <2>1, <2>2
<1>8. Parse(SubSeq(toHost, 1, Size)) = a
  <2>1. odd \in 0 .. Len(SubSeq(toHost, 1, Size)) - Fields
    BY <1>2, <1>5
  <2>2. \A j \in 1 .. odd : SubSeq(toHost, 1, Size)[j].place > Fields
    BY <1>1, <1>2, <1>5
  <2>3. \A j \in 1 .. Fields :
          SubSeq(toHost, 1, Size)[odd + j] = [answer |-> a, place |-> j]
    <3> TAKE j \in 1 .. Fields
    <3>1. odd + j \in 1 .. Size /\ j \in 1 .. Size
      BY <1>2
    <3> QED
      BY <1>5, <1>7, <3>1
  <2> QED
    BY <1>5, <2>1, <2>2, <2>3, ParseWhole
<1>9. Len(toHost') = odd + (n - 1) * Size
  BY <1>1, <1>2, <1>4, <1>6
<1>10. odd = 1 => toHost'[1].place > Fields
  <2> SUFFICES ASSUME odd = 1 PROVE toHost'[1].place > Fields
    OBVIOUS
  <2>1. 1 \in 1 .. Len(toHost) - Size /\ Size \in 1 .. Size /\ odd + Size = Size + 1
    BY <1>1, <1>2, <1>4
  <2>2. toHost'[1] = [answer |-> a, place |-> Size]
    BY <1>6, <1>7, <2>1
  <2> QED
    BY <1>2, <2>2
<1>11. ASSUME NEW i \in 0 .. (n - 1) - 1
       PROVE  \E x \in GoodAnswers(taken + 1 + 1 + i) : \A j \in 1 .. Size :
                toHost'[odd + i * Size + j] = [answer |-> x, place |-> j]
  <2>1. i + 1 \in 0 .. n - 1 /\ i \in 0 .. n - 1
    BY <1>4
  <2>2. /\ i * Size \in Nat /\ (i + 1) * Size = i * Size + Size
        /\ (i + 1) * Size + Size <= n * Size
    BY <2>1, Blocks
  <2>3. PICK x \in GoodAnswers(taken + 1 + (i + 1)) : \A j \in 1 .. Size :
          toHost[odd + (i + 1) * Size + j] = [answer |-> x, place |-> j]
    BY <2>1 DEF InLine
  <2>4. \A j \in 1 .. Size :
          toHost'[odd + i * Size + j] = toHost[odd + (i + 1) * Size + j]
    <3> TAKE j \in 1 .. Size
    <3> DEFINE b == odd + i * Size + j
    <3>1. b \in 1 .. Len(toHost) - Size /\ Size + b = odd + (i + 1) * Size + j
      BY <1>1, <1>2, <2>2
    <3> QED
      BY <1>6, <3>1
  <2>5. taken + 1 + 1 + i = taken + 1 + (i + 1)
    BY <1>1, <2>1
  <2> QED
    BY <2>3, <2>4, <2>5
<1> QED
  BY <1>3, <1>7, <1>8, <1>9, <1>10, <1>11 DEF InLine

LEMMA LinkInitially == LinkInit => LinkInv
<1>1. <<>> \in Seq(Nat) /\ <<>> \in Seq(Bytes)
  BY EmptySeq
<1> SUFFICES ASSUME LinkInit PROVE LinkInv
  OBVIOUS
<1>2. LinkTypeOK
  BY <1>1 DEF LinkInit, LinkTypeOK
<1>3. InStep
  BY DEF LinkInit, InStep
<1> QED
  BY <1>2, <1>3 DEF LinkInv

(* The first bytes are dropped.                                            *)
LEMMA TakeType ==
  ASSUME LinkTypeOK, Len(toHost) >= Size, Take(Size)
  PROVE  /\ toHost' \in Seq(Bytes) /\ Len(toHost') = Len(toHost) - Size
         /\ \A b \in 1 .. Len(toHost) - Size : toHost'[b] = toHost[Size + b]
<1>1. toHost \in Seq(Bytes) /\ Size \in Nat /\ Len(toHost) \in Nat
  BY SizeType DEF LinkTypeOK
<1>2. \A b \in Size + 1 .. Len(toHost) : toHost[b] \in Bytes
  BY <1>1, ElementOfSeq
<1>3. /\ toHost' \in Seq(Bytes)
      /\ Len(toHost') = IF Size + 1 <= Len(toHost)
                        THEN Len(toHost) - (Size + 1) + 1 ELSE 0
      /\ \A b \in 1 .. Len(toHost) - (Size + 1) + 1 :
           toHost'[b] = toHost[Size + 1 + b - 1]
  BY <1>1, <1>2, SubSeqProperties DEF Take
<1> QED
  BY <1>1, <1>3

(* wait_online leaves at most the newline of an answer of 64 bytes.        *)
LEMMA ProbeKeeps ==
  ASSUME LinkInv, ProbeSucceeds
  PROVE  LinkInv'
<1>1. /\ at = "probing" /\ at' = "online" /\ Take(Size) /\ Len(toHost) >= Size
      /\ UNCHANGED <<toDevice, compute_and_apply_forces, sent, taken, reading, late>>
  BY DEF ProbeSucceeds
<1>2. LinkTypeOK'
  BY <1>1, TakeType DEF LinkInv, LinkTypeOK
<1>3. ASSUME ~late PROVE Online'
  <2>1. Size \in Nat /\ Fields < Size /\ Fields \in Nat /\ Size # 0
    BY SizeType
  <2>2. toHost # <<>>
    BY <1>1, <2>1
  <2>3. PICK a \in Answers : toHost = Answer(a) /\ toDevice = <<>>
    BY <1>1, <1>3, <2>2 DEF LinkInv, InStep, Probing
  <2>4. sent = 0 /\ taken = 0 /\ Answered' = 0
    BY <1>1, <2>3 DEF LinkInv, LinkTypeOK, Answered
  <2>5. /\ Len(toHost') = Len(toHost) - Size
        /\ Len(toHost) = IF a.kind = "encoders" THEN Size + 1 ELSE Size
        /\ \A b \in 1 .. Len(toHost) - Size : toHost'[b] = toHost[Size + b]
        /\ \A j \in 1 .. Len(toHost) : toHost[j] = [answer |-> a, place |-> j]
    BY <1>1, <2>3, AnswerIs, TakeType DEF LinkInv
  <2>6. PICK odd \in {0, 1} : Len(toHost) = Size + odd
    BY <2>1, <2>5
  <2>7. odd = 1 => toHost'[1].place > Fields
    <3> SUFFICES ASSUME odd = 1 PROVE toHost'[1].place > Fields
      OBVIOUS
    <3>1. toHost'[1] = [answer |-> a, place |-> Size + 1]
      BY <2>1, <2>5, <2>6
    <3> QED
      BY <2>1, <3>1
  <2>8. InLine(odd, 0)'
    <3>1. 0 * Size = 0 /\ Len(toHost') = odd
      BY <2>1, <2>5, <2>6
    <3> QED
      BY <2>7, <3>1 DEF InLine
  <2> QED
    BY <1>1, <2>3, <2>4, <2>8 DEF Online
<1> QED
  BY <1>1, <1>2, <1>3 DEF LinkInv, InStep

LEMMA SendKeeps ==
  ASSUME LinkInv, Sends
  PROVE  LinkInv'
<1>1. /\ at \in {"online", "ready"} /\ at' = "ready"
      /\ toDevice' = Append(toDevice, sent + 1) /\ sent' = sent + 1
      /\ UNCHANGED <<compute_and_apply_forces, toHost, taken, reading, late>>
  BY DEF Sends
<1>2. toDevice \in Seq(Nat) /\ sent \in Nat /\ sent + 1 \in Nat
  BY DEF LinkInv, LinkTypeOK
<1>3. /\ toDevice' \in Seq(Nat) /\ Len(toDevice') = Len(toDevice) + 1
      /\ \A i \in 1 .. Len(toDevice) : toDevice'[i] = toDevice[i]
      /\ toDevice'[Len(toDevice) + 1] = sent + 1
  BY <1>1, <1>2, AppendProperties
<1>4. LinkTypeOK'
  BY <1>1, <1>2, <1>3 DEF LinkInv, LinkTypeOK
<1>5. ASSUME ~late PROVE Online'
  <2>1. Online
    BY <1>1, <1>5 DEF LinkInv, InStep
  <2>2. Answered' = Answered /\ Answered + Len(toDevice) = sent /\ Len(toDevice) \in Nat
    BY <1>1, <1>2, <1>3 DEF Answered
  <2>3. \A i \in 1 .. Len(toDevice') : toDevice'[i] = Answered + i
    <3> TAKE i \in 1 .. Len(toDevice')
    <3>1. CASE i \in 1 .. Len(toDevice)
      BY <1>3, <2>1, <3>1 DEF Online
    <3>2. CASE i = Len(toDevice) + 1
      <4>1. Answered + i = sent + 1
        BY <1>2, <2>2, <3>2 DEF Answered
      <4> QED
        BY <1>3, <3>2, <4>1
    <3> QED
      BY <1>3, <2>2, <3>1, <3>2
  <2>4. \E odd \in {0, 1} : InLine(odd, Answered - taken)'
    BY <1>1, <2>1, <2>2 DEF Online, InLine
  <2> QED
    BY <1>1, <2>1, <2>2, <2>3, <2>4 DEF Online
<1> QED
  BY <1>1, <1>4, <1>5 DEF LinkInv, InStep

LEMMA GetPosKeeps ==
  ASSUME LinkInv, GetPosReturns
  PROVE  LinkInv'
<1>1. /\ at = "receiving" /\ at' = "ready" /\ Take(Size) /\ Len(toHost) >= Size
      /\ reading' = Parse(SubSeq(toHost, 1, Size)) /\ taken' = taken + 1
      /\ UNCHANGED <<toDevice, compute_and_apply_forces, sent, late>>
  BY DEF GetPosReturns
<1>2. LinkTypeOK'
  BY <1>1, TakeType DEF LinkInv, LinkTypeOK
<1>3. ASSUME ~late PROVE Online'
  <2>1. Online
    BY <1>1, <1>3 DEF LinkInv, InStep
  <2>2. sent \in Nat /\ taken \in Nat /\ Len(toDevice) \in Nat
    BY DEF LinkInv, LinkTypeOK
  <2>3. /\ Answered \in Int /\ Answered' = Answered /\ Answered - taken \in Nat
        /\ (Answered - taken)' = Answered - taken - 1
    BY <1>1, <2>1, <2>2 DEF Online, Answered
  <2>4. PICK n \in Nat : n = Answered - taken
    BY <2>3
  <2> PICK odd \in {0, 1} : InLine(odd, n)
    BY <2>1, <2>4 DEF Online
  <2>5. /\ n >= 1
        /\ Parse(SubSeq(toHost, 1, Size)) \in GoodAnswers(taken + 1)
        /\ InLine(odd, n - 1)'
    BY <1>1, InLineTaken DEF LinkInv
  <2>6. taken' <= Answered' /\ reading' \in GoodAnswers(taken')
    BY <1>1, <2>2, <2>3, <2>4, <2>5
  <2>7. InLine(odd, Answered - taken)'
    <3>1. (Answered - taken)' = n - 1
      BY <2>3, <2>4
    <3> QED
      BY <2>5, <3>1 DEF InLine
  <2>8. \A i \in 1 .. Len(toDevice') : toDevice'[i] = Answered' + i
    BY <1>1, <2>1, <2>3 DEF Online
  <2> QED
    BY <2>6, <2>7, <2>8 DEF Online
<1> QED
  BY <1>1, <1>2, <1>3 DEF LinkInv, InStep

(* The device answers a newline once and a message with a whole answer.    *)
LEMMA AnswerKeeps ==
  ASSUME LinkInv, CounterFollows, pos \in Int, counter \in Int, offset \in Int,
         AnswersLine
  PROVE  LinkInv'
<1> DEFINE forces == compute_and_apply_forces \/ Head(toDevice) # 0
           a == [kind |-> IF forces THEN "position" ELSE "encoders",
                 of |-> Head(toDevice),
                 error |-> IF sure THEN counter - pos - offset ELSE 0]
<1>1. /\ toDevice # <<>> /\ toHost' = toHost \o Answer(a)
      /\ toDevice' = Tail(toDevice) /\ compute_and_apply_forces' = forces
      /\ UNCHANGED <<at, sent, taken, reading, late>>
  BY DEF AnswersLine, Replies, hostVars
<1>2. /\ toDevice \in Seq(Nat) /\ toHost \in Seq(Bytes)
      /\ sent \in Nat /\ taken \in Nat /\ compute_and_apply_forces \in BOOLEAN
  BY DEF LinkInv, LinkTypeOK
<1>3. /\ Head(toDevice) \in Nat /\ Head(toDevice) = toDevice[1]
      /\ toDevice' \in Seq(Nat) /\ Len(toDevice') = Len(toDevice) - 1
      /\ \A i \in 1 .. Len(toDevice') : toDevice'[i] = toDevice[i + 1]
      /\ Len(toDevice) \in Nat \ {0}
  BY <1>1, <1>2, HeadTailProperties, EmptySeq
<1>4. a.error \in -1 .. 1
  BY DEF CounterFollows, CountIsExact, Error
<1>5. a \in Answers /\ forces \in BOOLEAN
  <2>1. a.error \in Int
    BY <1>4
  <2> QED
    BY <1>2, <1>3, <2>1 DEF Answers
<1> HIDE DEF a, forces
<1>6. LinkTypeOK'
  <2>1. toHost' \in Seq(Bytes)
    BY <1>1, <1>2, <1>5, AnswerIs, ConcatProperties
  <2> QED
    BY <1>1, <1>2, <1>3, <1>5, <2>1 DEF LinkInv, LinkTypeOK
<1>7. ASSUME ~late, at = "probing" PROVE Probing'
  <2>1. toDevice = <<0>> /\ toHost = <<>>
    BY <1>1, <1>7 DEF LinkInv, InStep, Probing
  <2>2. toDevice' = <<>>
    BY <1>1, <2>1
  <2>3. toHost' = Answer(a)
    BY <1>1, <1>5, <2>1, AnswerIs, ConcatEmptySeq
  <2> QED
    BY <1>5, <2>2, <2>3 DEF Probing
<1>8. ASSUME ~late, at \in {"online", "ready", "receiving"} PROVE Online'
  <2>1. Online
    BY <1>8 DEF LinkInv, InStep
  <2>2. /\ Answered \in Nat /\ Answered' = Answered + 1 /\ Answered - taken \in Nat
        /\ (Answered - taken)' = Answered - taken + 1
    BY <1>1, <1>2, <1>3, <2>1 DEF Online, Answered
  <2>3. Head(toDevice) = Answered + 1
    BY <1>3, <2>1 DEF Online
  <2>4. a \in GoodAnswers(taken + 1 + (Answered - taken))
    <3>1. taken + 1 + (Answered - taken) = Head(toDevice) /\ Head(toDevice) # 0
      BY <1>2, <2>2, <2>3
    <3> QED
      BY <1>4, <3>1 DEF a, forces, GoodAnswers
  <2>5. PICK n \in Nat : n = Answered - taken
    BY <2>2
  <2> PICK odd \in {0, 1} : InLine(odd, n)
    BY <2>1, <2>5 DEF Online
  <2>6. InLine(odd, n + 1)'
    BY <1>1, <1>5, <2>4, <2>5, InLineGrows DEF LinkInv
  <2>7. InLine(odd, Answered - taken)'
    <3>1. (Answered - taken)' = n + 1
      BY <2>2, <2>5
    <3> QED
      BY <2>6, <3>1 DEF InLine
  <2>8. \A i \in 1 .. Len(toDevice') : toDevice'[i] = Answered' + i
    <3> TAKE i \in 1 .. Len(toDevice')
    <3>1. i + 1 \in 1 .. Len(toDevice)
      BY <1>3
    <3>2. toDevice[i + 1] = Answered + (i + 1)
      BY <2>1, <3>1 DEF Online
    <3> QED
      BY <1>3, <2>2, <3>2
  <2>9. taken' <= Answered'
    BY <1>1, <1>2, <2>1, <2>2 DEF Online
  <2> QED
    BY <1>1, <2>1, <2>7, <2>8, <2>9 DEF Online
<1>9. ~late => at # "opened"
  BY <1>1 DEF LinkInv, InStep
<1> QED
  BY <1>1, <1>6, <1>7, <1>8, <1>9 DEF LinkInv, InStep

LEMMA LinkStep ==
  ASSUME LinkInv, CounterFollows, pos \in Int, counter \in Int, offset \in Int,
         [LinkNext]_allVars
  PROVE  LinkInv'
<1>1. CASE TransmitsProbe
  <2>1. /\ at = "opened" /\ at' = "probing" /\ toDevice' = Append(toDevice, 0)
        /\ UNCHANGED <<compute_and_apply_forces, toHost, sent, taken, reading, late>>
    BY <1>1 DEF TransmitsProbe
  <2>2. toDevice' \in Seq(Nat)
    BY <2>1, AppendProperties DEF LinkInv, LinkTypeOK
  <2>3. LinkTypeOK'
    BY <2>1, <2>2 DEF LinkInv, LinkTypeOK
  <2>4. ~late => Probing'
    BY <2>1 DEF LinkInv, InStep, Probing
  <2> QED
    BY <2>1, <2>3, <2>4 DEF LinkInv, InStep
<1>2. CASE ProbeFails
  <2>1. /\ late' = TRUE /\ toHost' = <<>> /\ at = "probing" /\ at' = "opened"
        /\ UNCHANGED <<compute_and_apply_forces, toDevice, sent, taken>>
    BY <1>2 DEF ProbeFails
  <2>2. toHost' \in Seq(Bytes)
    BY <2>1, EmptySeq
  <2> QED
    BY <2>1, <2>2 DEF LinkInv, LinkTypeOK
<1>3. CASE GetPosBegins
  <2>1. LinkTypeOK'
    BY <1>3 DEF LinkInv, LinkTypeOK, GetPosBegins
  <2>2. ~late => Online'
    BY <1>3 DEF LinkInv, InStep, Online, Answered, InLine, GetPosBegins
  <2> QED
    BY <1>3, <2>1, <2>2 DEF LinkInv, InStep, GetPosBegins
<1>4. CASE GetPosTimesOut
  <2>1. /\ late' = TRUE /\ toHost' = <<>> /\ at' = "ready" /\ taken' = taken + 1
        /\ UNCHANGED <<compute_and_apply_forces, toDevice, sent>>
    BY <1>4 DEF GetPosTimesOut
  <2>2. toHost' \in Seq(Bytes)
    BY <2>1, EmptySeq
  <2> QED
    BY <2>1, <2>2 DEF LinkInv, LinkTypeOK
<1>5. CASE UNCHANGED linkVars
  <2> USE <1>5 DEF linkVars, hostVars
  <2>1. LinkTypeOK'
    BY DEF LinkInv, LinkTypeOK
  <2>2. InStep => InStep'
    BY DEF InStep, Probing, Online, Answered, InLine
  <2> QED
    BY <2>1, <2>2 DEF LinkInv
<1>6. Host => TransmitsProbe \/ ProbeSucceeds \/ ProbeFails \/ Sends \/ GetPosBegins
                \/ GetPosReturns \/ GetPosTimesOut
  BY DEF Host
<1> QED
  BY <1>1, <1>2, <1>3, <1>4, <1>5, <1>6, ProbeKeeps, SendKeeps, GetPosKeeps, AnswerKeeps
     DEF LinkNext, allVars

(* While the device answers within the second, every getPos returns the    *)
(* position of the message that it follows, whole and at most a step off,  *)
(* for every number of messages and every length of an answer that ends    *)
(* with a blank: the newline that wait_online may leave stays one blank    *)
(* ahead for good (wait_online, PJRCSerialComm::receive).                  *)
THEOREM AnswersCorrect == LinkSpec => []AnswersInStep
<1>1. LinkInit => LinkInv
  BY LinkInitially
<1>2. EncoderInv => CounterFollows /\ pos \in Int /\ counter \in Int /\ offset \in Int
  BY EncoderMeans DEF EncoderInv, TypeOK
<1>3. EncoderInv /\ LinkInv /\ [LinkNext]_allVars => LinkInv'
  BY <1>2, LinkStep
<1>4. LinkInv => AnswersInStep
  <2> SUFFICES ASSUME LinkInv, taken > 0, ~late PROVE reading \in GoodAnswers(taken)
    BY DEF AnswersInStep, GoodAnswers
  <2>1. taken # 0
    BY DEF LinkInv, LinkTypeOK
  <2> QED
    BY <2>1 DEF LinkInv, LinkTypeOK, InStep, Online
<1>5. EncoderInit => EncoderInv
  BY EncoderInitially
<1>6. EncoderInv /\ [EncoderNext]_encoderVars => EncoderInv'
  BY EncoderStep
<1>7. EncoderSpec => []EncoderInv
  BY <1>5, <1>6, PTL DEF EncoderSpec
<1> QED
  BY <1>1, <1>3, <1>4, <1>7, LinkHasEncoder, PTL DEF LinkSpec
=============================================================================
