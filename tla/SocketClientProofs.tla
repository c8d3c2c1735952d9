-------------------------- MODULE SocketClientProofs --------------------------
(***************************************************************************)
(* Proofs about SocketClient, for messages of any size in any pieces, and  *)
(* about the example client, which uses it.                                *)
(***************************************************************************)
EXTENDS AClient, SequenceTheorems, TLAPS

-----------------------------------------------------------------------------
(* Bytes in the order of a stream.                                         *)

(* Later bytes are of the same message or of a later one, and the bytes of *)
(* a message follow each other, with none left out after the first.        *)
InOrder(s) ==
  \A a, b \in 1 .. Len(s) : a <= b =>
    /\ s[a][1] <= s[b][1]
    /\ s[a][2] + (b - a) <= dataSize =>
         s[b][1] = s[a][1] /\ s[b][2] = s[a][2] + (b - a)
    /\ s[a][2] = dataSize /\ b = a + 1 => s[b][2] = 1

Begins(s) == s # <<>> => s[1][2] = 1
Ends(s) == s # <<>> => s[Len(s)][2] = dataSize

LEMMA ByteParts ==
  ASSUME NEW s \in Seq(Byte)
  PROVE  /\ Len(s) \in Nat /\ (s = <<>> <=> Len(s) = 0)
         /\ \A a \in 1 .. Len(s) :
              /\ s[a] = <<s[a][1], s[a][2]>>
              /\ s[a][1] \in 0 .. MaxMessages /\ s[a][2] \in 1 .. dataSize
  BY DEF Byte

LEMMA MessageBytes ==
  ASSUME NEW n \in 0 .. MaxMessages
  PROVE  /\ Message(n) \in [1 .. dataSize -> Byte]
         /\ Message(n) \in Seq(Byte) /\ Len(Message(n)) = dataSize
         /\ \A p \in 1 .. dataSize :
              Message(n)[p][1] = n /\ Message(n)[p][2] = p
<1>1. Message(n) \in [1 .. dataSize -> Byte]
  BY DEF Message, Byte
<1>2. dataSize \in Nat
  BY ClientAssumption
<1>3. Message(n) \in Seq(Byte) /\ Len(Message(n)) = dataSize
  BY <1>1, <1>2, IsASeq, LenProperties
<1> QED
  BY <1>1, <1>3 DEF Message

(* What is put together of bytes in order, from a first one, is a message. *)
LEMMA WholeIsMessage ==
  ASSUME NEW d \in Seq(Byte), Len(d) = dataSize, InOrder(d), Begins(d)
  PROVE  d[1][1] \in 0 .. MaxMessages /\ d = Message(d[1][1])
<1>1. dataSize \in Nat \ {0} /\ 1 \in 1 .. Len(d) /\ d # <<>>
  BY ClientAssumption, ByteParts
<1>2. d[1][1] \in 0 .. MaxMessages /\ d[1][2] = 1
  BY <1>1, ByteParts DEF Begins
<1>3. ASSUME NEW p \in 1 .. dataSize PROVE d[p] = <<d[1][1], p>>
  <2>1. 1 <= p /\ d[1][2] + (p - 1) = p
    BY <1>2
  <2>2. d[p][1] = d[1][1] /\ d[p][2] = p
    BY <1>1, <2>1 DEF InOrder
  <2> QED
    BY <2>2, ByteParts
<1>4. d = [p \in 1 .. dataSize |-> d[p]]
  BY LenProperties
<1> QED
  BY <1>2, <1>3, <1>4 DEF Message

LEMMA PrefixInOrder ==
  ASSUME NEW s \in Seq(Byte), NEW t \in Seq(Byte), InOrder(s), Begins(s),
         Len(t) <= Len(s), \A a \in 1 .. Len(t) : t[a] = s[a]
  PROVE  InOrder(t) /\ Begins(t)
<1>1. Len(t) \in Nat /\ Len(s) \in Nat
  BY ByteParts
<1>2. \A a \in 1 .. Len(t) : a \in 1 .. Len(s)
  BY <1>1
<1>3. InOrder(t)
  BY <1>2 DEF InOrder
<1>4. Begins(t)
  <2>1. t # <<>> => 1 \in 1 .. Len(t) /\ s # <<>>
    BY <1>1, ByteParts
  <2> QED
    BY <2>1 DEF Begins
<1> QED
  BY <1>3, <1>4

(* The next message of the server, after whole ones.                       *)
LEMMA MessageInOrder ==
  ASSUME NEW s \in Seq(Byte), NEW n \in 0 .. MaxMessages,
         InOrder(s), Begins(s), Ends(s), \A a \in 1 .. Len(s) : s[a][1] <= n
  PROVE  /\ s \o Message(n) \in Seq(Byte)
         /\ Len(s \o Message(n)) = Len(s) + dataSize
         /\ \A a \in 1 .. Len(s) : (s \o Message(n))[a] = s[a]
         /\ \A a \in Len(s) + 1 .. Len(s) + dataSize :
              (s \o Message(n))[a][1] = n
         /\ InOrder(s \o Message(n)) /\ Begins(s \o Message(n))
         /\ Ends(s \o Message(n))
<1> DEFINE t == s \o Message(n)
<1> HIDE DEF t
<1>1. Len(s) \in Nat /\ dataSize \in Nat \ {0}
  BY ClientAssumption
<1>2. /\ t \in Seq(Byte) /\ Len(t) = Len(s) + dataSize
      /\ \A a \in 1 .. Len(s) : t[a] = s[a]
      /\ \A a \in Len(s) + 1 .. Len(s) + dataSize :
           t[a][1] = n /\ t[a][2] = a - Len(s)
  <2>1. /\ t \in Seq(Byte) /\ Len(t) = Len(s) + dataSize
        /\ \A a \in 1 .. Len(s) + dataSize :
             t[a] = IF a <= Len(s) THEN s[a] ELSE Message(n)[a - Len(s)]
    <3>1. Message(n) \in Seq(Byte) /\ Len(Message(n)) = dataSize
      BY MessageBytes
    <3>2. /\ s \o Message(n) \in Seq(Byte)
          /\ Len(s \o Message(n)) = Len(s) + Len(Message(n))
          /\ \A a \in 1 .. Len(s) + Len(Message(n)) : (s \o Message(n))[a] =
               IF a <= Len(s) THEN s[a] ELSE Message(n)[a - Len(s)]
      BY <3>1, ConcatProperties
    <3> QED
      BY <3>1, <3>2 DEF t
  <2>2. \A a \in 1 .. Len(s) : t[a] = s[a]
    BY <1>1, <2>1
  <2>3. ASSUME NEW a \in Len(s) + 1 .. Len(s) + dataSize
        PROVE  t[a][1] = n /\ t[a][2] = a - Len(s)
    <3>1. t[a] = Message(n)[a - Len(s)] /\ a - Len(s) \in 1 .. dataSize
      BY <1>1, <2>1
    <3> QED
      BY <3>1, MessageBytes
  <2> QED
    BY <2>1, <2>2, <2>3
<1>3. ASSUME NEW a \in 1 .. Len(t), NEW b \in 1 .. Len(t), a <= b
      PROVE  /\ t[a][1] <= t[b][1]
             /\ t[a][2] + (b - a) <= dataSize =>
                  t[b][1] = t[a][1] /\ t[b][2] = t[a][2] + (b - a)
             /\ t[a][2] = dataSize /\ b = a + 1 => t[b][2] = 1
  <2>1. CASE b <= Len(s)
    <3>1. /\ a \in 1 .. Len(s) /\ b \in 1 .. Len(s)
          /\ t[a] = s[a] /\ t[b] = s[b]
      BY <1>1, <1>2, <1>3, <2>1
    <3> QED
      BY <1>3, <3>1 DEF InOrder
  <2>2. CASE a > Len(s)
    <3>1. /\ t[a][1] = n /\ t[a][2] = a - Len(s)
          /\ t[b][1] = n /\ t[b][2] = b - Len(s)
      BY <1>1, <1>2, <1>3, <2>2
    <3> QED
      BY <1>1, <1>2, <1>3, <3>1
  <2>3. CASE a <= Len(s) /\ b > Len(s)
    <3>1. /\ t[a] = s[a] /\ t[b][1] = n /\ t[b][2] = b - Len(s)
          /\ a \in 1 .. Len(s) /\ Len(s) \in 1 .. Len(s)
      BY <1>1, <1>2, <1>3, <2>3
    <3>2. /\ s[a][1] <= n /\ s[a][2] \in 1 .. dataSize
          /\ s[Len(s)][2] = dataSize
      <4>1. s # <<>>
        BY <3>1, ByteParts
      <4> QED
        BY <3>1, <4>1, ByteParts DEF Ends
    <3>3. s[a][2] + (Len(s) - a) >= dataSize
      <4>1. s[a][2] + (Len(s) - a) <= dataSize =>
              s[Len(s)][2] = s[a][2] + (Len(s) - a)
        BY <2>3, <3>1 DEF InOrder
      <4>2. s[a][2] \in Int
        BY <3>2
      <4> QED
        BY <1>1, <3>1, <3>2, <4>1, <4>2
    <3>4. ~(s[a][2] + (b - a) <= dataSize)
      BY <1>1, <1>2, <2>3, <3>2, <3>3
    <3>5. b = a + 1 => t[b][2] = 1
      BY <1>1, <2>3, <3>1
    <3> QED
      BY <3>1, <3>2, <3>4, <3>5
  <2> QED
    BY <1>1, <1>2, <2>1, <2>2, <2>3
<1>4. InOrder(t)
  BY <1>3 DEF InOrder
<1>5. Begins(t) /\ Ends(t)
  <2>1. Ends(t)
    BY <1>1, <1>2 DEF Ends
  <2>2. CASE s = <<>>
    <3>1. Len(s) = 0
      BY <2>2
    <3> QED
      BY <1>1, <1>2, <2>1, <3>1 DEF Begins
  <2>3. CASE s # <<>>
    <3>1. 1 \in 1 .. Len(s)
      BY <1>1, <2>3, ByteParts
    <3> QED
      BY <1>2, <2>1, <2>3, <3>1 DEF Begins
  <2> QED
    BY <2>2, <2>3
<1> QED
  BY <1>2, <1>4, <1>5 DEF t

(* What follows a whole message begins with a message.                     *)
LEMMA RestInOrder ==
  ASSUME NEW d \in Seq(Byte), NEW s \in Seq(Byte), Len(d) = dataSize,
         InOrder(d \o s), Begins(d \o s)
  PROVE  /\ InOrder(d) /\ Begins(d) /\ InOrder(s) /\ Begins(s)
         /\ \A a \in 1 .. Len(s) : d[1][1] <= s[a][1]
<1> DEFINE t == d \o s
<1> HIDE DEF t
<1>1. dataSize \in Nat \ {0} /\ Len(s) \in Nat
  BY ClientAssumption
<1>2. /\ t \in Seq(Byte) /\ Len(t) = dataSize + Len(s)
      /\ \A a \in 1 .. dataSize : t[a] = d[a]
      /\ \A a \in 1 .. Len(s) : t[dataSize + a] = s[a]
  <2>1. /\ t \in Seq(Byte) /\ Len(t) = dataSize + Len(s)
        /\ \A a \in 1 .. dataSize + Len(s) :
             t[a] = IF a <= dataSize THEN d[a] ELSE s[a - dataSize]
    BY ConcatProperties DEF t
  <2>2. ASSUME NEW a \in 1 .. Len(s) PROVE t[dataSize + a] = s[a]
    <3>1. /\ dataSize + a \in 1 .. dataSize + Len(s) /\ ~(dataSize + a <= dataSize)
          /\ (dataSize + a) - dataSize = a
      BY <1>1
    <3> QED
      BY <2>1, <3>1
  <2> QED
    BY <1>1, <2>1, <2>2
<1>3. InOrder(t) /\ Begins(t) /\ t # <<>>
  BY <1>1, <1>2, ByteParts DEF t
<1>4. InOrder(d) /\ Begins(d)
  <2>1. \A a \in 1 .. Len(d) : a \in 1 .. Len(t) /\ t[a] = d[a]
    BY <1>1, <1>2
  <2>2. InOrder(d)
    BY <1>3, <2>1 DEF InOrder
  <2>3. 1 \in 1 .. Len(d) /\ d # <<>>
    BY <1>1, ByteParts
  <2> QED
    BY <1>3, <2>1, <2>2, <2>3 DEF Begins
<1>5. InOrder(s)
  <2> SUFFICES ASSUME NEW a \in 1 .. Len(s), NEW b \in 1 .. Len(s), a <= b
               PROVE  /\ s[a][1] <= s[b][1]
                      /\ s[a][2] + (b - a) <= dataSize =>
                           s[b][1] = s[a][1] /\ s[b][2] = s[a][2] + (b - a)
                      /\ s[a][2] = dataSize /\ b = a + 1 => s[b][2] = 1
    BY DEF InOrder
  <2>1. t[dataSize + a] = s[a] /\ t[dataSize + b] = s[b]
    BY <1>2
  <2>2. PICK x \in 1 .. Len(t), y \in 1 .. Len(t) :
          x = dataSize + a /\ y = dataSize + b
    <3>1. dataSize + a \in 1 .. Len(t) /\ dataSize + b \in 1 .. Len(t)
      BY <1>1, <1>2
    <3> QED
      BY <3>1
  <2>3. x <= y /\ y - x = b - a /\ (b = a + 1 => y = x + 1)
    BY <1>1, <2>2
  <2>4. t[x] = s[a] /\ t[y] = s[b]
    BY <2>1, <2>2
  <2> QED
    BY <1>3, <2>3, <2>4 DEF InOrder
<1>6. d[1][2] = 1 /\ t[1] = d[1]
  BY <1>1, <1>2, <1>3 DEF Begins
<1>7. Begins(s)
  <2> SUFFICES ASSUME s # <<>> PROVE s[1][2] = 1
    BY DEF Begins
  <2>1. /\ 1 \in 1 .. Len(t) /\ dataSize \in 1 .. Len(t)
        /\ dataSize + 1 \in 1 .. Len(t) /\ 1 \in 1 .. Len(s)
        /\ 1 + (dataSize - 1) = dataSize
    BY <1>1, <1>2, ByteParts
  <2>2. t[dataSize][2] = dataSize
    <3>1. /\ 1 <= dataSize /\ t[1][2] + (dataSize - 1) = dataSize
          /\ t[1][2] + (dataSize - 1) <= dataSize
      BY <1>1, <1>6, <2>1
    <3>2. t[dataSize][2] = t[1][2] + (dataSize - 1)
      BY <1>3, <2>1, <3>1 DEF InOrder
    <3> QED
      BY <3>1, <3>2
  <2>3. t[dataSize + 1][2] = 1
    BY <1>1, <1>3, <2>1, <2>2 DEF InOrder
  <2> QED
    BY <1>2, <2>1, <2>3
<1>8. ASSUME NEW a \in 1 .. Len(s) PROVE d[1][1] <= s[a][1]
  <2>1. 1 \in 1 .. Len(t) /\ dataSize + a \in 1 .. Len(t) /\ 1 <= dataSize + a
    BY <1>1, <1>2
  <2> QED
    BY <1>2, <1>3, <1>6, <2>1 DEF InOrder
<1> QED
  BY <1>4, <1>5, <1>7, <1>8

-----------------------------------------------------------------------------
(* The invariant of the reception.                                         *)

Receiving == at \in {"recv", "call", "blocked", "check"}

(* Will the bytes that come next be taken for the first ones of a message, *)
(* or for those that follow dataBuffer?                                    *)
Aligned ==
  \/ Receiving \/ at = "select"
  \/ at = "inner" /\ ~stopClient /\ connected

Line == IF Receiving THEN dataBuffer \o stream ELSE stream

(* The bytes are of known messages, none of which is older than Get's.     *)
Recent(s) ==
  \A a \in 1 .. Len(s) :
    s[a][1] \in 1 .. Len(messages) /\ data[1][1] <= s[a][1]

LineInv ==
  Aligned => /\ InOrder(Line) /\ Begins(Line) /\ Recent(Line)
             /\ connection = "up" => Ends(Line)

Outside == {"none", "test", "socket", "connect", "clear", "gone"}

Places ==
  /\ at = "check" => Len(dataBuffer) = dataSize \/ stopClient \/ ~connected
  /\ connection \in {"none", "queued"} => stream = <<>>
  /\ connection = "queued" => at \in {"inner", "select", "close"}
  /\ at \in Outside => connection = "none"
  /\ owner = "new" => at = "none"

ReceptionInv == TypeOK /\ WholeMessages /\ LineInv /\ Places

LEMMA ReceptionInitially == Init => ReceptionInv
<1> SUFFICES ASSUME Init PROVE ReceptionInv
  OBVIOUS
<1>1. TypeOK
  <2>1. <<>> \in Seq(Byte) /\ <<>> \in Seq(Values) /\ Len(<<>>) = 0
    OBVIOUS
  <2>2. data \in [1 .. dataSize -> Byte]
    BY MessageBytes, ClientAssumption DEF Init
  <2>3. /\ dataBuffer \in Seq(Byte) /\ Len(dataBuffer) <= dataSize
        /\ stream \in Seq(Byte) /\ arrived \in 0 .. Len(stream)
        /\ messages \in Seq(Values) /\ Len(messages) <= MaxMessages
    BY <2>1, ClientAssumption DEF Init
  <2>4. restarts \in 0 .. MaxRestarts
    BY ClientAssumption DEF Init
  <2> QED
    BY <2>2, <2>3, <2>4 DEF Init, TypeOK
<1>2. Len(messages) = 0 /\ data = Message(0)
  BY DEF Init
<1> QED
  BY <1>1, <1>2 DEF Init, ReceptionInv, WholeMessages, LineInv, Places, Outside,
                    Aligned, Receiving

(* The two parts of TypeOK: where things stand, and the bytes.             *)
ControlOK ==
  /\ at \in {"none", "test", "socket", "connect", "inner", "select", "recv",
             "call", "blocked", "check", "close", "clear", "gone"}
  /\ stopClient \in BOOLEAN /\ connected \in BOOLEAN
  /\ listenSocket \in {"INVALID", "fd"}
  /\ descriptor \in {"closed", "open"}
  /\ owner \in {"new", "alive", "closing", "joining", "gone"}
  /\ serverUp \in BOOLEAN /\ restarts \in 0 .. MaxRestarts
  /\ connection \in {"none", "queued", "up", "ended"}

BytesOK ==
  /\ dataBuffer \in Seq(Byte) /\ Len(dataBuffer) <= dataSize
  /\ data \in [1 .. dataSize -> Byte]
  /\ stream \in Seq(Byte) /\ arrived \in 0 .. Len(stream)
  /\ messages \in Seq(Values) /\ Len(messages) <= MaxMessages

LEMMA TypeParts == TypeOK <=> ControlOK /\ BytesOK
  BY DEF TypeOK, ControlOK, BytesOK

LEMMA ControlStep == ControlOK /\ [Next]_clientVars => ControlOK'
<1> SUFFICES ASSUME ControlOK, [Next]_clientVars PROVE ControlOK'
  OBVIOUS
<1> USE ClientAssumption
    DEF ControlOK, ownerVars, socketVars, serverVars, linkVars, Moves
<1>1. CASE Start \/ Shutdown \/ DestroyBegins \/ DestroyJoins
  BY <1>1 DEF Start, Shutdown, DestroyBegins, DestroyJoins
<1>2. CASE DestroyCloses \/ Closes \/ Clears
  BY <1>2 DEF DestroyCloses, Closes, Clears
<1>3. CASE ListenTests \/ OpensSocket \/ OpenFails \/ ConnectSucceeds
             \/ ConnectFails
  BY <1>3 DEF ListenTests, OpensSocket, OpenFails, ConnectSucceeds, ConnectFails
<1>4. CASE InnerTests \/ SelectReady \/ SelectTimesOut \/ SelectFails
  BY <1>4 DEF InnerTests, SelectReady, SelectTimesOut, SelectFails
<1>5. CASE RecvTests \/ RecvBlocks \/ RecvEnds \/ RecvGets \/ Stores
  BY <1>5 DEF RecvTests, RecvBlocks, RecvEnds, RecvGets, Stores
<1>6. CASE ServerStarts
  BY <1>6 DEF ServerStarts
<1>7. CASE ServerStops \/ ServerAccepts \/ ByteArrives
  <2>1. CASE ServerStops
    BY <2>1 DEF ServerStops
  <2>2. CASE ServerAccepts
    BY <2>2 DEF ServerAccepts
  <2>3. CASE ByteArrives
    BY <2>3 DEF ByteArrives
  <2> QED
    BY <1>7, <2>1, <2>2, <2>3
<1>8. ASSUME NEW v \in Values, ServerSends(v) PROVE ControlOK'
  BY <1>8 DEF ServerSends
<1>9. CASE UNCHANGED clientVars
  BY <1>9 DEF clientVars
<1> QED
  BY <1>1, <1>2, <1>3, <1>4, <1>5, <1>6, <1>7, <1>8, <1>9
  DEF Next, Owner, Listen, Server

(* What recvfrom yields, and what is left of the stream.                   *)
LEMMA RecvBytes ==
  ASSUME BytesOK, RecvGets
  PROVE  /\ dataBuffer' \in Seq(Byte) /\ Len(dataBuffer') <= dataSize
         /\ Len(dataBuffer) < Len(dataBuffer')
         /\ stream' \in Seq(Byte) /\ arrived' \in 0 .. Len(stream')
         /\ dataBuffer' \o stream' = dataBuffer \o stream
<1> USE ClientAssumption DEF BytesOK
<1>1. PICK k \in 1 .. dataSize - Len(dataBuffer) :
        /\ k <= arrived
        /\ dataBuffer' = dataBuffer \o SubSeq(stream, 1, k)
        /\ stream' = SubSeq(stream, k + 1, Len(stream))
        /\ arrived' = arrived - k
  BY DEF RecvGets
<1>2. /\ k \in Nat \ {0} /\ k <= Len(stream) /\ Len(stream) \in Nat
      /\ Len(dataBuffer) \in Nat
  BY <1>1
<1>3. SubSeq(stream, 1, k) \in Seq(Byte) /\ Len(SubSeq(stream, 1, k)) = k
  BY <1>2, SubSeqProperties, ElementOfSeq
<1>4. stream' \in Seq(Byte) /\ Len(stream') = Len(stream) - k
  <2>1. \A a \in k + 1 .. Len(stream) : stream[a] \in Byte
    BY <1>2, ElementOfSeq
  <2> QED
    BY <1>1, <1>2, <2>1, SubSeqProperties
<1>5. dataBuffer' \in Seq(Byte) /\ Len(dataBuffer') = Len(dataBuffer) + k
  BY <1>1, <1>3, ConcatProperties
<1>6. Len(dataBuffer') <= dataSize /\ arrived' \in 0 .. Len(stream')
  BY <1>1, <1>2, <1>4, <1>5
<1>7. SubSeq(stream, 1, k) \o stream' = stream
  <2>1. SubSeq(stream, 1, k) \o SubSeq(stream, k + 1, Len(stream))
          = SubSeq(stream, 1, Len(stream))
    BY <1>2, ConcatAdjacentSubSeq
  <2> QED
    BY <1>1, <2>1, SubSeqFull
<1>8. dataBuffer' \o stream' = dataBuffer \o stream
  <2>1. (dataBuffer \o SubSeq(stream, 1, k)) \o stream'
          = dataBuffer \o (SubSeq(stream, 1, k) \o stream')
    BY <1>3, <1>4, ConcatAssociative
  <2> QED
    BY <1>1, <1>7, <2>1
<1>9. Len(dataBuffer) < Len(dataBuffer')
  BY <1>2, <1>5
<1> QED
  BY <1>4, <1>5, <1>6, <1>8, <1>9

LEMMA BytesStep == BytesOK /\ [Next]_clientVars => BytesOK'
<1> SUFFICES ASSUME BytesOK, [Next]_clientVars PROVE BytesOK'
  OBVIOUS
<1> USE DEF BytesOK, ownerVars, socketVars, serverVars, linkVars, Moves
<1>0. <<>> \in Seq(Byte) /\ Len(<<>>) = 0 /\ dataSize \in Nat
  BY ClientAssumption
<1>1. CASE UNCHANGED <<dataBuffer, data, stream, arrived, messages>>
  BY <1>1
<1>2. CASE DestroyCloses \/ Closes
  <2>1. /\ UNCHANGED <<dataBuffer, data, messages>>
        /\ \/ stream' = <<>> /\ arrived' = 0
           \/ UNCHANGED <<stream, arrived>>
    BY <1>2 DEF DestroyCloses, Closes
  <2>2. CASE stream' = <<>> /\ arrived' = 0
    <3>1. 0 \in 0 .. Len(<<>>)
      BY <1>0
    <3> QED
      BY <1>0, <2>1, <2>2, <3>1
  <2>3. CASE UNCHANGED <<stream, arrived>>
    BY <2>1, <2>3
  <2> QED
    BY <2>1, <2>2, <2>3
<1>3. CASE SelectReady
  BY <1>0, <1>3 DEF SelectReady
<1>4. CASE RecvGets
  BY <1>4, RecvBytes DEF RecvGets
<1>5. CASE Stores
  <2>1. Len(dataBuffer) = dataSize => dataBuffer \in [1 .. dataSize -> Byte]
    BY LenProperties
  <2> QED
    BY <1>5, <2>1 DEF Stores
<1>6. CASE ServerStops
  <2>1. /\ SubSeq(stream, 1, arrived) \in Seq(Byte)
        /\ Len(SubSeq(stream, 1, arrived)) = arrived /\ arrived \in Nat
    BY SubSeqProperties, ElementOfSeq
  <2> QED
    BY <1>6, <2>1 DEF ServerStops
<1>7. ASSUME NEW v \in Values, ServerSends(v) PROVE BytesOK'
  <2>1. Len(messages) + 1 \in 0 .. MaxMessages
    BY <1>7, ClientAssumption DEF ServerSends
  <2>2. /\ Message(Len(messages) + 1) \in Seq(Byte)
        /\ Len(Message(Len(messages) + 1)) = dataSize
    BY <2>1, MessageBytes
  <2>3. /\ stream \o Message(Len(messages) + 1) \in Seq(Byte)
        /\ arrived \in 0 .. Len(stream \o Message(Len(messages) + 1))
    BY <1>0, <2>2, ConcatProperties
  <2>4. messages' \in Seq(Values) /\ Len(messages') <= MaxMessages
    BY <1>7, <2>1, AppendProperties DEF ServerSends
  <2> QED
    BY <1>7, <2>3, <2>4 DEF ServerSends
<1>8. CASE ByteArrives
  <2>1. arrived' \in 0 .. Len(stream)
    BY <1>8 DEF ByteArrives
  <2> QED
    BY <1>8, <2>1 DEF ByteArrives
<1>9. CASE Start \/ Shutdown \/ DestroyBegins \/ DestroyJoins
  BY <1>1, <1>9 DEF Start, Shutdown, DestroyBegins, DestroyJoins
<1>10. CASE ListenTests \/ OpensSocket \/ OpenFails \/ ConnectSucceeds
             \/ ConnectFails \/ InnerTests \/ SelectTimesOut \/ SelectFails
             \/ RecvTests \/ RecvBlocks \/ RecvEnds \/ Clears
  BY <1>1, <1>10
  DEF ListenTests, OpensSocket, OpenFails, ConnectSucceeds, ConnectFails,
      InnerTests, SelectTimesOut, SelectFails, RecvTests, RecvBlocks, RecvEnds,
      Clears
<1>11. CASE ServerStarts \/ ServerAccepts \/ UNCHANGED clientVars
  BY <1>1, <1>11 DEF ServerStarts, ServerAccepts, clientVars
<1> QED
  BY <1>2, <1>3, <1>4, <1>5, <1>6, <1>7, <1>8, <1>9, <1>10, <1>11
  DEF Next, Owner, Listen, Server

LEMMA PlacesStep == TypeOK /\ Places /\ [Next]_clientVars => Places'
<1> SUFFICES ASSUME TypeOK, Places, [Next]_clientVars PROVE Places'
  OBVIOUS
<1> USE DEF Places, Outside, ownerVars, socketVars, serverVars, linkVars, Moves
<1>1. CASE Owner
  <2>1. CASE Start \/ Shutdown \/ DestroyBegins \/ DestroyJoins
    BY <2>1 DEF Start, Shutdown, DestroyBegins, DestroyJoins
  <2>2. CASE DestroyCloses
    BY <2>2 DEF DestroyCloses
  <2> QED
    BY <1>1, <2>1, <2>2 DEF Owner
<1>2. CASE ListenTests \/ OpensSocket \/ OpenFails \/ ConnectSucceeds
             \/ ConnectFails \/ InnerTests \/ SelectTimesOut \/ SelectFails
  <2>1. CASE ListenTests \/ OpensSocket \/ OpenFails
    BY <2>1 DEF ListenTests, OpensSocket, OpenFails
  <2>2. CASE ConnectSucceeds \/ ConnectFails
    BY <2>2 DEF ConnectSucceeds, ConnectFails
  <2>3. CASE InnerTests \/ SelectTimesOut \/ SelectFails
    BY <2>3 DEF InnerTests, SelectTimesOut, SelectFails
  <2> QED
    BY <1>2, <2>1, <2>2, <2>3
<1>3. CASE SelectReady
  <2>1. connection # "queued"
    BY <1>3 DEF SelectReady, Ready, TypeOK
  <2> QED
    BY <1>3, <2>1 DEF SelectReady
<1>4. CASE RecvTests
  <2>1. ~(Len(dataBuffer) < dataSize) => Len(dataBuffer) = dataSize
    BY ClientAssumption DEF TypeOK
  <2> QED
    BY <1>4, <2>1 DEF RecvTests
<1>5. CASE RecvGets
  BY <1>5 DEF RecvGets, InRecv, TypeOK
<1>6. CASE RecvBlocks \/ RecvEnds \/ Stores \/ Closes \/ Clears
  BY <1>6 DEF RecvBlocks, RecvEnds, Stores, Closes, Clears, InRecv
<1>7. CASE ServerStarts \/ ServerAccepts \/ ByteArrives
  BY <1>7 DEF ServerStarts, ServerAccepts, ByteArrives
<1>8. CASE ServerStops
  BY <1>8 DEF ServerStops, TypeOK
<1>9. ASSUME NEW v \in Values, ServerSends(v) PROVE Places'
  BY <1>9 DEF ServerSends
<1>10. CASE UNCHANGED clientVars
  BY <1>10 DEF clientVars
<1> QED
  BY <1>1, <1>2, <1>3, <1>4, <1>5, <1>6, <1>7, <1>8, <1>9, <1>10
  DEF Next, Listen, Server

(* What is received and what is to come stays as it is.                    *)
LEMMA SameLine ==
  ASSUME LineInv, UNCHANGED <<data, messages>>,
         Aligned' => Aligned /\ Line' = Line,
         connection' = "up" => connection = "up"
  PROVE  LineInv'
<1> SUFFICES ASSUME Aligned'
             PROVE  /\ InOrder(Line') /\ Begins(Line') /\ Recent(Line)'
                    /\ connection' = "up" => Ends(Line')
  BY DEF LineInv
<1>1. /\ InOrder(Line) /\ Begins(Line) /\ Recent(Line)
      /\ connection = "up" => Ends(Line)
  BY DEF LineInv
<1>2. InOrder(Line') /\ Begins(Line') /\ (connection = "up" => Ends(Line'))
  BY <1>1
<1>3. Recent(Line)'
  BY <1>1 DEF Recent
<1> QED
  BY <1>2, <1>3

(* It loses its end, and nothing is added.                                 *)
LEMMA ShorterLine ==
  ASSUME LineInv, UNCHANGED <<data, messages>>, Aligned' => Aligned,
         Line \in Seq(Byte), Line' \in Seq(Byte), Len(Line') <= Len(Line),
         \A a \in 1 .. Len(Line') : Line'[a] = Line[a],
         connection' # "up"
  PROVE  LineInv'
<1> SUFFICES ASSUME Aligned'
             PROVE  InOrder(Line') /\ Begins(Line') /\ Recent(Line)'
  BY DEF LineInv
<1>1. InOrder(Line) /\ Begins(Line) /\ Recent(Line)
  BY DEF LineInv
<1>2. PICK t \in Seq(Byte) : t = Line'
  OBVIOUS
<1>3. InOrder(t) /\ Begins(t)
  BY <1>1, <1>2, PrefixInOrder
<1>4. Recent(Line)'
  <2>1. \A a \in 1 .. Len(Line') : a \in 1 .. Len(Line)
    BY <1>2, ByteParts
  <2> QED
    BY <1>1, <2>1 DEF Recent
<1> QED
  BY <1>2, <1>3, <1>4

LEMMA LineBytes == BytesOK => Line \in Seq(Byte)
  BY ConcatProperties DEF BytesOK, Line

(* An end of the stream is cut off.                                        *)
LEMMA CutsLine ==
  ASSUME BytesOK, LineInv, stream' \in Seq(Byte), Len(stream') <= Len(stream),
         \A a \in 1 .. Len(stream') : stream'[a] = stream[a],
         UNCHANGED <<at, connected, stopClient, dataBuffer, data, messages>>,
         connection' # "up"
  PROVE  LineInv'
<1>1. Aligned' => Aligned
  BY DEF Aligned, Receiving
<1>2. CASE Receiving
  <2>1. Line = dataBuffer \o stream /\ Line' = dataBuffer \o stream'
    BY <1>2 DEF Line, Receiving
  <2>2. /\ Line \in Seq(Byte) /\ Len(Line) = Len(dataBuffer) + Len(stream)
        /\ \A a \in 1 .. Len(dataBuffer) + Len(stream) : Line[a] =
             IF a <= Len(dataBuffer) THEN dataBuffer[a]
             ELSE stream[a - Len(dataBuffer)]
    BY <2>1, ConcatProperties DEF BytesOK
  <2>3. PICK u \in Seq(Byte) : u = stream'
    OBVIOUS
  <2>4. /\ dataBuffer \o u \in Seq(Byte)
        /\ Len(dataBuffer \o u) = Len(dataBuffer) + Len(u)
        /\ \A a \in 1 .. Len(dataBuffer) + Len(u) : (dataBuffer \o u)[a] =
             IF a <= Len(dataBuffer) THEN dataBuffer[a] ELSE u[a - Len(dataBuffer)]
    BY ConcatProperties DEF BytesOK
  <2>5. Line' = dataBuffer \o u
    BY <2>1, <2>3
  <2>6. Len(u) <= Len(stream) /\ \A a \in 1 .. Len(u) : u[a] = stream[a]
    BY <2>3
  <2>7. /\ Len(dataBuffer) \in Nat /\ Len(stream) \in Nat /\ Len(u) \in Nat
    BY DEF BytesOK
  <2> HIDE <2>1, <2>3
  <2>8. Len(dataBuffer \o u) <= Len(Line)
    BY <2>2, <2>4, <2>6, <2>7
  <2>9. ASSUME NEW a \in 1 .. Len(dataBuffer \o u)
        PROVE  (dataBuffer \o u)[a] = Line[a]
    <3>1. /\ a \in 1 .. Len(dataBuffer) + Len(u)
          /\ a \in 1 .. Len(dataBuffer) + Len(stream)
      BY <2>4, <2>6, <2>7, <2>9
    <3>2. CASE a <= Len(dataBuffer)
      BY <2>2, <2>4, <3>1, <3>2
    <3>3. CASE ~(a <= Len(dataBuffer))
      <4>1. a - Len(dataBuffer) \in 1 .. Len(u)
        BY <2>7, <3>1, <3>3
      <4> QED
        BY <2>2, <2>4, <2>6, <3>1, <3>3, <4>1
    <3> QED
      BY <3>2, <3>3
  <2> QED
    BY <1>1, <2>2, <2>4, <2>5, <2>8, <2>9, ShorterLine
<1>3. CASE ~Receiving
  <2>1. Line = stream /\ Line' = stream'
    BY <1>3 DEF Line, Receiving
  <2> QED
    BY <1>1, <2>1, ShorterLine DEF BytesOK
<1> QED
  BY <1>2, <1>3

(* A message is written; all that was written before is older.             *)
LEMMA SendsLine ==
  ASSUME TypeOK, WholeMessages, Places, LineInv, NEW v \in Values, ServerSends(v)
  PROVE  LineInv'
<1> SUFFICES ASSUME Aligned'
             PROVE  /\ InOrder(Line') /\ Begins(Line') /\ Recent(Line)'
                    /\ connection' = "up" => Ends(Line')
  BY DEF LineInv
<1> DEFINE n == Len(messages) + 1
<1>1. /\ UNCHANGED <<at, connected, stopClient, dataBuffer, data, connection>>
      /\ stream' = IF connection = "up" THEN stream \o Message(n) ELSE stream
      /\ n \in 1 .. MaxMessages /\ Len(messages') = n
  <2>1. messages' = Append(messages, v) /\ Len(messages) < MaxMessages
    BY DEF ServerSends
  <2>2. messages \in Seq(Values) /\ Len(messages) \in Nat
    BY DEF TypeOK
  <2>3. n \in 1 .. MaxMessages /\ Len(messages') = n
    BY <2>1, <2>2, AppendProperties, ClientAssumption
  <2> QED
    BY <2>3 DEF ServerSends, ownerVars
<1> HIDE DEF n
<1>2. Aligned /\ (Receiving <=> Receiving')
  BY <1>1 DEF Aligned, Receiving
<1>3. /\ InOrder(Line) /\ Begins(Line) /\ Recent(Line)
      /\ connection = "up" => Ends(Line)
  BY <1>2 DEF LineInv
<1>4. Line \in Seq(Byte)
  BY TypeParts, LineBytes
<1>5. \A a \in 1 .. Len(Line) : /\ Line[a][1] \in 1 .. n /\ Line[a][1] <= n
                                /\ data[1][1] <= Line[a][1]
  <2>1. Len(messages) \in Nat /\ n = Len(messages) + 1
    BY DEF TypeOK, n
  <2> QED
    BY <1>3, <2>1 DEF Recent
<1>6. CASE connection = "up"
  <2>1. Message(n) \in Seq(Byte) /\ n \in 0 .. MaxMessages
    BY <1>1, MessageBytes, ClientAssumption
  <2>2. Line' = Line \o Message(n)
    <3>1. CASE Receiving
      <4>1. Line = dataBuffer \o stream /\ Line' = dataBuffer \o stream'
        BY <1>1, <1>2, <3>1 DEF Line
      <4>2. dataBuffer \o (stream \o Message(n)) = (dataBuffer \o stream) \o Message(n)
        BY <2>1, ConcatAssociative DEF TypeOK
      <4> QED
        BY <1>1, <1>6, <4>1, <4>2
    <3>2. CASE ~Receiving
      BY <1>1, <1>2, <1>6, <3>2 DEF Line
    <3> QED
      BY <3>1, <3>2
  <2>3. /\ Len(Line \o Message(n)) = Len(Line) + dataSize
        /\ \A a \in 1 .. Len(Line) : (Line \o Message(n))[a] = Line[a]
        /\ \A a \in Len(Line) + 1 .. Len(Line) + dataSize :
             (Line \o Message(n))[a][1] = n
        /\ InOrder(Line \o Message(n)) /\ Begins(Line \o Message(n))
        /\ Ends(Line \o Message(n))
    BY <1>3, <1>4, <1>5, <1>6, <2>1, MessageInOrder
  <2>4. data[1][1] <= n
    <3>1. PICK k \in 0 .. Len(messages) : data = Message(k)
      BY DEF WholeMessages
    <3>2. k <= n /\ k \in 0 .. MaxMessages
      <4>1. Len(messages) \in Nat /\ n = Len(messages) + 1
        BY DEF n, TypeOK
      <4> QED
        BY <1>1, <4>1, ClientAssumption
    <3> QED
      BY <3>1, <3>2, MessageBytes, ClientAssumption
  <2>5. Recent(Line)'
    <3> SUFFICES ASSUME NEW a \in 1 .. Len(Line')
                 PROVE  Line'[a][1] \in 1 .. n /\ data[1][1] <= Line'[a][1]
      BY <1>1 DEF Recent
    <3>1. Len(Line) \in Nat /\ dataSize \in Nat
      BY <1>4, ClientAssumption
    <3>2. a \in 1 .. Len(Line) \/ a \in Len(Line) + 1 .. Len(Line) + dataSize
      BY <2>2, <2>3, <3>1
    <3>4. CASE a \in 1 .. Len(Line)
      <4>1. Line'[a] = Line[a]
        BY <2>2, <2>3, <3>4
      <4>2. Line[a][1] \in 1 .. n /\ data[1][1] <= Line[a][1]
        BY <1>5, <3>4
      <4> QED
        BY <4>1, <4>2
    <3>5. CASE a \in Len(Line) + 1 .. Len(Line) + dataSize
      <4>1. Line'[a][1] = n
        BY <2>2, <2>3, <3>5
      <4>2. n \in 1 .. n
        BY <1>1
      <4> QED
        BY <4>1, <4>2, <2>4
    <3> QED
      BY <3>2, <3>4, <3>5
  <2> QED
    BY <2>2, <2>3, <2>5
<1>7. CASE connection # "up"
  <2>1. Line' = Line
    BY <1>1, <1>2, <1>7 DEF Line
  <2>2. Recent(Line)'
    BY <1>1, <1>5, <2>1 DEF Recent
  <2> QED
    BY <1>1, <1>3, <1>7, <2>1, <2>2
<1> QED
  BY <1>6, <1>7

(* A whole message is taken from the line; what is left begins with one.   *)
LEMMA StoresWhole ==
  ASSUME TypeOK, WholeMessages, Places, LineInv, Stores
  PROVE  LineInv' /\ WholeMessages' /\ data[1][1] <= data'[1][1]
<1>1. /\ at = "check" /\ at' = "inner"
      /\ data' = IF Len(dataBuffer) = dataSize THEN dataBuffer ELSE data
      /\ UNCHANGED <<connected, dataBuffer, stopClient, connection, stream, messages>>
  BY DEF Stores, Moves, ownerVars, serverVars, linkVars
<1>2. Aligned /\ Line = dataBuffer \o stream /\ Line' = stream
  BY <1>1 DEF Aligned, Receiving, Line
<1>3. /\ InOrder(Line) /\ Begins(Line) /\ Recent(Line)
      /\ connection = "up" => Ends(Line)
  BY <1>2 DEF LineInv
<1>4. CASE Len(dataBuffer) # dataSize
  <2>1. data' = data /\ ~Aligned'
    BY <1>1, <1>4 DEF Places, Aligned, Receiving
  <2>2. data[1][1] <= data[1][1]
    <3>1. PICK k \in 0 .. Len(messages) : data = Message(k)
      BY DEF WholeMessages
    <3>2. k \in 0 .. MaxMessages
      BY ClientAssumption DEF TypeOK
    <3> QED
      BY <3>1, <3>2, MessageBytes, ClientAssumption
  <2> QED
    BY <1>1, <2>1, <2>2 DEF LineInv, WholeMessages
<1>5. CASE Len(dataBuffer) = dataSize
  <2>0. dataBuffer \in Seq(Byte) /\ stream \in Seq(Byte)
    BY DEF TypeOK
  <2>1. /\ InOrder(dataBuffer) /\ Begins(dataBuffer)
        /\ InOrder(stream) /\ Begins(stream)
        /\ \A a \in 1 .. Len(stream) : dataBuffer[1][1] <= stream[a][1]
    BY <1>2, <1>3, <1>5, <2>0, RestInOrder
  <2>2. dataBuffer = Message(dataBuffer[1][1])
    BY <1>5, <2>0, <2>1, WholeIsMessage
  <2>3. dataSize \in Nat \ {0} /\ Len(stream) \in Nat
    BY <2>0, ClientAssumption
  <2>4. /\ Len(Line) = dataSize + Len(stream)
        /\ \A a \in 1 .. dataSize + Len(stream) : Line[a] =
             IF a <= dataSize THEN dataBuffer[a] ELSE stream[a - dataSize]
    BY <1>2, <1>5, <2>0, ConcatProperties
  <2>5. /\ 1 \in 1 .. Len(Line) /\ Line[1] = dataBuffer[1]
        /\ \A a \in 1 .. Len(stream) :
             dataSize + a \in 1 .. Len(Line) /\ Line[dataSize + a] = stream[a]
    <3>1. ASSUME NEW a \in 1 .. Len(stream)
          PROVE  dataSize + a \in 1 .. Len(Line) /\ Line[dataSize + a] = stream[a]
      <4>1. /\ dataSize + a \in 1 .. dataSize + Len(stream)
            /\ ~(dataSize + a <= dataSize) /\ (dataSize + a) - dataSize = a
        BY <2>3
      <4> QED
        BY <2>4, <4>1
    <3>2. 1 \in 1 .. Len(Line) /\ Line[1] = dataBuffer[1]
      BY <2>3, <2>4
    <3> QED
      BY <3>1, <3>2
  <2>6. dataBuffer[1][1] \in 1 .. Len(messages) /\ data[1][1] <= dataBuffer[1][1]
    BY <1>3, <2>5 DEF Recent
  <2>7. WholeMessages'
    BY <1>1, <1>5, <2>2, <2>6 DEF WholeMessages, TypeOK
  <2>8. Recent(Line)'
    <3> SUFFICES ASSUME NEW a \in 1 .. Len(stream)
                 PROVE  /\ stream[a][1] \in 1 .. Len(messages)
                        /\ dataBuffer[1][1] <= stream[a][1]
      BY <1>1, <1>2, <1>5 DEF Recent
    <3>1. Line[dataSize + a][1] \in 1 .. Len(messages)
      BY <1>3, <2>5 DEF Recent
    <3> QED
      BY <2>1, <2>5, <3>1
  <2>9. connection = "up" => Ends(stream)
    <3> SUFFICES ASSUME connection = "up", stream # <<>>
                 PROVE  stream[Len(stream)][2] = dataSize
      BY DEF Ends
    <3>1. Len(stream) \in 1 .. Len(stream) /\ Len(Line) # 0
      BY <2>0, <2>3, <2>4, ByteParts
    <3>2. Line[Len(Line)] = stream[Len(stream)]
      BY <2>4, <2>5, <3>1
    <3>3. Line # <<>>
      BY <2>5
    <3> QED
      BY <1>3, <3>2, <3>3 DEF Ends
  <2> QED
    BY <1>1, <1>2, <1>5, <2>1, <2>6, <2>7, <2>8, <2>9 DEF LineInv
<1> QED
  BY <1>4, <1>5

LEMMA NotOlder == TypeOK /\ WholeMessages => data[1][1] <= data[1][1]
<1> SUFFICES ASSUME TypeOK, WholeMessages PROVE data[1][1] <= data[1][1]
  OBVIOUS
<1>1. PICK k \in 0 .. Len(messages) : data = Message(k)
  BY DEF WholeMessages
<1>2. k \in 0 .. MaxMessages
  BY ClientAssumption DEF TypeOK
<1> QED
  BY <1>1, <1>2, MessageBytes, ClientAssumption

LEMMA ReceptionStep ==
  ReceptionInv /\ [Next]_clientVars
    => ReceptionInv' /\ data[1][1] <= data'[1][1]
<1> SUFFICES ASSUME ReceptionInv, [Next]_clientVars
             PROVE  ReceptionInv' /\ data[1][1] <= data'[1][1]
  OBVIOUS
<1>1. TypeOK /\ BytesOK /\ WholeMessages /\ LineInv /\ Places
  BY TypeParts DEF ReceptionInv
<1>2. TypeOK' /\ BytesOK' /\ Places'
  <2>1. ControlOK' /\ BytesOK' => TypeOK'
    BY DEF TypeOK, ControlOK, BytesOK
  <2> QED
    BY <1>1, <2>1, TypeParts, ControlStep, BytesStep, PlacesStep
<1> USE DEF ownerVars, socketVars, serverVars, linkVars, Moves
<1>3. CASE Stores
  BY <1>1, <1>2, <1>3, StoresWhole DEF ReceptionInv
<1>4. ASSUME NEW v \in Values, ServerSends(v)
      PROVE  ReceptionInv' /\ data[1][1] <= data'[1][1]
  <2>1. LineInv'
    BY <1>1, <1>4, SendsLine
  <2>2. data' = data /\ WholeMessages'
    <3>1. data' = data /\ messages' = Append(messages, v)
      BY <1>4 DEF ServerSends
    <3>2. Len(messages') = Len(messages) + 1 /\ Len(messages) \in Nat
      BY <1>1, <3>1, AppendProperties DEF TypeOK
    <3> QED
      BY <1>1, <3>1, <3>2 DEF WholeMessages
  <2> QED
    BY <1>1, <1>2, <2>1, <2>2, NotOlder DEF ReceptionInv
<1>5. ASSUME UNCHANGED <<data, messages>>, LineInv'
      PROVE  ReceptionInv' /\ data[1][1] <= data'[1][1]
  BY <1>1, <1>2, <1>5, NotOlder DEF ReceptionInv, WholeMessages
<1>6. CASE ListenTests \/ OpensSocket \/ OpenFails \/ ConnectFails
             \/ SelectFails \/ Closes \/ Clears \/ Start
  <2>1. UNCHANGED <<data, messages>> /\ ~Aligned'
    BY <1>1, <1>6
    DEF ListenTests, OpensSocket, OpenFails, ConnectFails, SelectFails, Closes,
        Clears, Start, Aligned, Receiving
  <2> QED
    BY <1>5, <2>1 DEF LineInv
<1>7. CASE ConnectSucceeds
  <2>1. /\ UNCHANGED <<data, messages, stream>> /\ ~Receiving'
        /\ connection' = "queued" /\ stream = <<>>
    BY <1>1, <1>7 DEF ConnectSucceeds, Receiving, Places, Outside
  <2>2. Line' = <<>>
    BY <2>1 DEF Line
  <2>3. InOrder(<<>>) /\ Begins(<<>>) /\ Len(<<>>) = 0
    BY DEF InOrder, Begins
  <2>4. LineInv'
    BY <2>1, <2>2, <2>3 DEF LineInv, Recent
  <2> QED
    BY <1>5, <2>1, <2>4
<1>8. CASE Shutdown \/ DestroyBegins \/ DestroyJoins \/ InnerTests
             \/ SelectTimesOut \/ RecvTests \/ RecvBlocks \/ RecvEnds
             \/ ServerStarts \/ ByteArrives \/ UNCHANGED clientVars
  <2>1. /\ UNCHANGED <<data, messages, stream, dataBuffer, connection>>
        /\ Aligned' => Aligned
        /\ Receiving' <=> Receiving
    <3>1. CASE Shutdown \/ DestroyBegins \/ DestroyJoins
      BY <3>1 DEF Shutdown, DestroyBegins, DestroyJoins, Aligned, Receiving
    <3>2. CASE InnerTests
      BY <3>2 DEF InnerTests, Aligned, Receiving
    <3>3. CASE SelectTimesOut \/ RecvTests \/ RecvBlocks
      BY <3>3 DEF SelectTimesOut, RecvTests, RecvBlocks, Aligned, Receiving
    <3>4. CASE RecvEnds
      BY <3>4 DEF RecvEnds, InRecv, Aligned, Receiving
    <3>5. CASE ServerStarts \/ ByteArrives \/ UNCHANGED clientVars
      BY <3>5 DEF ServerStarts, ByteArrives, clientVars, Aligned, Receiving
    <3> QED
      BY <1>8, <3>1, <3>2, <3>3, <3>4, <3>5
  <2>2. Line' = Line
    BY <2>1 DEF Line
  <2> QED
    BY <1>1, <1>5, <2>1, <2>2, SameLine
<1>9. CASE SelectReady
  <2>1. /\ UNCHANGED <<data, messages, stream, connection>> /\ dataBuffer' = <<>>
        /\ Aligned /\ ~Receiving /\ Receiving'
    BY <1>9 DEF SelectReady, Aligned, Receiving
  <2>2. <<>> \o stream = stream
    BY <1>1, ConcatEmptySeq DEF TypeOK
  <2>3. Line' = Line
    BY <2>1, <2>2 DEF Line
  <2> QED
    BY <1>1, <1>5, <2>1, <2>3, SameLine
<1>10. CASE RecvGets
  <2>1. /\ UNCHANGED <<data, messages, connection>>
        /\ Aligned /\ Receiving /\ Receiving'
    BY <1>10 DEF RecvGets, InRecv, Aligned, Receiving
  <2>2. Line' = Line
    BY <1>1, <1>10, <2>1, RecvBytes DEF Line
  <2> QED
    BY <1>1, <1>5, <2>1, <2>2, SameLine
<1>11. CASE ServerAccepts
  <2>1. /\ UNCHANGED <<data, messages, stream, at, connected, stopClient>>
        /\ ~Receiving /\ ~Receiving' /\ stream = <<>>
    BY <1>1, <1>11 DEF ServerAccepts, Places, Receiving
  <2>2. Line' = <<>> /\ InOrder(<<>>) /\ Begins(<<>>) /\ Ends(<<>>) /\ Len(<<>>) = 0
    BY <2>1 DEF Line, InOrder, Begins, Ends
  <2>3. LineInv'
    BY <2>2 DEF LineInv, Recent
  <2> QED
    BY <1>5, <2>1, <2>3
<1>12. CASE ServerStops
  <2>1. /\ UNCHANGED <<at, connected, stopClient, dataBuffer, data, messages>>
        /\ connection' # "up" /\ stream' = SubSeq(stream, 1, arrived)
    BY <1>12 DEF ServerStops
  <2>2. arrived \in Nat /\ arrived <= Len(stream) /\ stream \in Seq(Byte)
    BY <1>1 DEF TypeOK
  <2>3. /\ SubSeq(stream, 1, arrived) \in Seq(Byte)
        /\ Len(SubSeq(stream, 1, arrived)) = arrived
        /\ \A a \in 1 .. arrived : SubSeq(stream, 1, arrived)[a] = stream[a]
    BY <2>2, SubSeqProperties, ElementOfSeq
  <2>4. LineInv'
    BY <1>1, <2>1, <2>2, <2>3, CutsLine
  <2> QED
    BY <1>5, <2>1, <2>4
<1>13. CASE DestroyCloses
  <2>1. UNCHANGED <<at, connected, stopClient, dataBuffer, data, messages>>
    BY <1>13 DEF DestroyCloses
  <2>2. CASE at = "blocked"
    <3>1. UNCHANGED <<stream, connection>>
      BY <1>13, <2>2 DEF DestroyCloses
    <3>2. (Aligned' => Aligned) /\ Line' = Line
      BY <2>1, <3>1 DEF Aligned, Receiving, Line
    <3> QED
      BY <1>1, <1>5, <2>1, <3>1, <3>2, SameLine
  <2>3. CASE at # "blocked"
    <3>1. connection' = "none" /\ stream' = <<>>
      BY <1>13, <2>3 DEF DestroyCloses
    <3>2. /\ <<>> \in Seq(Byte) /\ Len(<<>>) = 0 /\ Len(stream) \in Nat
      BY <1>1 DEF TypeOK
    <3>3. /\ stream' \in Seq(Byte) /\ Len(stream') <= Len(stream)
          /\ \A a \in 1 .. Len(stream') : stream'[a] = stream[a]
      BY <3>1, <3>2
    <3>4. LineInv'
      BY <1>1, <2>1, <3>1, <3>3, CutsLine
    <3> QED
      BY <1>5, <2>1, <3>4
  <2> QED
    BY <2>2, <2>3
<1> QED
  BY <1>3, <1>4, <1>6, <1>7, <1>8, <1>9, <1>10, <1>11, <1>12, <1>13
  DEF Next, Owner, Listen, Server

(* Get returns whole messages of the server only, for any message size and *)
(* however the stream is cut by the kernel, a restart or the destructor.   *)
THEOREM WholeMessagesCorrect == Spec => []WholeMessages
<1>1. ReceptionInv => WholeMessages
  BY DEF ReceptionInv
<1>2. QED
  BY <1>1, ReceptionInitially, ReceptionStep, PTL DEF Spec

(* Get does not go back to an older message, not even after a reconnection *)
(* (Listen's copy into data).                                              *)
THEOREM NeverOlderCorrect == Spec => NeverOlder
<1>1. ReceptionInv /\ [Next]_clientVars => [data[1][1] <= data'[1][1]]_clientVars
  BY ReceptionStep
<1>2. QED
  BY <1>1, ReceptionInitially, ReceptionStep, PTL DEF Spec, NeverOlder

-----------------------------------------------------------------------------
(* The blocking read.                                                      *)

(* recvfrom is called for what is missing of a message, with a connection, *)
(* and for its first bytes only when select has seen some, or the end.     *)
Reading == (at \in {"recv", "call"} /\ descriptor = "open") \/ at = "blocked"

ReadingInv ==
  /\ at \in {"call", "blocked"} => Len(dataBuffer) < dataSize
  /\ Reading => /\ connection \in {"up", "ended"}
                /\ dataBuffer = <<>> => stream # <<>> \/ connection = "ended"

LEMMA ReadingStep ==
  ReceptionInv /\ ReadingInv /\ [Next]_clientVars => ReadingInv'
<1> SUFFICES ASSUME ReceptionInv, ReadingInv, [Next]_clientVars
             PROVE  ReadingInv'
  OBVIOUS
<1>0. BytesOK /\ ControlOK /\ Places
  BY TypeParts DEF ReceptionInv
<1> USE DEF ReadingInv, Reading, ownerVars, socketVars, serverVars, linkVars, Moves
<1>1. CASE Start \/ Shutdown \/ DestroyBegins \/ DestroyJoins
  BY <1>1 DEF Start, Shutdown, DestroyBegins, DestroyJoins
<1>2. CASE DestroyCloses
  BY <1>2 DEF DestroyCloses
<1>3. CASE ListenTests \/ OpensSocket \/ OpenFails \/ ConnectSucceeds
             \/ ConnectFails \/ InnerTests \/ SelectTimesOut \/ SelectFails
  BY <1>3 DEF ListenTests, OpensSocket, OpenFails, ConnectSucceeds, ConnectFails,
              InnerTests, SelectTimesOut, SelectFails
<1>4. CASE SelectReady
  <2>1. arrived > 0 => stream # <<>>
    BY <1>0, EmptySeq DEF BytesOK
  <2> QED
    BY <1>0, <1>4, <2>1 DEF SelectReady, Ready, Places, ControlOK
<1>5. CASE RecvTests
  BY <1>0, <1>5 DEF RecvTests
<1>6. CASE RecvBlocks
  BY <1>6 DEF RecvBlocks
<1>7. CASE RecvGets
  <2>1. /\ at' = "recv" /\ UNCHANGED <<descriptor, connection>>
        /\ Reading
    BY <1>7 DEF RecvGets, InRecv
  <2>2. dataBuffer' # <<>>
    <3>1. /\ Len(dataBuffer) < Len(dataBuffer') /\ dataBuffer' \in Seq(Byte)
          /\ Len(dataBuffer) \in Nat
      BY <1>0, <1>7, RecvBytes DEF BytesOK
    <3> QED
      BY <3>1
  <2> QED
    BY <2>1, <2>2
<1>8. CASE RecvEnds \/ Stores
  BY <1>8 DEF RecvEnds, Stores
<1>9. CASE Closes \/ Clears
  BY <1>9 DEF Closes, Clears
<1>10. CASE ServerStarts \/ ServerAccepts \/ ByteArrives
  BY <1>10 DEF ServerStarts, ServerAccepts, ByteArrives
<1>11. CASE ServerStops
  BY <1>11 DEF ServerStops
<1>12. ASSUME NEW v \in Values, ServerSends(v) PROVE ReadingInv'
  <2>1. stream # <<>> => stream' # <<>>
    <3>1. CASE connection = "up"
      <4>1. PICK n \in Nat : n = Len(messages) + 1
        BY <1>0 DEF BytesOK
      <4>2. n \in 0 .. MaxMessages
        BY <1>0, <1>12, <4>1, ClientAssumption DEF ServerSends, BytesOK
      <4>3. stream' = stream \o Message(n) /\ stream \in Seq(Byte)
        BY <1>0, <1>12, <3>1, <4>1 DEF ServerSends, BytesOK
      <4>4. Message(n) \in Seq(Byte)
        BY <4>2, MessageBytes
      <4>5. Len(stream') = Len(stream) + Len(Message(n))
        BY <4>3, <4>4, ConcatProperties
      <4>6. Len(stream) \in Nat /\ Len(Message(n)) \in Nat
        BY <4>3, <4>4
      <4>7. stream # <<>> => Len(stream) # 0
        BY <4>3, ByteParts
      <4> QED
        BY <4>5, <4>6, <4>7
    <3>2. CASE connection # "up"
      BY <1>12, <3>2 DEF ServerSends
    <3> QED
      BY <3>1, <3>2
  <2> QED
    BY <1>12, <2>1 DEF ServerSends
<1>13. CASE UNCHANGED clientVars
  BY <1>13 DEF clientVars
<1> QED
  BY <1>1, <1>2, <1>3, <1>4, <1>5, <1>6, <1>7, <1>8, <1>9, <1>10, <1>11, <1>12,
     <1>13
  DEF Next, Owner, Listen, Server

(* recvfrom never waits for bytes that nobody will send: the server, which *)
(* writes whole messages, has already written the ones that are missing,   *)
(* or has closed the connection.  So the thread that blocks does not hold  *)
(* up the destructor.                                                      *)
BlockedIsWoken == at = "blocked" => stream # <<>> \/ connection = "ended"

LEMMA ReadingIsWoken == ReceptionInv /\ ReadingInv => BlockedIsWoken
<1> SUFFICES ASSUME ReceptionInv, ReadingInv, at = "blocked", stream = <<>>,
                    connection # "ended"
             PROVE  FALSE
  BY DEF BlockedIsWoken
<1>1. connection = "up" /\ dataBuffer # <<>> /\ Len(dataBuffer) < dataSize
  BY DEF ReadingInv, Reading
<1>2. dataBuffer \in Seq(Byte)
  BY DEF ReceptionInv, TypeOK
<1>3. Line = dataBuffer
  <2>1. dataBuffer \o <<>> = dataBuffer
    BY <1>2, ConcatEmptySeq
  <2> QED
    BY <2>1 DEF Line, Receiving
<1>4. InOrder(dataBuffer) /\ Begins(dataBuffer) /\ Ends(dataBuffer)
  BY <1>1, <1>3 DEF ReceptionInv, LineInv, Aligned, Receiving
<1>5. PICK m \in Nat : m = Len(dataBuffer)
  BY <1>2
<1>6. m # 0 /\ m < dataSize /\ dataSize \in Nat
  BY <1>1, <1>2, <1>5, ByteParts, ClientAssumption
<1>7. dataBuffer[1][2] = 1 /\ dataBuffer[m][2] = dataSize
  BY <1>1, <1>4, <1>5 DEF Begins, Ends
<1>8. dataBuffer[m][2] = dataBuffer[1][2] + (m - 1)
  <2>1. 1 \in 1 .. m /\ m \in 1 .. m /\ 1 <= m /\ 1 + (m - 1) <= dataSize
    BY <1>6
  <2> QED
    BY <1>4, <1>5, <1>7, <2>1 DEF InOrder
<1> QED
  BY <1>6, <1>7, <1>8

(* No restart, partial read or destructor leaves the thread in recvfrom    *)
(* with nothing to come.                                                   *)
THEOREM BlockedIsWokenCorrect == Spec => []BlockedIsWoken
<1>1. Init => ReadingInv
  BY DEF Init, ReadingInv, Reading
<1>2. QED
  BY <1>1, ReceptionInitially, ReceptionStep, ReadingStep, ReadingIsWoken, PTL
  DEF Spec

-----------------------------------------------------------------------------
(* The descriptor, and the end of the object.                              *)

(* An object that was not started has no thread and no descriptor; Clears  *)
(* follows Closes, whoever closed the descriptor.                          *)
DescriptorInv ==
  /\ ControlOK
  /\ OwnDescriptor
  /\ owner = "new" => at = "none" /\ listenSocket = "INVALID"

LEMMA DescriptorStep == DescriptorInv /\ [Next]_clientVars => DescriptorInv'
<1> SUFFICES ASSUME DescriptorInv, [Next]_clientVars PROVE DescriptorInv'
  OBVIOUS
<1>1. ControlOK' /\ ControlOK
  BY ControlStep DEF DescriptorInv
<1> USE <1>1 DEF DescriptorInv, OwnDescriptor, ownerVars, socketVars, serverVars,
            linkVars, Moves
<1>2. CASE Start \/ Shutdown \/ DestroyJoins
  BY <1>2 DEF Start, Shutdown, DestroyJoins, ControlOK
<1>3. CASE DestroyBegins
  BY <1>3 DEF DestroyBegins, ControlOK
<1>4. CASE DestroyCloses
  BY <1>4 DEF DestroyCloses
<1>5. CASE ListenTests \/ OpensSocket \/ OpenFails \/ ConnectSucceeds
             \/ ConnectFails
  BY <1>5 DEF ListenTests, OpensSocket, OpenFails, ConnectSucceeds, ConnectFails
<1>6. CASE InnerTests \/ SelectReady \/ SelectTimesOut \/ SelectFails
  BY <1>6 DEF InnerTests, SelectReady, SelectTimesOut, SelectFails
<1>7. CASE RecvTests \/ RecvBlocks \/ RecvGets \/ RecvEnds
  BY <1>7 DEF RecvTests, RecvBlocks, RecvGets, RecvEnds, InRecv
<1>8. CASE Stores \/ Closes \/ Clears
  BY <1>8 DEF Stores, Closes, Clears
<1>9. CASE Server
  BY <1>9 DEF Server, ServerStarts, ServerStops, ServerAccepts, ServerSends,
              ByteArrives
<1>10. CASE UNCHANGED clientVars
  BY <1>10 DEF clientVars
<1> QED
  BY <1>2, <1>3, <1>4, <1>5, <1>6, <1>7, <1>8, <1>9, <1>10
  DEF Next, Owner, Listen

(* The thread uses an open descriptor of its own until the destructor has  *)
(* closed it, and neither outlives the destructor.                         *)
THEOREM OwnDescriptorCorrect == Spec => []OwnDescriptor
<1>1. Init => DescriptorInv
  BY ReceptionInitially, TypeParts
  DEF Init, DescriptorInv, OwnDescriptor, ReceptionInv
<1>2. DescriptorInv => OwnDescriptor
  BY DEF DescriptorInv
<1>3. QED
  BY <1>1, <1>2, DescriptorStep, PTL DEF Spec

(* The example client uses its object within that, so that all of it holds *)
(* in the program as well.                                                 *)
THEOREM MainUsesClient == MainSpec => Spec
<1>1. MainInit => Init
  BY DEF MainInit
<1>2. [MainNext]_vars => [Next]_clientVars
  BY DEF MainNext, Main, MainStarts, Polls, Takes, MainShutsDown, MainReturns,
         Others, Next, Owner, vars
<1>3. QED
  BY <1>1, <1>2, PTL DEF MainSpec, Spec
=============================================================================
