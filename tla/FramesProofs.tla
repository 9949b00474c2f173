----------------------------- MODULE FramesProofs -----------------------------
(***************************************************************************)
(* Proofs about Frames, for bytes of any number of values and payloads of  *)
(* any length.  While the stream is intact, it is the frames of sent, one  *)
(* behind the other, and the reader stands between two of them.            *)
(***************************************************************************)
EXTENDS Frames, TLAPS

-----------------------------------------------------------------------------
(* The length in two bytes.                                                *)

\* Two digits in base Base are the number they were made from, and bytes.
LEMMA LengthSplit ==
    ASSUME NEW n \in 0..MaxPayload
    PROVE  /\ n \div Base \in Byte /\ n % Base \in Byte
           /\ (n \div Base) * Base + (n % Base) = n
<1> DEFINE q == n \div Base
<1> DEFINE r == n % Base
<1>1. Base \in Nat /\ Base > 1  BY FrameAssumption
<1>2. q \in Int /\ r \in 0..(Base - 1)  BY <1>1, SMT
<1>3. q * Base + r = n  BY <1>1, SMT
<1>4. n \in Nat /\ n < Base * Base  BY <1>1 DEF MaxPayload
<1> HIDE DEF q, r
<1>5. q < Base
  <2> SUFFICES ASSUME q >= Base PROVE FALSE  BY <1>1, <1>2
  <2>1. q * Base >= Base * Base  BY <1>1, <1>2, SMT
  <2> QED  BY <2>1, <1>1, <1>2, <1>3, <1>4
<1>6. q >= 0
  <2> SUFFICES ASSUME q <= -1 PROVE FALSE  BY <1>2
  <2>1. q * Base <= -Base  BY <1>1, <1>2, SMT
  <2> QED  BY <2>1, <1>1, <1>2, <1>3, <1>4
<1> QED  BY <1>1, <1>2, <1>3, <1>5, <1>6 DEF q, r, Byte

\* A remainder is below the divisor, and no more than the number.
LEMMA Remainder ==
    ASSUME NEW l \in Nat, NEW k \in Nat, k > 0
    PROVE  l % k \in 0..(k - 1) /\ l % k <= l
<1> DEFINE q == l \div k
<1> DEFINE r == l % k
<1>1. q \in Int /\ r \in 0..(k - 1)  BY SMT
<1>2. k * q + r = l  BY SMT
<1> HIDE DEF q, r
<1>3. q >= 0
  <2> SUFFICES ASSUME q <= -1 PROVE FALSE  BY <1>1
  <2>1. k * q <= -k  BY <1>1, SMT
  <2> QED  BY <2>1, <1>1, <1>2
<1>4. k * q >= 0  BY <1>1, <1>3, SMT
<1> QED  BY <1>1, <1>2, <1>4 DEF r

LEMMA Constants ==
    /\ Base \in Nat /\ Base > 1
    /\ MaxPayload \in Nat /\ MaxPayload > HeaderSize - 1
    /\ BufferSize \in Nat /\ BufferSize <= MaxPayload
    /\ \A t \in Type : t \in Byte
    /\ Byte = 0..(Base - 1) /\ 0 \in Byte
<1>1. Base \in Nat /\ Base > 1  BY FrameAssumption
<1>2. Base * Base \in Nat  BY <1>1, SMT
<1> QED  BY <1>1, <1>2, FrameAssumption DEF MaxPayload, Byte, HeaderSize

-----------------------------------------------------------------------------
(* A frame in a sequence of bytes.                                         *)

\* The frame of message m starts behind byte b of s.
HasFrame(s, b, m) ==
    /\ b + HeaderSize + Len(m.payload) <= Len(s)
    /\ s[b + 1] = m.type
    /\ s[b + 3] * Base + s[b + 4] = Len(m.payload)
    /\ \A i \in 1..Len(m.payload) : s[b + HeaderSize + i] = m.payload[i]

\* Bytes behind it leave a frame where it is.
LEMMA FrameStays ==
    ASSUME NEW s \in Seq(Byte), NEW t \in Seq(Byte), NEW b \in Nat, NEW m \in Message,
           HasFrame(s, b, m)
    PROVE  HasFrame(s \o t, b, m)
<1> DEFINE n == Len(m.payload)
<1> DEFINE l == Len(s)
<1>1. n \in Nat /\ l \in Nat  BY DEF Message
<1>2. Len(s \o t) \in Nat /\ Len(s \o t) >= l /\ \A i \in 1..l : (s \o t)[i] = s[i]
  OBVIOUS
<1>3. b + HeaderSize + n <= l  BY DEF HasFrame
<1>4. Len(m.payload) = n /\ Len(s) = l  OBVIOUS
<1> HIDE DEF n, l
<1>5. /\ b + 1 \in 1..l /\ b + 3 \in 1..l /\ b + 4 \in 1..l
      /\ \A i \in 1..n : b + HeaderSize + i \in 1..l
  BY <1>1, <1>3 DEF HeaderSize
<1>6. b + HeaderSize + n <= Len(s \o t)  BY <1>1, <1>2, <1>3 DEF HeaderSize
<1> QED  BY <1>2, <1>4, <1>5, <1>6 DEF HasFrame

\* What the header is.
LEMMA HeaderBytes ==
    ASSUME NEW type \in Type, NEW n \in 0..MaxPayload
    PROVE  /\ Header(type, n) \in Seq(Byte) /\ Len(Header(type, n)) = HeaderSize
           /\ Header(type, n)[1] = type
           /\ Header(type, n)[3] * Base + Header(type, n)[4] = n
<1>1. n \div Base \in Byte /\ n % Base \in Byte /\ (n \div Base) * Base + (n % Base) = n
  BY LengthSplit
<1>2. type \in Byte /\ 0 \in Byte  BY Constants
<1> DEFINE q == n \div Base
<1> DEFINE r == n % Base
<1>3. q \in Byte /\ r \in Byte /\ q * Base + r = n  BY <1>1
<1>4. Header(type, n) = <<type, 0, q, r>>  BY DEF Header
<1> HIDE DEF q, r
<1> QED  BY <1>2, <1>3, <1>4 DEF HeaderSize

\* encode_frame, behind any bytes.
LEMMA FrameEncoded ==
    ASSUME NEW s \in Seq(Byte), NEW type \in Type, NEW payload \in Seq(Byte),
           Len(payload) <= MaxPayload
    PROVE  /\ EncodeFrame(type, payload) \in Seq(Byte)
           /\ Len(EncodeFrame(type, payload)) = HeaderSize + Len(payload)
           /\ HasFrame(s \o EncodeFrame(type, payload), Len(s), [type |-> type, payload |-> payload])
<1> DEFINE h == Header(type, Len(payload))
<1>1. Len(payload) \in 0..MaxPayload  BY Constants
<1>2. /\ h \in Seq(Byte) /\ Len(h) = HeaderSize /\ h[1] = type
      /\ h[3] * Base + h[4] = Len(payload)
  BY <1>1, HeaderBytes
<1>3. EncodeFrame(type, payload) = h \o payload  BY DEF EncodeFrame
<1> HIDE DEF h
<1>4. h \o payload \in Seq(Byte) /\ Len(h \o payload) = HeaderSize + Len(payload)  BY <1>2
<1> DEFINE e == h \o payload
<1> DEFINE t == s \o e
<1>5. /\ e[1] = h[1] /\ e[3] = h[3] /\ e[4] = h[4]
      /\ \A i \in 1..Len(payload) : e[HeaderSize + i] = payload[i]
  <2>1. \A i \in 1..Len(h) : e[i] = h[i]  BY <1>2
  <2>2. \A i \in 1..Len(payload) : e[Len(h) + i] = payload[i]  BY <1>2
  <2> HIDE DEF e
  <2>3. Len(h) = 4  BY <1>2 DEF HeaderSize
  <2>4. e[1] = h[1] /\ e[3] = h[3] /\ e[4] = h[4]  BY <2>1, <2>3
  <2> QED  BY <1>2, <2>2, <2>4
<1>6. Len(e) = HeaderSize + Len(payload) /\ e \in Seq(Byte)  BY <1>4
<1> HIDE DEF e
<1>7. Len(t) = Len(s) + HeaderSize + Len(payload)  BY <1>6 DEF HeaderSize
<1>8. \A i \in 1..Len(e) : t[Len(s) + i] = e[i]  BY <1>6
<1>9. Len(payload) \in Nat /\ Len(s) \in Nat  OBVIOUS
<1>10. t[Len(s) + 1] = e[1] /\ t[Len(s) + 3] = e[3] /\ t[Len(s) + 4] = e[4]
  BY <1>6, <1>8, <1>9 DEF HeaderSize
<1>11. \A i \in 1..Len(payload) : t[Len(s) + HeaderSize + i] = e[HeaderSize + i]
  <2> TAKE i \in 1..Len(payload)
  <2>1. HeaderSize + i \in 1..Len(e)  BY <1>6, <1>9 DEF HeaderSize
  <2>2. Len(s) + HeaderSize + i = Len(s) + (HeaderSize + i)  BY <1>9 DEF HeaderSize
  <2> QED  BY <2>1, <2>2, <1>8
<1> HIDE DEF t
<1>12. HasFrame(t, Len(s), [type |-> type, payload |-> payload])
  BY <1>2, <1>5, <1>7, <1>9, <1>10, <1>11 DEF HasFrame, HeaderSize
<1> QED  BY <1>3, <1>4, <1>12 DEF t, e
-----------------------------------------------------------------------------
(* What a reader sees of a frame.                                          *)

\* A reader that stands before a frame, and has a header, sees that frame's header,
\* and the frame itself when it has come.
LEMMA FrameSeen ==
    ASSUME NEW s \in Seq(Byte), NEW a \in 0..Len(s), NEW b \in 0..a, NEW m \in Message,
           HasFrame(s, b, m), a - b >= HeaderSize
    PROVE  LET d == SubSeq(s, b + 1, a)
           IN  /\ Len(d) = a - b /\ d[1] = m.type /\ PayloadLength(d) = Len(m.payload)
               /\ Len(d) >= HeaderSize + Len(m.payload) => FrameOf(d) = m
<1> DEFINE d == SubSeq(s, b + 1, a)
<1> DEFINE n == Len(m.payload)
<1>1. n \in Nat /\ m.payload \in Seq(Byte) /\ m = [type |-> m.type, payload |-> m.payload]
  BY DEF Message
<1>2. a \in Nat /\ b \in Nat /\ Len(s) \in Nat  OBVIOUS
<1>3. d \in Seq(Byte) /\ Len(d) = a - b  BY <1>2
<1>4. \A i \in 1..(a - b) : d[i] = s[b + i]  BY <1>2
<1>5. /\ s[b + 1] = m.type /\ s[b + 3] * Base + s[b + 4] = n
      /\ \A i \in 1..n : s[b + HeaderSize + i] = m.payload[i]
  BY DEF HasFrame
<1> HIDE DEF d, n
<1>6. d[1] = s[b + 1] /\ d[3] = s[b + 3] /\ d[4] = s[b + 4]  BY <1>2, <1>4 DEF HeaderSize
<1>7. d[1] = m.type /\ PayloadLength(d) = n  BY <1>5, <1>6 DEF PayloadLength
<1>8. ASSUME Len(d) >= HeaderSize + n PROVE FrameOf(d) = m
  <2> DEFINE p == SubSeq(d, HeaderSize + 1, HeaderSize + n)
  <2>1. HeaderSize + n \in 0..Len(d) /\ Len(d) \in Nat  BY <1>1, <1>3, <1>8 DEF HeaderSize
  <2>2. p \in Seq(Byte) /\ Len(p) = n /\ \A i \in 1..n : p[i] = d[HeaderSize + i]
    BY <1>1, <1>3, <2>1 DEF HeaderSize
  <2> HIDE DEF p
  <2>3. \A i \in 1..n : d[HeaderSize + i] = s[b + HeaderSize + i]
    <3> TAKE i \in 1..n
    <3>1. HeaderSize + i \in 1..(a - b) /\ b + HeaderSize + i = b + (HeaderSize + i)
      BY <1>1, <1>2, <1>3, <1>8 DEF HeaderSize
    <3> QED  BY <3>1, <1>4
  <2>4. \A i \in 1..n : p[i] = m.payload[i]  BY <1>5, <2>2, <2>3
  <2>5. p = m.payload  BY <1>1, <2>2, <2>4 DEF n
  <2> QED  BY <1>1, <1>7, <2>5 DEF FrameOf, p
<1> QED  BY <1>3, <1>7, <1>8 DEF d, n
-----------------------------------------------------------------------------
(* The invariant.                                                          *)

\* Message m is bytes b + 1 to e of s, and one that its encoder makes.
Encloses(s, b, e, m) ==
    /\ e = b + HeaderSize + Len(m.payload) /\ HasFrame(s, b, m)
    /\ m.type \in Type /\ (m.type \in NoPayload => m.payload = <<>>)

\* An intact stream is its frames, and the reader is between two of them.
Framed ==
    intact => /\ Len(received) <= Len(sent)
              /\ pos = bounds[Len(received) + 1]
              /\ bounds[Len(sent) + 1] = Len(stream)
              /\ \A k \in 1..Len(sent) : Encloses(stream, bounds[k], bounds[k + 1], sent[k])

IInv == TypeOK /\ Framed

LEMMA InitIInv == Init => IInv
<1> SUFFICES ASSUME Init PROVE IInv  OBVIOUS
<1>1. (\A S : <<>> \in Seq(S)) /\ Len(<<>>) = 0  OBVIOUS
<1>2. <<0>> \in Seq(Nat) /\ Len(<<0>>) = 1 /\ <<0>>[1] = 0  OBVIOUS
<1>3. /\ stream = <<>> /\ sent = <<>> /\ received = <<>> /\ bounds = <<0>>
      /\ arrived = 0 /\ pos = 0 /\ intact = TRUE /\ ended = "no"
      /\ direction \in {"to broker", "to device"}
  BY DEF Init
<1>4. Len(sent) = 0 /\ Len(received) = 0 /\ Len(stream) = 0  BY <1>1, <1>3
<1>5. Len(bounds) = 1 /\ bounds[1] = 0 /\ bounds \in Seq(Nat)  BY <1>2, <1>3
<1>6. TypeOK
  <2>1. stream \in Seq(Byte) /\ sent \in Seq(Message) /\ received \in Seq(Message)
    BY <1>1, <1>3
  <2>2. Len(bounds) = Len(sent) + 1  BY <1>4, <1>5
  <2>3. arrived = 0 /\ pos = 0  BY <1>3
  <2>4. arrived \in 0..Len(stream) /\ pos \in 0..arrived  BY <1>4, <2>3
  <2> QED  BY <1>3, <1>5, <2>1, <2>2, <2>4 DEF TypeOK
<1>7. Framed
  <2>1. pos = 0  BY <1>3
  <2>2. pos = bounds[Len(received) + 1] /\ bounds[Len(sent) + 1] = Len(stream)
    BY <1>4, <1>5, <2>1
  <2> QED  BY <1>4, <2>2 DEF Framed
<1> QED  BY <1>6, <1>7 DEF IInv

\* What every step that writes does.
LEMMA WriteIInv ==
    ASSUME IInv, NEW type \in Type, NEW payload \in Seq(Byte), NEW bytes \in Seq(Byte),
           NEW whole \in BOOLEAN,
           Write([type |-> type, payload |-> payload], bytes, whole),
           whole => /\ Len(payload) <= MaxPayload /\ bytes = EncodeFrame(type, payload)
                    /\ type \in NoPayload => payload = <<>>
    PROVE  IInv' /\ sent' = Append(sent, [type |-> type, payload |-> payload])
<1> DEFINE m == [type |-> type, payload |-> payload]
<1> DEFINE n == Len(sent)
<1>0. m \in Message  BY Constants DEF Message
<1>1. /\ sent' = Append(sent, m) /\ stream' = stream \o bytes
      /\ bounds' = Append(bounds, Len(stream')) /\ intact' = (intact /\ whole)
      /\ UNCHANGED <<direction, arrived, pos, ended, received>>
  BY DEF Write
<1>2. TypeOK /\ Framed  BY DEF IInv
<1>3. stream \in Seq(Byte) /\ sent \in Seq(Message) /\ bounds \in Seq(Nat)
      /\ Len(bounds) = n + 1 /\ n \in Nat
  <2>1. stream \in Seq(Byte) /\ sent \in Seq(Message) /\ bounds \in Seq(Nat)
        /\ Len(bounds) = n + 1
    BY <1>2 DEF TypeOK
  <2>2. n \in Nat  BY <2>1
  <2> QED  BY <2>1, <2>2
<1> HIDE DEF m
<1>4. /\ stream' \in Seq(Byte) /\ Len(stream') = Len(stream) + Len(bytes)
      /\ Len(stream) \in Nat /\ Len(bytes) \in Nat
  BY <1>1, <1>3
<1>5. /\ Len(sent') = n + 1 /\ sent'[n + 1] = m
      /\ \A k \in 1..n : sent'[k] = sent[k]
  BY <1>1, <1>3
<1>6. /\ Len(bounds') = n + 2 /\ bounds'[n + 2] = Len(stream')
      /\ \A k \in 1..(n + 1) : bounds'[k] = bounds[k]
  BY <1>1, <1>3
<1>7. TypeOK'
  <2>1. sent' \in Seq(Message) /\ bounds' \in Seq(Nat)  BY <1>0, <1>1, <1>3, <1>4
  <2>2. arrived' \in 0..Len(stream') /\ pos' \in 0..arrived'
    <3>1. arrived' = arrived /\ pos' = pos  BY <1>1
    <3>2. arrived \in 0..Len(stream) /\ pos \in 0..arrived  BY <1>2 DEF TypeOK
    <3> QED  BY <1>4, <3>1, <3>2
  <2>3. direction' = direction /\ ended' = ended /\ received' = received  BY <1>1
  <2>4. intact' \in BOOLEAN  BY <1>1
  <2>5. Len(bounds') = Len(sent') + 1  BY <1>3, <1>5, <1>6
  <2> QED  BY <1>2, <1>4, <2>1, <2>2, <2>3, <2>4, <2>5 DEF TypeOK
<1>8. Framed'
  <2> DEFINE Frame(k) == Encloses(stream', bounds'[k], bounds'[k + 1], sent'[k])
  <2> SUFFICES ASSUME intact'
               PROVE  /\ Len(received') <= Len(sent')
                      /\ pos' = bounds'[Len(received') + 1]
                      /\ bounds'[Len(sent') + 1] = Len(stream')
                      /\ \A k \in 1..Len(sent') : Frame(k)
    BY DEF Framed
  <2>1. intact /\ whole  BY <1>1
  <2>2. /\ Len(received) <= n /\ pos = bounds[Len(received) + 1]
        /\ bounds[n + 1] = Len(stream)
        /\ \A k \in 1..n : Encloses(stream, bounds[k], bounds[k + 1], sent[k])
    BY <1>2, <2>1 DEF Framed
  <2>3. received' = received /\ pos' = pos  BY <1>1
  <2>4. Len(received) \in Nat
    <3>1. received \in Seq(Message)  BY <1>2 DEF TypeOK
    <3> QED  BY <3>1
  <2>5. Len(sent) = n  OBVIOUS
  <2> HIDE DEF n
  <2>6. Len(received') <= Len(sent') /\ pos' = bounds'[Len(received') + 1]
    BY <1>3, <1>5, <1>6, <2>2, <2>3, <2>4
  <2>7. bounds'[Len(sent') + 1] = Len(stream')
    <3>1. Len(sent') + 1 = n + 2  BY <1>3, <1>5
    <3> QED  BY <1>6, <3>1
  <2>8. ASSUME NEW k \in 1..n PROVE Frame(k)
    <3>1. k + 1 \in 1..(n + 1) /\ k \in 1..(n + 1)  BY <1>3
    <3>2. sent[k] \in Message /\ bounds[k] \in Nat  BY <1>3, <2>5, <3>1
    <3>3. Encloses(stream, bounds[k], bounds[k + 1], sent[k])  BY <2>2
    <3>4. HasFrame(stream', bounds[k], sent[k])
      BY <1>1, <1>3, <3>2, <3>3, FrameStays DEF Encloses
    <3>5. sent'[k] = sent[k] /\ bounds'[k] = bounds[k] /\ bounds'[k + 1] = bounds[k + 1]
      BY <1>5, <1>6, <3>1
    <3>6. Encloses(stream', bounds[k], bounds[k + 1], sent[k])  BY <3>3, <3>4 DEF Encloses
    <3> QED  BY <3>5, <3>6
  <2>9. Frame(n + 1)
    <3>1. Len(bytes) = HeaderSize + Len(payload) /\ HasFrame(stream', Len(stream), m)
      BY <1>1, <1>3, <2>1, FrameEncoded DEF m
    <3>2. bounds'[n + 1] = Len(stream) /\ sent'[n + 1] = m  BY <1>3, <1>5, <1>6, <2>2
    <3>3. n + 1 + 1 = n + 2  BY <1>3
    <3>4. bounds'[n + 1 + 1] = Len(stream) + HeaderSize + Len(m.payload)
      BY <1>4, <1>6, <3>1, <3>3 DEF m, HeaderSize
    <3>5. m.type \in Type /\ (m.type \in NoPayload => m.payload = <<>>)
      BY <2>1 DEF m
    <3>6. Encloses(stream', Len(stream), Len(stream) + HeaderSize + Len(m.payload), m)
      BY <3>1, <3>5 DEF Encloses
    <3> QED  BY <3>2, <3>4, <3>6
  <2>10. \A k \in 1..Len(sent') : k \in 1..n \/ k = n + 1  BY <1>3, <1>5
  <2> HIDE DEF Frame
  <2>11. \A k \in 1..Len(sent') : Frame(k)  BY <2>8, <2>9, <2>10
  <2> QED  BY <2>6, <2>7, <2>11
<1> QED  BY <1>1, <1>7, <1>8 DEF IInv, m
-----------------------------------------------------------------------------
(* The writers.                                                            *)

\* A frame in the stream, whole or not: what the steps that write have in common.
LEMMA SendIInv ==
    ASSUME IInv, NEW type \in Type, NEW payload \in {<<>>} \cup Payload,
           BrokerSends(type, payload) \/ DeviceSends(type, payload)
    PROVE  /\ IInv' /\ Channel!Send
           /\ ended' = ended /\ (intact' => intact) /\ received' = received
           /\ direction' = direction /\ sent' = Append(sent, [type |-> type, payload |-> payload])
<1> DEFINE m == [type |-> type, payload |-> payload]
<1>1. payload \in Seq(Byte)
  <2>1. <<>> \in Seq(Byte)  OBVIOUS
  <2> QED  BY <2>1, FrameAssumption
<1>2. m \in Message  BY <1>1, Constants DEF Message
<1>3. PICK bytes \in Seq(Byte), whole \in BOOLEAN :
          /\ Write(m, bytes, whole)
          /\ whole => /\ Len(payload) <= MaxPayload /\ bytes = EncodeFrame(type, payload)
                      /\ type \in NoPayload => payload = <<>>
  <2>1. CASE BrokerSends(type, payload)
    <3>1. EncodeFrame(type, payload) \in Seq(Byte)
      <4>1. <<>> \in Seq(Byte)  OBVIOUS
      <4> QED  BY <1>1, <2>1, <4>1, FrameEncoded DEF BrokerSends
    <3> QED  BY <2>1, <3>1 DEF BrokerSends, MaySend
  <2>2. CASE DeviceSends(type, payload)
    <3> DEFINE n == Truncated(payload)
    <3> DEFINE bytes == Header(type, n) \o SubSeq(payload, 1, n)
    <3>1. Len(payload) \in Nat  BY <1>1
    <3>2. n \in 0..MaxPayload /\ n <= Len(payload)
      <4>1. MaxPayload \in Nat /\ MaxPayload + 1 \in Nat /\ MaxPayload + 1 > 0  BY Constants
      <4>2. Len(payload) % (MaxPayload + 1) \in 0..(MaxPayload + 1 - 1)
            /\ Len(payload) % (MaxPayload + 1) <= Len(payload)
        BY <3>1, <4>1, Remainder
      <4>3. MaxPayload + 1 - 1 = MaxPayload  BY <4>1
      <4> QED  BY <4>2, <4>3 DEF Truncated
    <3>3. Header(type, n) \in Seq(Byte)  BY <3>2, HeaderBytes
    <3>4. SubSeq(payload, 1, n) \in Seq(Byte) /\ (n = Len(payload) => SubSeq(payload, 1, n) = payload)
      BY <1>1, <3>1, <3>2
    <3>5. bytes \in Seq(Byte)  BY <3>3, <3>4
    <3>6. PICK k \in 0..Len(bytes) :
              Write(m, SubSeq(bytes, 1, k), k = Len(bytes) /\ n = Len(payload))
      BY <2>2 DEF DeviceSends
    <3>7. ASSUME k = Len(bytes) /\ n = Len(payload)
          PROVE  SubSeq(bytes, 1, k) = EncodeFrame(type, payload) /\ Len(payload) <= MaxPayload
      <4>1. bytes = EncodeFrame(type, payload)  BY <3>4, <3>7 DEF EncodeFrame
      <4> HIDE DEF bytes
      <4>2. SubSeq(bytes, 1, k) = bytes  BY <3>5, <3>7
      <4> QED  BY <3>2, <3>7, <4>1, <4>2
    <3>8. SubSeq(bytes, 1, k) \in Seq(Byte)
      <4> HIDE DEF bytes
      <4> QED  BY <3>5
    <3>9. type \in NoPayload => payload = <<>>  BY <2>2 DEF DeviceSends, MaySend
    <3> QED  BY <3>6, <3>7, <3>8, <3>9
  <2> QED  BY <2>1, <2>2
<1>4. IInv' /\ sent' = Append(sent, m)  BY <1>1, <1>3, WriteIInv
<1>5. sent \in Seq(Message)  BY DEF IInv, TypeOK
<1>6. intact \in BOOLEAN /\ intact' = (intact /\ whole) /\ received' = received /\ ended' = ended
      /\ direction' = direction
  BY <1>3 DEF Write, IInv, TypeOK
<1>7. Channel!IsLonger(sent, sent')
  <2> HIDE DEF m
  <2>1. /\ Len(sent') = Len(sent) + 1 /\ sent'[Len(sent')] = m
        /\ \A i \in 1..Len(sent) : sent'[i] = sent[i]
    BY <1>2, <1>4, <1>5
  <2> QED  BY <1>2, <2>1 DEF Channel!IsLonger
<1>8. Channel!Send  BY <1>6, <1>7 DEF Channel!Send
<1> QED  BY <1>4, <1>6, <1>8

-----------------------------------------------------------------------------
(* The readers.                                                            *)

LEMMA AheadBytes ==
    ASSUME TypeOK
    PROVE  /\ Ahead \in Seq(Byte) /\ Len(Ahead) = arrived - pos
           /\ arrived \in 0..Len(stream) /\ pos \in 0..arrived /\ Len(stream) \in Nat
           /\ stream \in Seq(Byte) /\ arrived \in Nat /\ pos \in Nat /\ arrived <= Len(stream)
<1>1. stream \in Seq(Byte) /\ arrived \in 0..Len(stream) /\ pos \in 0..arrived  BY DEF TypeOK
<1>2. Len(stream) \in Nat  BY <1>1
<1>3. arrived \in Nat /\ pos \in Nat /\ pos <= arrived /\ arrived <= Len(stream)  BY <1>1, <1>2
<1> QED  BY <1>1, <1>2, <1>3 DEF Ahead

\* A reader with a header before it reads the next frame that was sent.
LEMMA NextFrame ==
    ASSUME IInv, intact, HeaderHere, NEW m, m = sent[Len(received) + 1]
    PROVE  /\ Len(received) < Len(sent) /\ m \in Message
           /\ Ahead[1] = m.type /\ PayloadLength(Ahead) = Len(m.payload)
           /\ FrameHere => FrameOf(Ahead) = m
           /\ Encloses(stream, pos, bounds[Len(received) + 1 + 1], m)
<1> DEFINE r == Len(received)
<1>1. TypeOK /\ Framed  BY DEF IInv
<1>2. stream \in Seq(Byte) /\ sent \in Seq(Message) /\ received \in Seq(Message)
  BY <1>1 DEF TypeOK
<1>3. r \in Nat /\ Len(sent) \in Nat  BY <1>2
<1>4. /\ r <= Len(sent) /\ pos = bounds[r + 1] /\ bounds[Len(sent) + 1] = Len(stream)
      /\ \A k \in 1..Len(sent) : Encloses(stream, bounds[k], bounds[k + 1], sent[k])
  BY <1>1 DEF Framed
<1> HIDE DEF r
<1>5. arrived - pos >= HeaderSize  BY <1>1, AheadBytes DEF HeaderHere
<1>6. r # Len(sent)
  <2> SUFFICES ASSUME r = Len(sent) PROVE FALSE  OBVIOUS
  <2>1. pos = Len(stream)  BY <1>4
  <2> QED  BY <1>1, <1>5, <2>1, AheadBytes DEF HeaderSize
<1>7. r < Len(sent) /\ r + 1 \in 1..Len(sent)  BY <1>3, <1>4, <1>6
<1>8. m \in Message  BY <1>2, <1>7 DEF r
<1>9. Encloses(stream, pos, bounds[r + 1 + 1], m)  BY <1>4, <1>7 DEF r
<1>10. /\ Ahead[1] = m.type /\ PayloadLength(Ahead) = Len(m.payload)
       /\ Len(Ahead) >= HeaderSize + Len(m.payload) => FrameOf(Ahead) = m
  BY <1>1, <1>2, <1>5, <1>8, <1>9, AheadBytes, FrameSeen DEF Encloses, Ahead
<1> QED  BY <1>7, <1>8, <1>9, <1>10 DEF FrameHere, r

LEMMA LengthHere == ASSUME TypeOK, HeaderHere PROVE PayloadLength(Ahead) \in Nat
<1> DEFINE x == Ahead[3]
<1> DEFINE y == Ahead[4]
<1>1. Len(Ahead) >= 4  BY DEF HeaderHere, HeaderSize
<1>2. x \in 0..(Base - 1) /\ y \in 0..(Base - 1)
  <2>1. Ahead \in Seq(Byte)  BY AheadBytes
  <2>2. Ahead[3] \in Byte /\ Ahead[4] \in Byte  BY <1>1, <2>1
  <2> QED  BY <2>2 DEF Byte
<1> HIDE DEF x, y
<1>3. x \in Nat /\ y \in Nat /\ Base \in Nat  BY <1>2, Constants
<1>4. x * Base \in Nat  BY <1>3, SMT
<1>5. x * Base + y \in Nat  BY <1>3, <1>4
<1> QED  BY <1>5 DEF PayloadLength, x, y

\* The frame a reader makes of the bytes before it is in the stream.
LEMMA FrameIsThere ==
    ASSUME TypeOK, FrameHere
    PROVE  /\ FrameOf(Ahead) \in Message /\ FrameOf(Ahead).type = Ahead[1]
           /\ Len(FrameOf(Ahead).payload) = PayloadLength(Ahead)
           /\ HasFrame(stream, pos, FrameOf(Ahead))
<1> DEFINE n == PayloadLength(Ahead)
<1> DEFINE p == SubSeq(Ahead, HeaderSize + 1, HeaderSize + n)
<1> DEFINE a == Ahead
<1>1. HeaderHere /\ n \in Nat /\ Len(a) >= HeaderSize + n  BY LengthHere DEF FrameHere
<1>2. /\ stream \in Seq(Byte) /\ Len(stream) \in Nat /\ pos \in Nat /\ arrived \in Nat
      /\ arrived <= Len(stream) /\ a \in Seq(Byte) /\ Len(a) = arrived - pos
  BY AheadBytes
<1>3. \A i \in 1..(arrived - pos) : stream[pos + i] = a[i]  BY <1>2 DEF Ahead
<1>4. FrameOf(Ahead) = [type |-> a[1], payload |-> p]  BY DEF FrameOf
<1>5. n = a[3] * Base + a[4]  BY DEF PayloadLength
<1>6. p = SubSeq(a, HeaderSize + 1, HeaderSize + n)  OBVIOUS
<1> HIDE DEF n, p, a
<1>7. p \in Seq(Byte) /\ Len(p) = n /\ \A i \in 1..n : p[i] = a[HeaderSize + i]
  BY <1>1, <1>2, <1>6 DEF HeaderSize
<1>8. pos + HeaderSize + n <= Len(stream) /\ arrived - pos >= 4
  BY <1>1, <1>2 DEF HeaderSize
<1>9. stream[pos + 1] = a[1] /\ stream[pos + 3] = a[3] /\ stream[pos + 4] = a[4]
  BY <1>2, <1>3, <1>8
<1>10. \A i \in 1..n : stream[pos + HeaderSize + i] = p[i]
  <2> TAKE i \in 1..n
  <2>1. HeaderSize + i \in 1..(arrived - pos) /\ pos + HeaderSize + i = pos + (HeaderSize + i)
    BY <1>1, <1>2 DEF HeaderSize
  <2> QED  BY <1>3, <1>7, <2>1
<1>11. a[1] \in Byte  BY <1>2, <1>8
<1>12. FrameOf(Ahead) \in Message  BY <1>4, <1>7, <1>11 DEF Message
<1>13. HasFrame(stream, pos, FrameOf(Ahead))
  BY <1>4, <1>5, <1>7, <1>8, <1>9, <1>10 DEF HasFrame
<1> QED  BY <1>4, <1>7, <1>12, <1>13 DEF a, n

LEMMA DeliverIInv ==
    ASSUME IInv, FrameHere, Deliver
    PROVE  /\ IInv' /\ (Channel!ReceiveNext \/ Channel!ReceiveAnything)
           /\ ended' = ended /\ intact' = intact /\ direction' = direction
<1> DEFINE n == PayloadLength(Ahead)
<1> DEFINE r == Len(received)
<1>1. TypeOK /\ Framed /\ HeaderHere  BY DEF IInv, FrameHere
<1>2. Ahead \in Seq(Byte) /\ Len(Ahead) = arrived - pos /\ arrived \in Nat /\ pos \in Nat
  BY <1>1, AheadBytes
<1>3. Len(Ahead) >= HeaderSize + n  BY DEF FrameHere
<1>4. n \in Nat  BY <1>1, LengthHere
<1>5. FrameOf(Ahead) \in Message  BY <1>1, FrameIsThere
<1>6. /\ received' = Append(received, FrameOf(Ahead)) /\ pos' = pos + HeaderSize + n
      /\ UNCHANGED <<direction, stream, sent, bounds, arrived, ended, intact>>
  BY DEF Deliver, writer
<1>7. received \in Seq(Message) /\ r \in Nat
  <2>1. received \in Seq(Message)  BY <1>1 DEF TypeOK
  <2> QED  BY <2>1
<1>8. /\ received' \in Seq(Message) /\ Len(received') = r + 1
      /\ received'[r + 1] = FrameOf(Ahead) /\ \A i \in 1..r : received'[i] = received[i]
  BY <1>5, <1>6, <1>7
<1>9. TypeOK'
  <2> HIDE DEF n
  <2>1. pos' \in 0..arrived'  BY <1>2, <1>3, <1>4, <1>6 DEF HeaderSize
  <2> QED  BY <1>1, <1>6, <1>8, <2>1 DEF TypeOK
<1>10. Framed'
  <2> SUFFICES ASSUME intact
               PROVE  /\ Len(received') <= Len(sent) /\ pos' = bounds[Len(received') + 1]
                      /\ bounds[Len(sent) + 1] = Len(stream)
                      /\ \A k \in 1..Len(sent) : Encloses(stream, bounds[k], bounds[k + 1], sent[k])
    BY <1>6 DEF Framed
  <2>1. /\ r < Len(sent) /\ n = Len(sent[r + 1].payload)
        /\ Encloses(stream, pos, bounds[r + 1 + 1], sent[r + 1])
    BY <1>1, NextFrame
  <2>2. pos' = bounds[r + 1 + 1]  BY <1>6, <2>1 DEF Encloses
  <2>3. Len(sent) \in Nat
    <3>1. sent \in Seq(Message)  BY <1>1 DEF TypeOK
    <3> QED  BY <3>1
  <2>4. Len(received') <= Len(sent)  BY <1>7, <1>8, <2>1, <2>3
  <2> QED  BY <1>1, <1>8, <2>2, <2>4 DEF Framed
<1>11. CASE intact
  <2>1. r < Len(sent) /\ FrameOf(Ahead) = sent[r + 1]  BY <1>1, <1>11, NextFrame
  <2>2. received' = Append(received, sent[r + 1])  BY <1>6, <2>1
  <2>3. Channel!ReceiveNext  BY <1>6, <2>1, <2>2 DEF Channel!ReceiveNext
  <2> QED  BY <1>6, <1>9, <1>10, <2>3 DEF IInv
<1>12. CASE ~intact
  <2>1. Channel!IsLonger(received, received')  BY <1>5, <1>8 DEF Channel!IsLonger
  <2>2. Channel!ReceiveAnything  BY <1>6, <1>12, <2>1 DEF Channel!ReceiveAnything
  <2> QED  BY <1>6, <1>9, <1>10, <2>2 DEF IInv
<1> QED  BY <1>11, <1>12

LEMMA GiveUpIInv ==
    ASSUME IInv, NEW n \in 0..arrived, GiveUp(n)
    PROVE  /\ IInv' /\ Channel!Break /\ ended' = ended /\ intact' = FALSE
           /\ direction' = direction
<1>1. /\ pos' = n /\ intact' = FALSE
      /\ UNCHANGED <<direction, stream, sent, bounds, arrived, ended, received>>
  BY DEF GiveUp, writer
<1>2. TypeOK'  BY <1>1 DEF IInv, TypeOK
<1>3. Framed'  BY <1>1 DEF Framed
<1>4. Channel!Break  BY <1>1 DEF Channel!Break
<1> QED  BY <1>1, <1>2, <1>3, <1>4 DEF IInv
-----------------------------------------------------------------------------
(* Every step.                                                             *)

\* Steps that leave the messages and the stream alone.
LEMMA QuietIInv ==
    ASSUME IInv, UNCHANGED <<direction, stream, sent, bounds, pos, received, intact>>,
           arrived' \in arrived..Len(stream), ended' \in {"no", "closed", "rejected"}
    PROVE  IInv' /\ UNCHANGED Channel!channel
<1>1. TypeOK /\ Framed  BY DEF IInv
<1>2. arrived' \in 0..Len(stream) /\ pos \in 0..arrived'  BY <1>1, AheadBytes
<1>3. TypeOK'  BY <1>1, <1>2 DEF TypeOK
<1>4. Framed'  BY <1>1 DEF Framed
<1> QED  BY <1>3, <1>4 DEF IInv, Channel!channel

\* The rejected frame is the next one, and its payload cannot be read.
LEMMA RejectedBad ==
    ASSUME IInv, BrokerRejects, intact
    PROVE  Len(received) < Len(sent) /\ sent[Len(received) + 1].payload \notin Readable
<1>1. HeaderHere  BY DEF BrokerRejects, FrameHere
<1> DEFINE m == sent[Len(received) + 1]
<1>2. /\ Len(received) < Len(sent)
      /\ m \in Message /\ Ahead[1] = m.type /\ PayloadLength(Ahead) = Len(m.payload)
      /\ FrameHere => FrameOf(Ahead) = m
      /\ m.type \in Type /\ (m.type \in NoPayload => m.payload = <<>>)
  BY <1>1, NextFrame DEF Encloses
<1> HIDE DEF m
<1>3. Len(<<>>) = 0  OBVIOUS
<1>4. HeaderValid(Ahead)  BY <1>2, <1>3 DEF HeaderValid
<1>5. FrameHere /\ ~PayloadValid(Ahead)  BY <1>4 DEF BrokerRejects
<1>6. m.payload \notin Readable  BY <1>2, <1>5 DEF PayloadValid
<1> QED  BY <1>2, <1>6 DEF m

\* Nobody reads on behind a rejected frame.
Inv == IInv /\ OnlyBadRejected /\ (ended = "rejected" => direction = "to broker")

\* A frame more leaves the next one where it is.
LEMMA NextStays ==
    ASSUME Inv, NEW m \in Message, sent' = Append(sent, m),
           ended' = ended, intact' => intact, received' = received
    PROVE  OnlyBadRejected'
<1>1. sent \in Seq(Message) /\ received \in Seq(Message)  BY DEF Inv, IInv, TypeOK
<1>2. Len(sent) \in Nat /\ Len(received) \in Nat  BY <1>1
<1>3. Len(sent') = Len(sent) + 1 /\ \A i \in 1..Len(sent) : sent'[i] = sent[i]  BY <1>1
<1> SUFFICES ASSUME ended' = "rejected", intact'
             PROVE  Len(received) < Len(sent') /\ sent'[Len(received) + 1].payload \notin Readable
  BY DEF OnlyBadRejected, Readable
<1>4. Len(received) < Len(sent) /\ sent[Len(received) + 1].payload \notin Readable
  BY DEF Inv, OnlyBadRejected
<1>5. Len(received) + 1 \in 1..Len(sent)  BY <1>2, <1>4
<1>6. sent'[Len(received) + 1] = sent[Len(received) + 1]  BY <1>3, <1>5
<1> QED  BY <1>2, <1>3, <1>4, <1>6

\* Each step keeps the invariant, and is one of the channel's.
LEMMA NextInv ==
    ASSUME Inv, [Next]_vars
    PROVE  Inv' /\ [Channel!ChannelNext]_(Channel!channel)
<1>0. IInv /\ OnlyBadRejected /\ TypeOK /\ intact \in BOOLEAN  BY DEF Inv, IInv, TypeOK
<1>11. ended = "rejected" => direction = "to broker"  BY DEF Inv
<1> USE DEF Channel!ChannelNext
<1>1. ASSUME NEW t \in Type, NEW p \in {<<>>} \cup Payload, BrokerSends(t, p) \/ DeviceSends(t, p)
      PROVE  Inv' /\ Channel!ChannelNext
  <2>1. /\ IInv' /\ Channel!Send /\ ended' = ended /\ (intact' => intact)
        /\ received' = received /\ direction' = direction
        /\ sent' = Append(sent, [type |-> t, payload |-> p])
    BY <1>0, <1>1, SendIInv
  <2>2. [type |-> t, payload |-> p] \in Message
    <3>1. <<>> \in Seq(Byte)  OBVIOUS
    <3>2. p \in Seq(Byte)  BY <3>1, FrameAssumption
    <3> QED  BY <3>2, Constants DEF Message
  <2>3. OnlyBadRejected'  BY <2>1, <2>2, NextStays
  <2> QED  BY <1>11, <2>1, <2>3 DEF Inv
\* Where nothing was rejected, nothing has to be shown of it.
<1>10. ASSUME IInv', ended' = ended, direction' = direction,
              ended = "rejected" => ~intact' PROVE Inv'
  BY <1>10, <1>11 DEF Inv, OnlyBadRejected
<1>2. CASE Arrive
  <2>1. arrived' \in arrived..Len(stream)  BY <1>0, <1>2, AheadBytes DEF Arrive
  <2>2. UNCHANGED <<direction, stream, sent, bounds, pos, received, intact, ended>>
    BY <1>2 DEF Arrive, writer
  <2>3. ended' \in {"no", "closed", "rejected"}  BY <1>0, <2>2 DEF TypeOK
  <2>4. IInv' /\ UNCHANGED Channel!channel  BY <1>0, <2>1, <2>2, <2>3, QuietIInv
  <2> QED  BY <1>0, <1>11, <2>2, <2>4 DEF Inv, OnlyBadRejected, Readable
<1>3. CASE BrokerReads \/ DeviceReads
  <2>1. FrameHere /\ Deliver  BY <1>3 DEF BrokerReads, DeviceReads
  <2>2. /\ IInv' /\ (Channel!ReceiveNext \/ Channel!ReceiveAnything)
        /\ ended' = ended /\ direction' = direction
    BY <1>0, <2>1, DeliverIInv
  <2>3. ended # "rejected"  BY <1>3, <1>11 DEF BrokerReads, DeviceReads
  <2> QED  BY <1>10, <2>2, <2>3
<1>4. ASSUME NEW how \in {"closed", "rejected"}, End(how),
             how = "rejected" /\ intact =>
                 Len(received) < Len(sent) /\ sent[Len(received) + 1].payload \notin Readable
      PROVE  Inv' /\ UNCHANGED Channel!channel
  <2>1. UNCHANGED <<direction, stream, sent, bounds, pos, received, intact, arrived>> /\ ended' = how
    BY <1>4 DEF End, writer
  <2>4. direction = "to broker"  BY <1>4 DEF End
  <2>2. arrived' \in arrived..Len(stream)  BY <1>0, <2>1, AheadBytes
  <2>3. IInv' /\ UNCHANGED Channel!channel  BY <1>0, <2>1, <2>2, QuietIInv
  <2> QED  BY <1>4, <2>1, <2>3, <2>4 DEF Inv, OnlyBadRejected, Readable
<1>5. CASE BrokerRejects
  BY <1>0, <1>4, <1>5, RejectedBad DEF BrokerRejects
<1>6. CASE BrokerCloses  BY <1>4, <1>6 DEF BrokerCloses
<1>7. CASE DeviceSkipsHeader
  <2>1. pos + HeaderSize \in 0..arrived
    BY <1>0, <1>7, AheadBytes DEF DeviceSkipsHeader, HeaderHere, HeaderSize
  <2>2. GiveUp(pos + HeaderSize)  BY <1>7 DEF DeviceSkipsHeader
  <2>3. IInv' /\ Channel!Break /\ ended' = ended /\ intact' = FALSE /\ direction' = direction
    BY <1>0, <2>1, <2>2, GiveUpIInv
  <2> QED  BY <1>10, <2>3
<1>8. CASE DeviceTimesOut
  <2>1. arrived \in 0..arrived  BY <1>0, AheadBytes
  <2>2. GiveUp(arrived)  BY <1>8 DEF DeviceTimesOut
  <2>3. IInv' /\ Channel!Break /\ ended' = ended /\ intact' = FALSE /\ direction' = direction
    BY <1>0, <2>1, <2>2, GiveUpIInv
  <2> QED  BY <1>10, <2>3
<1>9. CASE UNCHANGED vars
  <2>1. UNCHANGED <<direction, stream, sent, bounds, pos, received, intact, arrived, ended>>
    BY <1>9 DEF vars, writer
  <2>2. arrived' \in arrived..Len(stream)  BY <1>0, <2>1, AheadBytes
  <2>3. ended' \in {"no", "closed", "rejected"}  BY <1>0, <2>1 DEF TypeOK
  <2>4. IInv' /\ UNCHANGED Channel!channel  BY <1>0, <2>1, <2>2, <2>3, QuietIInv
  <2> QED  BY <1>0, <1>11, <2>1, <2>4 DEF Inv, OnlyBadRejected, Readable
<1> QED  BY <1>1, <1>2, <1>3, <1>5, <1>6, <1>7, <1>8, <1>9 DEF Next, Read

LEMMA InitInv == Init => Inv /\ Channel!ChannelInit
BY InitIInv DEF Init, Inv, OnlyBadRejected, Channel!ChannelInit

LEMMA SpecInv == Spec => []Inv
<1>1. Inv /\ [Next]_vars => Inv'  BY NextInv
<1> QED  BY InitInv, <1>1, PTL DEF Spec

-----------------------------------------------------------------------------
(* Theorems.                                                               *)

(* The reader never gets beyond what has arrived (readexactly, readFrame). *)
THEOREM SpecTypeOK == Spec => []TypeOK
<1>1. Inv => TypeOK  BY DEF Inv, IInv
<1> QED  BY SpecInv, <1>1, PTL

(* encode_frame with readFrame, and sendFrame with read_frame, carry the   *)
(* frames of a connection in order and unchanged, in whatever pieces the   *)
(* bytes arrive, until a frame is written in part or a read is given up.   *)
THEOREM SpecImplementsChannel == Spec => ImplementsChannel
<1>1. Inv /\ [Next]_vars => [Channel!ChannelNext]_(Channel!channel)  BY NextInv
<1> QED  BY InitInv, SpecInv, <1>1, PTL DEF Spec, ImplementsChannel, Channel!ChannelSpec

(* On a stream that is not broken the broker rejects no frame but one     *)
(* whose payload is not JSON, and that one in its turn (decode_header, the *)
(* type checks and json.loads of read_frame): publish() may well send it.  *)
THEOREM SpecOnlyBadRejected == Spec => []OnlyBadRejected
<1>1. Inv => OnlyBadRejected  BY DEF Inv
<1> QED  BY SpecInv, <1>1, PTL
=============================================================================
