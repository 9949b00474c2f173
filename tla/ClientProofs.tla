----------------------------- MODULE ClientProofs -----------------------------
(***************************************************************************)
(* Theorems about DeviceClient, for every timeout, clock width and bound.  *)
(***************************************************************************)
EXTENDS DeviceClient, TLAPS

-----------------------------------------------------------------------------
(* The clock.                                                              *)

\* The difference of two times, in linear arithmetic.
Age(a, b) == IF a >= b THEN a - b ELSE (a - b) + Wrap

(* A remainder is the one number of its range in the residue class.        *)
LEMMA RemainderIs ==
    ASSUME NEW x \in Int, NEW k \in Nat, k > 0, NEW r \in 0..(k - 1),
           x = r \/ x = r - k \/ x = r + k
    PROVE  x % k = r
<1> DEFINE q == x \div k
<1> DEFINE p == x % k
<1>1. q \in Int /\ p \in 0..(k - 1)  BY SMT
<1>2. k * q + p = x  BY SMT
<1> HIDE DEF q, p
<1>3. PICK j \in {-1, 0, 1} : x = r + k * j
  <2>1. CASE x = r      BY <2>1, x = r + k * 0
  <2>2. CASE x = r - k  BY <2>2, x = r + k * (-1)
  <2>3. CASE x = r + k  BY <2>3, x = r + k * 1
  <2> QED  BY <2>1, <2>2, <2>3
<1> DEFINE d == q - j
<1>4. d \in Int  BY <1>1
<1>5. k * d = r - p
  <2>1. k * d = k * q - k * j  BY <1>1, SMT
  <2> QED  BY <2>1, <1>1, <1>2, <1>3, SMT
<1> HIDE DEF d
<1>6. d < 1
  <2> SUFFICES ASSUME d >= 1 PROVE FALSE  BY <1>4
  <2>1. k * d >= k  BY <1>4, SMT
  <2> QED  BY <2>1, <1>1, <1>5
<1>7. d > -1
  <2> SUFFICES ASSUME d <= -1 PROVE FALSE  BY <1>4
  <2>1. k * d <= -k  BY <1>4, SMT
  <2> QED  BY <2>1, <1>1, <1>5
<1>8. d = 0 /\ k * 0 = 0  BY <1>4, <1>6, <1>7
<1> QED  BY <1>1, <1>5, <1>8 DEF p

LEMMA SinceIsAge ==
    ASSUME NEW a \in Time, NEW b \in Time
    PROVE  (a - b) % Wrap = Age(a, b)
<1>1. Wrap \in Nat /\ Wrap > 0  BY ClientAssumption DEF Time
<1>2. Age(a, b) \in 0..(Wrap - 1)  BY <1>1 DEF Age, Time
<1>3. a - b \in Int /\ (a - b = Age(a, b) \/ a - b = Age(a, b) - Wrap)
  BY <1>1 DEF Age, Time
<1> QED  BY <1>1, <1>2, <1>3, RemainderIs

(* A tick makes every time but the farthest one tick older, also when the  *)
(* clock wraps around.                                                     *)
LEMMA OneTickOlder ==
    ASSUME NEW a \in Time, NEW b \in Time, Age(a, b) + 1 < Wrap
    PROVE  (a + 1) % Wrap \in Time /\ Age((a + 1) % Wrap, b) = Age(a, b) + 1
<1>1. Wrap \in Nat /\ Wrap > 1  BY ClientAssumption
<1>2. CASE a + 1 < Wrap
  <2>1. (a + 1) % Wrap = a + 1  BY <1>1, <1>2, RemainderIs DEF Time
  <2> QED  BY <1>1, <1>2, <2>1 DEF Age, Time
<1>3. CASE a + 1 = Wrap
  <2>1. (a + 1) % Wrap = 0  BY <1>1, <1>3, RemainderIs, 0 \in 0..(Wrap - 1) DEF Time
  <2> QED  BY <1>1, <1>3, <2>1 DEF Age, Time
<1> QED  BY <1>1, <1>2, <1>3 DEF Time

LEMMA TickTime ==
    ASSUME NEW a \in Time
    PROVE  (a + 1) % Wrap \in Time
<1>1. Wrap \in Nat /\ Wrap > 1  BY ClientAssumption
<1>2. CASE a + 1 < Wrap
  BY <1>1, <1>2, RemainderIs, (a + 1) % Wrap = a + 1 DEF Time
<1>3. CASE a + 1 = Wrap
  BY <1>1, <1>3, RemainderIs, (a + 1) % Wrap = 0 DEF Time
<1> QED  BY <1>1, <1>2, <1>3 DEF Time

LEMMA AgeIsInt ==
    ASSUME NEW a \in Time, NEW b \in Time
    PROVE  Age(a, b) \in Int
BY ClientAssumption DEF Age, Time

(* What is written or read now has age zero.                               *)
LEMMA NoAge ==
    ASSUME NEW a \in Time
    PROVE  Age(a, a) = 0
BY ClientAssumption DEF Age, Time

-----------------------------------------------------------------------------
(* What a sequence contains.                                               *)

LEMMA EmptyContains ==
    ASSUME NEW e
    PROVE  ~Contains(<<>>, e)
BY DEF Contains

LEMMA EmptyIsSeq ==
    ASSUME NEW S
    PROVE  <<>> \in Seq(S) /\ Len(<<>>) = 0
OBVIOUS

LEMMA HeadContains ==
    ASSUME NEW S, NEW s \in Seq(S), s # <<>>
    PROVE  Contains(s, Head(s))
BY DEF Contains

LEMMA TailContains ==
    ASSUME NEW S, NEW s \in Seq(S), s # <<>>, NEW e, Contains(Tail(s), e)
    PROVE  Contains(s, e)
<1>1. PICK i \in 1..Len(Tail(s)) : Tail(s)[i] = e  BY DEF Contains
<1>2. i + 1 \in 1..Len(s) /\ s[i + 1] = e  BY <1>1
<1> QED  BY <1>2 DEF Contains

LEMMA AppendContains ==
    ASSUME NEW S, NEW s \in Seq(S), NEW f \in S, NEW e, Contains(Append(s, f), e)
    PROVE  Contains(s, e) \/ e = f
<1>1. PICK i \in 1..Len(Append(s, f)) : Append(s, f)[i] = e  BY DEF Contains
<1>2. CASE i \in 1..Len(s)  BY <1>1, <1>2 DEF Contains
<1>3. CASE i = Len(s) + 1    BY <1>1, <1>3
<1> QED  BY <1>1, <1>2, <1>3

-----------------------------------------------------------------------------
(* The inductive invariant.                                                *)

\* A frame that is received, at least in part, and not read.
Has(f) == Contains(inbound, f) \/ partial = f

\* A PINGREQ is written only when there is room for it: at most one is on its
\* way, or its PINGRESP unread, and pingOutstanding is set meanwhile.  On a
\* broken stream nothing is known of what is read.
Room ==
    /\ ~Contains(asked, "PINGREQ") => Len(asked) < MaxAsked
    /\ Contains(asked, "PINGREQ") => pingOutstanding /\ state = "connected"
    /\ \A i, j \in 1..Len(asked) : asked[i] = "PINGREQ" /\ asked[j] = "PINGREQ" => i = j
    /\ ~broken /\ Has("PINGRESP") => pingOutstanding /\ state = "connected"
                                     /\ ~Contains(asked, "PINGREQ")
    /\ ~broken /\ partial = "PINGRESP" => ~Contains(inbound, "PINGRESP")
    /\ broken => asked = <<>> /\ state = "connected"
    /\ partial # "none" => Len(inbound) < MaxInbound

\* A CONNECT is the only request of a handshake, on a new socket; an
\* acceptance that is still unread is the present socket's.
Handshake ==
    /\ pc = "CONNACK" => state # "connected"
    /\ pc \in {"SUBACK", "loop"} => state = "connected"
    /\ pc = "loop" /\ inbound = <<>> => partial # "none"
    /\ pc # "CONNACK" /\ state # "connected" => session = "none" /\ tcp = "down" /\ partial = "none"
    /\ Contains(asked, "CONNECT") => pc = "CONNACK" /\ session = "none" /\ Len(asked) = 1
    /\ Has("CONNACK ok") => session = "accepted"

\* How old the last output may be, by the place the sketch is at.
Kept ==
    state = "connected" /\ held < Slack =>
        /\ pc = "idle" => Age(now, lastOut) <= KeepAlive + held + (IF round = "looped" THEN 0 ELSE 1)
        /\ pc = "SUBACK" => Age(now, lastOut) <= SocketTimeout + held
        /\ pc = "SUBACK" /\ inbound = <<>> /\ partial = "none" => waitStart = lastOut
        /\ pc = "loop" => Age(now, lastOut) <= KeepAlive + held

IInv == TypeOK /\ Room /\ Handshake /\ ConnectedIsAccepted /\ Kept

LEMMA Constants ==
    /\ KeepAlive \in Nat /\ SocketTimeout \in Nat /\ PongTime \in Nat /\ BrokerTimeout \in Nat
    /\ MaxInbound \in Nat /\ MaxInbound > 0 /\ MaxPieces \in Nat
    /\ MaxAsked \in Nat /\ MaxAsked > 1 /\ Wrap \in Nat
    /\ SocketTimeout <= KeepAlive /\ KeepAlive + 1 < BrokerTimeout /\ BrokerTimeout < Wrap
    /\ Slack = BrokerTimeout - KeepAlive - 1 /\ Slack \in Nat /\ Slack > 0
BY ClientAssumption DEF Slack

LEMMA NoneIsNoFrame == \A f \in Frame : f # "none"
BY DEF Frame

LEMMA InitIInv == Init => IInv
<1> SUFFICES ASSUME Init PROVE IInv  OBVIOUS
<1>1. 0 \in Time /\ 0 \in 0..PongTime /\ 0 \in 0..Slack /\ 0 \in 0..MaxPieces
  BY Constants DEF Time
<1>2. inbound \in Seq(Frame) /\ asked \in Seq(Request) /\ Len(inbound) = 0 /\ Len(asked) = 0
  BY EmptyIsSeq DEF Init
<1>3. TypeOK
  <2>1. Len(inbound) <= MaxInbound /\ Len(asked) <= MaxAsked  BY <1>2, Constants
  <2> QED  BY <1>1, <1>2, <2>1 DEF Init, TypeOK
<1>4. Room  BY <1>2, Constants, EmptyContains DEF Init, Room, Has
<1>5. Handshake  BY EmptyContains DEF Init, Handshake, Has
<1> QED  BY <1>3, <1>4, <1>5 DEF Init, IInv, ConnectedIsAccepted, Kept

\* The conjuncts a frame or a request can disturb.
SocketInv == TypeOK /\ Room /\ Handshake /\ ConnectedIsAccepted

State == {"disconnected", "failed", "timeout", "lost", "connected", "bad token"}
Round == {"start", "asked", "looped"}

(* A socket that is stopped has nothing left of its session.               *)
LEMMA StopSocket ==
    ASSUME SocketInv, NEW s \in State \ {"connected"}, Stop(s),
           pc' = "idle", {now', waitStart', lastIn', lastOut'} \subseteq Time,
           pingOutstanding' \in BOOLEAN, round' \in Round,
           pingAge' \in 0..PongTime, held' \in 0..Slack
    PROVE  SocketInv' /\ state' # "connected"
<1>1. /\ inbound' \in Seq(Frame) /\ asked' \in Seq(Request) /\ Len(inbound') = 0 /\ Len(asked') = 0
      /\ partial' = "none" /\ missing' = 0 /\ broken' = FALSE
  BY EmptyIsSeq DEF Stop
<1>2. /\ state' \in State /\ state' # "connected"
      /\ session' = "none" /\ tcp' = "down"
  BY DEF Stop
<1>3. TypeOK'
  <2>1. Len(inbound') <= MaxInbound /\ Len(asked') <= MaxAsked /\ 0 \in 0..MaxPieces
    BY <1>1, Constants
  <2> QED  BY <1>1, <1>2, <2>1 DEF TypeOK, State, Round
<1>4. ~Contains(asked', "PINGREQ") /\ ~Contains(inbound', "PINGRESP") /\ Len(asked') < MaxAsked
  BY <1>1, Constants, EmptyContains DEF Stop
<1>5. ~Contains(asked', "CONNECT") /\ ~Contains(inbound', "CONNACK ok")
  BY EmptyContains DEF Stop
<1>7. Room'  BY <1>1, <1>4 DEF Room, Has
<1>6. Handshake' /\ ConnectedIsAccepted'
  BY <1>1, <1>2, <1>5 DEF Handshake, ConnectedIsAccepted, Has
<1> QED  BY <1>2, <1>3, <1>6, <1>7 DEF SocketInv

(* The calls that give the socket up.                                      *)
LEMMA StopKeeps ==
    ASSUME SocketInv, NoticeLoss \/ ConnectFails \/ ConnackTimeout \/ Disconnect
    PROVE  SocketInv' /\ state' # "connected"
<1>1. /\ {now', waitStart', lastIn', lastOut'} \subseteq Time /\ held' \in 0..Slack
      /\ pc' = "idle" /\ UNCHANGED <<pingOutstanding, round, pingAge>>
  <2>1. 0 \in Time /\ 0 \in 0..Slack  BY Constants DEF Time
  <2> QED  BY <2>1 DEF SocketInv, TypeOK, NoticeLoss, ConnectFails, ConnackTimeout, Disconnect, pingVars,
                       outVars, Out
<1>2. \E s \in State \ {"connected"} : Stop(s)
  BY DEF NoticeLoss, ConnectFails, ConnackTimeout, Disconnect, State
<1> QED  BY <1>1, <1>2, StopSocket DEF SocketInv, TypeOK, Round

(* The handshake.                                                          *)
LEMMA ConnectKeeps ==
    ASSUME SocketInv, Connect
    PROVE  SocketInv'
<1>1. /\ asked' \in Seq(Request) /\ Len(asked') = 1
      /\ inbound' \in Seq(Frame) /\ Len(inbound') = 0
  BY EmptyIsSeq DEF Connect, Request
<1>2. Len(asked') < MaxAsked /\ Len(asked') <= MaxAsked /\ Len(inbound') <= MaxInbound
      /\ 0 \in 0..Slack
  BY <1>1, Constants
<1>3. TypeOK'
  BY <1>1, <1>2 DEF Connect, SocketInv, TypeOK, pingVars, frameVars, Out
<1>4. /\ ~Contains(inbound', "CONNACK ok") /\ ~Contains(inbound', "PINGRESP")
      /\ ~Contains(asked', "PINGREQ")
  BY EmptyContains DEF Connect, Contains
<1>6. /\ state' # "connected" /\ pc' = "CONNACK" /\ session' = "none"
      /\ partial' = "none" /\ broken' = FALSE
  BY DEF Connect, SocketInv, Handshake, Room, frameVars, TypeOK
<1>5. Room'
  <2>1. \A i, j \in 1..Len(asked') : i = j  BY <1>1
  <2> QED  BY <1>2, <1>4, <1>6, <2>1 DEF Room, Has
<1> QED  BY <1>1, <1>3, <1>4, <1>5, <1>6 DEF SocketInv, Handshake, ConnectedIsAccepted, Has

(* A frame that is read leaves the rest of them.                           *)
LEMMA ReadOne ==
    ASSUME TypeOK, inbound # <<>>, inbound' = Tail(inbound)
    PROVE  /\ inbound' \in Seq(Frame) /\ Len(inbound') <= MaxInbound /\ Len(inbound') < Len(inbound)
           /\ \A f \in Frame : Contains(inbound', f) => Contains(inbound, f)
<1>1. inbound \in Seq(Frame) /\ Len(inbound) <= MaxInbound  BY DEF TypeOK
<1>2. inbound' \in Seq(Frame) /\ Len(inbound') = Len(inbound) - 1  BY <1>1
<1>3. Len(inbound') <= MaxInbound
  BY <1>1, <1>2, Constants
<1> QED  BY <1>1, <1>2, <1>3, TailContains

LEMMA ReadConnackKeeps ==
    ASSUME SocketInv, ReadConnack
    PROVE  SocketInv'
<1> USE DEF SocketInv
<1>0. 0 \in Time /\ 0 \in 0..Slack  BY Constants DEF Time
<1>1. CASE Head(inbound) = "CONNACK ok"
  <2>1. /\ session = "accepted" /\ ~Contains(asked, "CONNECT")
        /\ UNCHANGED <<asked, session, tcp, partial, missing, broken>> /\ inbound' = Tail(inbound)
        /\ state' = "connected" /\ pc' = "idle" /\ inbound # <<>>
    BY <1>1, HeadContains DEF ReadConnack, Handshake, TypeOK, Has, frameVars
  <2>2. inbound' \in Seq(Frame) /\ Len(inbound') <= MaxInbound /\ Len(inbound') < Len(inbound)
    BY <2>1, ReadOne
  <2>3. TypeOK'
    BY <1>0, <1>1, <2>1, <2>2 DEF ReadConnack, TypeOK, Out
  <2>4. state # "connected" /\ ~broken
    BY DEF ReadConnack, Handshake, Room
  <2>5. ~Contains(asked', "PINGREQ") /\ ~Contains(inbound', "PINGRESP") /\ partial' # "PINGRESP"
    BY <2>1, <2>4, ReadOne DEF Room, Frame, Has
  <2>6. partial' # "none" => Len(inbound') < MaxInbound
    <3>1. Len(inbound) \in Nat /\ Len(inbound') \in Nat
      <4>1. inbound \in Seq(Frame)  BY DEF TypeOK
      <4> QED  BY <2>2, <4>1
    <3> QED  BY <2>1, <2>2, <3>1, Constants DEF Room
  <2>7. Room'
    BY <2>1, <2>4, <2>5, <2>6 DEF Room, Has
  <2> QED  BY <2>1, <2>3, <2>7 DEF Handshake, ConnectedIsAccepted, Has
<1>2. CASE Head(inbound) # "CONNACK ok"
  <2>1. /\ {now', waitStart', lastIn', lastOut'} \subseteq Time /\ held' \in 0..Slack
        /\ pc' = "idle" /\ UNCHANGED <<pingOutstanding, round, pingAge>>
    BY <1>0, <1>2 DEF ReadConnack, TypeOK, outVars
  <2>2. \E s \in State \ {"connected"} : Stop(s)
    BY <1>2 DEF ReadConnack, State
  <2> QED  BY <2>1, <2>2, StopSocket DEF TypeOK, Round
<1> QED  BY <1>1, <1>2

(* The calls of a connected device.                                        *)
LEMMA CallKeeps ==
    ASSUME SocketInv, Publish \/ AskFails
    PROVE  SocketInv'
<1>1. 0 \in Time /\ 0 \in 0..Slack  BY Constants DEF Time
<1>2. TypeOK'
  BY <1>1 DEF SocketInv, TypeOK, Publish, AskFails, socketVars, frameVars, pingVars, Out
<1>3. /\ UNCHANGED <<state, socketVars, pingOutstanding>>
      /\ pc' = "idle" /\ pc = "idle" /\ state = "connected"
  BY DEF SocketInv, Handshake, Publish, AskFails, Connected, pingVars
<1> QED  BY <1>2, <1>3 DEF SocketInv, Room, Handshake, ConnectedIsAccepted, socketVars, frameVars, Has

(* A frame that is given up leaves no request that is followed.            *)
LEMMA AbandonKeeps ==
    ASSUME SocketInv, Abandon, state = "connected", UNCHANGED <<now, state>>,
           inbound' \in Seq(Frame), Len(inbound') <= MaxInbound,
           pc' = "idle", {waitStart', lastIn', lastOut'} \subseteq Time,
           pingOutstanding' \in BOOLEAN, round' \in Round,
           pingAge' \in 0..PongTime, held' \in 0..Slack
    PROVE  SocketInv'
<1>1. /\ partial' = "none" /\ missing' = 0 /\ broken' = TRUE /\ asked' = <<>>
      /\ UNCHANGED <<tcp, session>>
      /\ asked' \in Seq(Request) /\ Len(asked') = 0 /\ session = "accepted"
  BY EmptyIsSeq DEF Abandon, SocketInv, ConnectedIsAccepted
<1>2. Len(asked') < MaxAsked /\ Len(asked') <= MaxAsked /\ 0 \in 0..MaxPieces
  BY <1>1, Constants
<1>3. TypeOK'
  BY <1>1, <1>2 DEF SocketInv, TypeOK, Round
<1>4. ~Contains(asked', "PINGREQ") /\ ~Contains(asked', "CONNECT")
  BY <1>1, EmptyContains
<1>5. Room'  BY <1>1, <1>2, <1>4 DEF Room, Has
<1> QED  BY <1>1, <1>3, <1>4, <1>5 DEF SocketInv, Handshake, ConnectedIsAccepted

(* What is left of a frame that does not fit reads as nothing or as one    *)
(* frame.                                                                  *)
LEMMA LeftOver ==
    ASSUME NEW i, TooLarge(i)
    PROVE  Abandon /\ inbound' \in Seq(Frame) /\ Len(inbound') <= MaxInbound
<1>1. inbound' \in {<<>>, <<"PINGRESP">>, <<"SUBACK">>}  BY DEF TooLarge
<1>2. \A f \in Frame : <<f>> \in Seq(Frame) /\ Len(<<f>>) = 1  OBVIOUS
<1>5. "PINGRESP" \in Frame /\ "SUBACK" \in Frame  BY DEF Frame
<1>3. inbound' \in Seq(Frame) /\ Len(inbound') <= 1
  <2>1. CASE inbound' = <<>>
    <3>1. Len(inbound') = 0 /\ inbound' \in Seq(Frame)  BY <2>1, EmptyIsSeq
    <3> QED  BY <3>1
  <2>2. CASE inbound' \in {<<"PINGRESP">>, <<"SUBACK">>}
    <3>1. Len(inbound') = 1 /\ inbound' \in Seq(Frame)  BY <1>2, <1>5, <2>2
    <3> QED  BY <3>1
  <2> QED  BY <1>1, <2>1, <2>2
<1>4. Len(inbound') <= MaxInbound
  BY <1>3, Constants
<1> QED  BY <1>3, <1>4 DEF TooLarge

(* A written request comes last, if it is followed.                        *)
LEMMA WriteAdds ==
    ASSUME TypeOK, NEW r \in Request, NEW w, w = Written(r)
    PROVE  /\ w \in Seq(Request) /\ Len(w) <= Len(asked) + 1
           /\ \A e \in Request : Contains(w, e) => Contains(asked, e) \/ e = r
           /\ \A i \in 1..Len(w) : \/ i \in 1..Len(asked) /\ w[i] = asked[i]
                                   \/ i = Len(w) /\ w[i] = r
<1>1. asked \in Seq(Request)  BY DEF TypeOK
<1>2. Len(asked) \in Nat  BY <1>1
<1>3. CASE w = asked
  <2>1. w \in Seq(Request) /\ Len(w) <= Len(asked) + 1  BY <1>1, <1>2, <1>3
  <2>2. \A e \in Request : Contains(w, e) => Contains(asked, e)  BY <1>3
  <2>3. \A i \in 1..Len(w) : i \in 1..Len(asked) /\ w[i] = asked[i]  BY <1>3
  <2> QED  BY <2>1, <2>2, <2>3
<1>4. CASE w = Append(asked, r)
  <2>1. w \in Seq(Request) /\ Len(w) = Len(asked) + 1  BY <1>1, <1>4
  <2>2. \A e \in Request : Contains(w, e) => Contains(asked, e) \/ e = r
    BY <1>1, <1>4, AppendContains
  <2>3. ASSUME NEW i \in 1..Len(w)
        PROVE  \/ i \in 1..Len(asked) /\ w[i] = asked[i]
               \/ i = Len(w) /\ w[i] = r
    <3>1. CASE i = Len(w)    BY <1>1, <1>4, <2>1, <3>1
    <3>2. CASE i \in 1..Len(asked)
      <4>1. Append(asked, r)[i] = asked[i]  BY <1>1, <3>2
      <4> QED  BY <1>4, <3>2, <4>1
    <3> QED  BY <1>2, <2>1, <3>1, <3>2
  <2> QED  BY <1>2, <2>1, <2>2, <2>3
<1> QED  BY <1>3, <1>4 DEF Written

LEMMA AskKeeps ==
    ASSUME SocketInv, NEW r \in {"SUBSCRIBE", "UNSUBSCRIBE"}, Ask(r)
    PROVE  SocketInv'
<1> USE DEF SocketInv
<1>0. 0 \in 0..Slack  BY Constants
<1>1. /\ r \in Request /\ r # "CONNECT" /\ r # "PINGREQ"
      /\ state = "connected" /\ pc = "idle" /\ asked' = Written(r) /\ Len(asked) < MaxAsked - 1
  BY DEF Request, Ask, Connected
<1>2. asked' \in Seq(Request) /\ Len(asked') <= Len(asked) + 1 /\ Len(asked) \in Nat
  BY <1>1, WriteAdds DEF TypeOK
<1>3. Len(asked') < MaxAsked /\ Len(asked') <= MaxAsked
  BY <1>1, <1>2, Constants
<1>4. TypeOK'
  BY <1>0, <1>2, <1>3 DEF Ask, TypeOK, pingVars, frameVars, Out
<1>5. /\ ~Contains(asked', "CONNECT")
      /\ Contains(asked', "PINGREQ") => Contains(asked, "PINGREQ")
  BY <1>1, WriteAdds, "CONNECT" \in Request, "PINGREQ" \in Request DEF Handshake, Request
<1>6. \A i, j \in 1..Len(asked') : asked'[i] = "PINGREQ" /\ asked'[j] = "PINGREQ" => i = j
  BY <1>1, WriteAdds DEF Room
<1>7. UNCHANGED <<state, tcp, session, inbound, partial, broken, pingOutstanding>> /\ pc' = "SUBACK"
  BY DEF Ask, pingVars, frameVars
<1>8. broken => asked' = <<>>
  BY <1>1 DEF Written, Room
<1>9. Room'
  BY <1>3, <1>5, <1>6, <1>7, <1>8 DEF Room, Has
<1> QED  BY <1>1, <1>4, <1>5, <1>7, <1>9 DEF Handshake, ConnectedIsAccepted, Has

LEMMA ReadSubackKeeps ==
    ASSUME SocketInv, ReadSuback
    PROVE  SocketInv'
<1> USE DEF SocketInv
<1>1. 0 \in Time  BY Constants DEF Time
<1>2. /\ inbound' \in Seq(Frame) /\ Len(inbound') <= MaxInbound /\ Len(inbound') < Len(inbound)
      /\ \A f \in Frame : Contains(inbound', f) => Contains(inbound, f)
  BY ReadOne DEF ReadSuback
<1>3. TypeOK'
  BY <1>1, <1>2 DEF ReadSuback, TypeOK, pingVars, frameVars, outVars
<1>4. partial # "none" => Len(inbound') < MaxInbound
  <2>1. Len(inbound) \in Nat /\ Len(inbound') \in Nat
    <3>1. inbound \in Seq(Frame)  BY DEF TypeOK
    <3> QED  BY <1>2, <3>1
  <2> QED  BY <1>2, <2>1, Constants DEF Room
<1>5. /\ UNCHANGED <<state, tcp, session, asked, partial, broken, pingOutstanding>>
      /\ pc' = "idle" /\ state = "connected"
  BY DEF ReadSuback, Handshake, pingVars, frameVars
<1>6. /\ Has("PINGRESP")' => Has("PINGRESP")
      /\ Has("CONNACK ok")' => Has("CONNACK ok")
      /\ Contains(inbound', "PINGRESP") => Contains(inbound, "PINGRESP")
  <2>1. "PINGRESP" \in Frame /\ "CONNACK ok" \in Frame  BY DEF Frame
  <2> QED  BY <1>2, <1>5, <2>1 DEF Has
<1>7. Room'
  BY <1>4, <1>5, <1>6 DEF Room
<1> QED  BY <1>3, <1>5, <1>6, <1>7 DEF Handshake, ConnectedIsAccepted

(* The waits that end without a frame.                                     *)
LEMMA GivenUpKeeps ==
    ASSUME SocketInv, SubackTimeout \/ SubackTooLarge \/ LoopTimeout \/ LoopTooLarge
    PROVE  SocketInv'
<1> USE DEF SocketInv
<1>1. /\ pc' = "idle" /\ waitStart' = 0 /\ pc \in {"SUBACK", "loop"} /\ state = "connected"
      /\ UNCHANGED <<now, state, lastIn, lastOut, held, pingOutstanding, pingAge>>
      /\ round' \in Round
  BY DEF SubackTimeout, SubackTooLarge, LoopTimeout, LoopTooLarge, Handshake, pingVars, outVars,
         TypeOK, Round
<1>2. {waitStart', lastIn', lastOut'} \subseteq Time
  BY <1>1, Constants DEF TypeOK, Time
<1>3. CASE Abandon /\ inbound' \in Seq(Frame) /\ Len(inbound') <= MaxInbound
  BY <1>1, <1>2, <1>3, AbandonKeeps DEF TypeOK
<1>4. CASE UNCHANGED <<socketVars, round>>
  <2>1. TypeOK'
    BY <1>1, <1>2, <1>4 DEF TypeOK, socketVars, frameVars
  <2> QED  BY <1>1, <1>4, <2>1 DEF socketVars, frameVars, Room, Handshake, ConnectedIsAccepted, Has
<1>5. CASE SubackTimeout \/ LoopTimeout
  BY <1>3, <1>4, <1>5 DEF SubackTimeout, LoopTimeout, TypeOK
<1>6. CASE SubackTooLarge \/ LoopTooLarge
  BY <1>3, <1>6, LeftOver DEF SubackTooLarge, LoopTooLarge
<1> QED  BY <1>5, <1>6

(* loop() reads with room for the one PINGREQ it may have written.         *)
LEMMA ReadFramesKeeps ==
    ASSUME SocketInv, state = "connected", pc # "CONNACK", UNCHANGED <<now, state>>,
           NEW ping \in BOOLEAN, NEW requests \in Seq(Request), ReadFrames(ping, requests),
           Len(requests) <= MaxAsked, ~Contains(requests, "CONNECT"),
           ~Contains(requests, "PINGREQ") => Len(requests) < MaxAsked,
           \A i, j \in 1..Len(requests) :
               requests[i] = "PINGREQ" /\ requests[j] = "PINGREQ" => i = j,
           broken => requests = <<>>,
           Contains(requests, "PINGREQ") => ping /\ ~Has("PINGRESP"),
           ~broken /\ Has("PINGRESP") => ping,
           lastOut' \in Time, pingAge' \in 0..PongTime, held' \in 0..Slack
    PROVE  SocketInv'
<1> USE DEF SocketInv
<1>1. 0 \in Time  BY Constants DEF Time
<1>2. ASSUME NEW n, ReadFirst(n, ping)
      PROVE  lastIn' \in Time /\ pingOutstanding' \in BOOLEAN
  BY <1>2 DEF ReadFirst, TypeOK
<1>3. CASE \E i \in 1..Len(Stream) : TooLarge(i) /\ ReadFirst(i - 1, ping)
  <2>1. PICK i \in 1..Len(Stream) : TooLarge(i) /\ ReadFirst(i - 1, ping)  BY <1>3
  <2>2. Abandon /\ inbound' \in Seq(Frame) /\ Len(inbound') <= MaxInbound  BY <2>1, LeftOver
  <2>3. lastIn' \in Time /\ pingOutstanding' \in BOOLEAN  BY <1>2, <2>1
  <2>4. CASE pc' = "idle" /\ waitStart' = 0 /\ round' = "looped"
    BY <1>1, <2>2, <2>3, <2>4, AbandonKeeps DEF Round
  <2>5. CASE asked' = requests /\ UNCHANGED <<tcp, session, frameVars>> /\ inbound' = <<>>
    \* A stream that is broken already.
    <3>1. broken /\ partial = "none" /\ missing = 0
      BY <2>2, <2>5 DEF Abandon, frameVars
    <3> QED  BY <1>3, <2>1, <2>4, <3>1 DEF ReadFrames
  <2> QED  BY <2>4, <2>5 DEF ReadFrames
<1>4. CASE /\ inbound' = <<>> /\ ReadFirst(Len(inbound), ping)
           /\ asked' = requests /\ UNCHANGED <<tcp, session, frameVars>>
           /\ \/ /\ partial = "none"
                 /\ pc' = "idle" /\ waitStart' = 0 /\ round' = "looped"
              \/ /\ partial # "none"
                 /\ pc' = "loop" /\ waitStart' = now /\ UNCHANGED round
  <2>1. lastIn' \in Time /\ pingOutstanding' \in BOOLEAN  BY <1>2, <1>4
  <2>2. /\ inbound' \in Seq(Frame) /\ Len(inbound') = 0
        /\ ~Contains(inbound', "PINGRESP") /\ ~Contains(inbound', "CONNACK ok")
    BY <1>4, EmptyIsSeq, EmptyContains
  <2>3. Len(inbound') <= MaxInbound /\ Len(inbound') < MaxInbound
    <3>1. Len(inbound') = 0  BY <2>2
    <3> QED  BY <3>1, Constants
  <2>4. UNCHANGED <<tcp, session, partial, missing, broken>>
    BY <1>4 DEF frameVars
  <2>5. pc' \in {"idle", "loop"} /\ round' \in Round /\ waitStart' \in Time
    BY <1>1, <1>4 DEF TypeOK, Round
  <2>6. TypeOK'
    BY <1>4, <2>1, <2>2, <2>3, <2>4, <2>5 DEF TypeOK, Round
  <2>7. SubSeq(inbound, 1, Len(inbound)) = inbound
    BY DEF TypeOK
  <2>8. pingOutstanding' = (ping /\ ~Contains(inbound, "PINGRESP"))
    BY <1>4, <2>7 DEF ReadFirst
  <2>9. Room'
    <3>1. asked' = requests /\ state' = "connected"
      BY <1>4
    <3>2. Contains(asked', "PINGREQ") => pingOutstanding'
      BY <2>8, <3>1 DEF Has
    <3>3. ASSUME ~broken', Has("PINGRESP")'
          PROVE  pingOutstanding' /\ ~Contains(asked', "PINGREQ")
      <4>1. partial = "PINGRESP" /\ ~broken
        BY <3>3, <2>2, <2>4 DEF Has
      <4>2. ping /\ ~Contains(requests, "PINGREQ")
        BY <4>1 DEF Has
      <4>3. ~Contains(inbound, "PINGRESP")
        BY <4>1 DEF Room
      <4> QED  BY <2>8, <3>1, <4>2, <4>3
    <3>4. broken' => asked' = <<>>
      BY <2>4, <3>1
    <3>5. /\ ~Contains(asked', "PINGREQ") => Len(asked') < MaxAsked
          /\ \A i, j \in 1..Len(asked') : asked'[i] = "PINGREQ" /\ asked'[j] = "PINGREQ" => i = j
      BY <3>1
    <3>6. Contains(asked', "PINGREQ") => pingOutstanding' /\ state' = "connected"
      BY <3>1, <3>2
    <3>7. ~broken' /\ Has("PINGRESP")'
              => pingOutstanding' /\ state' = "connected" /\ ~Contains(asked', "PINGREQ")
      BY <3>1, <3>3
    <3> QED  BY ONLY <2>2, <2>3, <3>1, <3>4, <3>5, <3>6, <3>7 DEF Room
  <2>10. pc' = "loop" => partial' # "none"
    BY <1>4, <2>4
  <2> QED  BY <1>4, <2>2, <2>4, <2>5, <2>6, <2>9, <2>10 DEF Handshake, ConnectedIsAccepted, Has
<1> QED  BY <1>3, <1>4 DEF ReadFrames

LEMMA LoopKeeps ==
    ASSUME SocketInv, Loop \/ LoopGoesOn
    PROVE  SocketInv'
<1> USE DEF SocketInv
<1>1. state = "connected" /\ pc \in {"idle", "loop"} /\ now' = now /\ ~Contains(asked, "CONNECT")
  BY DEF Loop, Connected, LoopGoesOn, Handshake
<1>2. CASE Loop /\ GiveUp
  <2>1. /\ {now', waitStart', lastIn', lastOut'} \subseteq Time /\ held' \in 0..Slack
        /\ pingAge' \in 0..PongTime /\ UNCHANGED pingOutstanding /\ pc' = "idle"
        /\ round' \in Round
    BY <1>1, <1>2 DEF Loop, GiveUp, TypeOK, outVars, Round
  <2>2. Stop("timeout") /\ "timeout" \in State \ {"connected"}
    BY <1>2 DEF GiveUp, State
  <2> QED  BY <2>1, <2>2, StopSocket DEF TypeOK
<1>3. CASE Loop /\ Ping
  <2>1. /\ ~pingOutstanding /\ state' = state
        /\ ReadFrames(TRUE, Written("PINGREQ"))
        /\ lastOut' \in Time /\ pingAge' \in 0..PongTime /\ held' \in 0..Slack
    <3>1. 0 \in 0..PongTime /\ 0 \in 0..Slack  BY Constants
    <3> QED  BY <1>3, <3>1 DEF Ping, Out, TypeOK
  <2>2. /\ ~Contains(asked, "PINGREQ") /\ (~broken => ~Has("PINGRESP"))
        /\ Len(asked) < MaxAsked
    BY <2>1 DEF Room
  <2>3. asked \in Seq(Request) /\ Len(asked) \in Nat /\ "PINGREQ" \in Request
    <3>1. asked \in Seq(Request)  BY DEF TypeOK
    <3> QED  BY <3>1 DEF Request
  <2> DEFINE w == Written("PINGREQ")
  <2>4. /\ w \in Seq(Request) /\ Len(w) <= Len(asked) + 1
        /\ ~Contains(w, "CONNECT")
        /\ \A i \in 1..Len(w) : w[i] = "PINGREQ" => i = Len(w)
    <3>1. /\ w \in Seq(Request) /\ Len(w) <= Len(asked) + 1
          /\ \A e \in Request : Contains(w, e) => Contains(asked, e) \/ e = "PINGREQ"
          /\ \A i \in 1..Len(w) : \/ i \in 1..Len(asked) /\ w[i] = asked[i]
                                  \/ i = Len(w) /\ w[i] = "PINGREQ"
      BY <2>3, WriteAdds
    <3> HIDE DEF w
    <3> QED  BY <1>1, <2>2, <2>3, <3>1, "CONNECT" \in Request DEF Request, Contains
  <2>5. broken => w = <<>>
    BY DEF Written, Room
  <2>6. (~Contains(w, "PINGREQ") => Len(w) < MaxAsked) /\ (Contains(w, "PINGREQ") => ~broken)
    <3>1. CASE w = asked  BY <3>1, <2>2
    <3>2. CASE w = Append(asked, "PINGREQ") /\ ~broken
      <4>1. Contains(w, "PINGREQ")
        BY <2>3, <3>2, Len(asked) + 1 \in 1..Len(w), w[Len(asked) + 1] = "PINGREQ" DEF Contains
      <4> QED  BY <3>2, <4>1
    <3> QED  BY <3>1, <3>2 DEF Written
  <2>7. Len(w) <= MaxAsked
    BY <2>2, <2>3, <2>4, Constants
  <2> HIDE DEF w
  <2>8. ReadFrames(TRUE, w)
    BY <2>1 DEF w
  <2>9. \A i, j \in 1..Len(w) : w[i] = "PINGREQ" /\ w[j] = "PINGREQ" => i = j
    BY <2>4
  <2> QED  BY <1>1, <2>1, <2>2, <2>4, <2>5, <2>6, <2>7, <2>8, <2>9, ReadFramesKeeps
<1>4. CASE (Loop /\ JustRead) \/ LoopGoesOn
  <2>1. /\ state' = state /\ ReadFrames(pingOutstanding, asked)
        /\ UNCHANGED <<lastOut, held, pingAge>>
    BY <1>4 DEF JustRead, LoopGoesOn, outVars
  <2>2. /\ pingOutstanding \in BOOLEAN /\ asked \in Seq(Request) /\ Len(asked) <= MaxAsked
        /\ lastOut \in Time /\ pingAge \in 0..PongTime /\ held \in 0..Slack
    BY DEF TypeOK
  <2>3. /\ ~Contains(asked, "PINGREQ") => Len(asked) < MaxAsked
        /\ \A i, j \in 1..Len(asked) : asked[i] = "PINGREQ" /\ asked[j] = "PINGREQ" => i = j
        /\ broken => asked = <<>>
        /\ Contains(asked, "PINGREQ") => pingOutstanding /\ ~Has("PINGRESP")
        /\ ~broken /\ Has("PINGRESP") => pingOutstanding
    BY EmptyContains DEF Room
  <2> QED  BY <1>1, <2>1, <2>2, <2>3, ReadFramesKeeps
<1> QED  BY <1>2, <1>3, <1>4 DEF Loop

(* What the arrival of a frame, or of its first bytes, does.               *)
LEMMA ArrivesFrame ==
    ASSUME TypeOK, NEW f \in Frame, Arrives(f)
    PROVE  /\ inbound' \in Seq(Frame) /\ Len(inbound') <= MaxInbound
           /\ partial' # "none" => Len(inbound') < MaxInbound
           /\ partial' \in Frame \cup {"none"} /\ missing' \in 0..MaxPieces
           /\ partial' = "none" <=> missing' = 0
           /\ waitStart' \in Time
           /\ inbound' = <<>> => partial' # "none"
           /\ \A e \in Frame : Has(e)' => Has(e) \/ e = f
           /\ \A e \in Frame : partial' = e => e = f /\ inbound' = inbound
           /\ UNCHANGED <<now, state, tcp, broken, pc, lastIn, lastOut, held, pingOutstanding,
                          pingAge, round>>
<1>1. /\ partial = "none" /\ Len(inbound) < MaxInbound /\ inbound \in Seq(Frame)
      /\ UNCHANGED <<now, state, tcp, broken, pc, lastIn, lastOut, held, pingOutstanding,
                     pingAge, round>>
  BY DEF Arrives, pingVars, outVars, TypeOK
<1>2. waitStart' \in Time
  BY DEF Arrives, WaitsAnew, TypeOK
<1>3. CASE inbound' = Append(inbound, f) /\ UNCHANGED <<partial, missing>>
  <2>1. inbound' \in Seq(Frame) /\ Len(inbound') = Len(inbound) + 1 /\ Len(inbound) \in Nat
    BY <1>1, <1>3
  <2>2. Len(inbound') <= MaxInbound /\ inbound' # <<>>
    BY <1>1, <2>1, Constants
  <2>3. \A e \in Frame : Contains(inbound', e) => Contains(inbound, e) \/ e = f
    BY <1>1, <1>3, AppendContains
  <2> QED  BY <1>1, <1>2, <1>3, <2>1, <2>2, <2>3, NoneIsNoFrame DEF Has, TypeOK
<1>4. CASE partial' = f /\ missing' \in 1..MaxPieces /\ UNCHANGED inbound
  <2>1. missing' \in 0..MaxPieces /\ missing' # 0  BY <1>4, Constants
  <2>2. Len(inbound') <= MaxInbound  BY <1>4 DEF TypeOK
  <2> QED  BY <1>1, <1>2, <1>4, <2>1, <2>2, NoneIsNoFrame DEF Has
<1> QED  BY <1>3, <1>4 DEF Arrives

(* The broker answers the request it reads.                                *)
LEMMA AnswerKeeps ==
    ASSUME SocketInv, BrokerAnswers
    PROVE  SocketInv'
<1> USE DEF SocketInv
<1>1. PICK f \in Answer(Head(asked)) :
          /\ Arrives(f)
          /\ f = "CONNACK ok" => session' = "accepted"
          /\ f = "CONNACK error" => session' = "refused"
          /\ f \notin {"CONNACK ok", "CONNACK error"} => session' = session
  BY DEF BrokerAnswers
<1>2. asked # <<>> /\ asked' = Tail(asked) /\ ~broken
  BY DEF BrokerAnswers, Room
<1>3. asked \in Seq(Request)
  BY DEF TypeOK
<1>4. /\ Head(asked) \in Request /\ Contains(asked, Head(asked))
      /\ \A e \in Request : Contains(asked', e) => Contains(asked, e)
  BY <1>2, <1>3, HeadContains, TailContains
<1>5. /\ f \in Frame
      /\ f \in {"CONNACK ok", "CONNACK error"} <=> Head(asked) = "CONNECT"
      /\ f = "PINGRESP" <=> Head(asked) = "PINGREQ"
  BY <1>1, <1>4 DEF Answer, Request, Frame
<1>6. /\ asked' \in Seq(Request) /\ Len(asked') = Len(asked) - 1
      /\ \A i \in 1..Len(asked') : i + 1 \in 1..Len(asked) /\ asked'[i] = asked[i + 1]
      /\ asked[1] = Head(asked) /\ 1 \in 1..Len(asked)
  BY <1>2, <1>3
<1>7. Len(asked) <= MaxAsked /\ Len(asked) \in Nat
  <2>1. Len(asked) \in Nat  BY <1>3
  <2> QED  BY <2>1 DEF TypeOK
<1>8. Len(asked') < MaxAsked /\ Len(asked') <= MaxAsked
  BY <1>6, <1>7, Constants
<1>9. /\ inbound' \in Seq(Frame) /\ Len(inbound') <= MaxInbound
      /\ partial' # "none" => Len(inbound') < MaxInbound
      /\ partial' \in Frame \cup {"none"} /\ missing' \in 0..MaxPieces
      /\ partial' = "none" <=> missing' = 0
      /\ waitStart' \in Time
      /\ inbound' = <<>> => partial' # "none"
      /\ \A e \in Frame : Has(e)' => Has(e) \/ e = f
      /\ \A e \in Frame : partial' = e => e = f /\ inbound' = inbound
      /\ UNCHANGED <<now, state, tcp, broken, pc, lastIn, lastOut, held, pingOutstanding,
                     pingAge, round>>
  BY <1>1, <1>5, ArrivesFrame
<1>10. session' \in {"none", "accepted", "refused"}
  BY <1>1 DEF TypeOK
<1>11. TypeOK'
  BY <1>6, <1>8, <1>9, <1>10 DEF TypeOK
<1>12. Head(asked) = "PINGREQ" => ~Contains(asked', "PINGREQ")
  BY <1>6 DEF Contains, Room
<1>13. Room'
  <2>1. "PINGREQ" \in Request /\ "PINGRESP" \in Frame  BY DEF Request, Frame
  <2>2. \A i, j \in 1..Len(asked') : asked'[i] = "PINGREQ" /\ asked'[j] = "PINGREQ" => i = j
    BY <1>6, <1>7 DEF Room
  <2>3. f = "PINGRESP" => pingOutstanding /\ state = "connected" /\ ~Contains(asked', "PINGREQ")
                          /\ ~Has("PINGRESP")
    BY <1>2, <1>4, <1>5, <1>12 DEF Room
  <2>4. Has("PINGRESP")' => Has("PINGRESP") \/ f = "PINGRESP"
    BY <1>9, <2>1
  <2>5. Has("PINGRESP")' => pingOutstanding /\ state = "connected" /\ ~Contains(asked', "PINGREQ")
    BY <1>2, <1>4, <2>1, <2>3, <2>4 DEF Room
  <2>6. partial' = "PINGRESP" => ~Contains(inbound', "PINGRESP")
    BY <1>9, <2>1, <2>3 DEF Has
  <2>7. Contains(asked', "PINGREQ") => pingOutstanding /\ state = "connected"
    BY <1>4, <2>1 DEF Room
  <2> QED  BY <1>2, <1>8, <1>9, <2>2, <2>5, <2>6, <2>7 DEF Room
<1>15. CASE Head(asked) = "CONNECT"
  <2>1. pc = "CONNACK" /\ session = "none" /\ state # "connected" /\ ~Has("CONNACK ok")
    BY <1>4, <1>15 DEF Handshake
  <2>2. ~Contains(asked', "CONNECT")
    <3>1. Len(asked) = 1  BY <1>4, <1>15 DEF Handshake
    <3>2. Len(asked') = 0  BY <1>6, <3>1
    <3> QED  BY <3>2 DEF Contains
  <2>3. Has("CONNACK ok")' => f = "CONNACK ok"
    BY <1>9, <2>1, "CONNACK ok" \in Frame DEF Frame
  <2> QED  BY <1>1, <1>9, <1>11, <1>13, <2>1, <2>2, <2>3 DEF Handshake, ConnectedIsAccepted
<1>16. CASE Head(asked) # "CONNECT"
  <2>1. session' = session /\ f # "CONNACK ok"
    BY <1>1, <1>5, <1>16
  <2>2. "CONNECT" \in Request /\ "CONNACK ok" \in Frame  BY DEF Request, Frame
  <2>3. ~Contains(asked', "CONNECT")
    <3> SUFFICES ASSUME Contains(asked', "CONNECT") PROVE FALSE  OBVIOUS
    <3>1. Len(asked) = 1  BY <1>4, <2>2 DEF Handshake
    <3>2. Len(asked') = 0  BY <1>6, <3>1
    <3> QED  BY <3>2 DEF Contains
  <2>4. Has("CONNACK ok")' => Has("CONNACK ok")
    BY <1>9, <2>1, <2>2
  <2>5. Handshake'
    <3>1. ASSUME pc # "CONNACK", state # "connected" PROVE FALSE
      BY <3>1, <1>1 DEF Handshake, Arrives
    <3> QED  BY <1>9, <2>1, <2>3, <2>4, <3>1 DEF Handshake
  <2> QED  BY <1>9, <1>11, <1>13, <2>1, <2>5 DEF ConnectedIsAccepted
<1> QED  BY <1>15, <1>16

(* A message, or what is left of a frame that was given up.                *)
LEMMA OtherFrameKeeps ==
    ASSUME SocketInv, BrokerPublishes \/ LeftoverArrives
    PROVE  SocketInv'
<1> USE DEF SocketInv
<1>1. PICK f \in {"PINGRESP", "PUBLISH", "SUBACK"} :
          Arrives(f) /\ UNCHANGED <<session, asked>> /\ (broken \/ f = "PUBLISH")
  BY DEF BrokerPublishes, LeftoverArrives
<1>2. f \in Frame  BY DEF Frame
<1>3. /\ inbound' \in Seq(Frame) /\ Len(inbound') <= MaxInbound
      /\ partial' # "none" => Len(inbound') < MaxInbound
      /\ partial' \in Frame \cup {"none"} /\ missing' \in 0..MaxPieces
      /\ partial' = "none" <=> missing' = 0
      /\ waitStart' \in Time
      /\ inbound' = <<>> => partial' # "none"
      /\ \A e \in Frame : Has(e)' => Has(e) \/ e = f
      /\ \A e \in Frame : partial' = e => e = f /\ inbound' = inbound
      /\ UNCHANGED <<now, state, tcp, broken, pc, lastIn, lastOut, held, pingOutstanding,
                     pingAge, round>>
  BY <1>1, <1>2, ArrivesFrame
<1>4. TypeOK'
  BY <1>1, <1>3 DEF TypeOK
<1>5. "PINGRESP" \in Frame /\ "CONNACK ok" \in Frame  BY DEF Frame
<1>6. Room'
  BY <1>1, <1>3, <1>5 DEF Room
<1>7. tcp = "up"
  BY <1>1 DEF Arrives
<1> QED  BY <1>1, <1>3, <1>4, <1>5, <1>6, <1>7 DEF Handshake, ConnectedIsAccepted

LEMMA PieceKeeps ==
    ASSUME SocketInv, PieceArrives
    PROVE  SocketInv'
<1> USE DEF SocketInv
<1>1. /\ missing > 0 /\ missing' = missing - 1 /\ missing \in 0..MaxPieces
      /\ partial \in Frame /\ inbound \in Seq(Frame) /\ Len(inbound) < MaxInbound
      /\ UNCHANGED <<now, state, tcp, session, broken, asked, pc, lastIn, lastOut, held,
                     pingOutstanding, pingAge, round>>
      /\ waitStart' \in Time
  <2>1. /\ missing > 0 /\ missing' = missing - 1
        /\ UNCHANGED <<now, state, tcp, session, broken, asked, pc, lastIn, lastOut, held,
                       pingOutstanding, pingAge, round>>
    BY DEF PieceArrives, pingVars, outVars
  <2>2. /\ missing \in 0..MaxPieces /\ inbound \in Seq(Frame)
        /\ partial \in Frame \cup {"none"} /\ (partial = "none" => missing = 0)
    BY DEF TypeOK
  <2>3. partial \in Frame
    <3>1. missing # 0  BY <2>1
    <3> QED  BY <2>2, <3>1
  <2>4. Len(inbound) < MaxInbound
    BY <2>3, NoneIsNoFrame DEF Room
  <2>5. waitStart' \in Time
    BY DEF PieceArrives, WaitsAnew, TypeOK
  <2> QED  BY <2>1, <2>2, <2>3, <2>4, <2>5
<1>2. CASE missing = 1
  <2>1. partial' = "none" /\ inbound' = Append(inbound, partial) /\ missing' = 0
    BY <1>1, <1>2 DEF PieceArrives
  <2>2. inbound' \in Seq(Frame) /\ Len(inbound') = Len(inbound) + 1 /\ Len(inbound) \in Nat
    BY <1>1, <2>1
  <2>3. Len(inbound') <= MaxInbound /\ inbound' # <<>>
    BY <1>1, <2>2, Constants
  <2>4. \A e \in Frame : Has(e)' => Has(e)
    <3>1. \A e \in Frame : Contains(inbound', e) => Contains(inbound, e) \/ e = partial
      BY <1>1, <2>1, AppendContains
    <3> QED  BY <2>1, <3>1, NoneIsNoFrame DEF Has
  <2>5. TypeOK'
    <3>1. 0 \in 0..MaxPieces  BY Constants
    <3> QED  BY <1>1, <2>1, <2>2, <2>3, <3>1 DEF TypeOK
  <2>6. "PINGRESP" \in Frame /\ "CONNACK ok" \in Frame  BY DEF Frame
  <2>7. Room'
    BY <1>1, <2>1, <2>4, <2>6 DEF Room
  <2> QED  BY <1>1, <2>1, <2>3, <2>4, <2>5, <2>6, <2>7 DEF Handshake, ConnectedIsAccepted
<1>3. CASE missing # 1
  <2>1. UNCHANGED <<partial, inbound>> /\ missing' \in 0..MaxPieces /\ missing' # 0
    BY <1>1, <1>3, Constants DEF PieceArrives
  <2>2. TypeOK'
    <3>1. {now', waitStart', lastIn', lastOut'} \subseteq Time /\ Len(inbound') <= MaxInbound
      BY <1>1, <2>1 DEF TypeOK
    <3>2. partial' # "none"
      BY <1>1, <2>1, NoneIsNoFrame
    <3> QED  BY <1>1, <2>1, <3>1, <3>2 DEF TypeOK
  <2> QED  BY <1>1, <2>1, <2>2 DEF Room, Handshake, ConnectedIsAccepted, Has
<1> QED  BY <1>2, <1>3

(* The peer is lost.                                                       *)
LEMMA PeerLostKeeps ==
    ASSUME SocketInv, PeerCloses \/ PeerVanishes
    PROVE  SocketInv'
<1> USE DEF SocketInv
<1>1. /\ asked' = <<>> /\ tcp' \in {"closed", "gone"} /\ tcp = "up"
      /\ UNCHANGED <<now, state, session, inbound, partial, missing, broken, pc, waitStart, lastIn,
                     lastOut, held, pingOutstanding, pingAge, round>>
  BY DEF PeerCloses, PeerVanishes, pingVars, outVars, frameVars
<1>2. asked' \in Seq(Request) /\ Len(asked') = 0
  BY <1>1, EmptyIsSeq
<1>3. Len(asked') <= MaxAsked /\ Len(asked') < MaxAsked
  BY <1>2, Constants
<1>4. ~Contains(asked', "CONNECT") /\ ~Contains(asked', "PINGREQ")
  BY <1>1, EmptyContains
<1>5. TypeOK'
  BY <1>1, <1>2, <1>3 DEF TypeOK
<1>6. Room'
  BY <1>1, <1>2, <1>3, <1>4 DEF Room, Has
<1> QED  BY <1>1, <1>4, <1>5, <1>6 DEF Handshake, ConnectedIsAccepted, Has

LEMMA TickKeeps ==
    ASSUME SocketInv, Tick
    PROVE  SocketInv'
<1> USE DEF SocketInv
<1>1. now' \in Time
  BY TickTime DEF TypeOK, Tick
<1>2. pingAge' \in 0..PongTime
  <2>1. pingAge \in 0..PongTime /\ pingAge' = IF pingAge < PongTime THEN pingAge + 1 ELSE pingAge
    BY DEF TypeOK, Tick
  <2> QED  BY <2>1, Constants
<1>3. held' \in 0..Slack
  <2>1. held \in 0..Slack
    BY DEF TypeOK
  <2>2. held' = IF pc # "idle" /\ partial # "none" /\ held < Slack THEN held + 1 ELSE held
    BY DEF Tick
  <2> QED  BY <2>1, <2>2, Constants
<1>4. round' \in {"start", "asked", "looped"}
  BY DEF TypeOK, Tick
<1>5. UNCHANGED <<state, tcp, session, inbound, partial, missing, broken, asked, pc, waitStart,
                  lastIn, lastOut, pingOutstanding>>
  BY DEF Tick, socketVars, frameVars
<1>6. TypeOK'
  BY <1>1, <1>2, <1>3, <1>4, <1>5 DEF TypeOK
<1> QED  BY <1>5, <1>6 DEF Room, Handshake, ConnectedIsAccepted, Has

LEMMA NextSocketInv ==
    ASSUME SocketInv, [Next]_vars
    PROVE  SocketInv'
<1>1. CASE Call
  BY <1>1, StopKeeps, ConnectKeeps, CallKeeps, AskKeeps, LoopKeeps DEF Call
<1>2. CASE WaitEnds \/ SubackTooLarge \/ LoopTooLarge
  BY <1>2, StopKeeps, ReadConnackKeeps, ReadSubackKeeps, GivenUpKeeps, LoopKeeps DEF WaitEnds
<1>3. CASE Network
  BY <1>3, PieceKeeps, OtherFrameKeeps, AnswerKeeps, PeerLostKeeps DEF Network
<1>4. CASE UNCHANGED vars
  <2>1. /\ UNCHANGED <<now, state, tcp, session, inbound, partial, missing, broken, asked>>
        /\ UNCHANGED <<pc, waitStart, lastIn, lastOut, held, pingOutstanding, pingAge, round>>
    BY <1>4 DEF vars, socketVars, frameVars, outVars, pingVars
  <2>2. TypeOK'
    <3>1. {now', waitStart', lastIn', lastOut'} \subseteq Time
      BY <2>1 DEF SocketInv, TypeOK
    <3>2. /\ inbound' \in Seq(Frame) /\ Len(inbound') <= MaxInbound
          /\ asked' \in Seq(Request) /\ Len(asked') <= MaxAsked
          /\ missing' \in 0..MaxPieces /\ pingAge' \in 0..PongTime /\ held' \in 0..Slack
      BY <2>1 DEF SocketInv, TypeOK
    <3>3. /\ partial' \in Frame \cup {"none"} /\ (partial' = "none" <=> missing' = 0)
          /\ broken' \in BOOLEAN /\ pingOutstanding' \in BOOLEAN
          /\ pc' \in {"idle", "CONNACK", "SUBACK", "loop"} /\ round' \in {"start", "asked", "looped"}
      BY <2>1 DEF SocketInv, TypeOK
    <3>4. /\ state' \in {"disconnected", "failed", "timeout", "lost", "connected", "bad token"}
          /\ tcp' \in {"down", "up", "closed", "gone"}
          /\ session' \in {"none", "accepted", "refused"}
      BY <2>1 DEF SocketInv, TypeOK
    <3> QED  BY ONLY <3>1, <3>2, <3>3, <3>4 DEF TypeOK
  <2> QED  BY <2>1, <2>2 DEF SocketInv, Room, Handshake, ConnectedIsAccepted, Has
<1> QED  BY <1>1, <1>2, <1>3, <1>4, TickKeeps DEF Next

-----------------------------------------------------------------------------
(* The keepalive.                                                          *)

(* A tick makes the last output one tick older, and comes only when the    *)
(* keepalive has just seen to it, a wait is not over, or inside of a frame.*)
LEMMA TickKept ==
    ASSUME IInv, Tick
    PROVE  Kept'
<1> SUFFICES ASSUME state' = "connected", held' < Slack PROVE
        /\ pc' = "idle" => Age(now', lastOut') <= KeepAlive + held' + (IF round' = "looped" THEN 0 ELSE 1)
        /\ pc' = "SUBACK" => Age(now', lastOut') <= SocketTimeout + held'
        /\ pc' = "SUBACK" /\ inbound' = <<>> /\ partial' = "none" => waitStart' = lastOut'
        /\ pc' = "loop" => Age(now', lastOut') <= KeepAlive + held'
  BY DEF Kept
<1>1. /\ state = "connected" /\ now' = (now + 1) % Wrap
      /\ UNCHANGED <<pc, waitStart, lastOut, inbound, partial>>
      /\ held' = IF pc # "idle" /\ partial # "none" /\ held < Slack THEN held + 1 ELSE held
      /\ held \in 0..Slack
  BY DEF Tick, socketVars, frameVars, IInv, TypeOK
<1>2. now \in Time /\ lastOut \in Time /\ Age(now, lastOut) \in Int
  <2>1. now \in Time /\ lastOut \in Time  BY DEF IInv, TypeOK
  <2> QED  BY <2>1, AgeIsInt
<1>3. held < Slack /\ held \in Nat /\ held' \in Nat
  BY <1>1, Constants
<1>4. ASSUME Age(now, lastOut) <= KeepAlive + held
      PROVE  Age(now', lastOut') = Age(now, lastOut) + 1
  <2>1. Age(now, lastOut) + 1 < Wrap
    BY <1>2, <1>3, <1>4, Constants
  <2> QED  BY <1>1, <1>2, <2>1, OneTickOlder
<1>5. CASE pc = "idle"
  <2>1. Age(now, lastOut) <= KeepAlive + held /\ round' = "start" /\ held' = held
    BY <1>1, <1>3, <1>5, Constants DEF IInv, Kept, Tick
  <2> QED  BY <1>1, <1>2, <1>3, <1>4, <1>5, <2>1, Constants
<1>6. CASE pc = "SUBACK"
  <2>1. /\ Age(now, lastOut) <= SocketTimeout + held
        /\ inbound = <<>> /\ partial = "none" => waitStart = lastOut
        /\ inbound = <<>> /\ ~(Since(waitStart) >= SocketTimeout)
    BY <1>1, <1>3, <1>6 DEF IInv, Kept, Tick, WaitOver
  <2>2. Age(now', lastOut') = Age(now, lastOut) + 1
    BY <1>2, <1>3, <1>4, <2>1, Constants
  <2>3. CASE partial = "none"
    <3>1. Age(now, lastOut) + 1 <= SocketTimeout
      BY <1>2, <2>1, <2>3, SinceIsAge, Constants DEF Since
    <3> QED  BY <1>1, <1>2, <1>3, <1>6, <2>1, <2>2, <3>1, Constants
  <2>4. CASE partial # "none"
    <3>1. held' = held + 1  BY <1>1, <1>3, <1>6, <2>4
    <3> QED  BY <1>1, <1>2, <1>3, <1>6, <2>1, <2>2, <2>4, <3>1, Constants
  <2> QED  BY <2>3, <2>4
<1>7. CASE pc = "loop"
  <2>1. Age(now, lastOut) <= KeepAlive + held /\ partial # "none"
    BY <1>1, <1>3, <1>7 DEF IInv, Kept, Tick, Handshake
  <2>2. held' = held + 1  BY <1>1, <1>3, <1>7, <2>1
  <2> QED  BY <1>1, <1>2, <1>3, <1>4, <1>7, <2>1, <2>2, Constants
<1>8. CASE pc = "CONNACK"
  BY <1>1, <1>8
<1> QED  BY <1>5, <1>6, <1>7, <1>8 DEF IInv, TypeOK

(* What is written now has age zero, and nothing else gets older without a *)
(* tick.                                                                   *)
LEMMA StepKept ==
    ASSUME IInv, Call \/ WaitEnds \/ SubackTooLarge \/ LoopTooLarge \/ Network \/ UNCHANGED vars
    PROVE  Kept'
<1> DEFINE Fresh == lastOut' = now' /\ held' = 0 /\ (pc' = "SUBACK" => waitStart' = now')
<1> DEFINE Same == UNCHANGED <<now, state, lastOut, held>>
<1>1. /\ now \in Time /\ lastOut \in Time /\ Age(now, lastOut) \in Int /\ held \in Nat
      /\ round \in Round
  <2>1. now \in Time /\ lastOut \in Time /\ held \in Nat /\ round \in Round
    <3>1. held \in 0..Slack  BY DEF IInv, TypeOK
    <3>2. now \in Time /\ lastOut \in Time /\ round \in Round  BY DEF IInv, TypeOK, Round
    <3> QED  BY <3>1, <3>2, Constants
  <2> QED  BY <2>1, AgeIsInt
<1>2. ASSUME Fresh, now' = now PROVE Kept'
  <2>1. Age(now', lastOut') = 0  BY <1>1, <1>2, NoAge
  <2> QED  BY <1>2, <2>1, Constants DEF Kept
<1>3. ASSUME Same, UNCHANGED <<pc, round>>,
             pc = "SUBACK" /\ inbound' = <<>> /\ partial' = "none" =>
                 inbound = <<>> /\ partial = "none" /\ waitStart' = waitStart
      PROVE  Kept'
  <2>1. UNCHANGED <<now, state, pc, lastOut, held, round>>  BY <1>3
  <2>2. Age(now', lastOut') = Age(now, lastOut)  BY <2>1 DEF Age
  <2> QED  BY <1>3, <2>1, <2>2 DEF IInv, Kept
<1>4. ASSUME state' # "connected" PROVE Kept'
  BY <1>4 DEF Kept
<1>5. ASSUME Same, pc' \in {"idle", "loop"},
             state = "connected" /\ held < Slack => Age(now, lastOut) <= KeepAlive + held
      PROVE  Kept'
  <2>1. UNCHANGED <<now, state, lastOut, held>>  BY <1>5
  <2>2. Age(now', lastOut') = Age(now, lastOut)  BY <2>1 DEF Age
  <2> QED  BY <1>1, <1>5, <2>1, <2>2, Constants DEF Kept
<1>6. CASE NoticeLoss \/ ConnectFails \/ ConnackTimeout \/ Disconnect \/ Connect
  <2>1. state' # "connected"
    BY <1>6 DEF NoticeLoss, ConnectFails, ConnackTimeout, Disconnect, Connect, Stop
  <2> QED  BY <1>4, <2>1
<1>7. CASE Publish \/ AskFails \/ \E r \in {"SUBSCRIBE", "UNSUBSCRIBE"} : Ask(r)
  <2>1. Fresh /\ now' = now
    BY <1>7 DEF Publish, AskFails, Ask, Out
  <2> QED  BY <1>2, <2>1
<1>8. CASE ReadConnack
  <2>1. (Fresh /\ now' = now) \/ state' # "connected"
    BY <1>8 DEF ReadConnack, Stop, Out
  <2> QED  BY <1>2, <1>4, <2>1
<1>9. CASE ReadSuback \/ SubackTimeout \/ SubackTooLarge
  <2>1. Same /\ pc = "SUBACK" /\ pc' = "idle"
    BY <1>9 DEF ReadSuback, SubackTimeout, SubackTooLarge, outVars
  <2>2. state = "connected" /\ held < Slack => Age(now, lastOut) <= SocketTimeout + held
    BY <2>1 DEF IInv, Kept
  <2>3. state = "connected" /\ held < Slack => Age(now, lastOut) <= KeepAlive + held
    BY <1>1, <2>2, Constants
  <2> QED  BY <1>5, <2>1, <2>3
<1>10. CASE LoopGoesOn \/ LoopTimeout \/ LoopTooLarge
  <2>1. Same /\ pc = "loop" /\ pc' \in {"idle", "loop"}
    BY <1>10 DEF LoopGoesOn, LoopTimeout, LoopTooLarge, ReadFrames, outVars
  <2>2. state = "connected" /\ held < Slack => Age(now, lastOut) <= KeepAlive + held
    BY <2>1 DEF IInv, Kept
  <2> QED  BY <1>5, <2>1, <2>2
<1>11. CASE Loop
  <2>1. now' = now /\ (GiveUp \/ Ping \/ JustRead)
    BY <1>11 DEF Loop
  <2>2. CASE GiveUp
    BY <1>4, <2>2 DEF GiveUp, Stop
  <2>3. CASE Ping
    <3>1. Fresh  BY <2>1, <2>3 DEF Ping, ReadFrames, Out
    <3> QED  BY <1>2, <2>1, <3>1
  <2>4. CASE JustRead
    <3>1. ~(Since(lastOut) > KeepAlive) /\ Since(lastOut) = Age(now, lastOut)
      BY <1>1, <2>4, SinceIsAge DEF JustRead, Idle, Since
    <3>2. Age(now, lastOut) <= KeepAlive + held
      BY <1>1, <3>1, Constants
    <3>3. Same /\ pc' \in {"idle", "loop"}
      BY <2>1, <2>4 DEF JustRead, ReadFrames, outVars
    <3> QED  BY <1>5, <3>2, <3>3
  <2> QED  BY <2>1, <2>2, <2>3, <2>4
<1>12. CASE \E f \in Frame : Arrives(f)
  <2>1. PICK f \in Frame : Arrives(f)  BY <1>12
  <2>2. /\ inbound' = <<>> => partial' # "none"
        /\ UNCHANGED <<now, state, pc, lastOut, held, round>>
    BY <2>1, ArrivesFrame DEF IInv
  <2> QED  BY <1>3, <2>2
<1>13. CASE PieceArrives
  <2>1. /\ UNCHANGED <<now, state, pc, lastOut, held, round>>
        /\ inbound' = <<>> /\ partial' = "none" => FALSE
    <3>1. inbound \in Seq(Frame) /\ partial # "none"
      <4>1. missing > 0  BY <1>13 DEF PieceArrives
      <4>2. inbound \in Seq(Frame) /\ (partial = "none" => missing = 0)  BY DEF IInv, TypeOK
      <4> QED  BY <4>1, <4>2
    <3>2. Append(inbound, partial) # <<>>  BY <3>1
    <3> QED  BY <1>13, <3>1, <3>2 DEF PieceArrives, outVars
  <2> QED  BY <1>3, <2>1
<1>14. CASE PeerCloses \/ PeerVanishes \/ UNCHANGED vars
  <2>1. UNCHANGED <<now, state, pc, waitStart, lastOut, held, round, inbound, partial>>
    BY <1>14 DEF PeerCloses, PeerVanishes, vars, socketVars, frameVars, outVars
  <2> QED  BY <1>3, <2>1
<1>15. CASE Network
  <2>1. CASE BrokerAnswers
    <3>1. Head(asked) \in Request
      <4>1. asked \in Seq(Request) /\ asked # <<>>  BY <2>1 DEF IInv, TypeOK, BrokerAnswers
      <4> QED  BY <4>1
    <3>2. Answer(Head(asked)) \subseteq Frame  BY <3>1 DEF Answer, Request, Frame
    <3> QED  BY <1>12, <2>1, <3>2 DEF BrokerAnswers
  <2>2. CASE BrokerPublishes \/ LeftoverArrives
    <3>1. {"PINGRESP", "PUBLISH", "SUBACK"} \subseteq Frame  BY DEF Frame
    <3> QED  BY <1>12, <2>2, <3>1 DEF BrokerPublishes, LeftoverArrives
  <2> QED  BY <1>13, <1>14, <1>15, <2>1, <2>2 DEF Network
<1> QED  BY <1>6, <1>7, <1>8, <1>9, <1>10, <1>11, <1>14, <1>15 DEF Call, WaitEnds

LEMMA NextIInv == IInv /\ [Next]_vars => IInv'
<1> SUFFICES ASSUME IInv, [Next]_vars PROVE IInv'  OBVIOUS
<1>1. SocketInv'
  BY NextSocketInv DEF IInv, SocketInv
<1>2. Kept'
  BY TickKept, StepKept DEF Next
<1> QED  BY <1>1, <1>2 DEF IInv, SocketInv

LEMMA SpecIInv == Spec => []IInv
BY InitIInv, NextIInv, PTL DEF Spec

(* For every timeout and clock: in particular the library never has more   *)
(* requests unanswered than its calls and one ping.                        *)
THEOREM SpecTypeOK == Spec => []TypeOK
<1>1. IInv => TypeOK  BY DEF IInv
<1> QED  BY <1>1, SpecIInv, PTL

(* A device takes itself for connected only on a socket on which the       *)
(* broker accepted it, whatever came on the sockets before.                *)
THEOREM SpecConnectedIsAccepted == Spec => []ConnectedIsAccepted
<1>1. IInv => ConnectedIsAccepted  BY DEF IInv
<1> QED  BY <1>1, SpecIInv, PTL

(* The keepalive keeps the broker from timing out a device that runs its   *)
(* loop and is not held inside of frames for all that the keepalive leaves,*)
(* for every width of the clock and every timeout (ClientAssumption).      *)
THEOREM SpecSessionKeptAlive == Spec => []SessionKeptAlive
<1>1. ASSUME IInv, state = "connected", held < Slack PROVE Since(lastOut) < BrokerTimeout
  <2>1. /\ now \in Time /\ lastOut \in Time /\ held \in Nat
        /\ pc \in {"idle", "SUBACK", "loop"}
    <3>1. held \in 0..Slack  BY <1>1 DEF IInv, TypeOK
    <3>2. now \in Time /\ lastOut \in Time  BY <1>1 DEF IInv, TypeOK
    <3>3. pc \in {"idle", "SUBACK", "loop"}  BY <1>1 DEF IInv, TypeOK, Handshake
    <3> QED  BY <3>1, <3>2, <3>3, Constants
  <2>2. Age(now, lastOut) \in Int
    BY <2>1, AgeIsInt
  <2>3. Age(now, lastOut) <= KeepAlive + held + 1
    BY <1>1, <2>1, <2>2, Constants DEF IInv, Kept
  <2> QED  BY <1>1, <2>1, <2>2, <2>3, SinceIsAge, Constants DEF Since
<1>2. IInv => SessionKeptAlive
  BY <1>1 DEF SessionKeptAlive
<1> QED  BY <1>2, SpecIInv, PTL
=============================================================================
