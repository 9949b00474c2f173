----------------------------- MODULE DeviceClient -----------------------------
(***************************************************************************)
(* The device library (IoTPubSubClient): its calls, the wait for an        *)
(* answer, and the keepalive in loop(), on the millisecond clock, against  *)
(* a broker that answers in order and as late as it likes.                 *)
(*                                                                         *)
(* The library is single threaded.  A call that does not wait is one       *)
(* action; pc names the answer a call waits for.  A device is faster than  *)
(* its clock: time passes when a wait has nothing to read and is not over, *)
(* or between two rounds of the sketch.  A round calls loop(), and waits   *)
(* for at most one other answer before it (weather_station.ino, loop() and *)
(* reconnect()).                                                           *)
(*                                                                         *)
(* A frame arrives whole or in pieces, and readFrame allows SocketTimeout  *)
(* for every byte.  A frame that it gives up leaves the reader inside of   *)
(* the stream, where it takes any bytes for headers.                       *)
(***************************************************************************)
EXTENDS Integers, SequencesExt

CONSTANTS
    KeepAlive,      \* _keepAlive, in ticks of the clock
    SocketTimeout,  \* _socketTimeout
    BrokerTimeout,  \* what connection.py allows between two frames
    PongTime,       \* what the guide allows for the answer to a PINGREQ
    Wrap,           \* millis() wraps around: 2^32 in the code
    MaxInbound,     \* bound on the frames received and not read
    MaxPieces,      \* bound on the pieces that follow the first of a frame
    MaxAsked        \* bound on the requests not answered

ASSUME ClientAssumption ==
    /\ {KeepAlive, SocketTimeout, BrokerTimeout, PongTime, MaxInbound, MaxPieces}
            \subseteq Nat \ {0}
    /\ SocketTimeout <= KeepAlive /\ KeepAlive + 1 < BrokerTimeout
    /\ Wrap \in Nat /\ BrokerTimeout < Wrap /\ KeepAlive + 2 * SocketTimeout + 1 < Wrap
    /\ MaxAsked \in Nat /\ MaxAsked > 1

VARIABLES
    now,        \* millis()
    state,      \* _state
    tcp,        \* the socket: "down", "up", "closed" by the peer, "gone" without a sign
    session,    \* the broker's side of the socket: "none", "accepted", "refused"
    inbound,    \* frames received and not read
    partial,    \* "none", or the frame of which the first bytes have come
    missing,    \* how many pieces of it have not
    broken,     \* a frame was given up on this socket
    asked,      \* requests on their way or at the broker, unless broken
    pc,         \* "idle", the answer waitForResponse waits for, or "loop"
    waitStart,  \* startWait
    lastIn, lastOut,  \* _lastInActivity, _lastOutActivity
    pingOutstanding,
    round,      \* how far the sketch is: "start", "asked", "looped"
    pingAge,    \* history: ticks since the PINGREQ, up to PongTime
    held        \* history: ticks inside of a frame since the last output, up to Slack

frameVars == <<partial, missing, broken>>
socketVars == <<tcp, session, inbound, frameVars, asked>>
outVars == <<lastOut, held>>
pingVars == <<pingOutstanding, pingAge>>
vars == <<now, state, socketVars, pc, waitStart, lastIn, outVars, pingVars, round>>

\* What the keepalive leaves of the broker's time.
Slack == BrokerTimeout - KeepAlive - 1

Time == 0..(Wrap - 1)
Request == {"CONNECT", "SUBSCRIBE", "UNSUBSCRIBE", "PINGREQ"}
Frame == {"CONNACK ok", "CONNACK error", "SUBACK", "UNSUBACK", "PINGRESP", "PUBLISH"}

TypeOK ==
    /\ {now, waitStart, lastIn, lastOut} \subseteq Time
    /\ state \in {"disconnected", "failed", "timeout", "lost", "connected", "bad token"}
    /\ tcp \in {"down", "up", "closed", "gone"}
    /\ session \in {"none", "accepted", "refused"}
    /\ inbound \in Seq(Frame) /\ Len(inbound) <= MaxInbound
    /\ asked \in Seq(Request) /\ Len(asked) <= MaxAsked
    /\ partial \in Frame \cup {"none"} /\ missing \in 0..MaxPieces
    /\ (partial = "none" <=> missing = 0) /\ broken \in BOOLEAN
    /\ pc \in {"idle", "CONNACK", "SUBACK", "loop"}
    /\ pingOutstanding \in BOOLEAN /\ round \in {"start", "asked", "looped"}
    /\ pingAge \in 0..PongTime /\ held \in 0..Slack

Init ==
    /\ now \in Time /\ state = "disconnected"
    /\ tcp = "down" /\ session = "none" /\ inbound = <<>> /\ asked = <<>>
    /\ partial = "none" /\ missing = 0 /\ broken = FALSE
    /\ pc = "idle" /\ waitStart = 0 /\ lastIn = 0 /\ lastOut = 0
    /\ pingOutstanding = FALSE /\ round = "start" /\ pingAge = 0
    /\ held = 0

-----------------------------------------------------------------------------
(* The clock: differences of unsigned numbers.                             *)

Since(t) == (now - t) % Wrap

-----------------------------------------------------------------------------
(* The socket.                                                             *)

\* Client::connected(): also true of a closed socket with unread data.
Alive == tcp \in {"up", "gone"} \/ (tcp = "closed" /\ (inbound # <<>> \/ partial # "none"))

Connected == Alive /\ state = "connected"

\* A request is written; a peer that is gone does not get it.  On a broken
\* stream the requests are not followed: what is read is no longer the answers.
Written(r) == IF tcp = "up" /\ ~broken THEN Append(asked, r) ELSE asked

Out == lastOut' = now /\ held' = 0

\* _client->stop(), with the new _state.
Stop(s) ==
    /\ state' = s
    /\ tcp' = "down" /\ session' = "none" /\ inbound' = <<>> /\ asked' = <<>>
    /\ partial' = "none" /\ missing' = 0 /\ broken' = FALSE

\* readFrame gives the frame up of which the first bytes are read.
Abandon ==
    /\ partial' = "none" /\ missing' = 0 /\ broken' = TRUE /\ asked' = <<>>
    /\ UNCHANGED <<tcp, session>>

\* The frames that can be read from, and a PUBLISH among them that does not fit
\* into the buffer: what follows its header is left, to be read as anything.
Stream == IF partial = "none" THEN inbound ELSE Append(inbound, partial)

TooLarge(i) ==
    /\ Stream[i] = "PUBLISH"
    /\ Abandon
    /\ inbound' \in {<<>>, <<"PINGRESP">>, <<"SUBACK">>}

-----------------------------------------------------------------------------
(* The library's calls.  publish, subscribe, unsubscribe and loop return   *)
(* at once when connected() is false, and connect when it is true.         *)

\* connected(), called first by every call, finds the socket closed.
NoticeLoss ==
    /\ pc = "idle" /\ state = "connected" /\ ~Alive
    /\ Stop("lost")
    /\ UNCHANGED <<now, pc, waitStart, lastIn, outVars, pingVars, round>>

\* The socket does not open, or CONNECT is not written.
ConnectFails ==
    /\ pc = "idle" /\ state # "connected"
    /\ Stop("failed")
    /\ Out \/ UNCHANGED outVars
    /\ UNCHANGED <<now, pc, waitStart, lastIn, pingVars, round>>

\* connect(), up to the wait for CONNACK.
Connect ==
    /\ pc = "idle" /\ state # "connected"
    /\ tcp' = "up" /\ inbound' = <<>> /\ asked' = <<"CONNECT">>
    /\ Out
    /\ pc' = "CONNACK" /\ waitStart' = now
    /\ round' = "start"
    /\ UNCHANGED <<now, state, session, frameVars, lastIn, pingVars>>

\* A plausible slip: any answer will do.
ReadAnyConnack ==
    /\ pc = "CONNACK" /\ inbound # <<>>
    /\ pc' = "idle" /\ waitStart' = 0
    /\ lastIn' = now /\ Out
    /\ state' = "connected" /\ inbound' = Tail(inbound)
    /\ pingOutstanding' = FALSE
    /\ UNCHANGED <<now, tcp, session, frameVars, asked, pingAge, round>>

\* The rest of connect(): one frame is read.
ReadConnack ==
    /\ pc = "CONNACK" /\ inbound # <<>>
    /\ pc' = "idle" /\ waitStart' = 0
    /\ lastIn' = now
    /\ \/ /\ Head(inbound) = "CONNACK ok"
          /\ state' = "connected" /\ inbound' = Tail(inbound)
          /\ Out /\ pingOutstanding' = FALSE
          /\ UNCHANGED <<tcp, session, frameVars, asked>>
       \/ /\ Head(inbound) # "CONNACK ok"
          /\ Stop(IF Head(inbound) = "CONNACK error" THEN "bad token" ELSE "timeout")
          /\ UNCHANGED <<outVars, pingOutstanding>>
    /\ UNCHANGED <<now, pingAge, round>>

\* No byte in time: of an answer, or the next one of a frame.
WaitOver == inbound = <<>> /\ Since(waitStart) >= SocketTimeout

\* A plausible slip: the wait starts over instead of ending.
ConnackWaitsOn ==
    /\ pc = "CONNACK" /\ WaitOver
    /\ waitStart' = now
    /\ UNCHANGED <<now, state, socketVars, pc, lastIn, outVars, pingVars, round>>

ConnackTimeout ==
    /\ pc = "CONNACK" /\ WaitOver
    /\ pc' = "idle" /\ waitStart' = 0
    /\ Stop("timeout")
    /\ UNCHANGED <<now, lastIn, outVars, pingVars, round>>

\* publish(): the broker does not answer.
Publish ==
    /\ pc = "idle" /\ Connected
    /\ Out
    /\ UNCHANGED <<now, state, socketVars, pc, waitStart, lastIn, pingVars, round>>

\* subscribe() and unsubscribe(), up to the wait.
Ask(r) ==
    /\ pc = "idle" /\ Connected /\ round # "asked"
    /\ Len(asked) < MaxAsked - 1
    /\ asked' = Written(r)
    /\ Out
    /\ pc' = "SUBACK" /\ waitStart' = now
    /\ round' = "asked"
    /\ UNCHANGED <<now, state, tcp, session, inbound, frameVars, lastIn, pingVars>>

\* A write to a dead socket may fail, and the call returns at once.
AskFails ==
    /\ pc = "idle" /\ Connected /\ tcp # "up"
    /\ Out
    /\ UNCHANGED <<now, state, socketVars, pc, waitStart, lastIn, pingVars, round>>

\* The first frame decides the call, whatever it is: a PUBLISH or a PINGRESP
\* that comes before the answer is lost, and the answer is left to the next
\* reader.
ReadSuback ==
    /\ pc = "SUBACK" /\ inbound # <<>>
    /\ inbound' = Tail(inbound)
    /\ lastIn' = now
    /\ pc' = "idle" /\ waitStart' = 0
    /\ UNCHANGED <<now, state, tcp, session, frameVars, asked, outVars, pingVars, round>>

SubackTimeout ==
    /\ pc = "SUBACK" /\ WaitOver
    /\ pc' = "idle" /\ waitStart' = 0
    /\ \/ partial = "none" /\ UNCHANGED socketVars
       \/ partial # "none" /\ Abandon /\ UNCHANGED inbound
    /\ UNCHANGED <<now, state, lastIn, outVars, pingVars, round>>

SubackTooLarge ==
    /\ pc = "SUBACK" /\ Stream # <<>> /\ TooLarge(1)
    /\ pc' = "idle" /\ waitStart' = 0
    /\ UNCHANGED <<now, state, lastIn, outVars, pingVars, round>>

Disconnect ==
    /\ pc = "idle"
    /\ Stop("disconnected")
    /\ IF Alive THEN Out ELSE UNCHANGED outVars
    /\ UNCHANGED <<now, pc, waitStart, lastIn, pingVars, round>>

-----------------------------------------------------------------------------
(* loop()                                                                  *)

\* A plausible slip: only what is received counts as activity.
IdleIn == Since(lastIn) > KeepAlive

\* A plausible slip: only what is sent counts.
IdleOut == Since(lastOut) > KeepAlive

Idle == Since(lastOut) > KeepAlive \/ Since(lastIn) > KeepAlive

\* The keepalive finds its last PINGREQ unanswered.
GiveUp ==
    /\ Idle /\ pingOutstanding
    /\ Stop("timeout")
    /\ round' = "looped"
    /\ UNCHANGED <<pc, waitStart, lastIn, outVars, pingOutstanding, pingAge>>

\* A PINGRESP among the first n frames settles the PINGREQ.
ReadFirst(n, ping) ==
    /\ lastIn' = IF n = 0 THEN lastIn ELSE now
    /\ pingOutstanding' = (ping /\ ~Contains(SubSeq(inbound, 1, n), "PINGRESP"))

\* loop() reads what there is; requests is what asked was before.
\* It ends when there is no more, waits inside of a frame, or gives one up.
ReadFrames(ping, requests) ==
    \/ /\ inbound' = <<>> /\ ReadFirst(Len(inbound), ping)
       /\ asked' = requests /\ UNCHANGED <<tcp, session, frameVars>>
       /\ \/ /\ partial = "none"
             /\ pc' = "idle" /\ waitStart' = 0 /\ round' = "looped"
          \/ /\ partial # "none"
             /\ pc' = "loop" /\ waitStart' = now /\ UNCHANGED round
    \/ /\ \E i \in 1..Len(Stream) : TooLarge(i) /\ ReadFirst(i - 1, ping)
       /\ pc' = "idle" /\ waitStart' = 0 /\ round' = "looped"

\* A plausible slip: a PINGREQ in every round, answered or not.
PingAgain ==
    /\ Idle
    /\ Out /\ pingAge' = 0
    /\ ReadFrames(TRUE, Written("PINGREQ"))
    /\ UNCHANGED state

Ping ==
    /\ Idle /\ ~pingOutstanding
    /\ Out /\ pingAge' = 0
    /\ ReadFrames(TRUE, Written("PINGREQ"))
    /\ UNCHANGED state

JustRead ==
    /\ ~Idle
    /\ ReadFrames(pingOutstanding, asked)
    /\ UNCHANGED <<state, outVars, pingAge>>

Loop ==
    /\ pc = "idle" /\ Connected
    /\ GiveUp \/ Ping \/ JustRead
    /\ UNCHANGED now

\* The rest of the frame that loop() waited for is there.
LoopGoesOn ==
    /\ pc = "loop" /\ inbound # <<>>
    /\ ReadFrames(pingOutstanding, asked)
    /\ UNCHANGED <<now, state, outVars, pingAge>>

\* loop() returns false: the frame it waits for does not fit, or not come in time.
LoopTooLarge ==
    /\ pc = "loop" /\ Stream = <<partial>> /\ TooLarge(1)
    /\ pc' = "idle" /\ waitStart' = 0 /\ round' = "looped"
    /\ UNCHANGED <<now, state, lastIn, outVars, pingVars>>

LoopTimeout ==
    /\ pc = "loop" /\ WaitOver
    /\ Abandon /\ UNCHANGED inbound
    /\ pc' = "idle" /\ waitStart' = 0 /\ round' = "looped"
    /\ UNCHANGED <<now, state, lastIn, outVars, pingVars>>

-----------------------------------------------------------------------------
(* The broker, as one connection sees it (module Broker), and the network. *)

Answer(r) ==
    CASE r = "CONNECT"     -> {"CONNACK ok", "CONNACK error"}
      [] r = "SUBSCRIBE"   -> {"SUBACK"}
      [] r = "UNSUBSCRIBE" -> {"UNSUBACK"}
      [] r = "PINGREQ"     -> {"PINGRESP"}

\* A reader that waits takes the bytes as they come, and waits anew.
WaitsAnew == waitStart' = IF pc = "idle" THEN waitStart ELSE now

\* A frame arrives, whole or the first of its bytes.
Arrives(f) ==
    /\ tcp = "up" /\ partial = "none" /\ Len(inbound) < MaxInbound
    /\ \/ inbound' = Append(inbound, f) /\ UNCHANGED <<partial, missing>>
       \/ partial' = f /\ missing' \in 1..MaxPieces /\ UNCHANGED inbound
    /\ WaitsAnew
    /\ UNCHANGED <<now, state, tcp, broken, pc, lastIn, outVars, pingVars, round>>

PieceArrives ==
    /\ tcp = "up" /\ missing > 0
    /\ missing' = missing - 1
    /\ IF missing = 1 THEN partial' = "none" /\ inbound' = Append(inbound, partial)
                      ELSE UNCHANGED <<partial, inbound>>
    /\ WaitsAnew
    /\ UNCHANGED <<now, state, tcp, session, broken, asked, pc, lastIn, outVars, pingVars, round>>

\* Bytes of a frame that was given up, and those behind them, read as anything:
\* a type that no reader looks for stands for the others.
LeftoverArrives ==
    /\ broken
    /\ \E f \in {"PINGRESP", "PUBLISH", "SUBACK"} : Arrives(f)
    /\ UNCHANGED <<session, asked>>

\* The broker reads the next request and answers.
BrokerAnswers ==
    /\ asked # <<>>
    /\ asked' = Tail(asked)
    /\ \E f \in Answer(Head(asked)) :
          /\ Arrives(f)
          /\ session' = CASE f = "CONNACK ok"    -> "accepted"
                          [] f = "CONNACK error" -> "refused"
                          [] OTHER               -> session

\* A command, or a message of another device.
BrokerPublishes ==
    /\ session = "accepted" /\ ~broken
    /\ Arrives("PUBLISH")
    /\ UNCHANGED <<session, asked>>

\* The broker closes the connection, or the network resets it.
PeerCloses ==
    /\ tcp = "up"
    /\ tcp' = "closed" /\ asked' = <<>>
    /\ UNCHANGED <<now, state, session, inbound, frameVars, pc, waitStart, lastIn, outVars,
                   pingVars, round>>

\* The peer vanishes, and nothing tells the device.
PeerVanishes ==
    /\ tcp = "up"
    /\ tcp' = "gone" /\ asked' = <<>>
    /\ UNCHANGED <<now, state, session, inbound, frameVars, pc, waitStart, lastIn, outVars,
                   pingVars, round>>

Tick ==
    /\ IF pc = "idle" THEN round = "looped" \/ state # "connected" ELSE inbound = <<>> /\ ~WaitOver
    /\ now' = (now + 1) % Wrap
    /\ round' = IF pc = "idle" THEN "start" ELSE round
    /\ pingAge' = IF pingAge < PongTime THEN pingAge + 1 ELSE pingAge
    /\ held' = IF pc # "idle" /\ partial # "none" /\ held < Slack THEN held + 1 ELSE held
    /\ UNCHANGED <<state, socketVars, pc, waitStart, lastIn, lastOut, pingOutstanding>>

-----------------------------------------------------------------------------
Call ==
    \/ NoticeLoss \/ ConnectFails \/ Connect \/ Publish \/ AskFails \/ Disconnect \/ Loop
    \/ \E r \in {"SUBSCRIBE", "UNSUBSCRIBE"} : Ask(r)

WaitEnds ==
    \/ ReadConnack \/ ConnackTimeout \/ ReadSuback \/ SubackTimeout \/ LoopGoesOn \/ LoopTimeout

Network ==
    \/ PieceArrives \/ LeftoverArrives \/ BrokerAnswers \/ BrokerPublishes
    \/ PeerCloses \/ PeerVanishes

Next == Call \/ WaitEnds \/ SubackTooLarge \/ LoopTooLarge \/ Network \/ Tick

Spec == Init /\ [][Next]_vars

-----------------------------------------------------------------------------
(* Safety.                                                                 *)

(* A device takes itself for connected only on a socket on which the       *)
(* broker accepted it, whatever was still unread when it last gave up or   *)
(* was refused.                                                            *)
ConnectedIsAccepted == state = "connected" => session = "accepted"

(* The keepalive keeps the broker from timing out a device that runs its   *)
(* loop: the last frame it wrote is never as old as the broker allows,     *)
(* whatever it receives, and across the wrap-around of its clock, unless   *)
(* it was held since inside of frames that came in pieces for all that the *)
(* keepalive leaves.  Each byte may take SocketTimeout, and nothing is     *)
(* written meanwhile: such a frame can cost the session.                   *)
SessionKeptAlive == state = "connected" /\ held < Slack => Since(lastOut) < BrokerTimeout

-----------------------------------------------------------------------------
(* Liveness.  The sketch runs its loop, which calls loop() every time, the *)
(* busy waits run, and time passes.  Nothing is assumed of the broker.     *)

Fairness == WF_vars(Loop \/ NoticeLoss) /\ WF_vars(WaitEnds) /\ WF_vars(Tick)

FairSpec == Spec /\ Fairness

(* Every call returns.  loop() reads as long as there are frames: it may   *)
(* be kept for ever by a broker all of whose frames come in pieces.        *)
CallsReturn ==
    /\ pc \in {"CONNACK", "SUBACK"} ~> pc = "idle"
    /\ <>[](partial = "none") => (pc = "loop" ~> pc = "idle")

(* A connection that has died without a sign is noticed by the keepalive.  *)
LossNoticed == (state = "connected" /\ tcp = "gone") ~> state # "connected"

-----------------------------------------------------------------------------
(* What the guide says of the keepalive: the client "expects PONG within"  *)
(* a time.  It does not give up a session before that.                     *)
PongAwaited == [][state = "connected" /\ state' = "timeout" => pingAge >= PongTime]_vars
=============================================================================
