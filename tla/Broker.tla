-------------------------------- MODULE Broker --------------------------------
(***************************************************************************)
(* The TCP broker: one asyncio task per connection (ClientConnection.run), *)
(* the connection registry and the subscriptions they share, the status    *)
(* events they send to Kafka, and the command consumer that pushes         *)
(* commands to registered connections.                                     *)
(*                                                                         *)
(* Tasks interleave only at an await.  Each action is what one task does   *)
(* from one await to the next; pc[c] names the await at which the task of  *)
(* connection c is suspended:                                              *)
(*   "free"     not accepted yet          "waitConnect" first read_frame   *)
(*   "verify"   verify_device_token       "connack", "nack" drain CONNACK  *)
(*   "online"   send_status("online")     "loop"        read_frame         *)
(*   "forward"  drain to a subscriber     "kafka"       send_message       *)
(*   "ack"      drain of an own answer    "offline" send_status("offline") *)
(*   "closing"  writer.wait_closed        "done"        task finished      *)
(* An await that need not suspend is modelled as one that may.             *)
(***************************************************************************)
EXTENDS Topics

CONSTANTS
    Conn,        \* TCP connections, each with its ClientConnection and task
    NoConn, NoDevice, NoTopic,
    Topic,       \* the topics of PUBLISH messages
    Pattern,     \* the patterns of SUBSCRIBE and UNSUBSCRIBE messages
    KafkaMayFail, \* whether a status event may fail to reach Kafka
    Claims,      \* bound: the device ids the CONNECT of a connection may hold
    Faulty,      \* bound: the connections whose peer may stop reading or be lost
    MaxBacklog   \* bound on the frames received and not yet read

ASSUME BrokerAssumption ==
    /\ NoConn \notin Conn
    /\ NoDevice \notin Device
    /\ NoTopic \notin Topic
    /\ Topic \subseteq Seq(Level) \ {<<>>}
    /\ Pattern \subseteq Seq(Level) \ {<<>>}
    /\ KafkaMayFail \in BOOLEAN
    /\ Claims \in [Conn -> SUBSET Device]
    /\ Faulty \subseteq Conn
    /\ MaxBacklog \in Nat \ {0}

VARIABLES
    pc,           \* where the task of a connection is suspended
    link,         \* "up", "stalled" (the peer does not read) or "lost"
    closing,      \* writer.close() has been called
    backlog,      \* complete frames in the StreamReader
    claimed,      \* connect_data.device_id while it is verified
    deviceId,     \* conn.device_id
    topic,        \* pub_data.topic while it is forwarded
    todo,         \* subscribers still to visit in handle_publish
    target,       \* sub_conn, whose drain handle_publish awaits
    connections,  \* BrokerServer._connections, NoConn for a missing key
    subs,         \* the subscription relation (SubscriptionRelation)
    status,       \* last status event of each device in iot.device-events
    command,      \* connection whose drain the command consumer awaits
    newest        \* history: the connection registered last for a device

linkVars    == <<link, backlog>>
publishVars == <<topic, todo, target>>
sharedVars  == <<connections, subs, status, newest>>
vars == <<pc, linkVars, closing, claimed, deviceId, publishVars, sharedVars, command>>

Label == {"free", "waitConnect", "verify", "connack", "nack", "online", "loop",
          "forward", "kafka", "ack", "offline", "closing", "done"}

\* Registered and not yet cleaned up.
Serving == {"online", "loop", "forward", "kafka", "ack"}

TypeOK ==
    /\ pc \in [Conn -> Label]
    /\ link \in [Conn -> {"up", "stalled", "lost"}]
    /\ closing \in [Conn -> BOOLEAN]
    /\ backlog \in [Conn -> 0..MaxBacklog]
    /\ claimed \in [Conn -> Device \cup {NoDevice}]
    /\ deviceId \in [Conn -> Device \cup {NoDevice}]
    /\ topic \in [Conn -> Topic \cup {NoTopic}]
    /\ todo \in [Conn -> SUBSET Device]
    /\ target \in [Conn -> Conn \cup {NoConn}]
    /\ connections \in [Device -> Conn \cup {NoConn}]
    /\ subs \subseteq Device \X Pattern
    /\ status \in [Device -> {"none", "online", "offline"}]
    /\ command \in Conn \cup {NoConn}
    /\ newest \in [Device -> Conn \cup {NoConn}]

Init ==
    /\ pc = [c \in Conn |-> "free"]
    /\ link = [c \in Conn |-> "up"]
    /\ closing = [c \in Conn |-> FALSE]
    /\ backlog = [c \in Conn |-> 0]
    /\ claimed = [c \in Conn |-> NoDevice]
    /\ deviceId = [c \in Conn |-> NoDevice]
    /\ topic = [c \in Conn |-> NoTopic]
    /\ todo = [c \in Conn |-> {}]
    /\ target = [c \in Conn |-> NoConn]
    /\ connections = [d \in Device |-> NoConn]
    /\ subs = {}
    /\ status = [d \in Device |-> "none"]
    /\ command = NoConn
    /\ newest = [d \in Device |-> NoConn]

-----------------------------------------------------------------------------
(* The network, as asyncio's transports and stream readers show it.        *)

Open(c) == pc[c] \notin {"free", "done"}

\* A frame reaches the StreamReader; a closed writer's transport reads no more.
Arrive(c) ==
    /\ Open(c) /\ link[c] # "lost" /\ ~closing[c]
    /\ backlog[c] < MaxBacklog
    /\ backlog' = [backlog EXCEPT ![c] = @ + 1]
    /\ UNCHANGED <<pc, link, closing, claimed, deviceId, publishVars, sharedVars, command>>

SetLink(c, l) ==
    /\ link' = [link EXCEPT ![c] = l]
    /\ UNCHANGED <<pc, backlog, closing, claimed, deviceId, publishVars, sharedVars, command>>

\* The peer stops reading and the write buffer passes its high-water mark;
\* nothing more is written once the writer is closed.
Stall(c) ==
    c \in Faulty /\ Open(c) /\ ~closing[c] /\ link[c] = "up" /\ SetLink(c, "stalled")

Resume(c) == link[c] = "stalled" /\ SetLink(c, "up")

\* The peer closes or resets the connection, or TCP gives up.
PeerLost(c) == c \in Faulty /\ Open(c) /\ link[c] # "lost" /\ SetLink(c, "lost")

\* After writer.close() the transport closes once its buffer is written.
CloseCompletes(c) == closing[c] /\ link[c] = "up" /\ SetLink(c, "lost")

\* writer.drain() comes back: with an error when the connection is lost.
Drains(c)     == link[c] # "stalled"
DrainFails(c) == link[c] = "lost"

-----------------------------------------------------------------------------
(* Steps of a connection's task.                                           *)

Goto(c, l) == pc' = [pc EXCEPT ![c] = l]

RemoveClient(d) == {pair \in subs : pair[1] # d}

\* A plausible slip: only the first state of a device is sent.
SendFirstStatus(d, s) ==
    status' = [status EXCEPT ![d] = IF @ = "none" THEN s ELSE @]

\* send_status: the event is appended to iot.device-events; an error is logged
\* and the event is lost.
SendStatus(d, s) ==
    \/ status' = [status EXCEPT ![d] = s]
    \/ KafkaMayFail /\ UNCHANGED status

\* "if self.device_id:", which the empty id fails like a missing one.
HasId(c) == deviceId[c] \notin {NoDevice, EmptyId}

\* A plausible slip: the registry entry is left in place.
CleanupKeepsEntry(c) ==
    \/ /\ HasId(c)
       /\ subs' = RemoveClient(deviceId[c])
       /\ SendStatus(deviceId[c], "offline")
       /\ Goto(c, "offline")
       /\ UNCHANGED <<closing, connections>>
    \/ /\ ~HasId(c)
       /\ closing' = [closing EXCEPT ![c] = TRUE]
       /\ Goto(c, "closing")
       /\ UNCHANGED <<connections, subs, status>>

\* A plausible slip: the subscriptions are left in place.
CleanupKeepsSubs(c) ==
    \/ /\ HasId(c)
       /\ connections' = [connections EXCEPT ![deviceId[c]] = NoConn]
       /\ SendStatus(deviceId[c], "offline")
       /\ Goto(c, "offline")
       /\ UNCHANGED <<closing, subs>>
    \/ /\ ~HasId(c)
       /\ closing' = [closing EXCEPT ![c] = TRUE]
       /\ Goto(c, "closing")
       /\ UNCHANGED <<connections, subs, status>>

\* _cleanup, up to its first await.  Registry and subscriptions are keyed by
\* device id: the entry removed may be that of another connection.  A session of
\* the empty id leaves its entry and subscriptions behind, and sends no event.
Cleanup(c) ==
    \/ /\ HasId(c)
       /\ subs' = RemoveClient(deviceId[c])
       /\ connections' = [connections EXCEPT ![deviceId[c]] = NoConn]
       /\ SendStatus(deviceId[c], "offline")
       /\ Goto(c, "offline")
       /\ UNCHANGED closing
    \/ /\ ~HasId(c)
       /\ closing' = [closing EXCEPT ![c] = TRUE]
       /\ Goto(c, "closing")
       /\ UNCHANGED <<connections, subs, status>>

\* The session ends where nothing but _cleanup changes its state.
EndSession(c) ==
    /\ Cleanup(c)
    /\ UNCHANGED <<link, claimed, deviceId, publishVars, newest, command>>

\* A plausible slip: a frame is taken whether or not one is complete.
TakeFrameUnguarded(c, l) ==
    /\ pc[c] = l
    /\ backlog' = [backlog EXCEPT ![c] = @ - 1]

TakeFrame(c, l) ==
    /\ pc[c] = l
    /\ backlog[c] > 0
    /\ backlog' = [backlog EXCEPT ![c] = @ - 1]

Accept(c) ==
    /\ pc[c] = "free"
    /\ Goto(c, "waitConnect")
    /\ UNCHANGED <<linkVars, closing, claimed, deviceId, publishVars, sharedVars, command>>

ReadConnect(c) ==
    /\ TakeFrame(c, "waitConnect")
    /\ \E d \in Claims[c] : claimed' = [claimed EXCEPT ![c] = d]
    /\ Goto(c, "verify")
    /\ UNCHANGED <<link, closing, deviceId, publishVars, sharedVars, command>>

\* A CONNECT whose payload has no device_id, token or secret.
ReadInvalidConnect(c) ==
    /\ TakeFrame(c, "waitConnect")
    /\ Goto(c, "nack")
    /\ UNCHANGED <<link, closing, claimed, deviceId, publishVars, sharedVars, command>>

\* Another message than CONNECT, or a frame that does not decode.
ReadOther(c) == TakeFrame(c, "waitConnect") /\ EndSession(c)

\* read_frame finds the end of the stream; a reset loses the unread frames.
ReadEof(c) ==
    /\ pc[c] \in {"waitConnect", "loop"}
    /\ link[c] = "lost"
    /\ EndSession(c)
    /\ UNCHANGED backlog

\* 10 s without a CONNECT, 120 s without a message.  A frame that arrives as
\* the timer fires is lost, so the backlog need not be empty.
ReadTimeout(c) ==
    /\ pc[c] \in {"waitConnect", "loop"}
    /\ EndSession(c)
    /\ UNCHANGED backlog

\* A plausible slip: the id is taken from the payload before the answer.
VerifyClaimFirst(c) ==
    /\ pc[c] = "verify"
    /\ deviceId' = [deviceId EXCEPT ![c] = claimed[c]]
    /\ Goto(c, "connack") \/ Goto(c, "nack")
    /\ claimed' = [claimed EXCEPT ![c] = NoDevice]
    /\ UNCHANGED <<linkVars, closing, publishVars, sharedVars, command>>

\* verify_device_token answers, and CONNACK is written.
Verify(c) ==
    /\ pc[c] = "verify"
    /\ \/ deviceId' = [deviceId EXCEPT ![c] = claimed[c]] /\ Goto(c, "connack")
       \/ UNCHANGED deviceId /\ Goto(c, "nack")
    /\ claimed' = [claimed EXCEPT ![c] = NoDevice]
    /\ UNCHANGED <<linkVars, closing, publishVars, sharedVars, command>>

\* The reason of a refusal is whatever the authentication service sent: one that
\* is not a string or does not fit a frame raises, and no CONNACK is written.
RefusalFails(c) ==
    /\ pc[c] = "verify"
    /\ Cleanup(c)
    /\ claimed' = [claimed EXCEPT ![c] = NoDevice]
    /\ UNCHANGED <<linkVars, deviceId, publishVars, newest, command>>

\* A plausible slip: a device that is registered already keeps its connection.
RegisterKeepsFirst(c) ==
    LET d == deviceId[c]
    IN  /\ connections' = IF connections[d] = NoConn
                          THEN [connections EXCEPT ![d] = c] ELSE connections
        /\ newest' = [newest EXCEPT ![d] = c]
        /\ UNCHANGED <<closing, subs>>

\* A plausible slip: the entry is set only where one is replaced.
RegisterReplacesOnly(c) ==
    LET d   == deviceId[c]
        old == connections[d]
    IN  /\ newest' = [newest EXCEPT ![d] = c]
        /\ IF old = NoConn
           THEN UNCHANGED <<closing, connections, subs>>
           ELSE /\ connections' = [connections EXCEPT ![d] = c]
                /\ closing' = [closing EXCEPT ![old] = TRUE] /\ subs' = RemoveClient(d)

\* A plausible slip: a predecessor's subscriptions stay with the device.
RegisterKeepsSubs(c) ==
    LET d   == deviceId[c]
        old == connections[d]
    IN  /\ connections' = [connections EXCEPT ![d] = c]
        /\ newest' = [newest EXCEPT ![d] = c]
        /\ closing' = IF old = NoConn THEN closing ELSE [closing EXCEPT ![old] = TRUE]
        /\ UNCHANGED subs

\* BrokerServer.register_connection.
Register(c) ==
    LET d   == deviceId[c]
        old == connections[d]
    IN  /\ connections' = [connections EXCEPT ![d] = c]
        /\ newest' = [newest EXCEPT ![d] = c]
        /\ IF old = NoConn
           THEN UNCHANGED <<closing, subs>>
           ELSE closing' = [closing EXCEPT ![old] = TRUE] /\ subs' = RemoveClient(d)

ConnackDrained(c) ==
    /\ pc[c] = "connack" /\ Drains(c)
    /\ Register(c)
    /\ SendStatus(deviceId[c], "online")
    /\ Goto(c, "online")
    /\ UNCHANGED <<linkVars, claimed, deviceId, publishVars, command>>

\* The id is set and the connection is not registered: _cleanup still runs.
ConnackFails(c) ==
    /\ pc[c] = "connack" /\ DrainFails(c)
    /\ EndSession(c)
    /\ UNCHANGED backlog

NackDrained(c) ==
    /\ pc[c] = "nack" /\ Drains(c)
    /\ EndSession(c)
    /\ UNCHANGED backlog

\* send_status or send_message comes back; neither raises.
KafkaReturns(c) ==
    /\ pc[c] \in {"online", "kafka"}
    /\ Goto(c, "loop")
    /\ UNCHANGED <<linkVars, closing, claimed, deviceId, publishVars, sharedVars, command>>

GetSubscribers(t) == {d \in Device : \E p \in Pattern : <<d, p>> \in subs /\ Matches(p, t)}

\* handle_publish's loop over the subscribers S, in any order, up to the next
\* await: it skips some without a connection and writes to one that has one,
\* or finds none and hands the message to Kafka.
Visit(c, t, S) ==
    LET present == {d \in S : connections[d] # NoConn}
    IN  \/ \E d \in present, skipped \in SUBSET (S \ present) :
              /\ topic' = [topic EXCEPT ![c] = t]
              /\ todo' = [todo EXCEPT ![c] = S \ ({d} \cup skipped)]
              /\ target' = [target EXCEPT ![c] = connections[d]]
              /\ Goto(c, "forward")
        \/ /\ present = {}
           /\ topic' = [topic EXCEPT ![c] = NoTopic]
           /\ todo' = [todo EXCEPT ![c] = {}]
           /\ target' = [target EXCEPT ![c] = NoConn]
           /\ Goto(c, "kafka")

\* A message that is too long for a frame when it is encoded again (json.dumps
\* escapes what a device need not) is forwarded to nobody.
ReadPublish(c) ==
    /\ TakeFrame(c, "loop")
    /\ \E t \in Topic :
          /\ CheckPublishAcl(deviceId[c], t)
          /\ Visit(c, t, GetSubscribers(t) \ {deviceId[c]}) \/ Visit(c, t, {})
    /\ UNCHANGED <<link, closing, claimed, deviceId, sharedVars, command>>

\* A denied PUBLISH, an invalid payload, a message the broker does not expect.
ReadIgnored(c) ==
    /\ TakeFrame(c, "loop")
    /\ UNCHANGED <<pc, link, closing, claimed, deviceId, publishVars, sharedVars, command>>

\* A plausible slip: a failed drain is tried again.
ForwardRetries(c) ==
    /\ pc[c] = "forward" /\ link[target[c]] = "up"
    /\ Visit(c, topic[c], todo[c])
    /\ UNCHANGED <<linkVars, closing, claimed, deviceId, sharedVars, command>>

\* The drain of a forwarded message returns or raises; an exception is caught.
ForwardDrained(c) ==
    /\ pc[c] = "forward" /\ Drains(target[c])
    /\ Visit(c, topic[c], todo[c])
    /\ UNCHANGED <<linkVars, closing, claimed, deviceId, sharedVars, command>>

ReadSubscribe(c) ==
    /\ TakeFrame(c, "loop")
    /\ \E p \in Pattern :
          subs' = IF CheckSubscribeAcl(deviceId[c], p)
                  THEN subs \cup {<<deviceId[c], p>>} ELSE subs
    /\ Goto(c, "ack")
    /\ UNCHANGED <<link, closing, claimed, deviceId, publishVars, connections, status,
                   newest, command>>

ReadUnsubscribe(c) ==
    /\ TakeFrame(c, "loop")
    /\ \E p \in Pattern : subs' = subs \ {<<deviceId[c], p>>}
    /\ Goto(c, "ack")
    /\ UNCHANGED <<link, closing, claimed, deviceId, publishVars, connections, status,
                   newest, command>>

ReadPing(c) ==
    /\ TakeFrame(c, "loop")
    /\ Goto(c, "ack")
    /\ UNCHANGED <<link, closing, claimed, deviceId, publishVars, sharedVars, command>>

\* DISCONNECT, a frame that does not decode, or an answer too long to encode
\* (ProtocolError); what that request changed, _cleanup removes in the same step.
ReadDisconnect(c) == TakeFrame(c, "loop") /\ EndSession(c)

AckDrained(c) ==
    /\ pc[c] = "ack" /\ Drains(c)
    /\ Goto(c, "loop")
    /\ UNCHANGED <<linkVars, closing, claimed, deviceId, publishVars, sharedVars, command>>

AckFails(c) ==
    /\ pc[c] = "ack" /\ DrainFails(c)
    /\ EndSession(c)
    /\ UNCHANGED backlog

\* The rest of _cleanup: close the writer, wait for the transport.
OfflineReturns(c) ==
    /\ pc[c] = "offline"
    /\ closing' = [closing EXCEPT ![c] = TRUE]
    /\ Goto(c, "closing")
    /\ UNCHANGED <<linkVars, claimed, deviceId, publishVars, sharedVars, command>>

Finish(c) ==
    /\ pc[c] = "closing" /\ link[c] = "lost"
    /\ Goto(c, "done")
    /\ backlog' = [backlog EXCEPT ![c] = 0]
    /\ UNCHANGED <<link, closing, claimed, deviceId, publishVars, sharedVars, command>>

-----------------------------------------------------------------------------
(* route_command_to_device, run by the command consumer for one message at *)
(* a time.  A command for a device without an entry, or for the empty id,  *)
(* is dropped.                                                             *)

RouteCommand(d) ==
    /\ command = NoConn /\ d # EmptyId /\ connections[d] # NoConn
    /\ command' = connections[d]
    /\ UNCHANGED <<pc, linkVars, closing, claimed, deviceId, publishVars, sharedVars>>


CommandDrained ==
    /\ command # NoConn /\ Drains(command)
    /\ command' = NoConn
    /\ UNCHANGED <<pc, linkVars, closing, claimed, deviceId, publishVars, sharedVars>>

-----------------------------------------------------------------------------
Network(c) ==
    Arrive(c) \/ Stall(c) \/ Resume(c) \/ PeerLost(c) \/ CloseCompletes(c)

Handshake(c) ==
    \/ Accept(c) \/ ReadConnect(c) \/ ReadInvalidConnect(c) \/ ReadOther(c)
    \/ Verify(c) \/ RefusalFails(c)
    \/ ConnackDrained(c) \/ ConnackFails(c) \/ NackDrained(c)

Dispatch(c) ==
    \/ ReadPublish(c) \/ ReadIgnored(c) \/ ReadSubscribe(c) \/ ReadUnsubscribe(c)
    \/ ReadPing(c) \/ ReadDisconnect(c)
    \/ KafkaReturns(c) \/ ForwardDrained(c) \/ AckDrained(c) \/ AckFails(c)

Ending(c) == ReadEof(c) \/ ReadTimeout(c) \/ OfflineReturns(c) \/ Finish(c)

Router == CommandDrained \/ \E d \in Device : RouteCommand(d)

Next == Router \/ \E c \in Conn : Network(c) \/ Handshake(c) \/ Dispatch(c) \/ Ending(c)

Spec == Init /\ [][Next]_vars

-----------------------------------------------------------------------------
(* Safety.                                                                 *)

(* The registry names only live sessions: the connection found under d     *)
(* authenticated as d, its task is between register_connection and         *)
(* _cleanup, and the broker has not closed its writer.  get_connection's   *)
(* callers write to what they find without checking any of it.  Only the   *)
(* empty id may keep its last session there when it has ended, for ever    *)
(* (connection.py:131).                                                    *)
RegistryLive ==
    \A d \in Device : connections[d] # NoConn =>
        LET c == connections[d]
        IN  /\ deviceId[c] = d
            /\ \/ pc[c] \in Serving /\ ~closing[c]
               \/ d = EmptyId /\ pc[c] \in {"closing", "done"}

(* A reconnect is never undone in favour of an old connection: the entry   *)
(* of a device is the connection registered last, or missing.              *)
NewestOrNone == \A d \in Device : connections[d] \in {NoConn, newest[d]}

(* Every subscription belongs to a device with a session in service:       *)
(* _cleanup leaves none behind, whichever of the device's connections it   *)
(* ends and in whatever order they end, except those of the empty id.      *)
NoOrphanSubscription ==
    \A pair \in subs : pair[1] # EmptyId
        => \E c \in Conn : deviceId[c] = pair[1] /\ pc[c] \in Serving

(* No device stays online for the services that read its events: while no  *)
(* event is lost, a device whose last status event is "online" has a       *)
(* session in service, whichever of its sessions ended in between.  For    *)
(* the empty id no offline event is ever sent.                             *)
OnlineHasSession ==
    ~KafkaMayFail =>
        \A d \in Device \ {EmptyId} : status[d] = "online"
            => \E c \in Conn : deviceId[c] = d /\ pc[c] \in Serving

(* Nothing but a second session of its device takes a session's place: as  *)
(* long as no other connection of the device has registered or failed to,  *)
(* a session in service is in the registry, open, and, while no event is   *)
(* lost, online, whatever happens to the sessions of other devices.        *)
SoleSessionReachable ==
    \A c \in Conn :
        LET d == deviceId[c]
        IN  /\ pc[c] \in Serving
            /\ \A b \in Conn \ {c} : deviceId[b] = d => pc[b] = "connack"
            => /\ connections[d] = c /\ ~closing[c]
               /\ KafkaMayFail \/ status[d] = "online"

(* A message in the forward loop is being written to another device, one   *)
(* whose own topic prefix, its last slash left out, begins the topic,      *)
(* although sessions may have ended and started since handle_publish took  *)
(* its snapshot of the subscribers.                                        *)
ForwardedUnderPrefix ==
    \A c \in Conn : pc[c] = "forward" =>
        LET d == deviceId[target[c]]
        IN  d # deviceId[c] /\ Begins(topic[c], AllowedPrefix(d))

SubsOf(d) == {pair \in subs : pair[1] = d}

(* The registry entry and the subscriptions of a device change only by a   *)
(* step of a connection that the broker authenticated as that device: one  *)
(* that was refused ends without a trace.                                  *)
OnlyOwnSessionsAct ==
    [][\A d \in Device :
          connections'[d] # connections[d] \/ SubsOf(d)' # SubsOf(d)
          => \E c \in Conn : /\ deviceId[c] = d /\ pc[c] \notin {"verify", "nack"}
                             /\ <<pc[c], backlog[c]>>' # <<pc[c], backlog[c]>>]_vars

(* Whatever the broker starts to write to another session, a forwarded     *)
(* message or a command, goes to the connection its device registered      *)
(* last, never to a superseded one.                                        *)
WritesToNewest ==
    [][/\ command' \notin {command, NoConn} => newest[deviceId[command']] = command'
       /\ \A c \in Conn :
             pc'[c] = "forward" /\ <<pc[c], target[c], todo[c]>> # <<pc[c], target[c], todo[c]>>'
                 => newest[deviceId[target'[c]]] = target'[c]]_vars

-----------------------------------------------------------------------------
(* Refinement.                                                             *)

Served(c) == IF pc[c] \in Serving THEN deviceId[c] ELSE NoDevice

Registry == INSTANCE SessionRegistry WITH
    Session   <- Conn,
    NoSession <- NoConn,
    Lasting   <- {EmptyId},
    Grants    <- {pair \in Device \X Pattern : CheckSubscribeAcl(pair[1], pair[2])},
    served    <- [c \in Conn |-> Served(c)],
    entry     <- connections

(* The broker implements a registry of sessions: however the tasks are     *)
(* interleaved at their awaits, what they do to registry, subscriptions    *)
(* and sessions in service is one operation on one device after the other. *)
ImplementsRegistry == Registry!RegistrySpec

-----------------------------------------------------------------------------
(* Liveness.  A ready task runs: the event loop is fair, Kafka and the     *)
(* authentication request come back (both have time limits), a reader with *)
(* a frame or the end of the stream goes on, and one that finds nothing    *)
(* times out.  A drain wakes up each time its peer reads again, even if    *)
(* the peer then stops once more, hence strong fairness.  Of the peers     *)
(* nothing is assumed, and no drain has a time limit: a peer that stays    *)
(* connected and never reads again holds what waits for it.                *)

Runs(c) ==
    \/ ReadConnect(c) \/ ReadInvalidConnect(c) \/ ReadOther(c)
    \/ Verify(c) \/ RefusalFails(c)
    \/ ReadPublish(c) \/ ReadIgnored(c) \/ ReadSubscribe(c) \/ ReadUnsubscribe(c)
    \/ ReadPing(c) \/ ReadDisconnect(c)
    \/ KafkaReturns(c) \/ ReadEof(c) \/ OfflineReturns(c) \/ Finish(c)
    \/ backlog[c] = 0 /\ ReadTimeout(c)

DrainReturns(c) ==
    \/ ConnackDrained(c) \/ ConnackFails(c) \/ NackDrained(c)
    \/ ForwardDrained(c) \/ AckDrained(c) \/ AckFails(c)

Fairness ==
    /\ \A c \in Conn : /\ WF_vars(Runs(c))
                       /\ SF_vars(DrainReturns(c))
                       /\ WF_vars(CloseCompletes(c))
    /\ SF_vars(CommandDrained)

FairSpec == Spec /\ Fairness

\* The task of c awaits a peer that does not read: its own, or the one it
\* forwards to.
Held(c) ==
    \/ pc[c] \in {"connack", "nack", "ack", "closing"} /\ link[c] = "stalled"
    \/ pc[c] = "forward" /\ link[target[c]] = "stalled"

(* A session whose connection is lost, or that register_connection closed, *)
(* comes to its end: its frames are used up, _cleanup runs, and the task   *)
(* finishes.  The one thing that keeps it is a peer that stays connected   *)
(* and never reads again, also that of another session.                    *)
SessionEnds ==
    \A c \in Conn :
        \/ <>[]Held(c)
        \/ (Open(c) /\ (closing[c] \/ link[c] = "lost")) ~> pc[c] = "done"


-----------------------------------------------------------------------------
(* What comments and docs say of the broker, and its code does not do.     *)

(* server.py, get_all_connections: "Get all active connections."  Here of  *)
(* the connections that are read normally: not closed, and not lost.       *)
ActiveIsRegistered ==
    \A c \in Conn : pc[c] = "loop" /\ ~closing[c] /\ link[c] = "up" => connections[deviceId[c]] = c

(* acl.py, check_subscribe_acl: "devices can only subscribe to their own   *)
(* prefix.  This prevents a device from snooping on other devices'         *)
(* commands."                                                              *)
OwnPrefixOnly == \A pair \in subs : IsPrefix(DevicePrefix(pair[1]), pair[2])
=============================================================================
