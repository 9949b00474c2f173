----------------------------- MODULE BrokerProofs -----------------------------
(***************************************************************************)
(* Theorems about Broker, for every set of connections, devices, topics    *)
(* and patterns.                                                           *)
(***************************************************************************)
EXTENDS Broker, TopicsLemmas, TLAPS

(* A connection has an id from its verification until its task is done     *)
(* with it, and none before; the id it claims is a device's.               *)
Identified ==
    \A c \in Conn :
        /\ pc[c] \in {"free", "waitConnect", "verify", "nack"} => deviceId[c] = NoDevice
        /\ pc[c] = "verify" => claimed[c] \in Device
        /\ pc[c] \in Serving \cup {"connack", "offline"} => deviceId[c] \in Device

-----------------------------------------------------------------------------
(* Type correctness.                                                       *)

(* A taken frame was there.                                                *)
LEMMA TakeFrameType ==
    ASSUME TypeOK, NEW c \in Conn, NEW l, TakeFrame(c, l)
    PROVE  backlog' \in [Conn -> 0..MaxBacklog]
<1>1. backlog[c] - 1 \in 0..MaxBacklog
  BY BrokerAssumption DEF TypeOK, TakeFrame
<1> QED BY <1>1 DEF TypeOK, TakeFrame

(* The end of a session types everything but the frames it leaves.         *)
LEMMA EndSessionType ==
    ASSUME TypeOK, NEW c \in Conn, EndSession(c), backlog' \in [Conn -> 0..MaxBacklog]
    PROVE  TypeOK'
<1>1. /\ subs' \subseteq Device \X Pattern
      /\ connections' \in [Device -> Conn \cup {NoConn}]
  BY DEF TypeOK, EndSession, Cleanup, RemoveClient
<1>2. status' \in [Device -> {"none", "online", "offline"}]
  BY DEF TypeOK, EndSession, Cleanup, SendStatus
<1>3. pc' \in [Conn -> Label] /\ closing' \in [Conn -> BOOLEAN]
  BY DEF TypeOK, EndSession, Cleanup, Goto, Label
<1> QED BY <1>1, <1>2, <1>3 DEF TypeOK, EndSession, publishVars

(* handle_publish's loop.                                                  *)
LEMMA VisitType ==
    ASSUME TypeOK, NEW c \in Conn, NEW t \in Topic \cup {NoTopic}, NEW S \in SUBSET Device,
           Visit(c, t, S)
    PROVE  /\ pc' \in [Conn -> Label]
           /\ topic' \in [Conn -> Topic \cup {NoTopic}]
           /\ todo' \in [Conn -> SUBSET Device]
           /\ target' \in [Conn -> Conn \cup {NoConn}]
<1> DEFINE present == {d \in S : connections[d] # NoConn}
<1>1. CASE \E d \in present, skipped \in SUBSET (S \ present) :
              /\ topic' = [topic EXCEPT ![c] = t]
              /\ todo' = [todo EXCEPT ![c] = S \ ({d} \cup skipped)]
              /\ target' = [target EXCEPT ![c] = connections[d]]
              /\ Goto(c, "forward")
  <2>1. PICK d \in present, skipped \in SUBSET (S \ present) :
              /\ topic' = [topic EXCEPT ![c] = t]
              /\ todo' = [todo EXCEPT ![c] = S \ ({d} \cup skipped)]
              /\ target' = [target EXCEPT ![c] = connections[d]]
              /\ Goto(c, "forward")
    BY <1>1
  <2>2. connections[d] \in Conn \cup {NoConn} /\ S \ ({d} \cup skipped) \in SUBSET Device
    BY DEF TypeOK
  <2> QED BY <2>1, <2>2 DEF TypeOK, Goto, Label
<1>2. CASE /\ topic' = [topic EXCEPT ![c] = NoTopic]
           /\ todo' = [todo EXCEPT ![c] = {}]
           /\ target' = [target EXCEPT ![c] = NoConn]
           /\ Goto(c, "kafka")
  BY <1>2 DEF TypeOK, Goto, Label
<1> QED BY <1>1, <1>2 DEF Visit

(* register_connection.                                                    *)
LEMMA RegisterType ==
    ASSUME TypeOK, NEW c \in Conn, Register(c)
    PROVE  /\ closing' \in [Conn -> BOOLEAN]
           /\ connections' \in [Device -> Conn \cup {NoConn}]
           /\ subs' \subseteq Device \X Pattern
           /\ newest' \in [Device -> Conn \cup {NoConn}]
<1>1. connections' \in [Device -> Conn \cup {NoConn}] /\ newest' \in [Device -> Conn \cup {NoConn}]
  BY DEF TypeOK, Register
<1>2. closing' \in [Conn -> BOOLEAN] /\ subs' \subseteq Device \X Pattern
  BY DEF TypeOK, Register, RemoveClient
<1> QED BY <1>1, <1>2

(* Every step keeps the types.                                             *)
LEMMA TypeStep ==
    ASSUME TypeOK, Identified, [Next]_vars
    PROVE  TypeOK'
<1>1. ASSUME NEW c \in Conn, Arrive(c) PROVE TypeOK'
  BY <1>1, BrokerAssumption DEF Arrive, publishVars, sharedVars, TypeOK
<1>2. ASSUME NEW c \in Conn, Stall(c) PROVE TypeOK'
  BY <1>2 DEF Stall, SetLink, publishVars, sharedVars, TypeOK
<1>3. ASSUME NEW c \in Conn, Resume(c) PROVE TypeOK'
  BY <1>3 DEF Resume, SetLink, publishVars, sharedVars, TypeOK
<1>4. ASSUME NEW c \in Conn, PeerLost(c) PROVE TypeOK'
  BY <1>4 DEF PeerLost, SetLink, publishVars, sharedVars, TypeOK
<1>5. ASSUME NEW c \in Conn, CloseCompletes(c) PROVE TypeOK'
  BY <1>5 DEF CloseCompletes, SetLink, publishVars, sharedVars, TypeOK
<1>6. ASSUME NEW c \in Conn, Accept(c) PROVE TypeOK'
  BY <1>6 DEF Accept, Goto, Label, linkVars, publishVars, sharedVars, TypeOK
<1>7. ASSUME NEW c \in Conn, ReadConnect(c) PROVE TypeOK'
  <2>1. PICK d \in Device : claimed' = [claimed EXCEPT ![c] = d]
    BY <1>7, BrokerAssumption DEF ReadConnect
  <2>2. backlog' \in [Conn -> 0..MaxBacklog]
    BY <1>7, TakeFrameType DEF ReadConnect
  <2> QED BY <1>7, <2>1, <2>2 DEF ReadConnect, Goto, Label, publishVars, sharedVars, TypeOK
<1>8. ASSUME NEW c \in Conn, ReadInvalidConnect(c) PROVE TypeOK'
  BY <1>8, TakeFrameType DEF ReadInvalidConnect, Goto, Label, publishVars, sharedVars, TypeOK
<1>9. ASSUME NEW c \in Conn, ReadOther(c) PROVE TypeOK'
  BY <1>9, TakeFrameType, EndSessionType DEF ReadOther
<1>10. ASSUME NEW c \in Conn, Verify(c) PROVE TypeOK'
  <2>1. pc' \in [Conn -> Label]
    BY <1>10 DEF Verify, Goto, Label, TypeOK
  <2>2. deviceId' \in [Conn -> Device \cup {NoDevice}]
    BY <1>10 DEF Verify, TypeOK
  <2>3. claimed' \in [Conn -> Device \cup {NoDevice}]
    BY <1>10 DEF Verify, TypeOK
  <2> QED BY <1>10, <2>1, <2>2, <2>3 DEF Verify, TypeOK, linkVars, publishVars, sharedVars
<1>31. ASSUME NEW c \in Conn, RefusalFails(c) PROVE TypeOK'
  <2>1. /\ subs' \subseteq Device \X Pattern
        /\ connections' \in [Device -> Conn \cup {NoConn}]
    BY <1>31 DEF TypeOK, RefusalFails, Cleanup, RemoveClient
  <2>2. status' \in [Device -> {"none", "online", "offline"}]
    BY <1>31 DEF TypeOK, RefusalFails, Cleanup, SendStatus
  <2>3. pc' \in [Conn -> Label] /\ closing' \in [Conn -> BOOLEAN]
    BY <1>31 DEF TypeOK, RefusalFails, Cleanup, Goto, Label
  <2> QED BY <1>31, <2>1, <2>2, <2>3 DEF TypeOK, RefusalFails, linkVars, publishVars
<1>11. ASSUME NEW c \in Conn, ConnackDrained(c) PROVE TypeOK'
  <2>1. status' \in [Device -> {"none", "online", "offline"}]
    BY <1>11 DEF ConnackDrained, SendStatus, TypeOK
  <2>2. pc' \in [Conn -> Label]
    BY <1>11 DEF ConnackDrained, Goto, Label, TypeOK
  <2> QED BY <1>11, <2>1, <2>2, RegisterType DEF ConnackDrained, TypeOK, linkVars, publishVars
<1>12. ASSUME NEW c \in Conn, ConnackFails(c) PROVE TypeOK'
  BY <1>12, EndSessionType DEF ConnackFails, TypeOK
<1>13. ASSUME NEW c \in Conn, NackDrained(c) PROVE TypeOK'
  BY <1>13, EndSessionType DEF NackDrained, TypeOK
<1>14. ASSUME NEW c \in Conn, ReadPublish(c) PROVE TypeOK'
  <2>1. PICK t \in Topic : Visit(c, t, GetSubscribers(t) \ {deviceId[c]}) \/ Visit(c, t, {})
    BY <1>14 DEF ReadPublish
  <2>2. GetSubscribers(t) \ {deviceId[c]} \in SUBSET Device /\ {} \in SUBSET Device
    BY DEF GetSubscribers
  <2>3. backlog' \in [Conn -> 0..MaxBacklog]
    BY <1>14, TakeFrameType DEF ReadPublish
  <2> QED BY <1>14, <2>1, <2>2, <2>3, VisitType DEF ReadPublish, TypeOK, sharedVars
<1>15. ASSUME NEW c \in Conn, ReadIgnored(c) PROVE TypeOK'
  BY <1>15, TakeFrameType DEF ReadIgnored, publishVars, sharedVars, TypeOK
<1>16. ASSUME NEW c \in Conn, ReadSubscribe(c) PROVE TypeOK'
  <2>1. PICK p \in Pattern :
          subs' = IF CheckSubscribeAcl(deviceId[c], p)
                  THEN subs \cup {<<deviceId[c], p>>} ELSE subs
    BY <1>16 DEF ReadSubscribe
  <2>2. deviceId[c] \in Device
    BY <1>16 DEF ReadSubscribe, TakeFrame, Identified, Serving
  <2>3. backlog' \in [Conn -> 0..MaxBacklog]
    BY <1>16, TakeFrameType DEF ReadSubscribe
  <2>4. subs' \subseteq Device \X Pattern
    BY <2>1, <2>2 DEF TypeOK
  <2> QED BY <1>16, <2>3, <2>4 DEF ReadSubscribe, TypeOK, Goto, Label, publishVars
<1>17. ASSUME NEW c \in Conn, ReadUnsubscribe(c) PROVE TypeOK'
  BY <1>17, TakeFrameType DEF ReadUnsubscribe, Goto, Label, publishVars, TypeOK
<1>18. ASSUME NEW c \in Conn, ReadPing(c) PROVE TypeOK'
  BY <1>18, TakeFrameType DEF ReadPing, Goto, Label, publishVars, sharedVars, TypeOK
<1>19. ASSUME NEW c \in Conn, ReadDisconnect(c) PROVE TypeOK'
  BY <1>19, TakeFrameType, EndSessionType DEF ReadDisconnect
<1>20. ASSUME NEW c \in Conn, KafkaReturns(c) PROVE TypeOK'
  BY <1>20 DEF KafkaReturns, Goto, Label, linkVars, publishVars, sharedVars, TypeOK
<1>21. ASSUME NEW c \in Conn, ForwardDrained(c) PROVE TypeOK'
  <2>1. topic[c] \in Topic \cup {NoTopic} /\ todo[c] \in SUBSET Device
    BY DEF TypeOK
  <2> QED BY <1>21, <2>1, VisitType DEF ForwardDrained, TypeOK, linkVars, sharedVars
<1>22. ASSUME NEW c \in Conn, AckDrained(c) PROVE TypeOK'
  BY <1>22 DEF AckDrained, Goto, Label, linkVars, publishVars, sharedVars, TypeOK
<1>23. ASSUME NEW c \in Conn, AckFails(c) PROVE TypeOK'
  BY <1>23, EndSessionType DEF AckFails, TypeOK
<1>24. ASSUME NEW c \in Conn, ReadEof(c) PROVE TypeOK'
  BY <1>24, EndSessionType DEF ReadEof, TypeOK
<1>25. ASSUME NEW c \in Conn, ReadTimeout(c) PROVE TypeOK'
  BY <1>25, EndSessionType DEF ReadTimeout, TypeOK
<1>26. ASSUME NEW c \in Conn, OfflineReturns(c) PROVE TypeOK'
  BY <1>26 DEF OfflineReturns, Goto, Label, linkVars, publishVars, sharedVars, TypeOK
<1>27. ASSUME NEW c \in Conn, Finish(c) PROVE TypeOK'
  BY <1>27, BrokerAssumption DEF Finish, Goto, Label, publishVars, sharedVars, TypeOK
<1>28. ASSUME NEW d \in Device, RouteCommand(d) PROVE TypeOK'
  BY <1>28 DEF RouteCommand, TypeOK, linkVars, publishVars, sharedVars
<1>29. CASE CommandDrained
  BY <1>29 DEF CommandDrained, TypeOK, linkVars, publishVars, sharedVars
<1>30. CASE UNCHANGED vars
  BY <1>30 DEF vars, TypeOK, linkVars, publishVars, sharedVars
<1> QED BY <1>1, <1>2, <1>3, <1>4, <1>5, <1>6, <1>7, <1>8, <1>9, <1>10, <1>11, <1>12,
          <1>13, <1>14, <1>15, <1>16, <1>17, <1>18, <1>19, <1>20, <1>21, <1>22,
          <1>23, <1>24, <1>25, <1>26, <1>27, <1>28, <1>29, <1>30, <1>31
        DEF Next, Network, Handshake, Dispatch, Ending, Router

-----------------------------------------------------------------------------
(* The kinds of steps, as far as sessions, registry and subscriptions can  *)
(* tell them apart.                                                        *)

sessionVars == <<pc, closing, claimed, deviceId, connections, subs, newest>>

Opening(c) ==
    /\ \/ Goto(c, "waitConnect") /\ pc[c] = "free" /\ UNCHANGED claimed
       \/ Goto(c, "nack") /\ pc[c] = "waitConnect" /\ UNCHANGED claimed
       \/ /\ Goto(c, "verify") /\ pc[c] = "waitConnect"
          /\ \E d \in Device : claimed' = [claimed EXCEPT ![c] = d]
    /\ UNCHANGED <<closing, deviceId, connections, subs, newest>>

Serves(c) ==
    /\ pc[c] \in Serving
    /\ \E l \in Serving : Goto(c, l)
    /\ \/ UNCHANGED subs
       \/ \E p \in Pattern :
             \/ subs' = subs \cup {<<deviceId[c], p>>} /\ CheckSubscribeAcl(deviceId[c], p)
             \/ subs' = subs \ {<<deviceId[c], p>>}
    /\ subs' # subs => pc[c] = "loop" /\ Goto(c, "ack")
    /\ UNCHANGED <<closing, claimed, deviceId, connections, newest>>

Ends(c) ==
    /\ pc[c] \in Serving \cup {"waitConnect", "verify", "connack", "nack"}
    /\ Cleanup(c)
    /\ claimed' \in {claimed, [claimed EXCEPT ![c] = NoDevice]}
    /\ UNCHANGED <<deviceId, publishVars, newest>>

Leaves(c) ==
    /\ pc[c] \in {"offline", "closing"}
    /\ \/ Goto(c, "closing") /\ closing' = [closing EXCEPT ![c] = TRUE]
       \/ Goto(c, "done") /\ UNCHANGED closing
    /\ UNCHANGED <<claimed, deviceId, connections, subs, newest>>

(* Every step is of one of these kinds.                                    *)
LEMMA StepKinds ==
    ASSUME [Next]_vars
    PROVE  \/ UNCHANGED sessionVars
           \/ \E c \in Conn : \/ Opening(c) \/ Verify(c) \/ ConnackDrained(c)
                              \/ Serves(c) \/ Ends(c) \/ Leaves(c)
<1> DEFINE Kinds(c) == \/ Opening(c) \/ Verify(c) \/ ConnackDrained(c)
                       \/ Serves(c) \/ Ends(c) \/ Leaves(c)
<1>1. ASSUME NEW c \in Conn, Network(c) PROVE UNCHANGED sessionVars
  BY <1>1 DEF Network, Arrive, Stall, Resume, PeerLost, CloseCompletes, SetLink,
              sessionVars, publishVars, sharedVars
<1>2. CASE Router
  BY <1>2 DEF Router, RouteCommand, CommandDrained, sessionVars, publishVars, sharedVars
<1>3. CASE UNCHANGED vars
  BY <1>3 DEF vars, sessionVars, publishVars, sharedVars
<1>4. ASSUME NEW c \in Conn, Accept(c) \/ ReadConnect(c) \/ ReadInvalidConnect(c)
      PROVE  Opening(c)
  <2>1. CASE Accept(c)
    BY <2>1 DEF Accept, Opening, sharedVars
  <2>2. CASE ReadConnect(c)
    <3>1. \E d \in Device : claimed' = [claimed EXCEPT ![c] = d]
      BY <2>2, BrokerAssumption DEF ReadConnect
    <3> QED BY <2>2, <3>1 DEF ReadConnect, TakeFrame, Opening, sharedVars
  <2>3. CASE ReadInvalidConnect(c)
    BY <2>3 DEF ReadInvalidConnect, TakeFrame, Opening, sharedVars
  <2> QED BY <1>4, <2>1, <2>2, <2>3
<1>5. ASSUME NEW c \in Conn,
             ReadOther(c) \/ ConnackFails(c) \/ NackDrained(c) \/ ReadDisconnect(c)
                \/ AckFails(c) \/ ReadEof(c) \/ ReadTimeout(c) \/ RefusalFails(c)
      PROVE  Ends(c)
  BY <1>5 DEF ReadOther, ConnackFails, NackDrained, ReadDisconnect, AckFails, ReadEof,
              ReadTimeout, RefusalFails, EndSession, TakeFrame, Ends, Serving
<1>6. ASSUME NEW c \in Conn, ReadPublish(c) \/ ForwardDrained(c) PROVE Serves(c)
  <2>1. /\ pc[c] \in Serving
        /\ Goto(c, "forward") \/ Goto(c, "kafka")
        /\ UNCHANGED <<closing, claimed, deviceId, connections, subs, newest>>
    <3>1. CASE ReadPublish(c)
      BY <3>1 DEF ReadPublish, TakeFrame, Visit, Serving, sharedVars
    <3>2. CASE ForwardDrained(c)
      BY <3>2 DEF ForwardDrained, Visit, Serving, sharedVars
    <3> QED BY <1>6, <3>1, <3>2
  <2>2. {"forward", "kafka"} \subseteq Serving
    BY DEF Serving
  <2> QED BY <2>1, <2>2 DEF Serves
<1>7. ASSUME NEW c \in Conn, KafkaReturns(c) \/ AckDrained(c) \/ ReadPing(c) PROVE Serves(c)
  <2>1. /\ pc[c] \in Serving
        /\ Goto(c, "loop") \/ Goto(c, "ack")
        /\ UNCHANGED <<closing, claimed, deviceId, connections, subs, newest>>
    BY <1>7 DEF KafkaReturns, AckDrained, ReadPing, TakeFrame, Serving, sharedVars
  <2>2. {"loop", "ack"} \subseteq Serving
    BY DEF Serving
  <2> QED BY <2>1, <2>2 DEF Serves
<1>8. ASSUME NEW c \in Conn, ReadSubscribe(c) \/ ReadUnsubscribe(c) PROVE Serves(c)
  <2>1. /\ pc[c] \in Serving
        /\ pc[c] = "loop" /\ Goto(c, "ack")
        /\ UNCHANGED <<closing, claimed, deviceId, connections, newest>>
    BY <1>8 DEF ReadSubscribe, ReadUnsubscribe, TakeFrame, Serving
  <2>2. \/ UNCHANGED subs
        \/ \E p \in Pattern :
              \/ subs' = subs \cup {<<deviceId[c], p>>} /\ CheckSubscribeAcl(deviceId[c], p)
              \/ subs' = subs \ {<<deviceId[c], p>>}
    <3>1. CASE ReadSubscribe(c)
      BY <3>1 DEF ReadSubscribe
    <3>2. CASE ReadUnsubscribe(c)
      BY <3>2 DEF ReadUnsubscribe
    <3> QED BY <1>8, <3>1, <3>2
  <2>3. "ack" \in Serving
    BY DEF Serving
  <2> QED BY <2>1, <2>2, <2>3 DEF Serves
<1>9. ASSUME NEW c \in Conn, ReadIgnored(c) PROVE UNCHANGED sessionVars
  BY <1>9 DEF ReadIgnored, sessionVars, sharedVars
<1>10. ASSUME NEW c \in Conn, OfflineReturns(c) \/ Finish(c) PROVE Leaves(c)
  BY <1>10 DEF OfflineReturns, Finish, Leaves, sharedVars
<1>11. ASSUME NEW c \in Conn, Handshake(c) PROVE Kinds(c)
  BY <1>4, <1>5, <1>11 DEF Handshake
<1>12. ASSUME NEW c \in Conn, Dispatch(c) PROVE Kinds(c) \/ UNCHANGED sessionVars
  BY <1>5, <1>6, <1>7, <1>8, <1>9, <1>12 DEF Dispatch
<1>13. ASSUME NEW c \in Conn, Ending(c) PROVE Kinds(c)
  BY <1>5, <1>10, <1>13 DEF Ending
<1> QED BY <1>1, <1>2, <1>3, <1>11, <1>12, <1>13 DEF Next

(* Ids are given by verification and kept.                                 *)
LEMMA IdentifiedStep ==
    ASSUME TypeOK, Identified, [Next]_vars
    PROVE  Identified'
<1> USE DEF TypeOK
<1>1. ASSUME NEW c \in Conn, Opening(c) PROVE Identified'
  <2>0. /\ pc[c] \in {"free", "waitConnect"}
        /\ \E l \in {"waitConnect", "verify", "nack"} : pc' = [pc EXCEPT ![c] = l]
        /\ UNCHANGED deviceId
    BY <1>1 DEF Opening, Goto
  <2>1. CASE Goto(c, "verify")
    <3>1. PICK d \in Device : claimed' = [claimed EXCEPT ![c] = d]
      BY <1>1, <2>1 DEF Opening, Goto
    <3> QED BY <2>0, <2>1, <3>1 DEF Identified, Goto, Serving
  <2>2. CASE ~Goto(c, "verify")
    BY <1>1, <2>0, <2>2 DEF Identified, Opening, Goto, Serving
  <2> QED BY <2>1, <2>2
<1>2. ASSUME NEW c \in Conn, Verify(c) PROVE Identified'
  <2>1. /\ pc[c] = "verify"
        /\ claimed' = [claimed EXCEPT ![c] = NoDevice]
        /\ \/ pc' = [pc EXCEPT ![c] = "connack"] /\ deviceId' = [deviceId EXCEPT ![c] = claimed[c]]
           \/ pc' = [pc EXCEPT ![c] = "nack"] /\ UNCHANGED deviceId
    BY <1>2 DEF Verify, Goto
  <2> QED BY <2>1 DEF Identified, Serving
<1>3. ASSUME NEW c \in Conn, ConnackDrained(c) PROVE Identified'
  BY <1>3 DEF ConnackDrained, Goto, Identified, Serving
<1>4. ASSUME NEW c \in Conn, Serves(c) PROVE Identified'
  <2>1. PICK l \in Serving : pc' = [pc EXCEPT ![c] = l]
    BY <1>4 DEF Serves, Goto
  <2>2. pc[c] \in Serving /\ UNCHANGED <<claimed, deviceId>>
    BY <1>4 DEF Serves
  <2>3. SUFFICES ASSUME NEW b \in Conn
                 PROVE  /\ pc'[b] \in {"free", "waitConnect", "verify", "nack"} => deviceId'[b] = NoDevice
                        /\ pc'[b] = "verify" => claimed'[b] \in Device
                        /\ pc'[b] \in Serving \cup {"connack", "offline"} => deviceId'[b] \in Device
    BY DEF Identified
  <2>4. CASE b = c
    BY <2>1, <2>2, <2>4 DEF Identified, Serving
  <2>5. CASE b # c
    BY <2>1, <2>2, <2>5 DEF Identified
  <2> QED BY <2>4, <2>5
<1>5. ASSUME NEW c \in Conn, Ends(c) PROVE Identified'
  <2>1. /\ UNCHANGED deviceId
        /\ \A b \in Conn : b # c => claimed'[b] = claimed[b]
        /\ \/ HasId(c) /\ pc' = [pc EXCEPT ![c] = "offline"]
           \/ pc' = [pc EXCEPT ![c] = "closing"]
    BY <1>5 DEF Ends, Cleanup, Goto
  <2> QED BY <2>1 DEF HasId, Identified, Serving
<1>6. ASSUME NEW c \in Conn, Leaves(c) PROVE Identified'
  BY <1>6 DEF Leaves, Goto, Identified, Serving
<1>7. ASSUME UNCHANGED sessionVars PROVE Identified'
  BY <1>7 DEF sessionVars, Identified
<1> QED BY <1>1, <1>2, <1>3, <1>4, <1>5, <1>6, <1>7, StepKinds

-----------------------------------------------------------------------------
(* The inductive invariant.                                                *)

(* The broker closes no writer before its session is registered.           *)
OpenBeforeService ==
    \A c \in Conn : pc[c] \in {"free", "waitConnect", "verify", "connack", "nack"} => ~closing[c]

(* What RegistryLive says of an entry.                                     *)
LiveEntry(d, c) ==
    /\ deviceId[c] = d
    /\ \/ pc[c] \in Serving /\ ~closing[c]
       \/ d = EmptyId /\ pc[c] \in {"closing", "done"}

(* What TypeOK and the three invariants need of each other.                *)
Registered ==
    /\ OpenBeforeService
    /\ RegistryLive
    /\ NewestOrNone
    /\ NoOrphanSubscription

Sessions == Identified /\ Registered

IInv == TypeOK /\ Sessions

(* No session, no entry, no subscription.                                  *)
LEMMA InitIInv == Init => IInv
<1> SUFFICES ASSUME Init PROVE IInv
  OBVIOUS
<1> USE BrokerAssumption DEF Init
<1>1. TypeOK
  BY DEF TypeOK, Label
<1>2. Identified /\ OpenBeforeService
  BY DEF Identified, OpenBeforeService, Serving
<1>3. RegistryLive /\ NewestOrNone /\ NoOrphanSubscription
  BY DEF RegistryLive, NewestOrNone, NoOrphanSubscription
<1> QED BY <1>1, <1>2, <1>3 DEF IInv, Sessions, Registered

(* The steps up to CONNECT touch neither registry nor subscriptions.       *)
LEMMA OpeningKeeps ==
    ASSUME IInv, NEW c \in Conn, Opening(c)
    PROVE  Registered'
<1> USE DEF IInv, Sessions, Registered, TypeOK
<1>1. /\ pc[c] \in {"free", "waitConnect"}
      /\ \E l \in {"waitConnect", "verify", "nack"} : pc' = [pc EXCEPT ![c] = l]
      /\ UNCHANGED <<closing, deviceId, connections, subs, newest>>
  BY DEF Opening, Goto
<1>3. OpenBeforeService'
  BY <1>1 DEF OpenBeforeService
<1>4. RegistryLive'
  BY <1>1 DEF RegistryLive, Serving
<1>5. NewestOrNone'
  BY <1>1 DEF NewestOrNone
<1>6. NoOrphanSubscription'
  BY <1>1 DEF NoOrphanSubscription, Serving
<1> QED BY <1>3, <1>4, <1>5, <1>6

(* A session that gets its id is in no entry yet.                          *)
LEMMA VerifyKeeps ==
    ASSUME IInv, NEW c \in Conn, Verify(c)
    PROVE  Registered'
<1> USE DEF IInv, Sessions, Registered, TypeOK
<1>1. /\ pc[c] = "verify"
      /\ UNCHANGED <<closing, connections, subs, newest>>
      /\ claimed' = [claimed EXCEPT ![c] = NoDevice]
      /\ \/ pc' = [pc EXCEPT ![c] = "connack"] /\ deviceId' = [deviceId EXCEPT ![c] = claimed[c]]
         \/ pc' = [pc EXCEPT ![c] = "nack"] /\ UNCHANGED deviceId
  BY DEF Verify, Goto, sharedVars
<1>3. OpenBeforeService'
  BY <1>1 DEF OpenBeforeService
<1>4. RegistryLive'
  BY <1>1 DEF RegistryLive, Serving
<1>5. NewestOrNone'
  BY <1>1 DEF NewestOrNone
<1>6. NoOrphanSubscription'
  BY <1>1 DEF NoOrphanSubscription, Serving
<1> QED BY <1>3, <1>4, <1>5, <1>6

(* register_connection: the entry it replaces is that of a session in      *)
(* service, hence another connection's.                                    *)
LEMMA ConnackKeeps ==
    ASSUME IInv, NEW c \in Conn, ConnackDrained(c)
    PROVE  Registered'
<1> USE DEF IInv, Sessions, Registered, TypeOK
<1> DEFINE d == deviceId[c]
           old == connections[d]
<1>1. /\ pc[c] = "connack" /\ pc' = [pc EXCEPT ![c] = "online"]
      /\ UNCHANGED <<claimed, deviceId>>
      /\ connections' = [connections EXCEPT ![d] = c]
      /\ newest' = [newest EXCEPT ![d] = c]
      /\ \/ old = NoConn /\ UNCHANGED <<closing, subs>>
         \/ /\ old # NoConn
            /\ closing' = [closing EXCEPT ![old] = TRUE]
            /\ subs' = RemoveClient(d)
  BY DEF ConnackDrained, Register, Goto
<1>2. d \in Device /\ ~closing[c]
  BY <1>1 DEF Identified, OpenBeforeService
<1>3. old # NoConn => /\ old \in Conn /\ deviceId[old] = d /\ old # c
                      /\ pc[old] \in Serving \cup {"closing", "done"}
  BY <1>1, <1>2 DEF RegistryLive, Serving
<1>5. OpenBeforeService'
  BY <1>1, <1>3 DEF OpenBeforeService, Serving
<1>6. RegistryLive'
  <2> SUFFICES ASSUME NEW e \in Device, connections'[e] # NoConn
               PROVE  LiveEntry(e, connections[e])'
    BY DEF RegistryLive, LiveEntry
  <2> USE DEF LiveEntry
  <2>1. CASE e = d
    BY <1>1, <1>2, <1>3, <2>1 DEF Serving
  <2>2. CASE e # d
    <3>1. connections'[e] = connections[e] /\ connections[e] \in Conn
      BY <1>1, <2>2
    <3>2. LiveEntry(e, connections[e])
      BY <3>1 DEF RegistryLive
    <3>3. connections[e] # c /\ connections[e] # old
      BY <1>3, <2>2, <3>1, <3>2
    <3> QED BY <1>1, <3>1, <3>2, <3>3
  <2> QED BY <2>1, <2>2
<1>7. NewestOrNone'
  BY <1>1, <1>2 DEF NewestOrNone
<1>8. NoOrphanSubscription'
  <2>1. subs' \subseteq subs
    BY <1>1 DEF RemoveClient
  <2>2. \A b \in Conn : pc[b] \in Serving => pc'[b] \in Serving
    BY <1>1 DEF Serving
  <2> QED BY <1>1, <2>1, <2>2 DEF NoOrphanSubscription
<1> QED BY <1>5, <1>6, <1>7, <1>8

(* A session in service stays in service, and subscribes for itself.       *)
LEMMA ServesKeeps ==
    ASSUME IInv, NEW c \in Conn, Serves(c)
    PROVE  Registered'
<1> USE DEF IInv, Sessions, Registered, TypeOK
<1>1. PICK l \in Serving : pc' = [pc EXCEPT ![c] = l]
  BY DEF Serves, Goto
<1>2. /\ pc[c] \in Serving
      /\ \A pair \in subs' \ subs : pair[1] = deviceId[c]
      /\ UNCHANGED <<closing, claimed, deviceId, connections, newest>>
  BY DEF Serves
<1>3. \A b \in Conn : pc[b] \in Serving => pc'[b] \in Serving
  BY <1>1
<1>4. \A b \in Conn : pc'[b] \notin Serving => pc'[b] = pc[b]
  BY <1>1
<1>6. OpenBeforeService'
  BY <1>2, <1>4 DEF OpenBeforeService, Serving
<1>7. RegistryLive'
  <2>1. \A b \in Conn : pc[b] \in {"closing", "done"} => pc'[b] = pc[b]
    BY <1>1, <1>2 DEF Serving
  <2> QED BY <1>2, <1>3, <2>1 DEF RegistryLive
<1>8. NewestOrNone'
  BY <1>2 DEF NewestOrNone
<1>9. NoOrphanSubscription'
  <2> SUFFICES ASSUME NEW pair \in subs', pair[1] # EmptyId
               PROVE  \E b \in Conn : deviceId'[b] = pair[1] /\ pc'[b] \in Serving
    BY DEF NoOrphanSubscription
  <2>1. CASE pair \in subs
    BY <1>2, <1>3, <2>1 DEF NoOrphanSubscription
  <2>2. CASE pair \notin subs
    BY <1>2, <1>3, <2>2
  <2> QED BY <2>1, <2>2
<1> QED BY <1>6, <1>7, <1>8, <1>9

(* _cleanup: the session leaves, and all that its id stands for with it.   *)
LEMMA EndsKeeps ==
    ASSUME IInv, NEW c \in Conn, Ends(c)
    PROVE  Registered'
<1> USE DEF IInv, Sessions, Registered, TypeOK
<1> DEFINE d == deviceId[c]
<1>1. /\ pc[c] \in Serving \cup {"waitConnect", "verify", "connack", "nack"}
      /\ UNCHANGED <<deviceId, newest>>
  BY DEF Ends
<1>2. CASE HasId(c)
  <2>1. /\ pc' = [pc EXCEPT ![c] = "offline"] /\ UNCHANGED closing
        /\ subs' = {pair \in subs : pair[1] # d}
        /\ connections' = [connections EXCEPT ![d] = NoConn]
    BY <1>2 DEF Ends, Cleanup, RemoveClient, Goto
  <2>2. d \in Device
    BY <1>2 DEF HasId
  <2>4. OpenBeforeService'
    BY <2>1 DEF OpenBeforeService
  <2>5. RegistryLive'
    <3> SUFFICES ASSUME NEW e \in Device, connections'[e] # NoConn
                 PROVE  LiveEntry(e, connections[e])'
      BY DEF RegistryLive, LiveEntry
    <3>1. e # d /\ connections'[e] = connections[e] /\ connections[e] \in Conn
      BY <2>1, <2>2
    <3>2. LiveEntry(e, connections[e])
      BY <3>1 DEF RegistryLive, LiveEntry
    <3>3. connections[e] # c
      BY <3>1, <3>2 DEF LiveEntry
    <3> QED BY <1>1, <2>1, <3>1, <3>2, <3>3 DEF LiveEntry
  <2>6. NewestOrNone'
    BY <1>1, <2>1 DEF NewestOrNone
  <2>7. NoOrphanSubscription'
    <3> SUFFICES ASSUME NEW pair \in subs', pair[1] # EmptyId
                 PROVE  \E b \in Conn : deviceId'[b] = pair[1] /\ pc'[b] \in Serving
      BY DEF NoOrphanSubscription
    <3>1. PICK b \in Conn : deviceId[b] = pair[1] /\ pc[b] \in Serving
      BY <2>1 DEF NoOrphanSubscription
    <3>2. b # c
      BY <2>1, <3>1
    <3> QED BY <1>1, <2>1, <3>1, <3>2
  <2> QED BY <2>4, <2>5, <2>6, <2>7
<1>3. CASE ~HasId(c)
  <2>1. /\ pc' = [pc EXCEPT ![c] = "closing"]
        /\ closing' = [closing EXCEPT ![c] = TRUE]
        /\ UNCHANGED <<connections, subs>>
    BY <1>3 DEF Ends, Cleanup, Goto
  <2>2. \A e \in Device \ {EmptyId} : connections[e] # c /\ deviceId[c] # e
    BY <1>3, BrokerAssumption DEF HasId, RegistryLive
  <2>3. OpenBeforeService'
    BY <1>1, <2>1 DEF OpenBeforeService
  <2>4. RegistryLive'
    <3> SUFFICES ASSUME NEW e \in Device, connections[e] # NoConn
                 PROVE  LiveEntry(e, connections[e])'
      BY <2>1 DEF RegistryLive, LiveEntry
    <3>1. LiveEntry(e, connections[e]) /\ connections[e] \in Conn
      BY DEF RegistryLive, LiveEntry
    <3>2. connections[e] = c => e = EmptyId
      BY <2>2
    <3> QED BY <1>1, <2>1, <3>1, <3>2 DEF LiveEntry
  <2>5. NewestOrNone'
    BY <1>1, <2>1 DEF NewestOrNone
  <2>6. NoOrphanSubscription'
    <3> SUFFICES ASSUME NEW pair \in subs, pair[1] # EmptyId
                 PROVE  \E b \in Conn : deviceId'[b] = pair[1] /\ pc'[b] \in Serving
      BY <2>1 DEF NoOrphanSubscription
    <3>1. PICK b \in Conn : deviceId[b] = pair[1] /\ pc[b] \in Serving
      BY DEF NoOrphanSubscription
    <3>2. b # c
      BY <2>2, <3>1
    <3> QED BY <1>1, <2>1, <3>1, <3>2
  <2> QED BY <2>3, <2>4, <2>5, <2>6
<1> QED BY <1>2, <1>3

(* What follows _cleanup concerns a session that is in no entry.           *)
LEMMA LeavesKeeps ==
    ASSUME IInv, NEW c \in Conn, Leaves(c)
    PROVE  Registered'
<1> USE DEF IInv, Sessions, Registered, TypeOK
<1>1. /\ pc[c] \in {"offline", "closing"}
      /\ \/ pc' = [pc EXCEPT ![c] = "closing"] /\ closing' = [closing EXCEPT ![c] = TRUE]
         \/ pc' = [pc EXCEPT ![c] = "done"] /\ UNCHANGED closing
      /\ UNCHANGED <<claimed, deviceId, connections, subs, newest>>
  BY DEF Leaves, Goto
<1>2. pc[c] \notin Serving
  BY <1>1 DEF Serving
<1>3. \A b \in Conn : b # c => pc'[b] = pc[b] /\ closing'[b] = closing[b]
  BY <1>1
<1>4. OpenBeforeService'
  BY <1>1 DEF OpenBeforeService, Serving
<1>5. RegistryLive'
  <2> SUFFICES ASSUME NEW e \in Device, connections[e] # NoConn
               PROVE  LiveEntry(e, connections[e])'
    BY <1>1 DEF RegistryLive, LiveEntry
  <2>1. LiveEntry(e, connections[e]) /\ connections[e] \in Conn
    BY DEF RegistryLive, LiveEntry
  <2>2. CASE connections[e] = c
    BY <1>1, <1>2, <2>1, <2>2 DEF LiveEntry
  <2>3. CASE connections[e] # c
    BY <1>1, <1>3, <2>1, <2>3 DEF LiveEntry
  <2> QED BY <2>2, <2>3
<1>6. NewestOrNone'
  BY <1>1 DEF NewestOrNone
<1>7. NoOrphanSubscription'
  BY <1>1, <1>2, <1>3 DEF NoOrphanSubscription
<1> QED BY <1>4, <1>5, <1>6, <1>7

(* Every step keeps the invariant.                                         *)
LEMMA NextIInv == IInv /\ [Next]_vars => IInv'
<1> SUFFICES ASSUME IInv, [Next]_vars PROVE IInv'
  OBVIOUS
<1>1. TypeOK'
  BY TypeStep DEF IInv, Sessions, Registered
<1>2. ASSUME UNCHANGED sessionVars PROVE Registered'
  BY <1>2 DEF IInv, Sessions, Registered, sessionVars, Identified, OpenBeforeService, RegistryLive,
              NewestOrNone, NoOrphanSubscription
<1>3. ASSUME NEW c \in Conn,
             \/ Opening(c) \/ Verify(c) \/ ConnackDrained(c)
             \/ Serves(c) \/ Ends(c) \/ Leaves(c)
      PROVE  Registered'
  BY <1>3, OpeningKeeps, VerifyKeeps, ConnackKeeps, ServesKeeps, EndsKeeps, LeavesKeeps
<1>4. Registered'
  BY <1>2, <1>3, StepKinds
<1>5. Identified'
  BY IdentifiedStep DEF IInv, Sessions
<1> QED BY <1>1, <1>4, <1>5 DEF IInv, Sessions

(* Hence it holds in every reachable state.                                *)
LEMMA SpecIInv == Spec => []IInv
BY InitIInv, NextIInv, PTL DEF Spec

(* Every variable keeps its type: in particular a SUBSCRIBE stores a pair  *)
(* of a device id, because a session in its dispatch loop has one.         *)
THEOREM SpecTypeOK == Spec => []TypeOK
<1>1. IInv => TypeOK
  BY DEF IInv
<1> QED BY <1>1, SpecIInv, PTL

(* With any number of connections and devices, get_connection returns only *)
(* sessions of that device that are in service and not closed.             *)
THEOREM SpecRegistryLive == Spec => []RegistryLive
<1>1. IInv => RegistryLive
  BY DEF IInv, Sessions, Registered
<1> QED BY <1>1, SpecIInv, PTL

(* With any number of reconnects, in any order of registrations and        *)
(* cleanups, no entry falls back to an older connection.                   *)
THEOREM SpecNewestOrNone == Spec => []NewestOrNone
<1>1. IInv => NewestOrNone
  BY DEF IInv, Sessions, Registered
<1> QED BY <1>1, SpecIInv, PTL

(* With any number of connections that share an id, no subscription        *)
(* outlives the last session of its device.                                *)
THEOREM SpecNoOrphanSubscription == Spec => []NoOrphanSubscription
<1>1. IInv => NoOrphanSubscription
  BY DEF IInv, Sessions, Registered
<1> QED BY <1>1, SpecIInv, PTL

-----------------------------------------------------------------------------
(* Forwarding.                                                             *)

Allowed(d, t) == \E p \in Pattern : CheckSubscribeAcl(d, p) /\ Matches(p, t)

\* The broker stores what it accepts.
SubsAllowed == \A pair \in subs : CheckSubscribeAcl(pair[1], pair[2])

\* What handle_publish may hold for connection c: a topic and subscribers.
Forwardable(c, t, S) ==
    /\ t \in Topic /\ CheckPublishAcl(deviceId[c], t)
    /\ \A d \in S : d # deviceId[c] /\ Allowed(d, t)

Forwarding ==
    \A c \in Conn : pc[c] = "forward" =>
        /\ Forwardable(c, topic[c], todo[c] \cup {deviceId[target[c]]})
        /\ target[c] \in Conn
        /\ deviceId[target[c]] \in Device

FInv == SubsAllowed /\ Forwarding

(* An id is given once.                                                    *)
LEMMA IdIsKept ==
    ASSUME IInv, [Next]_vars, NEW c \in Conn, deviceId[c] \in Device
    PROVE  deviceId'[c] = deviceId[c]
<1>1. ASSUME NEW b \in Conn, Verify(b) PROVE deviceId'[c] = deviceId[c]
  <2>1. deviceId[b] \notin Device
    BY <1>1, BrokerAssumption DEF IInv, Sessions, Registered, Identified, Verify
  <2> QED BY <1>1, <2>1 DEF Verify, IInv, TypeOK
<1>2. ASSUME NEW b \in Conn, Opening(b) \/ ConnackDrained(b) \/ Serves(b) \/ Ends(b) \/ Leaves(b)
      PROVE  UNCHANGED deviceId
  BY <1>2 DEF Opening, ConnackDrained, Serves, Ends, Leaves
<1> QED BY <1>1, <1>2, StepKinds DEF sessionVars

(* Only handle_publish changes what is forwarded.                          *)
LEMMA StepForwards ==
    ASSUME TypeOK, [Next]_vars
    PROVE  \/ UNCHANGED publishVars /\ \A c \in Conn : pc'[c] = "forward" => pc[c] = "forward"
           \/ \E c \in Conn : ReadPublish(c) \/ ForwardDrained(c)
<1> DEFINE Still == UNCHANGED publishVars /\ \A c \in Conn : pc'[c] = "forward" => pc[c] = "forward"
<1> USE DEF TypeOK
<1>1. ASSUME Router PROVE Still
  BY <1>1 DEF Router, RouteCommand, CommandDrained
<1>2. ASSUME UNCHANGED vars PROVE Still
  BY <1>2 DEF vars, publishVars
<1>3. ASSUME NEW c \in Conn, Network(c) PROVE Still
  BY <1>3 DEF Network, Arrive, Stall, Resume, PeerLost, CloseCompletes, SetLink
<1>4. ASSUME NEW c \in Conn, EndSession(c) PROVE Still
  BY <1>4 DEF EndSession, Cleanup, Goto
<1>5. ASSUME NEW c \in Conn, Accept(c) \/ ReadConnect(c) \/ ReadInvalidConnect(c) \/ Verify(c)
                                \/ RefusalFails(c) \/ ConnackDrained(c)
      PROVE  Still
  BY <1>5 DEF Accept, ReadConnect, ReadInvalidConnect, Verify, RefusalFails, Cleanup, ConnackDrained,
              Goto
<1>6. ASSUME NEW c \in Conn, ReadIgnored(c) \/ ReadSubscribe(c) \/ ReadUnsubscribe(c) \/ ReadPing(c)
                                \/ KafkaReturns(c) \/ AckDrained(c)
      PROVE  Still
  BY <1>6 DEF ReadIgnored, ReadSubscribe, ReadUnsubscribe, ReadPing, KafkaReturns, AckDrained, Goto
<1>7. ASSUME NEW c \in Conn, OfflineReturns(c) \/ Finish(c) PROVE Still
  BY <1>7 DEF OfflineReturns, Finish, Goto
<1>8. ASSUME NEW c \in Conn,
             ReadOther(c) \/ ConnackFails(c) \/ NackDrained(c) \/ ReadDisconnect(c)
                \/ AckFails(c) \/ ReadEof(c) \/ ReadTimeout(c)
      PROVE  EndSession(c)
  BY <1>8 DEF ReadOther, ConnackFails, NackDrained, ReadDisconnect, AckFails, ReadEof, ReadTimeout
<1> HIDE DEF Still, TypeOK
<1>9. ASSUME NEW c \in Conn, Handshake(c) \/ Dispatch(c) \/ Ending(c)
      PROVE  Still \/ ReadPublish(c) \/ ForwardDrained(c)
  BY <1>4, <1>5, <1>6, <1>7, <1>8, <1>9 DEF Handshake, Dispatch, Ending
<1>10. Still \/ \E c \in Conn : ReadPublish(c) \/ ForwardDrained(c)
  BY <1>1, <1>2, <1>3, <1>9 DEF Next
<1> QED BY <1>10 DEF Still

(* Of the subscribers, handle_publish writes only to a registered one.     *)
LEMMA VisitForwards ==
    ASSUME IInv, NEW c \in Conn, NEW t, NEW S \in SUBSET Device, Visit(c, t, S)
    PROVE  \/ pc'[c] = "kafka"
           \/ /\ topic'[c] = t
              /\ todo'[c] \subseteq S
              /\ target'[c] \in Conn
              /\ deviceId[target'[c]] \in S
              /\ newest[deviceId[target'[c]]] = target'[c]
<1> USE DEF IInv, Sessions, Registered, TypeOK
<1>1. ASSUME NEW d \in S, connections[d] # NoConn
      PROVE  connections[d] \in Conn /\ deviceId[connections[d]] = d /\ newest[d] = connections[d]
  BY <1>1 DEF RegistryLive, NewestOrNone
<1>2. CASE Goto(c, "kafka")
  BY <1>2 DEF Goto
<1>3. CASE \E d \in S : /\ connections[d] # NoConn
                        /\ topic' = [topic EXCEPT ![c] = t]
                        /\ target' = [target EXCEPT ![c] = connections[d]]
                        /\ todo'[c] \subseteq S
  BY <1>1, <1>3
<1> QED BY <1>2, <1>3 DEF Visit

(* The two steps of handle_publish that look for a subscriber.             *)
LEMMA ForwardStep ==
    ASSUME IInv, FInv, NEW c \in Conn, ReadPublish(c) \/ ForwardDrained(c)
    PROVE  /\ UNCHANGED <<deviceId, subs, newest>>
           /\ \A b \in Conn : b # c => pc'[b] = pc[b] /\ UNCHANGED <<topic[b], todo[b], target[b]>>
           /\ \E t, S : S \in SUBSET Device /\ Visit(c, t, S) /\ Forwardable(c, t, S)
<1>1. UNCHANGED <<deviceId, subs, newest>>
  BY DEF ReadPublish, ForwardDrained, sharedVars
<1>2. \E t, S : S \in SUBSET Device /\ Visit(c, t, S) /\ Forwardable(c, t, S)
  <2>1. CASE ReadPublish(c)
    <3>1. PICK t \in Topic : /\ CheckPublishAcl(deviceId[c], t)
                            /\ \/ Visit(c, t, GetSubscribers(t) \ {deviceId[c]})
                               \/ Visit(c, t, {})
      BY <2>1 DEF ReadPublish
    <3>2. \A d \in GetSubscribers(t) : d \in Device /\ Allowed(d, t)
      BY DEF GetSubscribers, Allowed, FInv, SubsAllowed
    <3>3. /\ Forwardable(c, t, GetSubscribers(t) \ {deviceId[c]})
          /\ Forwardable(c, t, {})
      BY <3>1, <3>2 DEF Forwardable
    <3>4. GetSubscribers(t) \ {deviceId[c]} \in SUBSET Device /\ {} \in SUBSET Device
      BY <3>2
    <3> QED BY <3>1, <3>3, <3>4
  <2>2. CASE ForwardDrained(c)
    <3>1. pc[c] = "forward" /\ Visit(c, topic[c], todo[c])
      BY <2>2 DEF ForwardDrained
    <3>2. Forwardable(c, topic[c], todo[c])
      BY <3>1 DEF FInv, Forwarding, Forwardable
    <3>3. todo[c] \in SUBSET Device
      BY DEF IInv, TypeOK
    <3> QED BY <3>1, <3>2, <3>3
  <2> QED BY <2>1, <2>2
<1>3. ASSUME NEW b \in Conn, b # c
      PROVE  pc'[b] = pc[b] /\ UNCHANGED <<topic[b], todo[b], target[b]>>
  <2>1. PICK t, S : Visit(c, t, S)
    BY <1>2
  <2> QED BY <1>3, <2>1 DEF Visit, Goto, IInv, TypeOK
<1> QED BY <1>1, <1>2, <1>3

(* Every step keeps what is stored and what is being forwarded allowed.    *)
LEMMA NextFInv ==
    ASSUME IInv, FInv, [Next]_vars
    PROVE  FInv'
<1>1. SubsAllowed'
  <2>1. ASSUME NEW c \in Conn, Opening(c) \/ Verify(c) \/ ConnackDrained(c) \/ Ends(c) \/ Leaves(c)
        PROVE  subs' \subseteq subs
    BY <2>1 DEF Opening, Verify, ConnackDrained, Register, Ends, Cleanup, Leaves,
                RemoveClient, sharedVars
  <2>2. ASSUME NEW c \in Conn, Serves(c)
        PROVE  \A pair \in subs' \ subs : CheckSubscribeAcl(pair[1], pair[2])
    BY <2>2 DEF Serves
  <2> QED BY <2>1, <2>2, StepKinds DEF FInv, SubsAllowed, sessionVars
<1>2. CASE UNCHANGED publishVars /\ \A c \in Conn : pc'[c] = "forward" => pc[c] = "forward"
  <2> SUFFICES ASSUME NEW c \in Conn, pc'[c] = "forward"
               PROVE  /\ Forwardable(c, topic[c], todo[c] \cup {deviceId[target[c]]})'
                      /\ target'[c] \in Conn
                      /\ deviceId'[target'[c]] \in Device
    BY <1>1 DEF FInv, Forwarding
  <2>1. /\ pc[c] = "forward"
        /\ topic'[c] = topic[c] /\ todo'[c] = todo[c] /\ target'[c] = target[c]
    BY <1>2 DEF publishVars
  <2>2. /\ Forwardable(c, topic[c], todo[c] \cup {deviceId[target[c]]})
        /\ target[c] \in Conn
        /\ deviceId[target[c]] \in Device
        /\ deviceId[c] \in Device
    BY <2>1 DEF FInv, Forwarding, IInv, Sessions, Registered, Identified, Serving
  <2>3. deviceId'[c] = deviceId[c] /\ deviceId'[target[c]] = deviceId[target[c]]
    BY <2>2, IdIsKept
  <2> QED BY <2>1, <2>2, <2>3 DEF Forwardable, Allowed
<1>3. CASE \E c \in Conn : ReadPublish(c) \/ ForwardDrained(c)
  <2>1. PICK c \in Conn : ReadPublish(c) \/ ForwardDrained(c)
    BY <1>3
  <2>2. /\ UNCHANGED <<deviceId, subs, newest>>
        /\ \A b \in Conn : b # c => pc'[b] = pc[b] /\ UNCHANGED <<topic[b], todo[b], target[b]>>
    BY <2>1, ForwardStep
  <2>3. PICK t, S : S \in SUBSET Device /\ Visit(c, t, S) /\ Forwardable(c, t, S)
    BY <2>1, ForwardStep
  <2> SUFFICES ASSUME NEW b \in Conn, pc'[b] = "forward"
               PROVE  /\ Forwardable(b, topic[b], todo[b] \cup {deviceId[target[b]]})'
                      /\ target'[b] \in Conn
                      /\ deviceId'[target'[b]] \in Device
    BY <1>1 DEF FInv, Forwarding
  <2>4. CASE b = c
    <3>1. /\ topic'[c] = t /\ todo'[c] \subseteq S
          /\ target'[c] \in Conn /\ deviceId[target'[c]] \in S
      BY <2>3, <2>4, VisitForwards
    <3> QED BY <2>2, <2>3, <2>4, <3>1 DEF Forwardable, Allowed
  <2>5. CASE b # c
    BY <2>2, <2>5 DEF FInv, Forwarding, Forwardable, Allowed
  <2> QED BY <2>4, <2>5
<1> QED BY <1>2, <1>3, StepForwards DEF IInv

(* Hence it is, in every reachable state.                                  *)
LEMMA SpecFInv == Spec => []FInv
<1>1. Init => FInv
  BY DEF Init, FInv, SubsAllowed, Forwarding
<1> QED BY <1>1, SpecIInv, NextFInv, PTL DEF Spec

(* With any ids, any number of subscribers, sessions and topics, a message *)
(* is being written only to another device whose topic prefix, its last    *)
(* slash left out, begins the topic.                                       *)
THEOREM SpecForwardedUnderPrefix == Spec => []ForwardedUnderPrefix
<1>1. IInv /\ FInv => ForwardedUnderPrefix
  <2> SUFFICES ASSUME IInv, FInv, NEW c \in Conn, pc[c] = "forward"
               PROVE  /\ deviceId[target[c]] # deviceId[c]
                      /\ Begins(topic[c], AllowedPrefix(deviceId[target[c]]))
    BY DEF ForwardedUnderPrefix
  <2> DEFINE d == deviceId[target[c]]
  <2>1. d \in Device /\ d # deviceId[c] /\ topic[c] \in Topic
    BY DEF FInv, Forwarding, Forwardable
  <2>2. PICK p \in Pattern : CheckSubscribeAcl(d, p) /\ Matches(p, topic[c])
    BY DEF FInv, Forwarding, Forwardable, Allowed
  <2>3. topic[c] \in Seq(Level) /\ p \in Seq(Level) /\ p # <<>>
    BY <2>1, BrokerAssumption
  <2> HIDE DEF d
  <2>4. Begins(topic[c], AllowedPrefix(d))
    BY <2>1, <2>2, <2>3, AcceptedBegins
  <2> QED BY <2>1, <2>4 DEF d
<1> QED BY <1>1, SpecIInv, SpecFInv, PTL

-----------------------------------------------------------------------------
(* What a step may never do.                                               *)

(* With any number of reconnects, no write to another session goes to a    *)
(* superseded connection.                                                  *)
THEOREM SpecWritesToNewest == Spec => WritesToNewest
<1> DEFINE Writes ==
        /\ command' \notin {command, NoConn} => newest[deviceId[command']] = command'
        /\ \A c \in Conn :
              pc'[c] = "forward" /\ <<pc[c], target[c], todo[c]>> # <<pc[c], target[c], todo[c]>>'
                  => newest[deviceId[target'[c]]] = target'[c]
<1>1. ASSUME IInv, FInv, [Next]_vars PROVE Writes
  <2>1. command' \notin {command, NoConn} => newest[deviceId[command']] = command'
    <3> SUFFICES ASSUME command' \notin {command, NoConn}
                 PROVE  newest[deviceId[command']] = command'
      OBVIOUS
    <3>1. command' # command
      OBVIOUS
    <3>2. ASSUME NEW c \in Conn, Network(c) \/ Handshake(c) \/ Dispatch(c) \/ Ending(c)
          PROVE  UNCHANGED command
      <4>1. CASE Network(c)
        BY <4>1 DEF Network, Arrive, Stall, Resume, PeerLost, CloseCompletes, SetLink
      <4>2. CASE Handshake(c)
        BY <4>2 DEF Handshake, Accept, ReadConnect, ReadInvalidConnect, ReadOther, Verify,
                    RefusalFails, ConnackDrained, ConnackFails, NackDrained, EndSession
      <4>3. CASE Dispatch(c)
        BY <4>3 DEF Dispatch, ReadPublish, ReadIgnored, ReadSubscribe, ReadUnsubscribe, ReadPing,
                    ReadDisconnect, KafkaReturns, ForwardDrained, AckDrained, AckFails, EndSession
      <4>4. CASE Ending(c)
        BY <4>4 DEF Ending, ReadEof, ReadTimeout, OfflineReturns, Finish, EndSession
      <4> QED BY <3>2, <4>1, <4>2, <4>3, <4>4
    <3>3. CASE Router
      <4>1. PICK d \in Device : RouteCommand(d)
        BY <3>3 DEF Router, CommandDrained
      <4> QED BY <1>1, <4>1 DEF RouteCommand, IInv, Sessions, Registered, RegistryLive, NewestOrNone, TypeOK
    <3>4. CASE UNCHANGED vars
      BY <3>1, <3>4 DEF vars
    <3> QED BY <1>1, <3>1, <3>2, <3>3, <3>4 DEF Next
  <2>2. ASSUME NEW c \in Conn, pc'[c] = "forward",
               <<pc[c], target[c], todo[c]>> # <<pc[c], target[c], todo[c]>>'
        PROVE  newest[deviceId[target'[c]]] = target'[c]
    <3>1. PICK b \in Conn : ReadPublish(b) \/ ForwardDrained(b)
      BY <1>1, <2>2, StepForwards DEF IInv, publishVars
    <3>2. b = c
      BY <1>1, <2>2, <3>1, ForwardStep
    <3>3. PICK t, S : S \in SUBSET Device /\ Visit(c, t, S)
      BY <1>1, <3>1, <3>2, ForwardStep
    <3> QED BY <1>1, <2>2, <3>3, VisitForwards
  <2> QED BY <2>1, <2>2
<1>2. IInv /\ FInv /\ [Next]_vars => [Writes]_vars
  BY <1>1
<1> QED BY <1>2, SpecIInv, SpecFInv, PTL DEF Spec, WritesToNewest

(* With any number of sessions, only those authenticated as a device       *)
(* change what the broker keeps for it.                                    *)
THEOREM SpecOnlyOwnSessionsAct == Spec => OnlyOwnSessionsAct
<1> DEFINE Own ==
        \A d \in Device :
          connections'[d] # connections[d] \/ SubsOf(d)' # SubsOf(d)
          => \E c \in Conn : /\ deviceId[c] = d /\ pc[c] \notin {"verify", "nack"}
                             /\ <<pc[c], backlog[c]>>' # <<pc[c], backlog[c]>>
<1>1. ASSUME IInv, [Next]_vars PROVE Own
  <2> SUFFICES ASSUME NEW d \in Device,
                      connections'[d] # connections[d] \/ SubsOf(d)' # SubsOf(d)
               PROVE  \E c \in Conn : /\ deviceId[c] = d /\ pc[c] \notin {"verify", "nack"}
                                      /\ pc'[c] # pc[c]
    OBVIOUS
  <2> USE <1>1 DEF IInv, Sessions, Registered, TypeOK, Identified
  <2>1. ~UNCHANGED <<connections, subs>>
    BY DEF SubsOf
  <2>2. ASSUME NEW c \in Conn, Opening(c) \/ Verify(c) \/ Leaves(c) PROVE FALSE
    BY <2>1, <2>2 DEF Opening, Verify, Leaves, sharedVars
  <2>3. ASSUME NEW c \in Conn, ConnackDrained(c)
        PROVE  deviceId[c] = d /\ pc[c] \notin {"verify", "nack"} /\ pc'[c] # pc[c]
    <3>1. /\ connections' = [connections EXCEPT ![deviceId[c]] = c]
          /\ subs' = subs \/ subs' = RemoveClient(deviceId[c])
          /\ pc[c] = "connack" /\ pc'[c] = "online"
      BY <2>3 DEF ConnackDrained, Register, Goto
    <3>2. deviceId[c] # d => connections'[d] = connections[d] /\ SubsOf(d)' = SubsOf(d)
      BY <3>1 DEF SubsOf, RemoveClient
    <3> QED BY <3>1, <3>2
  <2>4. ASSUME NEW c \in Conn, Serves(c)
        PROVE  deviceId[c] = d /\ pc[c] \notin {"verify", "nack"} /\ pc'[c] # pc[c]
    <3>1. connections' = connections /\ subs' # subs /\ pc[c] = "loop" /\ pc'[c] = "ack"
      BY <2>1, <2>4 DEF Serves, Goto
    <3>2. deviceId[c] # d => SubsOf(d)' = SubsOf(d)
      BY <2>4 DEF Serves, SubsOf
    <3> QED BY <3>1, <3>2
  <2>5. ASSUME NEW c \in Conn, Ends(c)
        PROVE  deviceId[c] = d /\ pc[c] \notin {"verify", "nack"} /\ pc'[c] # pc[c]
    <3>1. /\ HasId(c)
          /\ connections' = [connections EXCEPT ![deviceId[c]] = NoConn]
          /\ subs' = RemoveClient(deviceId[c])
          /\ pc[c] \in Serving \cup {"waitConnect", "verify", "connack", "nack"}
          /\ pc'[c] = "offline"
      BY <2>1, <2>5 DEF Ends, Cleanup, Goto
    <3>2. deviceId[c] # d => connections'[d] = connections[d] /\ SubsOf(d)' = SubsOf(d)
      BY <3>1 DEF SubsOf, RemoveClient
    <3> QED BY <3>1, <3>2 DEF HasId, Serving
  <2> QED BY <2>1, <2>2, <2>3, <2>4, <2>5, StepKinds DEF sessionVars
<1>2. IInv /\ [Next]_vars => [Own]_vars
  BY <1>1
<1> QED BY <1>2, SpecIInv, PTL DEF Spec, OnlyOwnSessionsAct

-----------------------------------------------------------------------------
(* Status events.                                                          *)

(* Only registrations and cleanups send one.                               *)
LEMMA StatusSteps ==
    ASSUME [Next]_vars
    PROVE  UNCHANGED status \/ \E c \in Conn : ConnackDrained(c) \/ Ends(c)
<1>1. ASSUME NEW c \in Conn, Network(c) PROVE UNCHANGED status
  BY <1>1 DEF Network, Arrive, Stall, Resume, PeerLost, CloseCompletes, SetLink, sharedVars
<1>2. CASE Router
  BY <1>2 DEF Router, RouteCommand, CommandDrained, sharedVars
<1>3. CASE UNCHANGED vars
  BY <1>3 DEF vars, sharedVars
<1>4. ASSUME NEW c \in Conn,
             ReadOther(c) \/ ConnackFails(c) \/ NackDrained(c) \/ ReadDisconnect(c)
                \/ AckFails(c) \/ ReadEof(c) \/ ReadTimeout(c) \/ RefusalFails(c)
      PROVE  Ends(c)
  BY <1>4 DEF ReadOther, ConnackFails, NackDrained, ReadDisconnect, AckFails, ReadEof,
              ReadTimeout, RefusalFails, EndSession, TakeFrame, Ends, Serving
<1>5. ASSUME NEW c \in Conn, Handshake(c) PROVE UNCHANGED status \/ ConnackDrained(c) \/ Ends(c)
  BY <1>4, <1>5 DEF Handshake, Accept, ReadConnect, ReadInvalidConnect, Verify, sharedVars
<1>6. ASSUME NEW c \in Conn, Dispatch(c) PROVE UNCHANGED status \/ Ends(c)
  <2>1. CASE ReadPublish(c) \/ ForwardDrained(c)
    BY <2>1 DEF ReadPublish, ForwardDrained, sharedVars
  <2>2. CASE ReadIgnored(c) \/ ReadSubscribe(c) \/ ReadUnsubscribe(c) \/ ReadPing(c)
             \/ KafkaReturns(c) \/ AckDrained(c)
    BY <2>2 DEF ReadIgnored, ReadSubscribe, ReadUnsubscribe, ReadPing, KafkaReturns, AckDrained,
                sharedVars
  <2> QED BY <1>4, <1>6, <2>1, <2>2 DEF Dispatch
<1>7. ASSUME NEW c \in Conn, Ending(c) PROVE UNCHANGED status \/ Ends(c)
  BY <1>4, <1>7 DEF Ending, OfflineReturns, Finish, sharedVars
<1> QED BY <1>1, <1>2, <1>3, <1>5, <1>6, <1>7 DEF Next

LEMMA OnlineStep ==
    ASSUME IInv, OnlineHasSession, [Next]_vars
    PROVE  OnlineHasSession'
<1> SUFFICES ASSUME ~KafkaMayFail, NEW d \in Device \ {EmptyId}, status'[d] = "online"
             PROVE  \E c \in Conn : deviceId'[c] = d /\ pc'[c] \in Serving
  BY DEF OnlineHasSession
<1> USE DEF IInv, Sessions, Registered, TypeOK
<1>1. ASSUME NEW c \in Conn, ConnackDrained(c)
      PROVE  \E b \in Conn : deviceId'[b] = d /\ pc'[b] \in Serving
  <2>1. /\ pc[c] = "connack" /\ pc' = [pc EXCEPT ![c] = "online"] /\ UNCHANGED deviceId
        /\ status' = [status EXCEPT ![deviceId[c]] = "online"]
    BY <1>1 DEF ConnackDrained, Goto, SendStatus
  <2>2. CASE deviceId[c] = d
    BY <2>1, <2>2 DEF Serving
  <2>3. CASE deviceId[c] # d
    <3>1. PICK b \in Conn : deviceId[b] = d /\ pc[b] \in Serving
      BY <2>1, <2>3 DEF OnlineHasSession
    <3> QED BY <2>1, <2>3, <3>1
  <2> QED BY <2>2, <2>3
<1>2. ASSUME NEW c \in Conn, Ends(c)
      PROVE  \E b \in Conn : deviceId'[b] = d /\ pc'[b] \in Serving
  <2>1. /\ UNCHANGED deviceId
        /\ \E l \in {"offline", "closing"} : pc' = [pc EXCEPT ![c] = l]
        /\ \/ HasId(c) /\ status' = [status EXCEPT ![deviceId[c]] = "offline"]
           \/ ~HasId(c) /\ UNCHANGED status
    BY <1>2 DEF Ends, Cleanup, SendStatus, Goto
  <2>2. deviceId[c] # d
    BY <2>1, BrokerAssumption DEF HasId
  <2>3. PICK b \in Conn : deviceId[b] = d /\ pc[b] \in Serving
    BY <2>1, <2>2 DEF OnlineHasSession
  <2> QED BY <2>1, <2>2, <2>3
<1>3. CASE UNCHANGED status
  <2>1. PICK b \in Conn : deviceId[b] = d /\ pc[b] \in Serving
    BY <1>3 DEF OnlineHasSession
  <2>2. deviceId'[b] = d
    BY <2>1, IdIsKept
  <2>3. ASSUME NEW c \in Conn, Opening(c) \/ Verify(c) \/ Leaves(c) PROVE pc'[b] \in Serving
    <3>1. b # c /\ \A l \in Label : Goto(c, l) => pc'[b] = pc[b]
      BY <2>1, <2>3 DEF Opening, Verify, Leaves, Serving, Goto
    <3>2. \E l \in Label : Goto(c, l)
      BY <2>3 DEF Opening, Verify, Leaves, Label
    <3> QED BY <2>1, <3>1, <3>2
  <2>4. ASSUME NEW c \in Conn, Serves(c) PROVE pc'[b] \in Serving
    BY <2>1, <2>4 DEF Serves, Goto
  <2>5. ASSUME UNCHANGED sessionVars PROVE pc'[b] \in Serving
    BY <2>1, <2>5 DEF sessionVars
  <2> QED BY <1>1, <1>2, <2>1, <2>2, <2>3, <2>4, <2>5, StepKinds
<1> QED BY <1>1, <1>2, <1>3, StatusSteps

(* While no event is lost, a device whose last event says "online" has a   *)
(* session in service, with any number of connections and reconnects.      *)
THEOREM SpecOnlineHasSession == Spec => []OnlineHasSession
<1>1. Init => OnlineHasSession
  BY DEF Init, OnlineHasSession
<1>2. IInv /\ OnlineHasSession /\ [Next]_vars => OnlineHasSession'
  BY OnlineStep
<1> QED BY <1>1, <1>2, SpecIInv, PTL DEF Spec

-----------------------------------------------------------------------------
(* A device with one session.                                              *)

Alone(c) == \A b \in Conn \ {c} : deviceId[b] = deviceId[c] => pc[b] = "connack"

LEMMA SoleStep ==
    ASSUME IInv, SoleSessionReachable, [Next]_vars
    PROVE  SoleSessionReachable'
<1> SUFFICES ASSUME NEW c \in Conn, pc'[c] \in Serving, Alone(c)'
             PROVE  /\ connections'[deviceId'[c]] = c /\ ~closing'[c]
                    /\ KafkaMayFail \/ status'[deviceId'[c]] = "online"
  BY DEF SoleSessionReachable, Alone
<1> DEFINE Goal == /\ connections'[deviceId'[c]] = c /\ ~closing'[c]
                   /\ KafkaMayFail \/ status'[deviceId'[c]] = "online"
           Same == /\ pc[c] \in Serving /\ deviceId'[c] = deviceId[c]
                   /\ Alone(c)
                   /\ connections'[deviceId[c]] = connections[deviceId[c]]
                   /\ closing'[c] = closing[c]
                   /\ status'[deviceId[c]] = status[deviceId[c]]
<1>1. /\ pc \in [Conn -> Label] /\ closing \in [Conn -> BOOLEAN]
      /\ deviceId \in [Conn -> Device \cup {NoDevice}]
      /\ connections \in [Device -> Conn \cup {NoConn}]
      /\ DOMAIN status = Device
      /\ Identified /\ OpenBeforeService /\ RegistryLive
  BY DEF IInv, Sessions, Registered, TypeOK
<1>2. deviceId'[c] \in Device
  BY IdentifiedStep DEF IInv, Sessions, Identified
<1>3. Same => Goal
  BY DEF SoleSessionReachable, Alone
<1> HIDE DEF Goal
<1>4. ASSUME NEW b \in Conn, ConnackDrained(b) PROVE Goal
  <2>1. /\ pc[b] = "connack" /\ pc' = [pc EXCEPT ![b] = "online"] /\ UNCHANGED deviceId
        /\ connections' = [connections EXCEPT ![deviceId[b]] = b]
        /\ \/ connections[deviceId[b]] = NoConn /\ UNCHANGED closing
           \/ /\ connections[deviceId[b]] # NoConn
              /\ closing' = [closing EXCEPT ![connections[deviceId[b]]] = TRUE]
    BY <1>4 DEF ConnackDrained, Goto, Register
  <2>5. \/ status' = [status EXCEPT ![deviceId[b]] = "online"]
        \/ KafkaMayFail /\ status' = status
    BY <1>4 DEF ConnackDrained, SendStatus
  <2>6. status' \in {status, [status EXCEPT ![deviceId[b]] = "online"]}
    BY <2>5
  <2>2. /\ deviceId[b] \in Device /\ ~closing[b] /\ pc[b] \notin Serving
        /\ connections[deviceId[b]] # NoConn =>
              /\ connections[deviceId[b]] \in Conn
              /\ deviceId[connections[deviceId[b]]] = deviceId[b]
              /\ pc[connections[deviceId[b]]] # "connack"
    BY <1>1, <2>1 DEF Identified, OpenBeforeService, RegistryLive, Serving
  <2>3. CASE b = c
    <3>1. KafkaMayFail \/ status'[deviceId'[c]] = "online"
      BY <1>1, <2>1, <2>2, <2>3, <2>5
    <3>2. connections'[deviceId'[c]] = c /\ ~closing'[c]
      BY <1>1, <2>1, <2>2, <2>3
    <3> QED BY <3>1, <3>2 DEF Goal
  <2>4. CASE b # c
    <3>1. deviceId[b] # deviceId[c]
      BY <1>1, <2>1, <2>4 DEF Alone
    <3>2. status'[deviceId[c]] = status[deviceId[c]]
      BY <1>1, <1>2, <2>1, <2>2, <2>6, <3>1
    <3>3. pc[c] \in Serving /\ Alone(c)
      BY <1>1, <2>1, <2>4, <3>1 DEF Alone
    <3>4. connections'[deviceId[c]] = connections[deviceId[c]] /\ closing'[c] = closing[c]
      BY <1>1, <1>2, <2>1, <2>2, <3>1
    <3> QED BY <1>3, <2>1, <3>2, <3>3, <3>4
  <2> QED BY <2>3, <2>4
<1>5. ASSUME NEW b \in Conn, Ends(b) PROVE Goal
  <2>1. /\ UNCHANGED deviceId
        /\ \E l \in {"offline", "closing"} : pc' = [pc EXCEPT ![b] = l]
        /\ closing' \in {closing, [closing EXCEPT ![b] = TRUE]}
    BY <1>5 DEF Ends, HasId, Cleanup, Goto
  <2>2. /\ connections' \in {connections, [connections EXCEPT ![deviceId[b]] = NoConn]}
        /\ status' \in {status, [status EXCEPT ![deviceId[b]] = "offline"]}
    BY <1>5 DEF Ends, HasId, Cleanup, SendStatus
  <2>3. b # c
    BY <1>1, <2>1 DEF Serving
  <2>4. deviceId[b] # deviceId[c]
    BY <1>1, <2>1, <2>3 DEF Alone
  <2>5. pc[c] \in Serving /\ Alone(c)
    BY <1>1, <2>1, <2>3, <2>4 DEF Alone
  <2>6. /\ connections'[deviceId[c]] = connections[deviceId[c]]
        /\ status'[deviceId[c]] = status[deviceId[c]]
        /\ closing'[c] = closing[c]
    BY <1>1, <1>2, <2>1, <2>2, <2>3, <2>4
  <2> QED BY <1>3, <2>1, <2>5, <2>6
<1>6. CASE UNCHANGED status
  <2>1. ASSUME NEW b \in Conn, Opening(b) \/ Verify(b) PROVE Goal
    <3>1. /\ b # c /\ UNCHANGED <<closing, connections>> /\ deviceId[b] = NoDevice
          /\ \A x \in Conn \ {b} : pc'[x] = pc[x] /\ deviceId'[x] = deviceId[x]
      BY <1>1, <2>1 DEF Opening, Verify, Goto, Identified, Serving, sharedVars
    <3>2. deviceId[c] # NoDevice
      BY <1>1, <3>1, BrokerAssumption DEF Identified
    <3> QED BY <1>1, <1>3, <1>6, <3>1, <3>2 DEF Alone
  <2>2. ASSUME NEW b \in Conn, Serves(b) PROVE Goal
    <3>1. /\ pc[b] \in Serving /\ UNCHANGED <<closing, connections, deviceId>>
          /\ \E l \in Serving : pc' = [pc EXCEPT ![b] = l]
      BY <2>2 DEF Serves, Goto
    <3>2. b = c \/ deviceId[b] # deviceId[c]
      BY <1>1, <3>1 DEF Alone, Serving
    <3> QED BY <1>1, <1>3, <1>6, <3>1, <3>2 DEF Alone
  <2>3. ASSUME NEW b \in Conn, Leaves(b) PROVE Goal
    <3>1. /\ UNCHANGED <<connections, deviceId>>
          /\ \E l \in {"closing", "done"} : pc' = [pc EXCEPT ![b] = l]
          /\ closing' \in {closing, [closing EXCEPT ![b] = TRUE]}
      BY <2>3 DEF Leaves, Goto
    <3>2. b # c
      BY <1>1, <3>1 DEF Serving
    <3>3. deviceId[b] # deviceId[c]
      BY <1>1, <3>1, <3>2 DEF Alone
    <3> QED BY <1>1, <1>3, <1>6, <3>1, <3>2, <3>3 DEF Alone
  <2>4. ASSUME UNCHANGED sessionVars PROVE Goal
    BY <1>3, <1>6, <2>4 DEF sessionVars, Alone
  <2> QED BY <1>4, <1>5, <2>1, <2>2, <2>3, <2>4, StepKinds DEF Goal
<1> QED BY <1>4, <1>5, <1>6, StatusSteps DEF Goal

(* The cleanup by device id is the only way a session in service loses its *)
(* entry, with any number of connections of any devices.                   *)
THEOREM SpecSoleSessionReachable == Spec => []SoleSessionReachable
<1>1. Init => SoleSessionReachable
  BY DEF Init, SoleSessionReachable, Serving
<1>2. IInv /\ SoleSessionReachable /\ [Next]_vars => SoleSessionReachable'
  BY SoleStep
<1> QED BY <1>1, <1>2, SpecIInv, PTL DEF Spec

-----------------------------------------------------------------------------
(* The broker implements SessionRegistry.                                  *)

ServedMap == [c \in Conn |-> Served(c)]

(* A step that leaves who serves whom as it is.                            *)
LEMMA ServedKept ==
    ASSUME \A b \in Conn : \/ pc[b] \notin Serving /\ pc'[b] \notin Serving
                           \/ pc[b] \in Serving /\ pc'[b] \in Serving /\ deviceId'[b] = deviceId[b]
    PROVE  UNCHANGED ServedMap
BY DEF ServedMap, Served

LEMMA RegistryStep ==
    ASSUME IInv, [Next]_vars
    PROVE  [Registry!RegistryNext]_<<ServedMap, connections, subs>>
<1> USE DEF IInv, Sessions, Registered, TypeOK
<1>1. ASSUME NEW c \in Conn, Opening(c) \/ Verify(c) \/ Leaves(c)
      PROVE  UNCHANGED <<ServedMap, connections, subs>>
  <2>1. UNCHANGED <<connections, subs>>
    BY <1>1 DEF Opening, Verify, Leaves, sharedVars
  <2>2. \A b \in Conn : b # c => pc'[b] = pc[b] /\ deviceId'[b] = deviceId[b]
    BY <1>1 DEF Opening, Verify, Leaves, Goto
  <2>3. pc[c] \notin Serving /\ pc'[c] \notin Serving
    BY <1>1 DEF Opening, Verify, Leaves, Goto, Serving
  <2>4. UNCHANGED ServedMap
    BY <2>2, <2>3, ServedKept
  <2> QED BY <2>1, <2>4
<1>2. ASSUME NEW c \in Conn, Serves(c)
      PROVE  Registry!RegistryNext \/ UNCHANGED <<ServedMap, connections, subs>>
  <2>1. UNCHANGED ServedMap
    BY <1>2, ServedKept DEF Serves, Goto
  <2>2. UNCHANGED connections /\ ServedMap[c] = deviceId[c] /\ deviceId[c] \in Device
        /\ deviceId[c] # NoDevice
    BY <1>2, BrokerAssumption DEF Serves, ServedMap, Served, Identified
  <2>3. CASE UNCHANGED subs
    BY <2>1, <2>2, <2>3
  <2>4. ASSUME NEW p \in Pattern, subs' = subs \cup {<<deviceId[c], p>>}, CheckSubscribeAcl(deviceId[c], p)
        PROVE  Registry!Subscribe(c, p)
    BY <2>1, <2>2, <2>4 DEF Registry!Subscribe, ServedMap
  <2>5. ASSUME NEW p \in Pattern, subs' = subs \ {<<deviceId[c], p>>}
        PROVE  Registry!Unsubscribe(c, p)
    BY <2>1, <2>2, <2>5 DEF Registry!Unsubscribe, ServedMap
  <2> QED BY <1>2, <2>3, <2>4, <2>5 DEF Serves, Registry!RegistryNext
<1>3. ASSUME NEW c \in Conn, ConnackDrained(c) PROVE Registry!Connect(c, deviceId[c])
  <2>1. /\ pc[c] = "connack" /\ pc' = [pc EXCEPT ![c] = "online"] /\ UNCHANGED deviceId
        /\ connections' = [connections EXCEPT ![deviceId[c]] = c]
        /\ subs' = IF connections[deviceId[c]] = NoConn THEN subs ELSE RemoveClient(deviceId[c])
    BY <1>3 DEF ConnackDrained, Register, Goto
  <2>2. ServedMap[c] = NoDevice /\ ServedMap' = [ServedMap EXCEPT ![c] = deviceId[c]]
    BY <2>1 DEF ServedMap, Served, Serving
  <2> QED BY <2>1, <2>2 DEF Registry!Connect, Registry!Without, RemoveClient, ServedMap
<1>4. ASSUME NEW c \in Conn, Ends(c)
      PROVE  Registry!RegistryNext \/ UNCHANGED <<ServedMap, connections, subs>>
  <2>1. CASE deviceId[c] = NoDevice
    <3>1. UNCHANGED <<connections, subs, deviceId>> /\ pc' = [pc EXCEPT ![c] = "closing"]
      BY <1>4, <2>1 DEF Ends, HasId, Cleanup, Goto
    <3>2. pc[c] \notin Serving
      BY <2>1, BrokerAssumption DEF Identified
    <3>3. UNCHANGED ServedMap
      BY <3>1, <3>2, ServedKept DEF Serving
    <3> QED BY <3>1, <3>3
  <2>3. CASE deviceId[c] = EmptyId
    <3>1. /\ UNCHANGED <<connections, subs, deviceId>> /\ pc' = [pc EXCEPT ![c] = "closing"]
      BY <1>4, <2>3 DEF Ends, HasId, Cleanup, Goto
    <3>2. CASE pc[c] \in Serving
      <4>1. ServedMap[c] = EmptyId /\ ServedMap' = [ServedMap EXCEPT ![c] = NoDevice]
        BY <2>3, <3>1, <3>2 DEF ServedMap, Served, Serving
      <4>2. EmptyId # NoDevice
        BY <2>3, <3>2, BrokerAssumption DEF Identified
      <4>3. Registry!End(c)
        BY <3>1, <4>1, <4>2 DEF Registry!End, ServedMap
      <4> QED BY <4>3 DEF Registry!RegistryNext
    <3>3. CASE pc[c] \notin Serving
      BY <3>1, <3>3, ServedKept DEF Serving
    <3> QED BY <3>2, <3>3
  <2>2. CASE HasId(c)
    <3>1. /\ UNCHANGED deviceId /\ pc' = [pc EXCEPT ![c] = "offline"]
          /\ connections' = [connections EXCEPT ![deviceId[c]] = NoConn]
          /\ subs' = RemoveClient(deviceId[c]) /\ deviceId[c] \in Device
      BY <1>4, <2>2 DEF Ends, HasId, Cleanup, Goto
    <3>2. Registry!Clear(deviceId[c])
      BY <3>1 DEF Registry!Clear, Registry!Without, RemoveClient
    <3>3. CASE pc[c] \in Serving
      <4>1. ServedMap[c] = deviceId[c] /\ ServedMap' = [ServedMap EXCEPT ![c] = NoDevice]
        BY <3>1, <3>3 DEF ServedMap, Served, Serving
      <4>2. Registry!End(c)
        BY <2>2, <3>2, <4>1 DEF HasId, Registry!End, ServedMap
      <4> QED BY <4>2 DEF Registry!RegistryNext
    <3>4. CASE pc[c] \notin Serving
      <4>1. UNCHANGED ServedMap
        BY <3>1, <3>4, ServedKept DEF Serving
      <4>2. Registry!Abandon(deviceId[c])
        BY <2>2, <3>2, <4>1 DEF HasId, Registry!Abandon, ServedMap
      <4> QED BY <3>1, <4>2 DEF Registry!RegistryNext
    <3> QED BY <3>3, <3>4
  <2> QED BY <2>1, <2>2, <2>3 DEF HasId
<1>5. ASSUME UNCHANGED sessionVars PROVE UNCHANGED <<ServedMap, connections, subs>>
  BY <1>5 DEF sessionVars, ServedMap, Served
<1>6. ASSUME NEW c \in Conn, ConnackDrained(c) PROVE Registry!RegistryNext
  <2>1. deviceId[c] \in Device
    BY <1>6 DEF ConnackDrained, Identified
  <2> QED BY <1>3, <1>6, <2>1 DEF Registry!RegistryNext
<1> QED BY <1>1, <1>2, <1>4, <1>5, <1>6, StepKinds

(* Whatever the tasks of any number of connections do between their        *)
(* awaits, the shared state goes through the operations of a registry, one *)
(* device and one operation at a time.                                     *)
THEOREM SpecImplementsRegistry == Spec => ImplementsRegistry
<1>1. Init => Registry!RegistryInit
  BY DEF Init, Registry!RegistryInit, Served, Serving
<1>2. IInv /\ [Next]_vars => [Registry!RegistryNext]_Registry!registryVars
  BY RegistryStep DEF Registry!registryVars, ServedMap
<1> QED BY <1>1, <1>2, SpecIInv, PTL DEF Spec, ImplementsRegistry, Registry!RegistrySpec
=============================================================================
