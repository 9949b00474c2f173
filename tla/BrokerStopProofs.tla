--------------------------- MODULE BrokerStopProofs ---------------------------
(***************************************************************************)
(* Theorems about BrokerStop, for every set of connections and devices.    *)
(***************************************************************************)
EXTENDS BrokerStop, BrokerProofs

LinkOK == link \in [Conn -> {"up", "stalled", "lost"}]

ServerOK == server \in {"serving", "closing", "consumers", "clients", "stopped"}

\* Past the end of wait_closed, no connection is left or comes.
AllGone == server \in {"consumers", "clients", "stopped"} => \A c \in Conn : Gone(c)

SInv == LinkOK /\ ServerOK /\ AllGone

(* A lost connection stays lost, whatever the broker and its network do.   *)
LEMMA LostStays ==
    ASSUME LinkOK, [Next]_vars
    PROVE  LinkOK' /\ \A c \in Conn : link[c] = "lost" => link'[c] = "lost"
<1> DEFINE Stays == LinkOK' /\ \A c \in Conn : link[c] = "lost" => link'[c] = "lost"
<1>1. ASSUME UNCHANGED link PROVE Stays
  BY <1>1 DEF LinkOK
<1>2. ASSUME NEW c \in Conn, Network(c) PROVE Stays
  <2>1. CASE Arrive(c)
    BY <2>1, <1>1 DEF Arrive
  <2>2. CASE Stall(c) \/ Resume(c) \/ PeerLost(c) \/ CloseCompletes(c)
    BY <2>2 DEF Stall, Resume, PeerLost, CloseCompletes, SetLink, LinkOK
  <2> QED BY <1>2, <2>1, <2>2 DEF Network
<1>3. ASSUME Router PROVE UNCHANGED link
  BY <1>3 DEF Router, RouteCommand, CommandDrained, linkVars
<1>4. ASSUME NEW c \in Conn, EndSession(c) PROVE UNCHANGED link
  BY <1>4 DEF EndSession
<1>5. ASSUME NEW c \in Conn, Handshake(c) PROVE UNCHANGED link
  BY <1>4, <1>5 DEF Handshake, Accept, ReadConnect, ReadInvalidConnect, ReadOther, Verify, RefusalFails,
                    ConnackDrained, ConnackFails, NackDrained, linkVars
<1>6. ASSUME NEW c \in Conn, Dispatch(c) PROVE UNCHANGED link
  BY <1>4, <1>6 DEF Dispatch, ReadPublish, ReadIgnored, ReadSubscribe, ReadUnsubscribe, ReadPing,
                    ReadDisconnect, KafkaReturns, ForwardDrained, AckDrained, AckFails, TakeFrame,
                    linkVars
<1>7. ASSUME NEW c \in Conn, Ending(c) PROVE UNCHANGED link
  BY <1>4, <1>7 DEF Ending, ReadEof, ReadTimeout, OfflineReturns, Finish, linkVars
<1> QED BY <1>5, <1>6, <1>7, <1>1, <1>2, <1>3, <1>4 DEF Next, vars, linkVars

LEMMA InitSInv == StopInit => SInv
BY DEF StopInit, Init, SInv, LinkOK, ServerOK, AllGone

(* The listening socket is closed before wait_closed returns, so that no   *)
(* connection comes after the last one has gone.                           *)
LEMMA NextSInv == SInv /\ [StopNext]_allVars => SInv'
<1> SUFFICES ASSUME SInv, [StopNext]_allVars PROVE SInv'
  OBVIOUS
<1> USE DEF SInv
<1>1. CASE Working
  <2>1. LinkOK' /\ \A c \in Conn : link[c] = "lost" => link'[c] = "lost"
    BY <1>1, LostStays DEF Working
  <2>2. server # "serving" => \A c \in Conn : pc[c] = "free" => pc'[c] = "free"
    BY <1>1 DEF Working
  <2> QED BY <1>1, <2>1, <2>2 DEF Working, stopVars, ServerOK, AllGone, Gone
<1>2. CASE Interrupt
  BY <1>2 DEF Interrupt, vars, linkVars, LinkOK, ServerOK, AllGone
<1>3. CASE ServerCloses
  BY <1>3 DEF ServerCloses, vars, linkVars, LinkOK, ServerOK, AllGone, Gone
<1>4. CASE StopConsumers \/ ClearRegistry \/ \E c \in Conn : CloseClient(c)
  <2>1. UNCHANGED <<pc, link>>
    BY <1>4 DEF StopConsumers, ClearRegistry, CloseClient, linkVars
  <2>2. server \in {"consumers", "clients"} /\ server' \in {"clients", "stopped"}
    BY <1>4 DEF StopConsumers, ClearRegistry, CloseClient
  <2> QED BY <2>1, <2>2 DEF LinkOK, ServerOK, AllGone, Gone
<1>5. CASE UNCHANGED allVars
  BY <1>5 DEF allVars, stopVars, vars, linkVars, LinkOK, ServerOK, AllGone, Gone
<1> QED BY <1>1, <1>2, <1>3, <1>4, <1>5 DEF StopNext, Stopping

(* With any number of connections, in any state of their sessions, none is *)
(* left when stop() has returned.                                          *)
THEOREM StopSpecNobodyConnected == StopSpec => []NobodyConnected
<1>1. SInv => NobodyConnected
  BY DEF SInv, AllGone, NobodyConnected
<1> QED BY <1>1, InitSInv, NextSInv, PTL DEF StopSpec

-----------------------------------------------------------------------------
(* The broker's sessions while it is being stopped.                        *)

TInv == StopTypeOK /\ Identified

LEMMA NextTInv == TInv /\ [StopNext]_allVars => TInv'
<1> SUFFICES ASSUME TInv, [StopNext]_allVars PROVE TInv'
  OBVIOUS
<1> USE DEF TInv, StopTypeOK
<1>1. CASE Working
  <2>1. [Next]_vars /\ UNCHANGED stopVars
    BY <1>1 DEF Working
  <2> QED BY <2>1, TypeStep, IdentifiedStep DEF stopVars
<1>2. CASE Interrupt \/ ServerCloses
  <2>1. UNCHANGED <<vars, toClose>> /\ server' \in {"closing", "consumers"}
    BY <1>2 DEF Interrupt, ServerCloses
  <2>2. TypeOK' /\ Identified'
    BY <2>1, TypeStep, IdentifiedStep
  <2> QED BY <2>1, <2>2
<1>3. CASE StopConsumers
  <2>1. UNCHANGED <<pc, link, backlog, closing, claimed, deviceId, topic, todo, target,
                    connections, subs, status, newest>> /\ command' = NoConn
    BY <1>3 DEF StopConsumers, linkVars, publishVars, sharedVars
  <2>2. TypeOK' /\ Identified'
    BY <2>1 DEF TypeOK, Identified
  <2>3. toClose' \subseteq Conn /\ server' = "clients"
    BY <1>3 DEF StopConsumers, TypeOK
  <2> QED BY <2>2, <2>3
<1>4. ASSUME NEW c \in Conn, CloseClient(c) PROVE TInv'
  <2>1. UNCHANGED <<pc, link, backlog, claimed, deviceId, topic, todo, target,
                    connections, subs, status, newest, command>>
        /\ closing' = [closing EXCEPT ![c] = TRUE]
    BY <1>4 DEF CloseClient, linkVars, publishVars, sharedVars
  <2>2. TypeOK' /\ Identified'
    BY <2>1 DEF TypeOK, Identified
  <2>3. toClose' \subseteq Conn /\ server' = server
    BY <1>4 DEF CloseClient
  <2> QED BY <2>2, <2>3
<1>5. CASE ClearRegistry
  <2>1. UNCHANGED <<pc, link, backlog, closing, claimed, deviceId, topic, todo, target,
                    subs, status, newest, command>>
        /\ connections' = [d \in Device |-> NoConn]
    BY <1>5 DEF ClearRegistry, linkVars, publishVars
  <2>2. TypeOK' /\ Identified'
    BY <2>1 DEF TypeOK, Identified
  <2>3. toClose' \subseteq Conn /\ server' = "stopped"
    BY <1>5 DEF ClearRegistry
  <2> QED BY <2>2, <2>3
<1>6. CASE UNCHANGED allVars
  <2>1. UNCHANGED vars /\ UNCHANGED stopVars
    BY <1>6 DEF allVars
  <2> QED BY <2>1, TypeStep, IdentifiedStep DEF stopVars
<1> QED BY <1>1, <1>2, <1>3, <1>4, <1>5, <1>6 DEF StopNext, Stopping

(* Every variable keeps its type through the whole of the stop; what       *)
(* stop() has to close is a set of connections.                            *)
THEOREM StopSpecStopTypeOK == StopSpec => []StopTypeOK
<1>1. StopInit => TInv
  <2>1. StopInit => IInv
    BY InitIInv DEF StopInit
  <2> QED BY <2>1 DEF StopInit, TInv, StopTypeOK, IInv, Sessions
<1>2. TInv => StopTypeOK
  BY DEF TInv
<1> QED BY <1>1, <1>2, NextTInv, PTL DEF StopSpec
=============================================================================
