------------------------------ MODULE BrokerStop ------------------------------
(***************************************************************************)
(* The broker with the end of main(): the cancelled serve_forever() of     *)
(* BrokerServer.start, the command consumer's stop, and BrokerServer.stop, *)
(* while the sessions go on.  server is where that sequence is:            *)
(*   "serving"   the listening socket is open                              *)
(*   "closing"   closed; serve_forever awaits wait_closed, which in Python *)
(*               3.12 waits for the transports of all clients              *)
(*   "consumers" main() awaits the consumers' stop                         *)
(*   "clients"   stop()'s loop over the registry                           *)
(*   "stopped"                                                             *)
(***************************************************************************)
EXTENDS Broker

VARIABLES
    server,
    toClose   \* the connections stop() has still to close

stopVars == <<server, toClose>>
allVars == <<vars, stopVars>>

StopTypeOK ==
    /\ TypeOK
    /\ server \in {"serving", "closing", "consumers", "clients", "stopped"}
    /\ toClose \subseteq Conn

StopInit == Init /\ server = "serving" /\ toClose = {}

\* The tasks, the network and the command consumer, as long as they run.
Working ==
    /\ Next
    /\ (\E c \in Conn : pc[c] = "free" /\ pc'[c] # "free") => server = "serving"
    /\ command' \notin {command, NoConn} => server \in {"serving", "closing", "consumers"}
    /\ UNCHANGED stopVars

\* SIGINT cancels main(), and serve_forever closes the listening socket.
Interrupt ==
    /\ server = "serving" /\ server' = "closing"
    /\ UNCHANGED <<vars, toClose>>

Gone(c) == pc[c] = "free" \/ link[c] = "lost"

\* A plausible slip: wait_closed waits for the listening socket only.
ServerClosesAtOnce ==
    /\ server = "closing" /\ server' = "consumers"
    /\ UNCHANGED <<vars, toClose>>

\* wait_closed returns when the last transport is closed.
ServerCloses ==
    /\ server = "closing" /\ server' = "consumers"
    /\ \A c \in Conn : Gone(c)
    /\ UNCHANGED <<vars, toClose>>

\* A plausible slip: entries without a connection are copied too.
CopyEntries ==
    /\ server = "consumers" /\ server' = "clients"
    /\ command' = NoConn
    /\ toClose' = {connections[d] : d \in Device}
    /\ UNCHANGED <<pc, linkVars, closing, claimed, deviceId, publishVars, sharedVars>>

\* The command consumer's task is cancelled, in its drain if it is in one, and
\* stop() begins: the server is closed already, and the registry is copied.
StopConsumers ==
    /\ server = "consumers" /\ server' = "clients"
    /\ command' = NoConn
    /\ toClose' = {connections[d] : d \in Device} \ {NoConn}
    /\ UNCHANGED <<pc, linkVars, closing, claimed, deviceId, publishVars, sharedVars>>

\* A plausible slip: a session that has ended by itself is waited for.
CloseServed(c) ==
    /\ server = "clients" /\ c \in toClose
    /\ pc[c] \in Serving
    /\ closing' = [closing EXCEPT ![c] = TRUE]
    /\ toClose' = toClose \ {c}
    /\ UNCHANGED <<server, pc, linkVars, claimed, deviceId, publishVars, sharedVars, command>>

\* writer.close() and its wait_closed, which finds the transport closed.
CloseClient(c) ==
    /\ server = "clients" /\ c \in toClose
    /\ link[c] = "lost"
    /\ closing' = [closing EXCEPT ![c] = TRUE]
    /\ toClose' = toClose \ {c}
    /\ UNCHANGED <<server, pc, linkVars, claimed, deviceId, publishVars, sharedVars, command>>

ClearRegistry ==
    /\ server = "clients" /\ toClose = {} /\ server' = "stopped"
    /\ connections' = [d \in Device |-> NoConn]
    /\ UNCHANGED <<toClose, pc, linkVars, closing, claimed, deviceId, publishVars, subs, status,
                   newest, command>>

Stopping == ServerCloses \/ StopConsumers \/ (\E c \in Conn : CloseClient(c)) \/ ClearRegistry

StopNext == Working \/ Interrupt \/ Stopping

StopSpec == StopInit /\ [][StopNext]_allVars

\* Beside the fairness of the broker: main() goes on.
FairStopSpec == StopSpec /\ Fairness /\ WF_allVars(Stopping)

-----------------------------------------------------------------------------
(* Once stop() has returned no device is connected, also none in its       *)
(* handshake and none whose registry entry another session removed: the    *)
(* loop over the registry would miss those.                                *)
NobodyConnected == server = "stopped" => \A c \in Conn : Gone(c)

(* stop() returns once every device falls silent: the read timeouts end    *)
(* the sessions wait_closed waits for, unless a peer never reads again     *)
(* what is still to be written to it, for which there is no time limit.    *)
StopReturns ==
    (\A c \in Conn : <>[](backlog[c] = 0) /\ []<>(link[c] # "stalled"))
        => (server # "serving" ~> server = "stopped")

-----------------------------------------------------------------------------
(* What server.py says stop() does: "Gracefully stop the broker.", with    *)
(* "Close all client connections".  A device that goes on sending pings is *)
(* closed by stop().                                                       *)
StopClosesClients ==
    \A c \in Conn : (server # "serving" /\ pc[c] = "loop") ~> (closing[c] \/ link[c] = "lost")
=============================================================================
