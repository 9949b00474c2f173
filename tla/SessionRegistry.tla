--------------------------- MODULE SessionRegistry ---------------------------
(***************************************************************************)
(* What the broker promises of its shared state: the sessions in service,  *)
(* a registry with an entry for each device, and a set of subscriptions,   *)
(* changed by operations that each happen at once and concern one device.  *)
(* A device may have several sessions in service; the entry is one of them *)
(* or missing.  A session that ends takes the entry and the subscriptions  *)
(* of its device along, whosever they are; only devices whose state is     *)
(* lasting keep both.  Broker is shown to implement it.                    *)
(***************************************************************************)
CONSTANTS
    Session, Device, Pattern, NoSession, NoDevice,
    Lasting, \* the devices whose entry and subscriptions no session's end removes
    Grants   \* the subscriptions access control allows

VARIABLES
    served,  \* the device a session in service serves
    entry,   \* the session that is sent what is meant for the device
    subs     \* pairs of a device and a pattern

registryVars == <<served, entry, subs>>

RegistryInit ==
    /\ served = [s \in Session |-> NoDevice]
    /\ entry = [d \in Device |-> NoSession]
    /\ subs = {}

Without(d) == {pair \in subs : pair[1] # d}

\* A new session of d takes the entry over; a predecessor's subscriptions go.
Connect(s, d) ==
    /\ entry' = [entry EXCEPT ![d] = s]
    /\ served[s] = NoDevice
    /\ served' = [served EXCEPT ![s] = d]
    /\ subs' = IF entry[d] = NoSession THEN subs ELSE Without(d)

Subscribe(s, p) ==
    /\ served[s] # NoDevice
    /\ subs' = subs \cup {<<served[s], p>>}
    /\ <<served[s], p>> \in Grants
    /\ UNCHANGED <<served, entry>>

Unsubscribe(s, p) ==
    /\ served[s] # NoDevice
    /\ subs' = subs \ {<<served[s], p>>}
    /\ UNCHANGED <<served, entry>>

Clear(d) ==
    /\ entry' = [entry EXCEPT ![d] = NoSession]
    /\ subs' = Without(d)

End(s) ==
    /\ served[s] # NoDevice
    /\ IF served[s] \in Lasting THEN UNCHANGED <<entry, subs>> ELSE Clear(served[s])
    /\ served' = [served EXCEPT ![s] = NoDevice]

\* A session of d that was accepted ends before it was in service.
Abandon(d) == d \notin Lasting /\ Clear(d) /\ UNCHANGED served

RegistryNext ==
    \/ \E d \in Device : Abandon(d) \/ \E s \in Session : Connect(s, d)
    \/ \E s \in Session, p \in Pattern : Subscribe(s, p) \/ Unsubscribe(s, p)
    \/ \E s \in Session : End(s)

RegistrySpec == RegistryInit /\ [][RegistryNext]_registryVars
=============================================================================
