---------------------------- MODULE Subscriptions ----------------------------
(***************************************************************************)
(* SubscriptionManager (broker/subscriptions.py): two dictionaries that    *)
(* index the same subscriptions, one by pattern, to find the subscribers   *)
(* of a topic, and one by client, to clean up after a client.  Each method *)
(* runs without an await, so each is one action.  A client is named by its *)
(* device id; the match of a pattern against a topic is that of Topics.    *)
(***************************************************************************)
EXTENDS Topics

CONSTANTS
    Pattern,   \* the patterns clients subscribe to
    Topic      \* the topics looked up

ASSUME TopicAssumption ==
    /\ Pattern \subseteq Seq(Level) \ {<<>>}
    /\ Topic \subseteq Seq(Level)

VARIABLES
    subscriptions,   \* _subscriptions: pattern |-> nonempty set of clients
    clientSubs       \* _client_subs: client |-> set of patterns

vars == <<subscriptions, clientSubs>>

TypeOK ==
    /\ DOMAIN subscriptions \subseteq Pattern
    /\ subscriptions \in [DOMAIN subscriptions -> SUBSET Device]
    /\ DOMAIN clientSubs \subseteq Device
    /\ clientSubs \in [DOMAIN clientSubs -> SUBSET Pattern]

\* d.get(k, set()) for a dictionary of sets.
Get(d, k) == IF k \in DOMAIN d THEN d[k] ELSE {}

\* d[k] = S, whether or not the dictionary has the key.
Put(d, k, S) == [x \in DOMAIN d \cup {k} |-> IF x = k THEN S ELSE d[x]]

Init == /\ subscriptions = [p \in {} |-> {}]
        /\ clientSubs = [c \in {} |-> {}]

-----------------------------------------------------------------------------
(* Removing client c from the entries of the patterns P, and the entries   *)
(* left empty by it: the body of remove_client's loop and of unsubscribe.  *)

\* A plausible slip: the entry left empty is not deleted.
DiscardKeepingEmpty(c, P) ==
    [p \in DOMAIN subscriptions |->
        IF p \in P THEN subscriptions[p] \ {c} ELSE subscriptions[p]]

\* A plausible slip: the whole entry of a pattern is deleted.
DiscardEntry(c, P) ==
    [p \in {q \in DOMAIN subscriptions : q \notin P \/ c \notin subscriptions[q]} |-> subscriptions[p]]

Discard(c, P) ==
    [p \in {q \in DOMAIN subscriptions : q \in P => subscriptions[q] \ {c} # {}} |->
        IF p \in P THEN subscriptions[p] \ {c} ELSE subscriptions[p]]

Subscribe(c, p) ==
    /\ subscriptions' = Put(subscriptions, p, Get(subscriptions, p) \cup {c})
    /\ clientSubs' = Put(clientSubs, c, Get(clientSubs, c) \cup {p})

\* A plausible slip: the client's own index keeps no record of the removal.
UnsubscribeOneIndex(c, p) ==
    /\ subscriptions' = Discard(c, {p})
    /\ UNCHANGED clientSubs

Unsubscribe(c, p) ==
    /\ subscriptions' = Discard(c, {p})
    /\ clientSubs' = IF c \in DOMAIN clientSubs
                     THEN Put(clientSubs, c, clientSubs[c] \ {p})
                     ELSE clientSubs

\* A plausible slip: the client's index is dropped before its patterns are read.
RemoveClientIndexOnly(c) ==
    /\ clientSubs' = [x \in DOMAIN clientSubs \ {c} |-> clientSubs[x]]
    /\ UNCHANGED subscriptions

RemoveClient(c) ==
    /\ clientSubs' = [x \in DOMAIN clientSubs \ {c} |-> clientSubs[x]]
    /\ subscriptions' = Discard(c, Get(clientSubs, c))

Next == \E c \in Device : \/ RemoveClient(c)
                          \/ \E p \in Pattern : Subscribe(c, p) \/ Unsubscribe(c, p)

Spec == Init /\ [][Next]_vars

-----------------------------------------------------------------------------
(* get_subscribers and get_client_subscriptions.                           *)
GetSubscribers(topic) ==
    UNION {subscriptions[p] : p \in {q \in DOMAIN subscriptions : Matches(q, topic)}}

GetClientSubscriptions(c) == Get(clientSubs, c)

-----------------------------------------------------------------------------
(* The two dictionaries index the same relation: a client is in the entry  *)
(* of a pattern exactly when the pattern is in the entry of the client.    *)
(* remove_client visits only the patterns of the client's entry, so this   *)
(* is what makes it remove every subscription (its docstring).             *)
IndexesAgree ==
    \A c \in Device, p \in Pattern : c \in Get(subscriptions, p) <=> p \in Get(clientSubs, c)

(* Pattern entries never stay behind empty: get_subscribers iterates over  *)
(* all of them for every message, so a leftover entry would never go away. *)
NoEmptyEntry == \A p \in DOMAIN subscriptions : subscriptions[p] # {}

(* Where a pattern applies, by the rules get_subscribers states: to the    *)
(* topic that equals it, and under a last "#" to every topic that begins   *)
(* with the levels before it.                                              *)
Covers(pattern, topic) ==
    pattern = topic \/ (Last(pattern) = "#" /\ IsPrefix(Front(pattern), topic))

(* A message finds the clients that asked for it and no others: whatever   *)
(* was subscribed and dropped before, the lookup of a topic in the one     *)
(* dictionary gives the clients that have, in the other, a pattern that    *)
(* covers the topic.                                                       *)
SubscribersMatch ==
    \A t \in Topic :
        GetSubscribers(t) = {c \in Device : \E p \in GetClientSubscriptions(c) : Covers(p, t)}

(* The invariant: types, agreement and no empty entries.                   *)
IndexInv == TypeOK /\ IndexesAgree /\ NoEmptyEntry

(* After remove_client(c) a lookup finds c nowhere, whatever happened      *)
(* before: a step that drops the client's index leaves no subscriber c.    *)
RemovalIsComplete ==
    [][\A c \in Device : c \in DOMAIN clientSubs /\ c \notin DOMAIN clientSubs'
           => \A p \in Pattern : c \notin Get(subscriptions', p)]_vars

-----------------------------------------------------------------------------
(* The relation the two dictionaries stand for, and the specification      *)
(* they implement.                                                         *)
Pairs == {pair \in Device \X Pattern : pair[1] \in Get(subscriptions, pair[2])}

Rel == INSTANCE SubscriptionRelation WITH Client <- Device, relation <- Pairs

(* The subscription manager implements a relation between clients and      *)
(* patterns: each of its methods does to the lookups by topic exactly what *)
(* it says.                                                                *)
ImplementsRelation == Rel!RelationSpec
=============================================================================
