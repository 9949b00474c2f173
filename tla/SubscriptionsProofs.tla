------------------------- MODULE SubscriptionsProofs -------------------------
(***************************************************************************)
(* Proofs about the subscription manager, for every set of clients and     *)
(* patterns: its two dictionaries always index the same relation, removing *)
(* a client is complete, and it implements SubscriptionRelation.           *)
(***************************************************************************)
EXTENDS Subscriptions, TopicsLemmas

(* Reading a dictionary after writing one key.                             *)
LEMMA GetPut ==
    ASSUME NEW d, NEW k, NEW S, NEW x
    PROVE  Get(Put(d, k, S), x) = IF x = k THEN S ELSE Get(d, x)
BY DEF Get, Put

(* Reading the pattern index after a client is discarded from patterns P:  *)
(* deleting the entries left empty does not show.                          *)
LEMMA GetDiscard ==
    ASSUME NEW c, NEW P, NEW p
    PROVE  Get(Discard(c, P), p) =
               IF p \in P THEN Get(subscriptions, p) \ {c} ELSE Get(subscriptions, p)
BY DEF Get, Discard

LEMMA DiscardType ==
    ASSUME TypeOK, NEW c, NEW P
    PROVE  LET e == Discard(c, P)
           IN  DOMAIN e \subseteq Pattern /\ e \in [DOMAIN e -> SUBSET Device]
BY DEF Discard, TypeOK

LEMMA DiscardNoEmpty ==
    ASSUME NoEmptyEntry, NEW c, NEW P
    PROVE  \A p \in DOMAIN Discard(c, P) : Discard(c, P)[p] # {}
BY DEF Discard, NoEmptyEntry

LEMMA GetClientType ==
    ASSUME TypeOK, NEW c
    PROVE  Get(clientSubs, c) \in SUBSET Pattern
BY DEF Get, TypeOK

LEMMA GetPatternType ==
    ASSUME TypeOK, NEW p
    PROVE  Get(subscriptions, p) \in SUBSET Device
BY DEF Get, TypeOK

(***************************************************************************)
(* What each method does to the two lookups, from any state that satisfies *)
(* the invariant.                                                          *)
(***************************************************************************)
LEMMA SubscribeEffect ==
    ASSUME NEW c \in Device, NEW p \in Pattern, Subscribe(c, p)
    PROVE  /\ \A q : Get(subscriptions', q) =
                   IF q = p THEN Get(subscriptions, p) \cup {c} ELSE Get(subscriptions, q)
           /\ \A d : Get(clientSubs', d) =
                   IF d = c THEN Get(clientSubs, c) \cup {p} ELSE Get(clientSubs, d)
BY GetPut DEF Subscribe

LEMMA UnsubscribeEffect ==
    ASSUME NEW c \in Device, NEW p \in Pattern, Unsubscribe(c, p)
    PROVE  /\ \A q : Get(subscriptions', q) =
                   IF q = p THEN Get(subscriptions, p) \ {c} ELSE Get(subscriptions, q)
           /\ \A d : Get(clientSubs', d) =
                   IF d = c THEN Get(clientSubs, c) \ {p} ELSE Get(clientSubs, d)
<1>1. \A q : Get(subscriptions', q) =
          IF q = p THEN Get(subscriptions, p) \ {c} ELSE Get(subscriptions, q)
  <2>1. subscriptions' = Discard(c, {p})
    BY DEF Unsubscribe
  <2>2. \A q : Get(Discard(c, {p}), q) =
            IF q \in {p} THEN Get(subscriptions, q) \ {c} ELSE Get(subscriptions, q)
    BY GetDiscard
  <2> QED BY <2>1, <2>2
<1>2. CASE c \in DOMAIN clientSubs
  <2>1. clientSubs' = Put(clientSubs, c, Get(clientSubs, c) \ {p})
    BY <1>2 DEF Unsubscribe, Get
  <2> QED BY <1>1, <2>1, GetPut
<1>3. CASE c \notin DOMAIN clientSubs
  BY <1>1, <1>3 DEF Unsubscribe, Get
<1> QED BY <1>2, <1>3

LEMMA RemoveClientEffect ==
    ASSUME NEW c \in Device, RemoveClient(c)
    PROVE  /\ \A q : Get(subscriptions', q) =
                   IF q \in Get(clientSubs, c) THEN Get(subscriptions, q) \ {c}
                   ELSE Get(subscriptions, q)
           /\ \A d : Get(clientSubs', d) = IF d = c THEN {} ELSE Get(clientSubs, d)
<1>1. \A q : Get(subscriptions', q) =
          IF q \in Get(clientSubs, c) THEN Get(subscriptions, q) \ {c}
          ELSE Get(subscriptions, q)
  BY GetDiscard DEF RemoveClient
<1>2. \A d : Get(clientSubs', d) = IF d = c THEN {} ELSE Get(clientSubs, d)
  BY DEF RemoveClient, Get
<1> QED BY <1>1, <1>2

(* With the two indexes in agreement, remove_client takes c out of every   *)
(* pattern, not only out of those it visits.                               *)
LEMMA RemoveClientEverywhere ==
    ASSUME IndexInv, NEW c \in Device, RemoveClient(c), NEW p \in Pattern
    PROVE  Get(subscriptions', p) = Get(subscriptions, p) \ {c}
BY RemoveClientEffect DEF IndexInv, IndexesAgree

-----------------------------------------------------------------------------
LEMMA StepInv == IndexInv /\ [Next]_vars => IndexInv'
<1> SUFFICES ASSUME IndexInv, [Next]_vars PROVE IndexInv'
  OBVIOUS
<1> USE DEF IndexInv
<1>1. ASSUME NEW c \in Device, NEW p \in Pattern, Subscribe(c, p) PROVE IndexInv'
  <2>1. TypeOK'
    <3>1. Get(subscriptions, p) \cup {c} \in SUBSET Device
      BY GetPatternType
    <3>2. Get(clientSubs, c) \cup {p} \in SUBSET Pattern
      BY GetClientType
    <3>3. /\ DOMAIN subscriptions' \subseteq Pattern
          /\ subscriptions' \in [DOMAIN subscriptions' -> SUBSET Device]
      BY <1>1, <3>1 DEF Subscribe, TypeOK, Put
    <3>4. /\ DOMAIN clientSubs' \subseteq Device
          /\ clientSubs' \in [DOMAIN clientSubs' -> SUBSET Pattern]
      BY <1>1, <3>2 DEF Subscribe, TypeOK, Put
    <3> QED BY <3>3, <3>4 DEF TypeOK
  <2>2. IndexesAgree'
    BY <1>1, SubscribeEffect DEF IndexesAgree
  <2>3. NoEmptyEntry'
    BY <1>1 DEF NoEmptyEntry, Subscribe, Put
  <2> QED BY <2>1, <2>2, <2>3
<1>2. ASSUME NEW c \in Device, NEW p \in Pattern, Unsubscribe(c, p) PROVE IndexInv'
  <2>1. TypeOK'
    <3>1. /\ DOMAIN subscriptions' \subseteq Pattern
          /\ subscriptions' \in [DOMAIN subscriptions' -> SUBSET Device]
      BY <1>2, DiscardType DEF Unsubscribe
    <3>2. /\ DOMAIN clientSubs' \subseteq Device
          /\ clientSubs' \in [DOMAIN clientSubs' -> SUBSET Pattern]
      BY <1>2 DEF Unsubscribe, TypeOK, Put
    <3> QED BY <3>1, <3>2 DEF TypeOK
  <2>2. IndexesAgree'
    BY <1>2, UnsubscribeEffect DEF IndexesAgree
  <2>3. NoEmptyEntry'
    BY <1>2, DiscardNoEmpty DEF NoEmptyEntry, Unsubscribe
  <2> QED BY <2>1, <2>2, <2>3
<1>3. ASSUME NEW c \in Device, RemoveClient(c) PROVE IndexInv'
  <2>1. TypeOK'
    <3>1. /\ DOMAIN subscriptions' \subseteq Pattern
          /\ subscriptions' \in [DOMAIN subscriptions' -> SUBSET Device]
      BY <1>3, DiscardType DEF RemoveClient
    <3>2. /\ DOMAIN clientSubs' \subseteq Device
          /\ clientSubs' \in [DOMAIN clientSubs' -> SUBSET Pattern]
      BY <1>3 DEF RemoveClient, TypeOK
    <3> QED BY <3>1, <3>2 DEF TypeOK
  <2>2. IndexesAgree'
    BY <1>3, RemoveClientEffect, RemoveClientEverywhere DEF IndexesAgree
  <2>3. NoEmptyEntry'
    BY <1>3, DiscardNoEmpty DEF NoEmptyEntry, RemoveClient
  <2> QED BY <2>1, <2>2, <2>3
<1>4. CASE UNCHANGED vars
  BY <1>4 DEF vars, TypeOK, IndexesAgree, NoEmptyEntry, Get
<1> QED BY <1>1, <1>2, <1>3, <1>4 DEF Next

LEMMA InitInv == Init => IndexInv
BY DEF Init, IndexInv, TypeOK, IndexesAgree, NoEmptyEntry, Get

LEMMA IndexInvariant == Spec => []IndexInv
BY InitInv, StepInv, PTL DEF Spec

(* The two dictionaries of the subscription manager always index the same  *)
(* relation, with any clients and patterns.                                *)
THEOREM SpecIndexesAgree == Spec => []IndexesAgree
<1>1. IndexInv => IndexesAgree
  BY DEF IndexInv
<1> QED BY <1>1, IndexInvariant, PTL

(* With topics and patterns of any length: the lookup of a topic gives     *)
(* exactly the clients whose own index has a pattern that covers it.       *)
THEOREM SpecSubscribersMatch == Spec => []SubscribersMatch
<1>1. IndexInv => SubscribersMatch
  <2> SUFFICES ASSUME IndexInv, NEW t \in Topic, NEW c
               PROVE  c \in GetSubscribers(t) <=>
                          c \in Device /\ \E p \in Get(clientSubs, c) : Covers(p, t)
    BY DEF SubscribersMatch, GetSubscribers, GetClientSubscriptions, IndexInv, TypeOK
  <2>1. \A p \in Pattern : Matches(p, t) <=> Covers(p, t)
    BY MatchIsPrefix, TopicAssumption DEF Covers
  <2>2. c \in GetSubscribers(t) <=> \E p \in Pattern : c \in Get(subscriptions, p) /\ Matches(p, t)
    BY DEF GetSubscribers, Get, IndexInv, TypeOK
  <2>3. \A p \in Pattern : c \in Get(subscriptions, p) =>  c \in Device
    BY GetPatternType DEF IndexInv
  <2>4. \A p \in Get(clientSubs, c) : p \in Pattern
    BY GetClientType DEF IndexInv
  <2>5. c \in Device => \A p \in Pattern : c \in Get(subscriptions, p) <=> p \in Get(clientSubs, c)
    BY DEF IndexInv, IndexesAgree
  <2> QED BY <2>1, <2>2, <2>3, <2>4, <2>5
<1> QED BY <1>1, IndexInvariant, PTL

(* get_subscribers never walks over an entry without subscribers.          *)
THEOREM SpecNoEmptyEntry == Spec => []NoEmptyEntry
<1>1. IndexInv => NoEmptyEntry
  BY DEF IndexInv
<1> QED BY <1>1, IndexInvariant, PTL

-----------------------------------------------------------------------------
(* Refinement: each method maps to the operation of the relation.          *)

LEMMA PairsMember ==
    ASSUME NEW c, NEW p
    PROVE  <<c, p>> \in Pairs <=> c \in Device /\ p \in Pattern /\ c \in Get(subscriptions, p)
BY DEF Pairs

LEMMA StepRefines == IndexInv /\ [Next]_vars => [Rel!RelationNext]_Pairs
<1> SUFFICES ASSUME IndexInv, [Next]_vars PROVE [Rel!RelationNext]_Pairs
  OBVIOUS
<1>1. ASSUME NEW c \in Device, NEW p \in Pattern, Subscribe(c, p) PROVE Rel!AddPair(c, p)
  BY <1>1, SubscribeEffect DEF Rel!AddPair, Pairs
<1>2. ASSUME NEW c \in Device, NEW p \in Pattern, Unsubscribe(c, p) PROVE Rel!DropPair(c, p)
  BY <1>2, UnsubscribeEffect DEF Rel!DropPair, Pairs
<1>3. ASSUME NEW c \in Device, RemoveClient(c) PROVE Rel!DropClient(c)
  BY <1>3, RemoveClientEverywhere DEF Rel!DropClient, Pairs
<1>4. CASE UNCHANGED vars
  BY <1>4 DEF vars, Pairs, Get
<1> QED BY <1>1, <1>2, <1>3, <1>4 DEF Next, Rel!RelationNext

(* The subscription manager implements the relation between clients and    *)
(* patterns that the Broker module uses in its place.                      *)
THEOREM SpecImplementsRelation == Spec => ImplementsRelation
<1>1. Init => Rel!RelationInit
  BY DEF Init, Rel!RelationInit, Pairs, Get
<1>2. IndexInv /\ [Next]_vars => [Rel!RelationNext]_Pairs
  BY StepRefines
<1> QED BY <1>1, <1>2, IndexInvariant, PTL DEF Spec, ImplementsRelation, Rel!RelationSpec

(* remove_client is complete: once it has dropped the client's index, no   *)
(* pattern has the client left.                                            *)
THEOREM SpecRemovalIsComplete == Spec => RemovalIsComplete
<1>1. ASSUME IndexInv, [Next]_vars
      PROVE  [\A c \in Device : c \in DOMAIN clientSubs /\ c \notin DOMAIN clientSubs'
                  => \A p \in Pattern : c \notin Get(subscriptions', p)]_vars
  <2> SUFFICES ASSUME NEW c \in Device, c \in DOMAIN clientSubs, c \notin DOMAIN clientSubs',
                      NEW p \in Pattern
               PROVE  c \notin Get(subscriptions', p)
    OBVIOUS
  <2>1. ASSUME NEW d \in Device, NEW q \in Pattern, Subscribe(d, q) PROVE FALSE
    BY <2>1 DEF Subscribe, Put
  <2>2. ASSUME NEW d \in Device, NEW q \in Pattern, Unsubscribe(d, q) PROVE FALSE
    BY <2>2 DEF Unsubscribe, Put
  <2>3. ASSUME NEW d \in Device, RemoveClient(d) PROVE c \notin Get(subscriptions', p)
    <3>1. d = c
      BY <2>3 DEF RemoveClient
    <3> QED BY <1>1, <2>3, <3>1, RemoveClientEverywhere
  <2>4. CASE UNCHANGED vars
    BY <2>4 DEF vars
  <2> QED BY <1>1, <2>1, <2>2, <2>3, <2>4 DEF Next
<1> QED BY <1>1, IndexInvariant, PTL DEF Spec, RemovalIsComplete
=============================================================================
