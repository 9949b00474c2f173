------------------------- MODULE SubscriptionRelation -------------------------
(***************************************************************************)
(* What the subscription manager promises: it keeps a relation between     *)
(* clients and topic patterns.  Subscribing and unsubscribing add and      *)
(* remove one pair, and removing a client removes every pair it is in.     *)
(* This is the form in which the Broker module uses the subscriptions;     *)
(* Subscriptions is shown to implement it.                                 *)
(***************************************************************************)
CONSTANTS Client, Pattern

VARIABLE relation

RelationInit == relation = {}

AddPair(c, p) == relation' = relation \cup {<<c, p>>}

DropPair(c, p) == relation' = relation \ {<<c, p>>}

DropClient(c) == relation' = {pair \in relation : pair[1] # c}

RelationNext ==
    \E c \in Client : \/ DropClient(c)
                      \/ \E p \in Pattern : AddPair(c, p) \/ DropPair(c, p)

RelationSpec == RelationInit /\ [][RelationNext]_relation
=============================================================================
