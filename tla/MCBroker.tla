------------------------------ MODULE MCBroker ------------------------------
(***************************************************************************)
(* The broker on small instances.  The device id "a" begins "ab", and the  *)
(* empty id begins both, so that a pattern accepted from one device can    *)
(* match the topics of another: only then does a message have subscribers  *)
(* other than its sender.                                                  *)
(***************************************************************************)
EXTENDS Broker

CONSTANTS C1, C2, C3   \* model values for connections

MCLevel == Reserved \cup {"telemetry", "a", "ab", "b"}

MCStartsWith == {<<l, l>> : l \in MCLevel} \cup {<<l, "">> : l \in MCLevel} \cup {<<"ab", "a">>}

MCUnhash == [l \in MCLevel |-> IF l = "#" THEN "" ELSE l]

A == <<"a">>
AB == <<"ab">>
B == <<"b">>

OneDevice == {A}
WithEmptyId == {A, EmptyId}
Nested == {A, AB}
AllKinds == {A, AB, B, EmptyId}

\* What "ab" publishes, which "a" and the empty id may subscribe to.
TelemetryOfAB == {<<"devices", "ab", "telemetry">>}
AllOfAB == {<<"devices", "ab", "#">>}

\* Every connection may be of any device.
AnyClaim == [c \in Conn |-> Device]

\* A publisher, and two subscribers that may be one device, or one that the
\* access control refuses.
ForwardClaims ==
    [c \in Conn |-> CASE c = C1 -> {AB} [] c = C2 -> {A} [] OTHER -> {A, B, EmptyId}]

\* A publisher, and a connection of its subscriber or of its own device.
LiveClaims == [c \in Conn |-> IF c = C1 THEN {AB} ELSE {A, AB}]

ConnSymmetry == Permutations(Conn)
=============================================================================
