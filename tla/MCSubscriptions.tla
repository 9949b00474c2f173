--------------------------- MODULE MCSubscriptions ---------------------------
(* The subscription manager on levels and ids of which some begin others.  *)
EXTENDS Subscriptions

MCLevel == Reserved \cup {"a", "ab", "x"}

MCStartsWith == {<<l, l>> : l \in MCLevel} \cup {<<l, "">> : l \in MCLevel} \cup {<<"ab", "a">>}

MCUnhash == [l \in MCLevel |-> IF l = "#" THEN "" ELSE l]

MCDevice == {<<"a">>, <<"ab">>, <<"">>}

\* Every kind of pattern: exact, under a prefix, and of everything.
MCPattern == {<<"devices", "a">>, <<"devices", "a", "#">>, <<"#">>}

MCTopic == {<<"devices", "a">>, <<"devices", "a", "x">>, <<"devices", "a", "x", "a">>,
            <<"devices", "ab", "x">>, <<"devices">>, <<"">>}
=============================================================================
