----------------------------- MODULE MCBrokerStop -----------------------------
(* The instances of MCBroker, with the end of main().                      *)
EXTENDS MCBroker, BrokerStop
=============================================================================
