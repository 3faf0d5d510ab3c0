--------------------------- MODULE MCBrokerEnforce ---------------------------
(* Instances of BrokerEnforce for TLC. *)
EXTENDS BrokerEnforce
=============================================================================
