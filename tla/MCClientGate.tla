---------------------------- MODULE MCClientGate ----------------------------
(* Instances of ClientGate for TLC: the constants are given by the cfgs. *)
EXTENDS ClientGate
=============================================================================
