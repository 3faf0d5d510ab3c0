------------------------ MODULE MCAuthentikCompose ------------------------
(* Instances of AuthentikCompose for TLC: the constants are given by the cfgs. *)
EXTENDS AuthentikCompose
=============================================================================
