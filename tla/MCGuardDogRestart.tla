-------------------------- MODULE MCGuardDogRestart --------------------------
(* Instances of GuardDogRestart for TLC. *)
EXTENDS GuardDogRestart
=============================================================================
