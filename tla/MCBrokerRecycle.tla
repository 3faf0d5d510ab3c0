--------------------------- MODULE MCBrokerRecycle ---------------------------
(***************************************************************************)
(* Instances of BrokerRecycle for TLC.  Calls are interchangeable, so the  *)
(* safety runs may use them up to symmetry; the liveness run does not.     *)
(***************************************************************************)
EXTENDS BrokerRecycle, TLC

CallSymmetry == Permutations(Calls)
=============================================================================
