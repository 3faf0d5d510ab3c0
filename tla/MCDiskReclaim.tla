---------------------------- MODULE MCDiskReclaim ----------------------------
(* Instances of DiskReclaim for TLC. *)
EXTENDS DiskReclaim
=============================================================================
