---------------------------- MODULE MCSettingsStore ----------------------------
(* Instances of SettingsStore for TLC: the constants are given by the cfgs. *)
EXTENDS SettingsStore
=============================================================================
