---------------------------- MODULE MCDumpRestore ----------------------------
(***************************************************************************)
(* Instances of DumpRestore for TLC.  The archives are numbered, and       *)
(* request names carry the archive they are for.                           *)
(***************************************************************************)
EXTENDS DumpRestore

CONSTANTS d1, d2, d3, r1

\* Two archives: the second is dumped once, the rest is about the first.
TwoPaths   == [q \in {d1, d2, d3, r1} |-> IF q = d3 THEN 2 ELSE 1]
SmallPaths == [q \in {d1, d3, r1} |-> IF q = d3 THEN 2 ELSE 1]
OnePath    == [q \in {d1, d2, r1} |-> 1]
=============================================================================
