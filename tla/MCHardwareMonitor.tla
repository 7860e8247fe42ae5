--------------------------- MODULE MCHardwareMonitor ---------------------------
(* Instances of HardwareMonitor for TLC.                                     *)
EXTENDS HardwareMonitor, TLC

CONSTANTS d1, d2, c1, c2

Sym == Permutations({d1, d2}) \cup Permutations({c1, c2})
===============================================================================
