--------------------------- MODULE MCAutomationRuns ---------------------------
(* Instances of AutomationRuns for TLC.                                      *)
EXTENDS AutomationRuns, TLC

CONSTANTS t1, r1, r2, k1, k2

Sym == Permutations({r1, r2}) \cup Permutations({k1, k2})
===============================================================================
