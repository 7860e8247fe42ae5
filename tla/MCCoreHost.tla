------------------------------ MODULE MCCoreHost ------------------------------
(* An instance of CoreHost for TLC. *)
EXTENDS CoreHost, TLC
===============================================================================
