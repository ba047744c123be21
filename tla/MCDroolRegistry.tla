-------------------------- MODULE MCDroolRegistry --------------------------
(* Instances of DroolRegistry for TLC. *)
EXTENDS DroolRegistry
CONSTANTS r1, r2, r3, k1, k2
=============================================================================
