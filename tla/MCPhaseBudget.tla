---------------------------- MODULE MCPhaseBudget ----------------------------
(* Small instances of PhaseBudget for TLC: one tick is one abstract second. *)
EXTENDS PhaseBudget
=============================================================================
