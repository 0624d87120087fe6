---------------------------- MODULE MCKpmCollector ----------------------------
(* A small instance of KpmCollector for TLC. *)
EXTENDS KpmCollector
=============================================================================
