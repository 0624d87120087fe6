------------------------ MODULE MCSequenceSupervisor ------------------------
(* Small instances of SequenceSupervisor for TLC. *)
EXTENDS SequenceSupervisor
=============================================================================
