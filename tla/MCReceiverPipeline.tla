------------------------- MODULE MCReceiverPipeline -------------------------
(* Small instances of ReceiverPipeline for TLC: a tick is half an interval. *)
EXTENDS ReceiverPipeline
=============================================================================
