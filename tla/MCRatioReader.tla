--------------------------- MODULE MCRatioReader ---------------------------
(* Small instances of RatioReader for TLC. *)
EXTENDS RatioReader, TLC

Interchangeable == Permutations(Readers) \cup Permutations(Writers)
=============================================================================
