------------------------ MODULE MCEvidenceRetention ------------------------
EXTENDS EvidenceRetention, TLC

Interchangeable == Permutations(Procs)
=============================================================================
