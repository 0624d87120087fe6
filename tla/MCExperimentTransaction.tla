---------------------- MODULE MCExperimentTransaction ----------------------
EXTENDS ExperimentTransaction, TLC

Symmetry == Permutations(Prbs)
=============================================================================
