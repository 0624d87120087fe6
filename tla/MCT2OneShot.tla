---------------------------- MODULE MCT2OneShot ----------------------------
EXTENDS T2OneShot, TLC

Symmetry == Permutations(Procs) \union Permutations(Exps)
              \union Permutations(Runs) \union Permutations(Ops)
=============================================================================
