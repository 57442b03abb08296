-------------------------- MODULE MCFileLifecycle --------------------------
EXTENDS FileLifecycle, TLC

Symmetry == Permutations(Calls)
=============================================================================
