--------------------------- MODULE MCCheckGuard ---------------------------
EXTENDS CheckGuard, TLC

ProcSymmetry == Permutations(Procs)
=============================================================================
