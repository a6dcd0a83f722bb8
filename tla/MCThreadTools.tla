--------------------------- MODULE MCThreadTools ----------------------------
EXTENDS ThreadTools, TLC

ThreadSymmetry == Permutations(Threads)
=============================================================================
