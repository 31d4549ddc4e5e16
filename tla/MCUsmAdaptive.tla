--------------------------- MODULE MCUsmAdaptive ---------------------------
EXTENDS UsmAdaptive, TLC

Symmetry == Permutations(Pools)

=============================================================================
