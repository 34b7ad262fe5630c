----------------------------- MODULE MCMetrics -----------------------------
EXTENDS Metrics, TLC
Symmetry == Permutations(Workers)
=============================================================================
