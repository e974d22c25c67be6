---------------------------- MODULE MCResultsStore ----------------------------
EXTENDS ResultsStore, TLC

Symmetry == Permutations(Savers)
=============================================================================
