---------------------------- MODULE MCConverter ----------------------------
EXTENDS Converter, TLC

Symmetry == Permutations(Workers)
=============================================================================
