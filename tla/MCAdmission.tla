---------------------------- MODULE MCAdmission ----------------------------
EXTENDS Admission, TLC

Symmetry == Permutations(Workers) \cup Permutations(Users)
=============================================================================
