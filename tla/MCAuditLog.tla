----------------------------- MODULE MCAuditLog -----------------------------
EXTENDS AuditLog, TLC

Symmetry == Permutations(Workers) \cup Permutations(Inodes)

=============================================================================
