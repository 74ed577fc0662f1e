--------------------------- MODULE MCFailureRecovery ---------------------------
(* A small instance of FailureRecovery: descriptors are interchangeable.       *)
EXTENDS FailureRecovery, TLC

Symmetry == Permutations(Descriptors)

================================================================================
