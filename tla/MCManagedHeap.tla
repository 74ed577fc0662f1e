--------------------------- MODULE MCManagedHeap ---------------------------
(* Small instance of ManagedHeap.  The addresses are interchangeable. *)
EXTENDS ManagedHeap, TLC

Symmetric == Permutations(Objects)
===========================================================================
