------------------------- MODULE MCManagedStorage -------------------------
(* Small instance of ManagedStorage.  The addresses are interchangeable. *)
EXTENDS ManagedStorage, TLC

Symmetric == Permutations(Chunks)
===========================================================================
