--------------------------- MODULE MCStoreAccess ---------------------------
(* A few commands at once on the same path. *)
EXTENDS StoreAccess, TLC

Symmetry == Permutations(Procs)
=============================================================================
