--------------------------- MODULE MCManagedRefs ----------------------------
(***************************************************************************)
(* An instance of ManagedRefs for TLC.                                      *)
(***************************************************************************)
EXTENDS ManagedRefs, TLC

CONSTANTS r1, r2, r3

Symmetric == Permutations(Requests)
=============================================================================
