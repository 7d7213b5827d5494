-------------------------- MODULE MCRepositoryCache -------------------------
(***************************************************************************)
(* Instances of RepositoryCache for TLC: requests that want the same key,  *)
(* and one that wants another, in a table for one entry.                   *)
(***************************************************************************)
EXTENDS RepositoryCache

CONSTANTS r1, r2, r3, k1, k2

MCWants == [p \in Readers |-> IF p = r3 THEN {k1, k2} ELSE {k1}]
=============================================================================
