--------------------------- MODULE MCGraphRefresh ---------------------------
(***************************************************************************)
(* An instance of GraphRefresh for TLC: three refreshes of one commit with *)
(* one key, one of which may reuse what is there.                          *)
(***************************************************************************)
EXTENDS GraphRefresh

CONSTANTS p1, p2, p3, v1, k1

MCVersionOf == [p \in Callers |-> v1]
MCKeyOf == [p \in Callers |-> k1]
=============================================================================
