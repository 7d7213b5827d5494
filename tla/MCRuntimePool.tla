--------------------------- MODULE MCRuntimePool ---------------------------
(***************************************************************************)
(* Instances of RuntimePool for TLC: jobs of one pool, with priorities or  *)
(* with every way to fail, and graph jobs that wait for a job of the       *)
(* repository_query pool.                                                  *)
(***************************************************************************)
EXTENDS RuntimePool

CONSTANTS j1, j2, j3, j4, graph, query

MCOne == [p \in Pools |-> 1]
MCTwo == [p \in Pools |-> 2]
MCOnePool == [j \in Jobs |-> query]
MCNoParent == [j \in Jobs |-> NoJob]
MCNormal == [j \in Jobs |-> "normal"]
MCPriorities == [j \in Jobs |-> IF j = j3 THEN "high" ELSE IF j = j4 THEN "low" ELSE "normal"]

\* j1 and j2 are graph jobs, j3 is j1's load, j4 a query of its own.
MCTwoPools == [j \in Jobs |-> IF j \in {j1, j2} THEN graph ELSE query]
MCLoad == [j \in Jobs |-> IF j = j3 THEN j1 ELSE NoJob]
=============================================================================
