-------------------------- MODULE MCWorkspaceLease --------------------------
(***************************************************************************)
(* Instances of WorkspaceLease for TLC: workspaces that compete for one    *)
(* branch.                                                                 *)
(***************************************************************************)
EXTENDS WorkspaceLease

CONSTANTS w1, w2, main

MCBranchOf == [w \in Workspaces |-> main]
=============================================================================
