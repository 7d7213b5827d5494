-------------------------- MODULE MCWorkspaceCommit -------------------------
(***************************************************************************)
(* Instances of WorkspaceCommit for TLC: writable workspaces on one branch.*)
(***************************************************************************)
EXTENDS WorkspaceCommit, TLC

CONSTANTS main

MCSymmetry == Permutations(Workspaces) \cup Permutations(Contents) \cup Permutations(Shas)

MCBranchOf == [w \in Workspaces |-> main]
=============================================================================
