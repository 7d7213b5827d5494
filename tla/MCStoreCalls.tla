---------------------------- MODULE MCStoreCalls ----------------------------
(***************************************************************************)
(* An instance of StoreCalls for TLC: two repositories, one of which is    *)
(* registered and retired, a snapshot, three requests under the grants of  *)
(* an actor, and the mixes of calls that meet.                             *)
(***************************************************************************)
EXTENDS StoreCalls

CONSTANTS
    reg1, reg2, ret1, ret2, push1, push2, fetch2, commit1, commit2, build1, build2, down1,
    put1, rev1, ask1, ask2, ask3, e1, e2, read, write,
    n1, n2, main, topic, s1

MCNameOf == [c \in CatalogCalls |-> n1]
MCRepoOf == [p \in SyncCalls |-> IF p \in {push1, commit1} THEN n1 ELSE n2]
MCBranchOf == [p \in CommitCalls |-> IF p = commit1 THEN main ELSE topic]
MCRefspecs == [p \in PushCalls |-> IF p = push1 THEN <<<<main, main>>>>
                                   ELSE <<<<topic, main>>, <<main, topic>>>>]
MCSnapshotOf == [c \in BuildCalls \cup DownloadCalls |-> s1]
MCSnapshotRepo == [s \in Snapshots |-> n1]
MCCapabilities == [e \in Envelopes |-> IF e = e1 THEN {read} ELSE {read, write}]
MCGrant(e, repos, expires) == [envelope |-> e, repos |-> repos, expires |-> expires]
MCSeeds == {MCGrant(e1, {n1, n2}, Never)}
MCInputs == {MCGrant(e1, {n1}, 2), MCGrant(e2, {n1, n2}, 2), MCGrant(e2, {n2}, Never)}
MCRepoFor == [p \in Checks |-> IF p = ask3 THEN Global ELSE n1]
MCMixes ==
    {{reg1, reg2, ret1, ret2},
     {reg1, ret1, push1, push2},
     {commit1, commit2, push1, push2},
     {commit1, push1, push2, fetch2},
     {commit2, push1, push2, fetch2},
     {ret1, push1, push2, fetch2},
     {reg1, ret1, ret2, build1, down1},
     {build1, build2, down1, push1},
     {put1, rev1, ask1, ask2, ask3}}
=============================================================================
