----------------------------- MODULE StoreCalls -----------------------------
(***************************************************************************)
(* The calls that work on whole repositories, side by side on one data     *)
(* directory: register and retire, push, fetch and commit, snapshot builds *)
(* and downloads, changes of grants and requests.  They share the          *)
(* directories and the records of the repositories, and a restart of the   *)
(* server cuts all of them at once.                                        *)
(***************************************************************************)
EXTENDS RemoteSync, SnapshotStore, AccessGrants

CONSTANTS
    SnapshotRepo,  \* the repository of a snapshot
    Mixes,         \* bound: the sets of calls that are made together
    MaxRestarts    \* bound on restarts

ASSUME StoreConstants ==
    /\ IsFiniteSet(Names)
    /\ SnapshotRepo \in [Snapshots -> Names]
    /\ Mixes \subseteq SUBSET (CatalogCalls \cup SyncCalls \cup BuildCalls \cup DownloadCalls
                                 \cup PolicyCalls)
    /\ MaxRestarts \in Nat

VARIABLES
    made,     \* the calls that are made in this behaviour
    restarts  \* history: restarts so far

storeVars == <<catalogVars, syncVars, snapshotVars, grantVars, made, restarts>>

-----------------------------------------------------------------------------
\* A first commit for each repository.
FirstCommits(there) ==
    CHOOSE f \in [there -> 1 .. Cardinality(there)] : \A m, n \in there : m # n => f[m] # f[n]

\* Repositories start registered, with their first commit, or not at all.
StoreInit ==
    /\ made \in Mixes
    /\ \E there \in IF made \subseteq PolicyCalls THEN {{}} ELSE SUBSET Names :
         /\ records = there /\ nameLog = there /\ placements = there
         /\ answer = [n \in Names |-> IF n \in there THEN "registered" ELSE "none"]
         /\ needs = [i \in 1 .. Cardinality(there) |-> {i}]
         /\ dirs = [n \in Names |->
              IF n \in there
              THEN LET c == FirstCommits(there)[n]
                   IN  [Unborn EXCEPT !.heads[DefaultRef] = c, !.loose = {c}]
              ELSE NoDir]
    /\ catalog = [c \in CatalogCalls |-> "idle"]
    /\ remote = [refs |-> NoRefs, objects |-> {}, partial |-> {}]
    /\ sync = [p \in SyncCalls |-> IdleSync]
    /\ cut = {}
    /\ SnapshotInit
    /\ GrantsInit
    /\ restarts = 0

CatalogCall(c) ==
    /\ SeparateSync(c)
    /\ \/ CatalogStep(c) /\ UNCHANGED needs
       \/ InitRepository(c, Unborn) /\ UNCHANGED needs
       \/ catalog[c] = "commit" /\ SyncFirstCommit(c)
    /\ UNCHANGED <<remote, sync, cut, snapshotVars, grantVars>>

\* build_context of Snapshots.build: the repository has a record and a ref to resolve.
SnapshotCall(c) ==
    LET n == SnapshotRepo[SnapshotOf[c]] IN
    /\ c \in BuildCalls /\ snap[c].pc = "idle" =>
         n \in records /\ IsRepository(dirs[n]) /\ Targets(dirs[n].heads) # {}
    /\ SnapshotStep(c)
    /\ UNCHANGED <<catalogVars, syncVars, grantVars>>

\* Requests and changes of grants, and the time that passes.
PolicyCall(c) ==
    /\ GrantStep(c) \/ Tick
    /\ UNCHANGED <<catalogVars, syncVars, snapshotVars>>

\* The server starts again: init_data_dir finds its directories, logs and manifest there,
\* and the seeds are put.
StoreRestart ==
    /\ restarts < MaxRestarts
    /\ restarts' = restarts + 1
    /\ CatalogRestart /\ SyncRestart /\ SnapshotRestart /\ GrantsRestart
    /\ UNCHANGED made

StoreNext ==
    \/ /\ \/ \E c \in made \cap CatalogCalls : CatalogCall(c)
          \/ \E p \in made \cap SyncCalls : SyncStep(p) /\ UNCHANGED <<snapshotVars, grantVars>>
          \/ \E c \in made \cap (BuildCalls \cup DownloadCalls) : SnapshotCall(c)
          \/ \E c \in made \cap PolicyCalls : PolicyCall(c)
       /\ UNCHANGED <<made, restarts>>
    \/ StoreRestart

StoreSpec == StoreInit /\ [][StoreNext]_storeVars
=============================================================================
