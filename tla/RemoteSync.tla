----------------------------- MODULE RemoteSync -----------------------------
(***************************************************************************)
(* Push and fetch between the repositories of a server and one remote      *)
(* repository on its disk (crates/treedx_git/src/sync/mod.rs).  A push     *)
(* copies the loose objects file by file and then writes the remote's      *)
(* refs; a fetch receives a pack and then moves the tracking refs.         *)
(*                                                                         *)
(* A commit stands for its objects.  needs[c] is what must be there for    *)
(* commit c to be readable: itself and all its ancestors.  The calls of    *)
(* RepositoryCatalog make and move away the directories beside all this.   *)
(***************************************************************************)
EXTENDS RepositoryCatalog

CONSTANTS
    Refs,        \* names of branches
    DefaultRef,  \* the branch of the first commit
    NoCommit,    \* a ref that is not there
    PushCalls,   \* calls of push_remote
    FetchCalls,  \* calls of fetch_remote
    CommitCalls, \* commits of workspaces
    BranchOf,    \* the branch of a commit
    RepoOf,      \* the repository of a call
    Refspecs,    \* the refspecs of each push
    Expecting,   \* pushes that may pass an expectedRemoteHead
    MaxCommits   \* bound on commits

\* validate_push_refspecs: pairs of a source and a destination, at least one; no wildcards
\* and no deletions.  A plus in front of one changes nothing: no push asks whether the
\* destination moves forward.
ValidRefspecs == Seq(Refs \X Refs) \ {<<>>}

\* refs/heads/*, refs/remotes/origin/*, loose objects and packs of a repository.
Repositories == [heads : [Refs -> Nat \cup {NoCommit}], tracking : [Refs -> Nat \cup {NoCommit}],
                 loose : SUBSET Nat, packed : SUBSET Nat]

ASSUME SyncConstants ==
    /\ DefaultRef \in Refs
    /\ NoCommit \notin Nat
    /\ {NoDir, BareDir} \cap Repositories = {}
    /\ RepoOf \in [PushCalls \cup FetchCalls \cup CommitCalls -> Names]
    /\ BranchOf \in [CommitCalls -> Refs]
    /\ \A p \in PushCalls : Refspecs[p] \in ValidRefspecs
    /\ MaxCommits \in Nat

VARIABLES
    needs,   \* for each commit made so far its objects
    remote,  \* the remote's refs, its objects and the object files that are not whole
    sync,    \* where each call is and what it has read
    cut      \* history: objects whose copy a restart cut short

syncVars == <<needs, remote, sync, cut>>

-----------------------------------------------------------------------------
SyncCalls == PushCalls \cup FetchCalls \cup CommitCalls
NoRefs == [r \in Refs |-> NoCommit]

Unborn == [heads |-> NoRefs, tracking |-> NoRefs, loose |-> {}, packed |-> {}]

IdleSync == [pc |-> "idle", targets |-> <<>>, todo |-> {}, at |-> NoCommit,
             expected |-> NoCommit, refs |-> NoRefs]

SyncGoto(p, pc) == sync' = [sync EXCEPT ![p].pc = pc]
Syncing(p) == sync[p].pc \notin {"idle", "done"}

\* A path at the remote is taken, whether the file there is whole or not.
Present == remote.objects \cup remote.partial

Copying == {sync[p].at : p \in {q \in PushCalls : sync[q].pc = "copy"}}

\* A commit whose objects are whole unless a copy of them is under way or was cut.
Resolves(c) == needs[c] \subseteq remote.objects \cup Copying \cup cut

Targets(refs) == {refs[r] : r \in Refs} \ {NoCommit}
AllNeeds(commits) == UNION {needs[c] : c \in commits}

\* The commits of a repository that a branch may be made at.
Reachable(d) == Targets(d.heads) \cup Targets(d.tracking)

-----------------------------------------------------------------------------
(***************************************************************************)
(* Commits.                                                                *)
(***************************************************************************)
Committed(d, r) ==
    LET c == Len(needs) + 1 IN [d EXCEPT !.heads[r] = c, !.loose = @ \cup {c}]

\* The first commit of a registration; there is none if the branch has one already.
SyncFirstCommit(c) ==
    LET d == dirs[NameOf[c]] IN
    IF d.heads[DefaultRef] = NoCommit
    THEN /\ Len(needs) < MaxCommits
         /\ FirstCommit(c, Committed(d, DefaultRef))
         /\ needs' = Append(needs, {Len(needs) + 1})
    ELSE FirstCommit(c, d) /\ UNCHANGED needs

\* A commit of a workspace on its branch, or on a new branch from any ref.
CommitOnBranch(p) ==
    LET n == RepoOf[p]
        r == BranchOf[p]
    IN  /\ p \in CommitCalls /\ sync[p].pc = "idle"
        /\ IsRepository(dirs[n]) /\ n \in records
        /\ Len(needs) < MaxCommits
        /\ \E base \in IF dirs[n].heads[r] = NoCommit THEN Reachable(dirs[n])
                       ELSE {dirs[n].heads[r]} :
              /\ needs' = Append(needs, needs[base] \cup {Len(needs) + 1})
              /\ dirs' = [dirs EXCEPT ![n] = Committed(@, r)]
        /\ SyncGoto(p, "done")
        /\ UNCHANGED <<records, nameLog, placements, catalog, answer, remote, cut>>

-----------------------------------------------------------------------------
(***************************************************************************)
(* push_remote.                                                            *)
(***************************************************************************)

\* resolve_push_updates: every source must be there.
ResolveUpdates(p) ==
    LET d == dirs[RepoOf[p]]
        found == /\ IsRepository(d) /\ RepoOf[p] \in records
                 /\ \A i \in DOMAIN Refspecs[p] : d.heads[Refspecs[p][i][1]] # NoCommit
    IN  /\ p \in PushCalls /\ sync[p].pc = "idle"
        /\ \E e \in (IF p \in Expecting THEN Targets(remote.refs) ELSE {}) \cup {NoCommit} :
             sync' = [sync EXCEPT ![p] =
                IF found
                THEN [IdleSync EXCEPT !.pc = "compare", !.expected = e,
                        !.targets = [i \in DOMAIN Refspecs[p] |-> d.heads[Refspecs[p][i][1]]]]
                ELSE [IdleSync EXCEPT !.pc = "done"]]
        /\ UNCHANGED <<needs, remote, cut, catalogVars>>

\* before_refs: already_applied needs no push, and expectedRemoteHead is compared.
CompareHeads(p) ==
    LET Holds(i, c) == remote.refs[Refspecs[p][i][2]] = c
        applied == \A i \in DOMAIN Refspecs[p] : Holds(i, sync[p].targets[i])
        expected == sync[p].expected # NoCommit =>
                      \A i \in DOMAIN Refspecs[p] : Holds(i, sync[p].expected)
    IN  /\ sync[p].pc = "compare"
        /\ SyncGoto(p, IF applied \/ ~expected THEN "done" ELSE "list")
        /\ UNCHANGED <<needs, remote, cut, catalogVars>>

\* copy_loose_objects reads the directory, if it is still there.
ListLoose(p) ==
    LET d == dirs[RepoOf[p]] IN
    /\ sync[p].pc = "list"
    /\ sync' = [sync EXCEPT ![p] = IF IsRepository(d)
                                   THEN [@ EXCEPT !.pc = "check", !.todo = d.loose]
                                   ELSE [@ EXCEPT !.pc = "done"]]
    /\ UNCHANGED <<needs, remote, cut, catalogVars>>

\* `!target.exists()`: objects come in any order, and one that is there is passed over.
CheckTarget(p) ==
    /\ sync[p].pc = "check"
    /\ \/ \E c \in sync[p].todo \ Present :
             sync' = [sync EXCEPT ![p].pc = "open", ![p].at = c]
       \/ /\ sync[p].todo \subseteq Present
          /\ SyncGoto(p, "write")
    /\ UNCHANGED <<needs, remote, cut, catalogVars>>

\* Mutant: an object that cannot be read is passed over.
OpenTargetAnyway(p) ==
    LET d == dirs[RepoOf[p]]
        c == sync[p].at
    IN  /\ sync[p].pc = "open"
        /\ IF IsRepository(d) /\ c \in d.loose
           THEN /\ remote' = [remote EXCEPT !.objects = @ \ {c}, !.partial = @ \cup {c}]
                /\ SyncGoto(p, "copy")
           ELSE /\ sync' = [sync EXCEPT ![p].pc = "check", ![p].todo = @ \ {c}]
                /\ UNCHANGED remote
        /\ UNCHANGED <<needs, cut, catalogVars>>

\* fs::copy opens its source, and makes or truncates its target ...
OpenTarget(p) ==
    LET d == dirs[RepoOf[p]]
        c == sync[p].at
    IN  /\ sync[p].pc = "open"
        /\ IF IsRepository(d) /\ c \in d.loose
           THEN /\ remote' = [remote EXCEPT !.objects = @ \ {c}, !.partial = @ \cup {c}]
                /\ SyncGoto(p, "copy")
           ELSE /\ SyncGoto(p, "done")
                /\ UNCHANGED remote
        /\ UNCHANGED <<needs, cut, catalogVars>>

\* ... and writes it.  A file that another push has truncated is whole when that one ends.
CopyObject(p) ==
    LET c == sync[p].at
        others == \E q \in PushCalls \ {p} : sync[q].pc = "copy" /\ sync[q].at = c
    IN  /\ sync[p].pc = "copy"
        /\ remote' = IF others THEN remote
                     ELSE [remote EXCEPT !.objects = @ \cup {c}, !.partial = @ \ {c}]
        /\ SyncGoto(p, "check")
        /\ UNCHANGED <<needs, cut, catalogVars>>

\* write_ref for one update after the other.
WriteRef(p) ==
    LET s == sync[p]
        i == Len(Refspecs[p]) - Len(s.targets) + 1
    IN  /\ s.pc = "write"
        /\ IF s.targets = <<>>
           THEN SyncGoto(p, "done") /\ UNCHANGED remote
           ELSE /\ remote' = [remote EXCEPT !.refs[Refspecs[p][i][2]] = Head(s.targets)]
                /\ sync' = [sync EXCEPT ![p].targets = Tail(@)]
        /\ UNCHANGED <<needs, cut, catalogVars>>

-----------------------------------------------------------------------------
(***************************************************************************)
(* fetch_remote with its default refspec, +refs/heads/*:refs/remotes/*.    *)
(***************************************************************************)

\* connect and receive: the pack has what the refs need and the repository has not; a
\* remote that cannot read an object it must send fails the fetch.
ReceivePack(f) ==
    LET d == dirs[RepoOf[f]]
        wanted == AllNeeds(Targets(remote.refs)) \ (d.loose \cup d.packed)
    IN  /\ f \in FetchCalls /\ sync[f].pc = "idle"
        /\ IF IsRepository(d) /\ RepoOf[f] \in records /\ wanted \subseteq remote.objects
           THEN /\ dirs' = [dirs EXCEPT ![RepoOf[f]].packed = @ \cup wanted]
                /\ sync' = [sync EXCEPT ![f] = [IdleSync EXCEPT !.pc = "track", !.refs = remote.refs]]
           ELSE SyncGoto(f, "done") /\ UNCHANGED dirs
        /\ UNCHANGED <<needs, remote, cut, records, nameLog, placements, catalog, answer>>

\* The refs the remote had advertised.
MoveTracking(f) ==
    LET n == RepoOf[f] IN
    /\ sync[f].pc = "track"
    /\ dirs' = IF IsRepository(dirs[n])
               THEN [dirs EXCEPT ![n].tracking =
                       [r \in Refs |-> IF sync[f].refs[r] = NoCommit THEN @[r]
                                       ELSE sync[f].refs[r]]]
               ELSE dirs
    /\ SyncGoto(f, "done")
    /\ UNCHANGED <<needs, remote, cut, records, nameLog, placements, catalog, answer>>

SyncStep(p) ==
    \/ ResolveUpdates(p) \/ CompareHeads(p) \/ ListLoose(p) \/ CheckTarget(p)
    \/ OpenTarget(p) \/ CopyObject(p) \/ WriteRef(p)
    \/ ReceivePack(p) \/ MoveTracking(p) \/ CommitOnBranch(p)

\* What a copy had not written is never written: its path is taken.
SyncRestart ==
    /\ sync' = [p \in SyncCalls |-> IdleSync]
    /\ cut' = cut \cup remote.partial
    /\ UNCHANGED <<needs, remote>>

\* A name whose repository was retired is not registered anew while a push or a fetch of
\* the old one runs: nothing in the code keeps them apart, and the push would go on with
\* the objects of the new one.
SeparateSync(c) ==
    c \in Registers /\ catalog[c] = "idle" /\ ~IsRepository(dirs[NameOf[c]]) =>
        \A p \in SyncCalls : Syncing(p) => RepoOf[p] # NameOf[c]

-----------------------------------------------------------------------------
(***************************************************************************)
(* Properties.                                                             *)
(***************************************************************************)

\* push_remote writes refs into a repository other servers read: what a ref of the remote
\* names is there with all its ancestors, of several pushes and fetches that interleave,
\* with repositories retired under them, and whatever is packed, which no push copies.
\* Only an object whose copy runs, or was cut by a restart, may not be whole.  So are, in
\* every repository, the objects of its own branches and tracking refs.
RefsResolve ==
    /\ \A c \in Targets(remote.refs) : Resolves(c)
    /\ \A n \in Names :
         IsRepository(dirs[n]) =>
            AllNeeds(Reachable(dirs[n])) \subseteq dirs[n].loose \cup dirs[n].packed
=============================================================================
