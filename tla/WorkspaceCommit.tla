--------------------------- MODULE WorkspaceCommit ---------------------------
(***************************************************************************)
(* File requests on a workspace, from the first check to the commit        *)
(* (apps/api/lib/treedx/repository-storage/objects/files.ex,               *)
(* crates/treedx_store/src/workspace_files/mod.rs), composed with the      *)
(* sessions and leases of WorkspaceLease.  A request checks the session    *)
(* once, at its start, and acts on what it saw; a commit ends by calling   *)
(* the store's mark_workspace_committed.                                   *)
(*                                                                         *)
(* A workspace has one path here: every path of an overlay goes the same   *)
(* way.  The git side of a commit is one step; ManagedRefs has its steps.  *)
(***************************************************************************)
EXTENDS WorkspaceLease

CONSTANTS
    Contents,   \* what a file may hold
    Deleted,    \* the overlay's tombstone
    NoContent   \* no overlay record

ASSUME ContentConstants ==
    Deleted \notin Contents /\ NoContent \notin Contents \cup {Deleted}

VARIABLES
    overlay,    \* workspaces/files.tdb: the record of each workspace's path
    blobs,      \* the files under workspaces/active/<id>/overlay/blobs
    base,       \* the commit each workspace was opened at
    heads,      \* the head of each branch, NoSha at the repository's own commit
    made,       \* the commits: workspace and content
    requests,   \* the file request of each process
    acked,      \* history: the last write each workspace was told is done
    retired     \* history: workspaces whose directory was removed

fileVars == <<overlay, blobs, base, heads, made, requests, acked, retired>>
vars == <<leaseVars, fileVars>>

-----------------------------------------------------------------------------
NoRequest == [op |-> "none", ws |-> NoBranch, content |-> NoContent, sha |-> NoSha]
Requests == [op : {"blob", "record", "list", "git", "mark", "marking"},
             ws : Workspaces, content : Contents \cup {Deleted, NoContent},
             sha : Shas \cup {NoSha}]

Init ==
    /\ LeaseInit
    /\ overlay = [w \in Workspaces |-> NoContent]
    /\ blobs = [w \in Workspaces |-> {}]
    /\ base = [w \in Workspaces |-> NoSha]
    /\ heads = [b \in Branches |-> NoSha]
    /\ made = [s \in {} |-> NoRequest]
    /\ requests = [p \in Procs |-> NoRequest]
    /\ acked = [w \in Workspaces |-> NoContent]
    /\ retired = {}

Req(p) == requests[p]
Step(p, op) == requests[p].op = op
Become(p, req) == requests' = [requests EXCEPT ![p] = req]
End(p) == Become(p, NoRequest)
Available(p) == calls[p] = Idle /\ Step(p, "none")

\* What the functions of WorkspaceLease leave of the overlay blobs.
DirsFollow ==
    /\ blobs' = [w \in Workspaces |-> IF w \in dirs' THEN blobs[w] ELSE {}]
    /\ retired' = retired \cup (dirs \ dirs')
    /\ UNCHANGED <<overlay, heads, made, requests, acked>>

-----------------------------------------------------------------------------
(***************************************************************************)
(* Workspaces, as WorkspaceLease has them.                                 *)
(***************************************************************************)

\* Workspaces.create: the base is the head of the branch (ensure_branch_start); an id
\* that was used before is only given again for the same base.
Create(p, w, ttl) ==
    /\ Step(p, "none")
    /\ CreateWorkspace(p, w, ttl)
    /\ LET head == IF IsWritable(w) THEN heads[BranchOf[w]] ELSE NoSha IN
         /\ sessions[w] # NoSession => base[w] = head
         /\ base' = [base EXCEPT ![w] = head]
    /\ DirsFollow

ChangeWorkspace(p, w) ==
    /\ Step(p, "none")
    /\ \/ CloseWorkspace(p, w)
       \/ Quarantine(p, w)
       \/ UpdatePolicy(p, w)
       \/ CreateRefused(p, w)
    /\ DirsFollow
    /\ UNCHANGED base

Cleanup(p) ==
    /\ Step(p, "none")
    /\ CleanupExpired(p)
    /\ DirsFollow
    /\ UNCHANGED base

StepStore(p) ==
    /\ StepCall(p)
    /\ DirsFollow
    /\ UNCHANGED base

Pass ==
    /\ Tick
    /\ UNCHANGED fileVars

Crash ==
    /\ CrashRestart
    /\ requests' = [p \in Procs |-> NoRequest]
    /\ UNCHANGED <<overlay, blobs, base, heads, made, acked, retired>>

-----------------------------------------------------------------------------
(***************************************************************************)
(* Writing and deleting a file.                                            *)
(***************************************************************************)

\* Mutant: the record is put before the content is there.
WriteRecordFirst(p, w, c) ==
    /\ Available(p) /\ Writable(w)
    /\ Become(p, [op |-> "record", ws |-> w, content |-> c, sha |-> NoSha])
    /\ UNCHANGED <<leaseVars, overlay, blobs, base, heads, made, acked, retired>>

\* do_write, do_patch and Batch.write, up to put_workspace_file: writable_context.
WriteFile(p, w, c) ==
    /\ Available(p) /\ Writable(w)
    /\ Become(p, [op |-> "blob", ws |-> w, content |-> c, sha |-> NoSha])
    /\ UNCHANGED <<leaseVars, overlay, blobs, base, heads, made, acked, retired>>

\* do_delete: a tombstone has no content.
DeleteFile(p, w) ==
    /\ Available(p) /\ Writable(w)
    /\ overlay[w] # Deleted
    /\ Become(p, [op |-> "record", ws |-> w, content |-> Deleted, sha |-> NoSha])
    /\ UNCHANGED <<leaseVars, overlay, blobs, base, heads, made, acked, retired>>

\* prepare_workspace_file: create_dir_all, write the content under its hash.
PutBlob(p) ==
    /\ Step(p, "blob")
    /\ LET w == Req(p).ws IN
         /\ blobs' = [blobs EXCEPT ![w] = @ \cup {Req(p).content}]
         /\ dirs' = dirs \cup {w}
    /\ Become(p, [Req(p) EXCEPT !.op = "record"])
    /\ UNCHANGED <<sessions, leases, calls, crashes, overlay, base, heads, made, acked, retired>>

\* put_record of the workspace file; the client is told.
PutFileRecord(p) ==
    /\ Step(p, "record")
    /\ LET w == Req(p).ws IN
         /\ overlay' = [overlay EXCEPT ![w] = Req(p).content]
         /\ acked' = [acked EXCEPT ![w] = Req(p).content]
    /\ End(p)
    /\ UNCHANGED <<leaseVars, blobs, base, heads, made, retired>>

-----------------------------------------------------------------------------
(***************************************************************************)
(* do_commit.                                                              *)
(***************************************************************************)

\* Mutant: the session's status is not looked at.
CommittableAnyStatus(w) == sessions[w].left > 0 /\ sessions[w].leased

\* writable_context.
Committable(w) == Writable(w)

Commit(p, w) ==
    /\ Available(p) /\ Committable(w)
    /\ overlay[w] # NoContent
    /\ Become(p, [op |-> "list", ws |-> w, content |-> NoContent, sha |-> NoSha])
    /\ UNCHANGED <<leaseVars, overlay, blobs, base, heads, made, acked, retired>>

\* The content a record points to can be read.
Readable(w) == overlay[w] \in Contents => overlay[w] \in blobs[w]

\* Mutant: what the workspace holds now is never looked up.
ListNothing(p) ==
    /\ Step(p, "list")
    /\ Become(p, [Req(p) EXCEPT !.op = "git", !.content = Deleted])
    /\ UNCHANGED <<leaseVars, overlay, blobs, base, heads, made, acked, retired>>

\* list_workspace_files and commit_changes: an unreadable content is an error.
ListChanges(p) ==
    /\ Step(p, "list")
    /\ IF Readable(Req(p).ws)
       THEN Become(p, [Req(p) EXCEPT !.op = "git", !.content = overlay[Req(p).ws]])
       ELSE End(p)
    /\ UNCHANGED <<leaseVars, overlay, blobs, base, heads, made, acked, retired>>

\* TreeDx.Git.commit_overlay: a new commit on the base, and the branch set to it.
CommitOverlay(p) ==
    /\ Step(p, "git")
    /\ \E s \in Shas \ DOMAIN made :
         /\ made' = [t \in DOMAIN made \cup {s} |->
                       IF t = s THEN [ws |-> Req(p).ws, content |-> Req(p).content]
                                ELSE made[t]]
         /\ heads' = [heads EXCEPT ![BranchOf[Req(p).ws]] = s]
         /\ Become(p, [Req(p) EXCEPT !.op = "mark", !.sha = s])
    /\ UNCHANGED <<leaseVars, overlay, blobs, base, acked, retired>>

\* mark_workspace_committed begins, or refuses a session that is no longer ready.
MarkSession(p) ==
    /\ Step(p, "mark")
    /\ IF sessions[Req(p).ws].status = "ready"
       THEN /\ MarkCommitted(p, Req(p).ws, Req(p).sha)
            /\ Become(p, [Req(p) EXCEPT !.op = "marking"])
       ELSE End(p) /\ UNCHANGED leaseVars
    /\ UNCHANGED <<overlay, blobs, base, heads, made, acked, retired>>

\* The store has returned: the cache is invalidated and the client told.
Answer(p) ==
    /\ Step(p, "marking") /\ calls[p] = Idle
    /\ End(p)
    /\ UNCHANGED <<leaseVars, overlay, blobs, base, heads, made, acked, retired>>

-----------------------------------------------------------------------------
Next ==
    \/ \E p \in Procs, w \in Workspaces :
         \/ \E ttl \in Ttls : Create(p, w, ttl)
         \/ ChangeWorkspace(p, w)
         \/ \E c \in Contents : WriteFile(p, w, c)
         \/ DeleteFile(p, w)
         \/ Commit(p, w)
    \/ \E p \in Procs :
         \/ Cleanup(p)
         \/ StepStore(p)
         \/ PutBlob(p)
         \/ PutFileRecord(p)
         \/ ListChanges(p)
         \/ CommitOverlay(p)
         \/ MarkSession(p)
         \/ Answer(p)
    \/ Pass
    \/ Crash

Spec == Init /\ [][Next]_vars

-----------------------------------------------------------------------------
(***************************************************************************)
(* Properties.                                                             *)
(***************************************************************************)
TypeOK ==
    /\ LeaseTypeOK
    /\ overlay \in [Workspaces -> Contents \cup {Deleted, NoContent}]
    /\ blobs \in [Workspaces -> SUBSET Contents]
    /\ base \in [Workspaces -> Shas \cup {NoSha}]
    /\ heads \in [Branches -> Shas \cup {NoSha}]
    /\ DOMAIN made \subseteq Shas
    /\ \A s \in DOMAIN made :
         made[s] \in [ws : Workspaces, content : Contents \cup {Deleted}]
    /\ requests \in [Procs -> Requests \cup {NoRequest}]
    /\ acked \in [Workspaces -> Contents \cup {Deleted, NoContent}]
    /\ retired \subseteq Workspaces

\* No acknowledged write is missing from the commit that finalizes the workspace: the
\* commit recorded in a committed session holds the last content its client was told
\* is written (do_write, do_delete, commit_changes, mark_workspace_committed).
CommitHasAckedWrites ==
    \A w \in Workspaces :
        sessions[w].status = "committed" => made[sessions[w].sha].content = acked[w]

\* A commit drops nobody else's work from its branch: the head it replaces is the
\* commit the workspace was opened at, or an earlier commit of the same workspace
\* whose answer was lost (PreviousValue::Any in commit_overlay, the lease, and
\* ensure_branch_start). Until the first restart, which may take the lease away.
CommitOnTop ==
    [][\A p \in Procs : crashes = 0 /\ CommitOverlay(p) =>
         LET w == requests[p].ws
             head == heads[BranchOf[w]]
         IN  head = base[w] \/ made[head].ws = w]_vars

\* The git repository and the session log agree: when nothing is running, the head of
\* a branch is recorded in the session of the workspace that made it
\* (commit_overlay, then mark_workspace_committed, two stores), until the first restart.
HeadIsRecorded ==
    crashes = 0 /\ (\A p \in Procs : Available(p)) =>
        \A b \in Branches : heads[b] # NoSha =>
            sessions[made[heads[b]].ws].sha = heads[b]

\* An overlay record never points at content that is not there, wherever the process
\* stops, until the workspace's directory is removed for the first time
\* (prepare_workspace_file, then put_record).
OverlayReadable == \A w \in Workspaces \ retired : Readable(w)

=============================================================================
