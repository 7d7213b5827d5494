--------------------------- MODULE WorkspaceLease ---------------------------
(***************************************************************************)
(* Workspace sessions and the writable branch leases of the treedx_store   *)
(* crate (crates/treedx_store/src/workspace/mod.rs), as the API process    *)
(* calls it: each function runs in the HTTP request's own process on a     *)
(* dirty scheduler, reads its records, decides, and writes them back.  One *)
(* read or write of one record is atomic (the log's mutex, see TdbLog);    *)
(* the function around them is not, so it is a sequence of steps here, and *)
(* a function that has returned an error or found nothing to do is no step *)
(* at all.                                                                 *)
(*                                                                         *)
(* A workspace id stands for one request (repository, actor, base, branch, *)
(* mode, paths): put_workspace answers any other request that reuses the   *)
(* id with a conflict.  A lease that was released is as good as none.  An   *)
(* expiry time is kept as the time that is left until it.                  *)
(***************************************************************************)
EXTENDS Integers, Sequences, FiniteSets

CONSTANTS
    Workspaces,      \* workspace ids
    Branches,        \* branches of the repository
    NoBranch,        \* the branch of a read-only workspace
    BranchOf,        \* the branch each workspace asks for
    Procs,           \* requests that may be running at the same time
    Shas,            \* commits
    NoSha,           \* not committed
    Ttls,            \* lifetimes a request may ask for
    MaxCrashes,      \* bound on the restarts of the API process
    ForeignRelease   \* FALSE: nobody closes, quarantines or cleans up a
                     \* workspace whose lease another one has taken over

ASSUME LeaseConstants ==
    /\ IsFiniteSet(Workspaces)
    /\ NoBranch \notin Branches
    /\ BranchOf \in [Workspaces -> Branches \cup {NoBranch}]
    /\ NoSha \notin Shas
    /\ Ttls \subseteq Nat \ {0}
    /\ MaxCrashes \in Nat
    /\ ForeignRelease \in BOOLEAN

VARIABLES
    sessions,   \* workspaces/sessions.tdb
    leases,     \* leases/leases.tdb: the active lease of each branch
    dirs,       \* workspaces whose directory under workspaces/active exists
    calls,      \* the store function each process is in
    crashes

leaseVars == <<sessions, leases, dirs, calls, crashes>>

-----------------------------------------------------------------------------
Statuses == {"ready", "committed", "closed", "expired", "quarantined"}

\* sha is commit_sha, leased says that lease_id is set: it never is unset again.
Sessions == [status : Statuses, left : Nat, leased : BOOLEAN, sha : Shas \cup {NoSha}]
NoSession == [status |-> "none", left |-> 0, leased |-> FALSE, sha |-> NoSha]

Leases == [owner : Workspaces, left : Nat]
Free == [owner |-> NoBranch, left |-> 0]

\* What a call still has to do: a sequence of records it read and changed, the
\* first of which it is writing back.
Tasks == [ws : Workspaces, rec : Sessions]
Idle == [pc |-> "idle", todo |-> <<>>]

LeaseInit ==
    /\ sessions = [w \in Workspaces |-> NoSession]
    /\ leases = [b \in Branches |-> Free]
    /\ dirs = {}
    /\ calls = [p \in Procs |-> Idle]
    /\ crashes = 0

\* The branch and the lease of a workspace that asked for one.
IsWritable(w) == BranchOf[w] # NoBranch
Held(b) == leases[b] # Free /\ leases[b].left > 0

\* w still has the lease it was given, or nobody has it.
NotTakenOver(w) ==
    sessions[w].leased => leases[BranchOf[w]] = Free \/ leases[BranchOf[w]].owner = w

MayRelease(w) == ForeignRelease \/ NotTakenOver(w)

Begin(p, pc, todo) ==
    /\ calls[p] = Idle
    /\ calls' = [calls EXCEPT ![p] = [pc |-> pc, todo |-> todo]]

Task(w, rec) == <<[ws |-> w, rec |-> rec]>>

\* Mutant: the lease stays with a workspace that has ended.
FinishKeepsLease(p, w, rec) == Begin(p, "store", Task(w, rec))

\* A call that changed a record to rec: it releases the lease, then writes rec.
Finish(p, w, rec) ==
    Begin(p, IF rec.leased THEN "release" ELSE "store", Task(w, rec))

-----------------------------------------------------------------------------
(***************************************************************************)
(* The functions, up to their first write.                                 *)
(***************************************************************************)

\* put_workspace refuses the id of a live or committed workspace.
MayOpen(w) == sessions[w].status \notin {"ready", "committed"}

\* persist_workspace makes the directory, put_workspace looks up the id; an
\* existing live session is returned as it is.
CreateWorkspace(p, w, ttl) ==
    /\ MayOpen(w)
    /\ dirs' = dirs \cup {w}
    /\ Begin(p, IF IsWritable(w) THEN "acquire" ELSE "store",
             Task(w, [status |-> "ready", left |-> ttl,
                      leased |-> IsWritable(w), sha |-> NoSha]))
    /\ UNCHANGED <<sessions, leases, crashes>>

\* The same request for a session that is not free to open: persist_workspace has
\* made the directory before put_workspace answers.
CreateRefused(p, w) ==
    /\ calls[p] = Idle
    /\ ~MayOpen(w)
    /\ dirs' = dirs \cup {w}
    /\ UNCHANGED <<sessions, leases, calls, crashes>>

\* mark_workspace_committed.
MarkCommitted(p, w, sha) ==
    /\ sessions[w].status = "ready"
    /\ MayRelease(w)
    /\ Finish(p, w, [sessions[w] EXCEPT !.status = "committed", !.sha = sha])
    /\ UNCHANGED <<sessions, leases, dirs, crashes>>

\* close_workspace, which abandon ends with too.
CloseWorkspace(p, w) ==
    /\ sessions[w].status \notin {"none", "closed"}
    /\ MayRelease(w)
    /\ dirs' = dirs \ {w}
    /\ Finish(p, w, [sessions[w] EXCEPT !.status = "closed"])
    /\ UNCHANGED <<sessions, leases, crashes>>

\* Mutant: a session that has ended already is quarantined like any other.
QuarantineEnded(p, w) ==
    /\ sessions[w] # NoSession
    /\ MayRelease(w)
    /\ Finish(p, w, [sessions[w] EXCEPT !.status = "quarantined"])
    /\ UNCHANGED <<sessions, leases, dirs, crashes>>

\* quarantine_workspace: a session that has ended already is only annotated.
Quarantine(p, w) ==
    /\ sessions[w] # NoSession
    /\ IF sessions[w].status = "ready"
       THEN /\ MayRelease(w)
            /\ Finish(p, w, [sessions[w] EXCEPT !.status = "quarantined"])
       ELSE Begin(p, "store", Task(w, sessions[w]))
    /\ UNCHANGED <<sessions, leases, dirs, crashes>>

\* update_workspace_policy: the whole record is written back.
UpdatePolicy(p, w) ==
    /\ sessions[w] # NoSession
    /\ Begin(p, "store", Task(w, sessions[w]))
    /\ UNCHANGED <<sessions, leases, dirs, crashes>>

Expired(w) == sessions[w].status = "ready" /\ sessions[w].left = 0

\* Sessions whose directory cleanup_expired_workspaces removes and no more.
Retired(w) == sessions[w].status \in {"closed", "expired", "quarantined"}

\* cleanup_expired_workspaces lists all sessions once, then goes through the list.
CleanupExpired(p) ==
    LET listed == {w \in Workspaces : Expired(w) \/ Retired(w)} IN
    /\ listed # {}
    /\ \A w \in listed : Expired(w) => MayRelease(w)
    /\ \E order \in [1 .. Cardinality(listed) -> listed] :
         /\ \A w \in listed : \E i \in DOMAIN order : order[i] = w
         /\ Begin(p, "next", [i \in DOMAIN order |->
                                [ws |-> order[i], rec |-> sessions[order[i]]]])
    /\ UNCHANGED <<sessions, leases, dirs, crashes>>

-----------------------------------------------------------------------------
(***************************************************************************)
(* Their writes.                                                           *)
(***************************************************************************)
At(p, pc) == calls[p].pc = pc
Current(p) == Head(calls[p].todo)
BranchAt(p) == BranchOf[Current(p).ws]
GoTo(p, pc) == calls' = [calls EXCEPT ![p].pc = pc]

\* The call is done with its first record.
Continue(p) ==
    calls' = [calls EXCEPT ![p] =
        IF Len(@.todo) = 1 THEN Idle ELSE [pc |-> "next", todo |-> Tail(@.todo)]]

\* Mutant: the comparison of the expiry time the other way round.
LeaseExpired(b) == leases[b] # Free /\ leases[b].left = 0

\* Whether acquire_writable_lease finds a lease it has to respect.
LeaseActive(b) == Held(b)

\* acquire_writable_lease, its read: the workspace's own lease is returned as it
\* is, anybody else's is a conflict.
AcquireLease(p) ==
    /\ At(p, "acquire")
    /\ IF ~LeaseActive(BranchAt(p)) THEN GoTo(p, "take")
       ELSE IF leases[BranchAt(p)].owner = Current(p).ws THEN GoTo(p, "store")
       ELSE calls' = [calls EXCEPT ![p] = Idle]
    /\ UNCHANGED <<sessions, leases, dirs, crashes>>

\* acquire_writable_lease, its write.
TakeLease(p) ==
    /\ At(p, "take")
    /\ leases' = [leases EXCEPT ![BranchAt(p)] =
                    [owner |-> Current(p).ws, left |-> Current(p).rec.left]]
    /\ GoTo(p, "store")
    /\ UNCHANGED <<sessions, dirs, crashes>>

\* One turn of the loop of cleanup_expired_workspaces.
CleanupNext(p) ==
    /\ At(p, "next")
    /\ dirs' = dirs \ {Current(p).ws}
    /\ IF Current(p).rec.status = "ready"
       THEN calls' = [calls EXCEPT ![p].pc = IF Current(p).rec.leased THEN "release" ELSE "store",
                                   ![p].todo[1].rec.status = "expired"]
       ELSE Continue(p)
    /\ UNCHANGED <<sessions, leases, crashes>>

\* release_lease: whoever holds the lease of the branch now.
ReleaseLease(p) ==
    /\ At(p, "release")
    /\ leases' = [leases EXCEPT ![BranchAt(p)] = Free]
    /\ GoTo(p, "store")
    /\ UNCHANGED <<sessions, dirs, crashes>>

\* put_record of the session.
StoreSession(p) ==
    /\ At(p, "store")
    /\ sessions' = [sessions EXCEPT ![Current(p).ws] = Current(p).rec]
    /\ Continue(p)
    /\ UNCHANGED <<leases, dirs, crashes>>

Elapse(t) == IF t = 0 THEN 0 ELSE t - 1

\* Time passes for every record, also for those a call has read and will write.
Tick ==
    /\ sessions' = [w \in Workspaces |-> [sessions[w] EXCEPT !.left = Elapse(@)]]
    /\ leases' = [b \in Branches |-> [leases[b] EXCEPT !.left = Elapse(@)]]
    /\ calls' = [p \in Procs |->
         [calls[p] EXCEPT !.todo =
            [i \in DOMAIN calls[p].todo |-> [calls[p].todo[i] EXCEPT !.rec.left = Elapse(@)]]]]
    /\ UNCHANGED <<dirs, crashes>>

\* The API process stops; its requests are gone, the records stay.
CrashRestart ==
    /\ crashes < MaxCrashes
    /\ crashes' = crashes + 1
    /\ calls' = [p \in Procs |-> Idle]
    /\ UNCHANGED <<sessions, leases, dirs>>

-----------------------------------------------------------------------------
StartCall(p) ==
    \/ \E w \in Workspaces, ttl \in Ttls : CreateWorkspace(p, w, ttl)
    \/ \E w \in Workspaces : CreateRefused(p, w)
    \/ \E w \in Workspaces, sha \in Shas : MarkCommitted(p, w, sha)
    \/ \E w \in Workspaces : CloseWorkspace(p, w)
    \/ \E w \in Workspaces : Quarantine(p, w)
    \/ \E w \in Workspaces : UpdatePolicy(p, w)
    \/ CleanupExpired(p)

StepCall(p) ==
    \/ AcquireLease(p)
    \/ TakeLease(p)
    \/ CleanupNext(p)
    \/ ReleaseLease(p)
    \/ StoreSession(p)

LeaseNext ==
    \/ \E p \in Procs : StartCall(p)
    \/ \E p \in Procs : StepCall(p)
    \/ Tick
    \/ CrashRestart

LeaseSpec == LeaseInit /\ [][LeaseNext]_leaseVars

-----------------------------------------------------------------------------
(***************************************************************************)
(* Properties.                                                             *)
(***************************************************************************)
LeaseTypeOK ==
    /\ sessions \in [Workspaces -> Sessions \cup {NoSession}]
    /\ leases \in [Branches -> Leases \cup {Free}]
    /\ dirs \subseteq Workspaces
    /\ calls \in [Procs -> [pc : {"idle", "acquire", "take", "next", "release", "store"},
                            todo : Seq(Tasks)]]
    /\ crashes \in 0 .. MaxCrashes

\* What Files.workspace_writable lets a request write to.
Writable(w) ==
    /\ sessions[w].status = "ready"
    /\ sessions[w].left > 0
    /\ sessions[w].leased

\* README.md: "TreeDX permits one active writable lease per repository branch": no two
\* workspaces of one branch pass the check that lets a request write
\* (put_workspace, acquire_writable_lease, release_lease).
Exclusive ==
    \A v, w \in Workspaces :
        Writable(v) /\ Writable(w) /\ BranchOf[v] = BranchOf[w] => v = w

\* The same as long as no call was cut off: a restart between the write of a lease and
\* the write of a session leaves the two apart for good, and nothing reconciles them.
ExclusiveUntilRestart == crashes = 0 => Exclusive

Quiet == crashes = 0 /\ \A p \in Procs : calls[p] = Idle

\* The records of the two logs agree: between requests, until the first restart, a
\* workspace can be written to exactly when it owns the unexpired lease of its branch,
\* so that no branch stays locked by a workspace that has ended and no workspace writes
\* without the lease.
LeaseMatchesSession ==
    Quiet => \A w \in Workspaces :
        BranchOf[w] # NoBranch =>
            (Writable(w) <=> Held(BranchOf[w]) /\ leases[BranchOf[w]].owner = w)

\* README.md: "Commit finalizes the writable workspace: status becomes `committed`": a
\* committed session can only be closed, and keeps its commit
\* (mark_workspace_committed against every other function that writes sessions).
CommittedIsFinal ==
    [][\A w \in Workspaces : sessions[w].status = "committed" =>
         /\ sessions'[w].status \in {"committed", "closed"}
         /\ sessions'[w].sha = sessions[w].sha]_leaseVars
=============================================================================
