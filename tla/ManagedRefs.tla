----------------------------- MODULE ManagedRefs -----------------------------
(***************************************************************************)
(* The branch refs of one managed repository: the commit a workspace makes *)
(* (crates/treedx_git/src/commit/mod.rs), and the promotion, retirement    *)
(* and discarding of refs (apps/api/lib/treedx/access/git.ex, reached from *)
(* access/pushes.ex).  Several requests run at the same time; each git     *)
(* call reads or writes one ref atomically, and `git update-ref` with an   *)
(* old value is a compare-and-swap.  A request that ends in an error       *)
(* changes nothing and is not a step, except where it had already begun.   *)
(*                                                                         *)
(* A commit is its number; 0 stands for a ref that does not exist.         *)
(***************************************************************************)
EXTENDS Naturals, Sequences, FiniteSets

CONSTANTS
    Branches,       \* the refs of the repository
    Default,        \* its default ref
    WorkBranches,   \* refs that workspaces are opened on
    Targets,        \* refs that other refs are promoted to
    Requests,       \* requests that may run at the same time
    MaxCommits      \* bound on the commits

ASSUME RefConstants ==
    /\ Default \in Branches
    /\ WorkBranches \subseteq Branches
    /\ Targets \subseteq Branches
    /\ MaxCommits \in Nat \ {0}

VARIABLES
    refs,        \* the commit of each branch
    parents,     \* the parents of each commit
    preserved,   \* the commits with a refs/treedx/commits/<id> ref
    requests,    \* what each request has read and has still to do
    reported     \* history: commits whose request was answered "committed"

refVars == <<refs, parents, preserved, requests, reported>>

-----------------------------------------------------------------------------
Commits == DOMAIN parents

\* `git merge-base --is-ancestor`: every history that holds c holds a.
IsHistory(S) == \A d \in S : parents[d] \subseteq S
IsAncestor(a, c) == \A S \in SUBSET Commits : c \in S /\ IsHistory(S) => a \in S

\* What a request has read (old and new), and of its workspace: whether it holds the lease
\* of its branch, the commits it has written, and, as history, whether another workspace has
\* moved the branch although one of the two did not hold the lease.
Request(op, ref, into, old, new) ==
    [op |-> op, ref |-> ref, into |-> into, old |-> old, new |-> new,
     leased |-> FALSE, own |-> {}, overtaken |-> FALSE]
NoRequest == Request("none", Default, Default, 0, 0)

RefInit ==
    /\ refs = [b \in Branches |-> IF b = Default THEN 1 ELSE 0]
    /\ parents = <<{}>>
    /\ preserved = {}
    /\ requests = [r \in Requests |-> NoRequest]
    /\ reported = {}

Start(r, op, ref, into, old, new) ==
    /\ requests[r].op = "none"
    /\ requests' = [requests EXCEPT ![r] = Request(op, ref, into, old, new)]
    /\ UNCHANGED <<refs, parents, preserved, reported>>

\* The states of a workspace, from its base to its answer.
WorkspaceOps == {"base", "checked", "open", "set", "preserve", "answer"}

At(r, op) == requests[r].op = op
GoTo(r, op) == requests' = [requests EXCEPT ![r].op = op]
End(r) == requests' = [requests EXCEPT ![r] = NoRequest]

-----------------------------------------------------------------------------
(***************************************************************************)
(* A workspace: opened at the head of a base ref, committed later.         *)
(***************************************************************************)

\* ensure_branch_start: the branch is new, or still at the base commit.
BranchStartOk(b, base) == refs[b] \in {0, base}

\* Workspaces.create resolves the base ref.
OpenWorkspace(r, b, base_ref) ==
    /\ refs[base_ref] # 0
    /\ Start(r, "base", b, base_ref, refs[base_ref], 0)

\* It looks at the branch, in a git call of its own.
CheckBranchStart(r) ==
    /\ At(r, "base")
    /\ BranchStartOk(requests[r].ref, requests[r].old)
    /\ GoTo(r, "checked")
    /\ UNCHANGED <<refs, parents, preserved, reported>>

\* Mutant: the lease is taken whoever holds it.
UnleasedAlways(b) == TRUE

\* No other workspace holds the lease of the branch.
Unleased(b) == \A r \in Requests : requests[r].leased => requests[r].ref # b

\* put_workspace takes the lease, later still.
AcquireLease(r) ==
    /\ At(r, "checked")
    /\ Unleased(requests[r].ref)
    /\ requests' = [requests EXCEPT ![r].op = "open", ![r].leased = TRUE]
    /\ UNCHANGED <<refs, parents, preserved, reported>>

\* The lease expires, is released by its branch, or is overwritten by a workspace that had
\* read it before; the workspace does not notice, nor does a commit that has begun.
LoseLease(r) ==
    /\ requests[r].leased
    /\ requests' = [requests EXCEPT ![r].leased = FALSE]
    /\ UNCHANGED <<refs, parents, preserved, reported>>

\* commit_overlay writes the blobs, the tree and the commit object: its parents
\* are the base and, if asked for, the head of one more ref.
WriteCommit(r, extra) ==
    /\ At(r, "open")
    /\ Len(parents) < MaxCommits
    /\ extra \in Branches => refs[extra] # 0
    /\ parents' = Append(parents, {requests[r].old} \cup
                                  (IF extra \in Branches THEN {refs[extra]} ELSE {}))
    /\ requests' = [requests EXCEPT ![r].op = "set", ![r].new = Len(parents) + 1,
                                   ![r].own = @ \cup {Len(parents) + 1}]
    /\ UNCHANGED <<refs, preserved, reported>>

\* A workspace on the branch of r that r's commit overtakes: they do not both hold the lease.
Overtaken(r, s) ==
    /\ s # r
    /\ requests[s].op \in WorkspaceOps \ {"base"}
    /\ requests[s].ref = requests[r].ref
    /\ ~(requests[r].leased /\ requests[s].leased)

\* repo.reference(branch, commit, PreviousValue::Any).
SetBranch(r) ==
    /\ At(r, "set")
    /\ refs' = [refs EXCEPT ![requests[r].ref] = requests[r].new]
    /\ requests' = [s \in Requests |->
         [requests[s] EXCEPT !.op = IF s = r THEN "preserve" ELSE @,
                             !.overtaken = @ \/ Overtaken(r, s)]]
    /\ UNCHANGED <<parents, preserved, reported>>

\* Mutant: only the branch keeps the commit.
PreserveNothing(r) ==
    /\ At(r, "preserve")
    /\ GoTo(r, "answer")
    /\ UNCHANGED <<refs, parents, preserved, reported>>

\* repo.reference("refs/treedx/commits/<id>", commit, PreviousValue::MustNotExist).
PreserveCommit(r) ==
    /\ At(r, "preserve")
    /\ preserved' = preserved \cup {requests[r].new}
    /\ GoTo(r, "answer")
    /\ UNCHANGED <<refs, parents, reported>>

Answer(r) ==
    /\ At(r, "answer")
    /\ reported' = reported \cup {requests[r].new}
    /\ End(r)
    /\ UNCHANGED <<refs, parents, preserved>>

\* A git call of the commit or the mark of the session fails or is cut off: whatever reached
\* the repository stays, and the workspace may be committed again.
CommitFails(r) ==
    /\ requests[r].op \in {"set", "preserve", "answer"}
    /\ GoTo(r, "open")
    /\ UNCHANGED <<refs, parents, preserved, reported>>

\* The request ends without more: the workspace is closed or has expired, a check fails, the
\* lease is another's, or the API process stops.
GiveUp(r) ==
    /\ ~At(r, "none")
    /\ End(r)
    /\ UNCHANGED <<refs, parents, preserved, reported>>

-----------------------------------------------------------------------------
(***************************************************************************)
(* promote_ref, retire_ref, discard_ref: read and check, then swap.        *)
(***************************************************************************)

\* Mutant: expectedDestinationHead is all that is checked.
PromotableIfExpected(dst, src) == TRUE

\* require_fast_forward.
Promotable(dst, src) == IsAncestor(dst, src)

\* promote_ref up to update_ref_if_needed, for a request whose
\* expectedDestinationHead is the destination's head; a missing destination is
\* created from an expected commit that exists.  Nothing to do if it is current.
PromoteCheck(r, src, dst) ==
    /\ src # dst
    /\ refs[src] # 0 /\ refs[src] # refs[dst]
    /\ \E expected \in IF refs[dst] = 0 THEN Commits ELSE {refs[dst]} :
         Promotable(expected, refs[src])
    /\ Start(r, "promote", dst, src, refs[dst], refs[src])

\* The old value git update-ref compares.
SwapHolds(r) == refs[requests[r].ref] = requests[r].old

\* git update-ref <destination> <source> <old>.
PromoteSwap(r) ==
    /\ At(r, "promote")
    /\ refs' = IF SwapHolds(r) THEN [refs EXCEPT ![requests[r].ref] = requests[r].new] ELSE refs
    /\ End(r)
    /\ UNCHANGED <<parents, preserved, reported>>

\* retire_ref up to delete_ref, for a request that expects the current heads.
RetireCheck(r, b, into) ==
    /\ b # into /\ b # Default
    /\ refs[b] # 0 /\ refs[into] # 0
    /\ IsAncestor(refs[b], refs[into])
    /\ Start(r, "retire", b, into, refs[b], refs[into])

\* Mutant: update-ref -d without the old value.
RetireDeleteForced(r) ==
    /\ At(r, "retire")
    /\ refs' = [refs EXCEPT ![requests[r].ref] = 0]
    /\ End(r)
    /\ UNCHANGED <<parents, preserved, reported>>

\* git update-ref -d <ref> <old>.
RetireDelete(r) ==
    /\ At(r, "retire")
    /\ refs' = IF SwapHolds(r) THEN [refs EXCEPT ![requests[r].ref] = 0] ELSE refs
    /\ End(r)
    /\ UNCHANGED <<parents, preserved, reported>>

\* discard_ref, for discard_orphan and abandon: the default ref never; the exact
\* head is compared and swapped, so reading it first makes no difference.
Discard(r, b) ==
    /\ requests[r].op = "none"
    /\ b # Default
    /\ refs[b] # 0
    /\ refs' = [refs EXCEPT ![b] = 0]
    /\ UNCHANGED <<parents, preserved, requests, reported>>

-----------------------------------------------------------------------------
StartRequest(r) ==
    \/ \E b \in WorkBranches, base_ref \in Branches : OpenWorkspace(r, b, base_ref)
    \/ \E src \in Branches, dst \in Targets : PromoteCheck(r, src, dst)
    \/ \E b, into \in Branches : RetireCheck(r, b, into)
    \/ \E b \in Branches : Discard(r, b)

StepRequest(r) ==
    \/ CheckBranchStart(r)
    \/ AcquireLease(r)
    \/ LoseLease(r)
    \/ \E extra \in Branches \cup {"none"} : WriteCommit(r, extra)
    \/ SetBranch(r)
    \/ PreserveCommit(r)
    \/ Answer(r)
    \/ PromoteSwap(r)
    \/ RetireDelete(r)
    \/ CommitFails(r)
    \/ GiveUp(r)

RefNext == \E r \in Requests : StartRequest(r) \/ StepRequest(r)

RefSpec == RefInit /\ [][RefNext]_refVars

-----------------------------------------------------------------------------
(***************************************************************************)
(* Properties.                                                             *)
(***************************************************************************)
RefTypeOK ==
    /\ refs \in [Branches -> 0 .. Len(parents)]
    /\ Len(parents) \in 1 .. MaxCommits
    /\ \A c \in Commits : parents[c] \subseteq 1 .. c - 1
    /\ preserved \subseteq Commits
    /\ requests \in [Requests ->
         [op : {"none", "promote", "retire"} \cup WorkspaceOps,
          ref : Branches, into : Branches, old : 0 .. Len(parents), new : 0 .. Len(parents),
          leased : BOOLEAN, own : SUBSET Commits, overtaken : BOOLEAN]]
    /\ reported \subseteq Commits

\* What the repository's refs still reach, and so git never collects.
Heads == {refs[b] : b \in {d \in Branches : refs[d] # 0}}
Reachable == {a \in Commits : \E c \in preserved \cup Heads : IsAncestor(a, c)}

\* A commit whose workspace was told "committed" stays reachable, whatever is later
\* overwritten, retired or discarded (commit_overlay's preservation ref).
ReportedStaysReachable == reported \subseteq Reachable

\* docs/api/openapi.yaml: promotion "atomically fast-forward"s a branch: as long as no
\* workspace is opened on it, the default branch only ever moves to a descendant,
\* whatever promotions, retirements and commits run at the same time.
DefaultMovesForward ==
    [][refs'[Default] # 0 /\ IsAncestor(refs[Default], refs'[Default])]_refVars

\* retire_ref deletes merged branches only: at the moment of the deletion the default
\* branch still contains the deleted head, although that was checked in an earlier
\* git call and promotions go on.
RetiredIsMerged ==
    [][\A r \in Requests : RetireDelete(r) /\ refs' # refs /\ requests[r].into = Default =>
         IsAncestor(refs[requests[r].ref], refs[Default])]_refVars

\* commit_overlay moves its branch without comparing the old value, long after
\* ensure_branch_start looked at it.  It drops nothing from the branch but an earlier attempt
\* of its own workspace, as far as leases can prevent it: unless another workspace committed
\* there before this one had its lease, after this one had lost it, or without one of its own.
CommitDropsNothing ==
    [][\A r \in Requests : SetBranch(r) =>
         \/ refs[requests[r].ref] \in {0, requests[r].old} \cup requests[r].own
         \/ requests[r].overtaken]_refVars
=============================================================================
