-------------------------- MODULE ManagedRefsProofs --------------------------
(***************************************************************************)
(* What TLAPS proves of ManagedRefs for every set of branches and requests *)
(* and every number of commits: no request changes a ref on what it read   *)
(* without the git call that changes it still finding it true.             *)
(***************************************************************************)
EXTENDS ManagedRefs, SequenceTheorems, TLAPS

-----------------------------------------------------------------------------
(* What a request may still rely on.                                         *)

Working(r) == requests[r].op \in WorkspaceOps

\* Commits are numbered in the order they are written, after their parents.
HistoryInv == parents \in Seq(SUBSET Nat)

\* A workspace has a base, and then a commit.
CommitInv ==
    /\ \A r \in Requests : Working(r) => requests[r].old # 0
    /\ \A r \in Requests : requests[r].op \in {"set", "preserve", "answer"} =>
         requests[r].new # 0 /\ requests[r].new \in requests[r].own

\* A commit is preserved before it is reported.
PreservedInv ==
    /\ reported \subseteq preserved
    /\ \A r \in Requests : requests[r].op = "answer" => requests[r].new \in preserved

\* A promotion moves forward from what it expects; the default ref exists.
PromoteInv ==
    /\ refs[Default] # 0
    /\ \A r \in Requests : requests[r].op = "promote" =>
         /\ requests[r].ref \in Targets
         /\ requests[r].new # 0
         /\ requests[r].old # 0 => IsAncestor(requests[r].old, requests[r].new)

\* What a retirement found merged stays merged.
RetireInv ==
    \A r \in Requests : requests[r].op = "retire" =>
        /\ requests[r].ref # Default
        /\ requests[r].old # 0
        /\ requests[r].into = Default => IsAncestor(requests[r].old, refs[Default])

\* One workspace holds the lease of a branch.
LeaseInv ==
    /\ \A r \in Requests : Working(r) => requests[r].ref \in WorkBranches
    /\ \A r \in Requests : requests[r].leased => requests[r].op \in WorkspaceOps \ {"base"}
    /\ \A r, s \in Requests :
         requests[r].leased /\ requests[s].leased /\ r # s => requests[r].ref # requests[s].ref

\* The branch is where the workspace found it or put it, unless it was overtaken.
WorkInv ==
    \A r \in Requests : requests[r].op \in WorkspaceOps \ {"base"} /\ ~requests[r].overtaken =>
        refs[requests[r].ref] \in {0, requests[r].old} \cup requests[r].own

\* The workspaces of ManagedRefs_forward.cfg: none on a branch that is promoted to.
Separated == WorkBranches \cap Targets = {} /\ Default \notin WorkBranches

MoveInv == PromoteInv /\ RetireInv /\ WorkInv
RefInv ==
    /\ RefTypeOK /\ HistoryInv /\ CommitInv /\ PreservedInv /\ LeaseInv
    /\ Separated => MoveInv

-----------------------------------------------------------------------------
(* Ancestors.                                                                *)

LEMMA Reflexive == \A c : IsAncestor(c, c)
BY DEF IsAncestor

LEMMA Transitive == \A a, b, c : IsAncestor(a, b) /\ IsAncestor(b, c) => IsAncestor(a, c)
BY DEF IsAncestor

\* A new commit changes nobody's ancestors.
LEMMA NewCommit ==
  ASSUME RefTypeOK, HistoryInv, NEW X \in SUBSET Commits, parents' = Append(parents, X)
  PROVE  /\ HistoryInv' /\ Len(parents') = Len(parents) + 1
         /\ \A c \in Commits : c \in Commits' /\ parents'[c] = parents[c]
         /\ \A c \in Commits' : parents'[c] \subseteq 1 .. c - 1
         /\ \A a, c : c \in Commits /\ IsAncestor(a, c) => IsAncestor(a, c)'
<1>1. /\ parents \in Seq(SUBSET Nat) /\ Len(parents) \in Nat
      /\ Commits = 1 .. Len(parents)
      /\ \A c \in Commits : parents[c] \subseteq 1 .. c - 1
  BY DEF RefTypeOK, HistoryInv, Commits
<1>2. X \in SUBSET Nat
  BY <1>1
<1>3. /\ parents' \in Seq(SUBSET Nat) /\ Len(parents') = Len(parents) + 1
      /\ \A c \in 1 .. Len(parents) : parents'[c] = parents[c]
      /\ parents'[Len(parents) + 1] = X
      /\ Commits' = 1 .. Len(parents) + 1
  <2>1. /\ parents' \in Seq(SUBSET Nat) /\ Len(parents') = Len(parents) + 1
        /\ \A c \in 1 .. Len(parents) : parents'[c] = parents[c]
        /\ parents'[Len(parents) + 1] = X
    BY <1>1, <1>2, AppendProperties
  <2> QED
    BY <2>1 DEF Commits
<1>4. ASSUME NEW c \in Commits' PROVE parents'[c] \subseteq 1 .. c - 1
  <2>1. CASE c \in Commits
    BY <1>1, <1>3, <2>1
  <2>2. CASE c = Len(parents) + 1
    <3>1. X \subseteq 1 .. Len(parents) /\ c - 1 = Len(parents)
      BY <1>1, <2>2
    <3> QED
      BY <1>3, <2>2, <3>1
  <2>3. c \in Commits \/ c = Len(parents) + 1
    BY <1>1, <1>3
  <2> QED
    BY <2>1, <2>2, <2>3
<1>5. ASSUME NEW a, NEW c \in Commits, IsAncestor(a, c)
      PROVE  IsAncestor(a, c)'
  <2> SUFFICES ASSUME NEW S \in SUBSET Commits', c \in S, IsHistory(S)'
               PROVE  a \in S
    BY DEF IsAncestor
  <2> DEFINE T == S \cap Commits
  <2>1. T \in SUBSET Commits /\ c \in T
    OBVIOUS
  <2>2. IsHistory(T)
    <3> SUFFICES ASSUME NEW d \in T PROVE parents[d] \subseteq T
      BY DEF IsHistory
    <3>1. parents'[d] \subseteq S /\ parents'[d] = parents[d]
      BY <1>1, <1>3 DEF IsHistory
    <3>2. parents[d] \subseteq Commits
      BY <1>1
    <3> QED
      BY <3>1, <3>2
  <2> QED
    BY <1>5, <2>1, <2>2 DEF IsAncestor
<1> QED
  BY <1>1, <1>3, <1>4, <1>5 DEF HistoryInv

LEMMA SameHistory ==
  ASSUME parents' = parents
  PROVE  \A a, c : IsAncestor(a, c)' <=> IsAncestor(a, c)
BY DEF IsAncestor, IsHistory, Commits

-----------------------------------------------------------------------------
(* Requests.                                                                 *)

\* The requests there can be with n commits.
RequestsOf(n) ==
    [op : {"none", "promote", "retire"} \cup WorkspaceOps,
     ref : Branches, into : Branches, old : 0 .. n, new : 0 .. n,
     leased : BOOLEAN, own : SUBSET (1 .. n), overtaken : BOOLEAN]

LEMMA Types ==
  ASSUME RefInv
  PROVE  /\ Len(parents) \in Nat /\ Commits = 1 .. Len(parents)
         /\ refs \in [Branches -> 0 .. Len(parents)]
         /\ requests \in [Requests -> RequestsOf(Len(parents))]
         /\ preserved \subseteq Commits /\ reported \subseteq preserved
BY DEF RefInv, RefTypeOK, HistoryInv, PreservedInv, Commits, RequestsOf

LEMMA TypesBack ==
  ASSUME HistoryInv', Len(parents)' \in 1 .. MaxCommits,
         \A c \in Commits' : parents'[c] \subseteq 1 .. c - 1,
         refs' \in [Branches -> 0 .. Len(parents')],
         requests' \in [Requests -> RequestsOf(Len(parents'))],
         preserved' \subseteq Commits', reported' \subseteq Commits'
  PROVE  RefTypeOK'
<1>1. Commits' = 1 .. Len(parents')
  BY DEF HistoryInv, Commits
<1> QED
  BY <1>1 DEF RefTypeOK, RequestsOf

\* A request that has just begun: it holds nothing.
LEMMA NewRequest ==
  ASSUME NEW n \in Nat, NEW op \in {"none", "base", "promote", "retire"}, NEW ref \in Branches,
         NEW into \in Branches, NEW old \in 0 .. n, NEW new \in 0 .. n
  PROVE  /\ Request(op, ref, into, old, new) \in RequestsOf(n)
         /\ Request(op, ref, into, old, new).op = op
         /\ Request(op, ref, into, old, new).leased = FALSE
BY DEF Request, RequestsOf, WorkspaceOps

LEMMA InitRefInv == RefInit => RefInv
<1> SUFFICES ASSUME RefInit PROVE RefInv
  OBVIOUS
<1>1. /\ Len(parents) = 1 /\ parents \in Seq(SUBSET Nat) /\ Commits = {1} /\ parents[1] = {}
      /\ refs = [b \in Branches |-> IF b = Default THEN 1 ELSE 0]
      /\ preserved = {} /\ reported = {} /\ requests = [r \in Requests |-> NoRequest]
  BY DEF Commits, RefInit
<1>2. NoRequest \in RequestsOf(1) /\ NoRequest.op = "none" /\ NoRequest.leased = FALSE
  <2>1. 0 \in 0 .. 1 /\ 1 \in Nat /\ Default \in Branches
    BY RefConstants
  <2>2. Request("none", Default, Default, 0, 0) \in RequestsOf(1)
    BY <2>1, NewRequest
  <2> QED
    BY <2>2 DEF NoRequest, Request
<1>3. RefTypeOK
  <2>1. requests \in [Requests -> RequestsOf(1)]
    BY <1>1, <1>2
  <2>2. refs \in [Branches -> 0 .. 1] /\ 1 \in 1 .. MaxCommits
    BY <1>1, RefConstants
  <2>3. \A c \in Commits : parents[c] \subseteq 1 .. c - 1
    BY <1>1
  <2>4. 1 .. 1 = Commits
    BY <1>1
  <2> QED
    BY <1>1, <2>1, <2>2, <2>3, <2>4 DEF RefTypeOK, RequestsOf
<1>4. \A r \in Requests : requests[r].op = "none" /\ requests[r].leased = FALSE
  BY <1>1, <1>2
<1>5. refs[Default] # 0
  BY <1>1, RefConstants
<1> QED
  BY <1>1, <1>3, <1>4, <1>5 DEF RefInv, MoveInv, HistoryInv, CommitInv, PreservedInv, PromoteInv,
                      RetireInv, LeaseInv, WorkInv, Working, WorkspaceOps

-----------------------------------------------------------------------------
(* Requests that begin.                                                      *)

LEMMA StartKeeps ==
  ASSUME RefInv, NEW r \in Requests, NEW op \in {"base", "promote", "retire"},
         NEW ref \in Branches, NEW into \in Branches,
         NEW old \in 0 .. Len(parents), NEW new \in 0 .. Len(parents),
         Start(r, op, ref, into, old, new),
         op = "promote" => /\ ref \in Targets /\ new # 0
                           /\ old # 0 => IsAncestor(old, new),
         op = "retire" => /\ ref # Default /\ old # 0
                          /\ into = Default => IsAncestor(old, refs[Default]),
         op = "base" => ref \in WorkBranches /\ old # 0
  PROVE  RefInv'
<1> DEFINE q == Request(op, ref, into, old, new)
<1>1. /\ requests' = [requests EXCEPT ![r] = q] /\ refs' = refs /\ parents' = parents
      /\ preserved' = preserved /\ reported' = reported
  BY DEF Start
<1>2. /\ q.op = op /\ q.ref = ref /\ q.into = into /\ q.old = old /\ q.new = new
      /\ q.leased = FALSE /\ q \in RequestsOf(Len(parents))
  <2>1. Len(parents) \in Nat
    BY Types
  <2>2. q \in RequestsOf(Len(parents))
    BY <2>1, NewRequest
  <2> QED
    BY <2>2 DEF Request
<1> HIDE DEF q
<1>3. RefTypeOK' /\ HistoryInv'
  <2>1. requests' \in [Requests -> RequestsOf(Len(parents))]
    BY <1>1, <1>2, Types
  <2> QED
    BY <1>1, <2>1, TypesBack DEF RefInv, RefTypeOK, HistoryInv, Commits
<1>4. requests'[r] = q /\ \A s \in Requests : s # r => requests'[s] = requests[s]
  BY <1>1, Types
<1>5. CommitInv' /\ PreservedInv'
  BY <1>1, <1>2, <1>4 DEF RefInv, CommitInv, PreservedInv, Working, WorkspaceOps
<1>6. LeaseInv'
  BY <1>1, <1>2, <1>4 DEF RefInv, LeaseInv, Working, WorkspaceOps
<1>7. ASSUME MoveInv PROVE PromoteInv'
  BY <1>1, <1>2, <1>4, <1>7, SameHistory DEF MoveInv, PromoteInv
<1>8. ASSUME MoveInv PROVE RetireInv'
  BY <1>1, <1>2, <1>4, <1>8, SameHistory DEF MoveInv, RetireInv
<1>9. ASSUME MoveInv PROVE WorkInv'
  BY <1>1, <1>2, <1>4, <1>9 DEF MoveInv, WorkInv, WorkspaceOps
<1> QED
  BY <1>3, <1>5, <1>6, <1>7, <1>8, <1>9 DEF RefInv, MoveInv

\* The commit object: the request goes on with it, the refs stay.
LEMMA WriteKeeps ==
  ASSUME RefInv, NEW r \in Requests, NEW extra, WriteCommit(r, extra),
         extra \in Branches \cup {"none"}
  PROVE  RefInv'
<1> DEFINE X == {requests[r].old} \cup (IF extra \in Branches THEN {refs[extra]} ELSE {})
           n == Len(parents) + 1
<1>1. /\ parents' = Append(parents, X) /\ refs' = refs /\ preserved' = preserved
      /\ reported' = reported /\ Len(parents) < MaxCommits
      /\ requests' = [requests EXCEPT ![r].op = "set", ![r].new = n, ![r].own = @ \cup {n}]
      /\ requests[r].op = "open"
  BY DEF WriteCommit, At
<1>2. X \in SUBSET Commits
  <2>1. requests[r].old \in Commits
    BY <1>1, Types DEF RefInv, CommitInv, Working, WorkspaceOps, RequestsOf
  <2>2. extra \in Branches => refs[extra] \in Commits
    BY Types DEF WriteCommit
  <2> QED
    BY <2>1, <2>2
<1> HIDE DEF X
<1>3. /\ HistoryInv' /\ Len(parents') = n
      /\ \A c \in Commits' : parents'[c] \subseteq 1 .. c - 1
      /\ \A a, c : c \in Commits /\ IsAncestor(a, c) => IsAncestor(a, c)'
  BY <1>1, <1>2, NewCommit DEF RefInv
<1>4. Len(parents) \in Nat /\ n \in 1 .. n /\ n # 0 /\ 0 .. Len(parents) \subseteq 0 .. n
      /\ 1 .. Len(parents) \subseteq 1 .. n
      /\ Commits = 1 .. Len(parents) /\ Commits' = 1 .. n
  BY <1>3, Types DEF HistoryInv, Commits
<1>5. /\ requests'[r].op = "set" /\ requests'[r].new = n /\ requests'[r].ref = requests[r].ref
      /\ requests'[r].old = requests[r].old /\ requests'[r].own = requests[r].own \cup {n}
      /\ requests'[r].leased = requests[r].leased
      /\ requests'[r].overtaken = requests[r].overtaken
      /\ \A s \in Requests : s # r => requests'[s] = requests[s]
  BY <1>1, Types DEF RequestsOf
<1>6. RefTypeOK'
  <2>1. \A s \in Requests : requests[s] \in RequestsOf(n)
    BY <1>4, Types DEF RequestsOf
  <2>2. requests' \in [Requests -> RequestsOf(n)]
    <3>1. [requests[r] EXCEPT !.op = "set", !.new = n, !.own = @ \cup {n}] \in RequestsOf(n)
      <4>1. requests[r].own \cup {n} \in SUBSET (1 .. n) /\ n \in 0 .. n
        BY <1>4, <2>1 DEF RequestsOf
      <4> HIDE DEF n
      <4> QED
        BY <2>1, <4>1 DEF RequestsOf, WorkspaceOps
    <3>2. requests' = [requests EXCEPT
                         ![r] = [requests[r] EXCEPT !.op = "set", !.new = n, !.own = @ \cup {n}]]
      BY <1>1, Types DEF RequestsOf
    <3> QED
      BY <2>1, <3>1, <3>2, Types
  <2>3. n \in 1 .. MaxCommits
    BY <1>1, <1>4, RefConstants
  <2>4. preserved' \subseteq Commits' /\ reported' \subseteq Commits'
    BY <1>1, <1>4, Types
  <2>5. refs' \in [Branches -> 0 .. n]
    BY <1>1, <1>4, Types
  <2> HIDE DEF n
  <2> QED
    BY <1>3, <2>2, <2>3, <2>4, <2>5, TypesBack
<1>7. PreservedInv'
  <2>1. ASSUME NEW s \in Requests, requests'[s].op = "answer"
        PROVE  requests'[s].new \in preserved'
    <3>1. requests'[s] = requests[s]
      BY <1>5, <2>1
    <3> QED
      BY <1>1, <2>1, <3>1 DEF RefInv, PreservedInv
  <2> QED
    BY <1>1, <2>1 DEF RefInv, PreservedInv
<1>8. CommitInv' /\ LeaseInv'
  <2>1. \A s \in Requests : s # r => requests'[s] = requests[s]
    BY <1>5
  <2>2. /\ requests'[r].old # 0 /\ requests'[r].new # 0
        /\ requests'[r].new \in requests'[r].own
        /\ requests'[r].op \in WorkspaceOps \ {"base"}
        /\ requests'[r].ref = requests[r].ref /\ requests'[r].leased = requests[r].leased
        /\ Working(r)
    BY <1>1, <1>4, <1>5 DEF RefInv, CommitInv, Working, WorkspaceOps
  <2>3. CommitInv'
    BY <2>1, <2>2 DEF RefInv, CommitInv, Working
  <2>4. LeaseInv'
    BY <2>1, <2>2 DEF RefInv, LeaseInv, Working
  <2> QED
    BY <2>3, <2>4
<1>9. ASSUME MoveInv PROVE PromoteInv'
  <2>1. refs'[Default] # 0
    BY <1>1, <1>9 DEF MoveInv, PromoteInv
  <2>2. ASSUME NEW s \in Requests, requests'[s].op = "promote"
        PROVE  /\ requests'[s].ref \in Targets /\ requests'[s].new # 0
               /\ (requests[s].old # 0 => IsAncestor(requests[s].old, requests[s].new))'
    <3>1. requests'[s] = requests[s]
      BY <1>5, <2>2
    <3>2. requests[s].new \in Commits
      BY <1>4, <1>9, <2>2, <3>1, Types DEF MoveInv, PromoteInv, RequestsOf
    <3> QED
      BY <1>3, <1>9, <2>2, <3>1, <3>2 DEF MoveInv, PromoteInv
  <2> QED
    BY <2>1, <2>2 DEF PromoteInv
<1>10. ASSUME MoveInv PROVE RetireInv'
  <2>1. refs'[Default] = refs[Default] /\ refs[Default] \in Commits
    BY <1>1, <1>4, <1>10, RefConstants, Types DEF MoveInv, PromoteInv
  <2>2. ASSUME NEW s \in Requests, requests'[s].op = "retire"
        PROVE  /\ requests'[s].ref # Default /\ requests'[s].old # 0
               /\ (requests[s].into = Default => IsAncestor(requests[s].old, refs[Default]))'
    <3>1. requests'[s] = requests[s]
      BY <1>5, <2>2
    <3> QED
      BY <1>3, <1>10, <2>1, <2>2, <3>1 DEF MoveInv, RetireInv
  <2> QED
    BY <2>2 DEF RetireInv
<1>11. ASSUME MoveInv PROVE WorkInv'
  <2>1. requests[r].op \in WorkspaceOps \ {"base"}
    BY <1>1 DEF WorkspaceOps
  <2> QED
    BY <1>1, <1>5, <1>11, <2>1 DEF MoveInv, WorkInv
<1> QED
  BY <1>3, <1>6, <1>7, <1>8, <1>9, <1>10, <1>11 DEF RefInv, MoveInv

-----------------------------------------------------------------------------
(* Requests that go on to a ref or end.                                      *)

\* Request r goes on as q.  Refs change by a promotion or are deleted; the default ref moves
\* forward.
LEMMA StepKeeps ==
  ASSUME RefInv, NEW r \in Requests, NEW q \in RequestsOf(Len(parents)),
         requests' = [requests EXCEPT ![r] = q],
         q.op \in {"none"} \cup WorkspaceOps,
         q.op # "none" => /\ Working(r) /\ q.ref = requests[r].ref /\ q.old = requests[r].old
                          /\ q.new = requests[r].new /\ q.own = requests[r].own,
         q.op \in {"set", "preserve", "answer"} => requests[r].op \in {"set", "preserve", "answer"},
         q.op = "answer" => q.new \in preserved',
         q.leased => /\ q.op \in WorkspaceOps \ {"base"}
                     /\ requests[r].leased \/ Unleased(q.ref),
         q.op \in WorkspaceOps \ {"base"} /\ ~q.overtaken =>
           \/ requests[r].op \in WorkspaceOps \ {"base"} /\ ~requests[r].overtaken
           \/ refs'[q.ref] \in {0, q.old},
         parents' = parents,
         preserved \subseteq preserved', preserved' \subseteq Commits, reported' \subseteq preserved',
         refs' \in [Branches -> 0 .. Len(parents)],
         Separated =>
           /\ refs'[Default] # 0 /\ IsAncestor(refs[Default], refs'[Default])
           /\ \A b \in WorkBranches : refs'[b] \in {0, refs[b]}
  PROVE  RefInv'
<1>1. requests'[r] = q /\ \A s \in Requests : s # r => requests'[s] = requests[s]
  BY Types
<1>2. RefTypeOK' /\ HistoryInv'
  <2>1. requests' \in [Requests -> RequestsOf(Len(parents))]
    BY Types
  <2>2. HistoryInv' /\ Commits' = Commits
    BY DEF RefInv, HistoryInv, Commits
  <2> QED
    BY <2>1, <2>2, TypesBack DEF RefInv, RefTypeOK
<1>3. CommitInv'
  <2>1. ASSUME NEW s \in Requests, Working(s)'
        PROVE  requests'[s].old # 0
    <3>1. Working(s) /\ requests'[s].old = requests[s].old
      BY <1>1, <2>1 DEF Working, WorkspaceOps
    <3> QED
      BY <3>1 DEF RefInv, CommitInv
  <2>2. ASSUME NEW s \in Requests, requests'[s].op \in {"set", "preserve", "answer"}
        PROVE  requests'[s].new # 0 /\ requests'[s].new \in requests'[s].own
    <3>1. /\ requests[s].op \in {"set", "preserve", "answer"}
          /\ requests'[s].new = requests[s].new /\ requests'[s].own = requests[s].own
      BY <1>1, <2>2
    <3> QED
      BY <3>1 DEF RefInv, CommitInv
  <2> QED
    BY <2>1, <2>2 DEF CommitInv
<1>4. PreservedInv'
  <2>1. ASSUME NEW s \in Requests, requests'[s].op = "answer"
        PROVE  requests'[s].new \in preserved'
    BY <1>1, <2>1 DEF RefInv, PreservedInv
  <2> QED
    BY <2>1 DEF PreservedInv
<1>5. LeaseInv'
  <2>1. \A s \in Requests : Working(s)' => requests'[s].ref \in WorkBranches
    BY <1>1 DEF RefInv, LeaseInv, Working, WorkspaceOps
  <2>2. \A s \in Requests : requests'[s].leased => requests'[s].op \in WorkspaceOps \ {"base"}
    BY <1>1 DEF RefInv, LeaseInv
  <2>3. ASSUME NEW s \in Requests, s # r, requests[s].leased, q.leased
        PROVE  requests[s].ref # q.ref
    <3>1. q.ref = requests[r].ref
      BY <2>3 DEF WorkspaceOps
    <3> QED
      BY <2>3, <3>1 DEF RefInv, LeaseInv, Unleased
  <2>4. \A s, t \in Requests : requests'[s].leased /\ requests'[t].leased /\ s # t =>
          requests'[s].ref # requests'[t].ref
    BY <1>1, <2>3 DEF RefInv, LeaseInv
  <2> QED
    BY <2>1, <2>2, <2>4 DEF LeaseInv
<1>6. ASSUME Separated, MoveInv PROVE PromoteInv'
  BY <1>1, <1>6, SameHistory DEF MoveInv, PromoteInv, WorkspaceOps
<1>7. ASSUME Separated, MoveInv PROVE RetireInv'
  <2>1. ASSUME NEW s \in Requests, requests'[s].op = "retire"
        PROVE  /\ requests'[s].ref # Default /\ requests'[s].old # 0
               /\ requests'[s].into = Default => IsAncestor(requests'[s].old, refs'[Default])
    <3>1. requests'[s] = requests[s]
      BY <1>1, <2>1 DEF WorkspaceOps
    <3> QED
      BY <1>7, <2>1, <3>1, Transitive DEF MoveInv, RetireInv
  <2> QED
    BY <2>1, SameHistory DEF RetireInv
<1>8. ASSUME Separated, MoveInv PROVE WorkInv'
  <2>1. ASSUME NEW s \in Requests, s # r,
               requests[s].op \in WorkspaceOps \ {"base"}, ~requests[s].overtaken
        PROVE  refs'[requests[s].ref] \in {0, requests[s].old} \cup requests[s].own
    BY <1>8, <2>1 DEF RefInv, LeaseInv, MoveInv, WorkInv, Working
  <2>2. ASSUME q.op \in WorkspaceOps \ {"base"}, ~q.overtaken
        PROVE  refs'[q.ref] \in {0, q.old} \cup q.own
    BY <1>8, <2>2 DEF RefInv, LeaseInv, MoveInv, WorkInv, Working, WorkspaceOps
  <2> QED
    BY <1>1, <2>1, <2>2 DEF WorkInv
<1> QED
  BY <1>2, <1>3, <1>4, <1>5, <1>6, <1>7, <1>8 DEF RefInv, MoveInv

\* The commit reaches its branch: the workspaces it overtakes know, the others do not share
\* the branch, because two do not hold its lease.
LEMMA SetKeeps ==
  ASSUME RefInv, NEW r \in Requests, SetBranch(r)
  PROVE  RefInv'
<1> DEFINE Was(s) == [requests[s] EXCEPT !.op = IF s = r THEN "preserve" ELSE @,
                                         !.overtaken = @ \/ Overtaken(r, s)]
<1>1. /\ requests[r].op = "set" /\ parents' = parents /\ preserved' = preserved
      /\ reported' = reported /\ refs' = [refs EXCEPT ![requests[r].ref] = requests[r].new]
      /\ requests' = [s \in Requests |-> Was(s)]
  BY DEF SetBranch, At
<1>2. /\ requests[r].op \in WorkspaceOps \ {"base"} /\ requests[r].ref \in WorkBranches
      /\ requests[r].new # 0 /\ requests[r].new \in requests[r].own
      /\ requests[r].ref \in Branches /\ requests[r].new \in 0 .. Len(parents)
  BY <1>1, Types DEF RefInv, LeaseInv, CommitInv, Working, WorkspaceOps, RequestsOf
<1>3. \A s \in Requests :
        /\ requests'[s] \in RequestsOf(Len(parents))
        /\ requests'[s].op = IF s = r THEN "preserve" ELSE requests[s].op
        /\ requests'[s].ref = requests[s].ref /\ requests'[s].old = requests[s].old
        /\ requests'[s].into = requests[s].into
        /\ requests'[s].new = requests[s].new /\ requests'[s].own = requests[s].own
        /\ requests'[s].leased = requests[s].leased
        /\ requests'[s].overtaken = (requests[s].overtaken \/ Overtaken(r, s))
  <2> SUFFICES ASSUME NEW s \in Requests
               PROVE  /\ Was(s) \in RequestsOf(Len(parents))
                      /\ Was(s).op = IF s = r THEN "preserve" ELSE requests[s].op
                      /\ Was(s).ref = requests[s].ref /\ Was(s).old = requests[s].old
                      /\ Was(s).into = requests[s].into
                      /\ Was(s).new = requests[s].new /\ Was(s).own = requests[s].own
                      /\ Was(s).leased = requests[s].leased
                      /\ Was(s).overtaken = (requests[s].overtaken \/ Overtaken(r, s))
    BY <1>1
  <2>1. requests[s] \in RequestsOf(Len(parents))
    BY Types
  <2>2. Overtaken(r, s) \in BOOLEAN
    BY DEF Overtaken
  <2> QED
    BY <2>1, <2>2 DEF RequestsOf, WorkspaceOps
<1>4. RefTypeOK' /\ HistoryInv'
  <2>1. requests' \in [Requests -> RequestsOf(Len(parents))]
    BY <1>1, <1>3
  <2>2. refs' \in [Branches -> 0 .. Len(parents)]
    BY <1>1, <1>2, Types
  <2>3. HistoryInv' /\ Commits' = Commits
    BY <1>1 DEF RefInv, HistoryInv, Commits
  <2> QED
    BY <1>1, <2>1, <2>2, <2>3, TypesBack DEF RefInv, RefTypeOK
<1>5. CommitInv'
  <2>1. \A s \in Requests : /\ Working(s)' => Working(s)
                            /\ requests'[s].op \in {"set", "preserve", "answer"} =>
                                 requests[s].op \in {"set", "preserve", "answer"}
    BY <1>1, <1>2, <1>3 DEF Working
  <2> QED
    BY <1>3, <2>1 DEF RefInv, CommitInv
<1>6. PreservedInv'
  <2>1. ASSUME NEW s \in Requests, requests'[s].op = "answer"
        PROVE  requests'[s].new \in preserved'
    <3>1. requests[s].op = "answer" /\ requests'[s].new = requests[s].new
      BY <1>3, <2>1
    <3>2. preserved' = preserved
      BY <1>1
    <3> QED
      BY <3>1, <3>2 DEF RefInv, PreservedInv
  <2>2. preserved' = preserved /\ reported' = reported
    BY <1>1
  <2> QED
    BY <2>1, <2>2 DEF RefInv, PreservedInv
<1>7. LeaseInv'
  <2>1. \A s \in Requests : requests'[s].op \in WorkspaceOps \ {"base"} <=>
                              requests[s].op \in WorkspaceOps \ {"base"}
    BY <1>2, <1>3 DEF WorkspaceOps
  <2>2. \A s \in Requests : Working(s)' => Working(s)
    BY <1>2, <1>3 DEF Working
  <2> QED
    BY <1>3, <2>1, <2>2 DEF RefInv, LeaseInv
<1>8. ASSUME Separated, MoveInv PROVE PromoteInv' /\ RetireInv'
  <2>1. refs'[Default] = refs[Default]
    BY <1>1, <1>2, <1>8, RefConstants, Types DEF Separated
  <2>3. PromoteInv'
    <3>1. ASSUME NEW s \in Requests, requests'[s].op = "promote"
          PROVE  /\ requests'[s].ref \in Targets /\ requests'[s].new # 0
                 /\ requests'[s].old # 0 => IsAncestor(requests'[s].old, requests'[s].new)
      <4>1. /\ requests[s].op = "promote" /\ requests'[s].ref = requests[s].ref
            /\ requests'[s].new = requests[s].new /\ requests'[s].old = requests[s].old
        BY <1>3, <3>1
      <4> QED
        BY <1>8, <4>1 DEF MoveInv, PromoteInv
    <3> QED
      BY <1>1, <1>8, <2>1, <3>1, SameHistory DEF MoveInv, PromoteInv
  <2>4. RetireInv'
    <3>1. ASSUME NEW s \in Requests, requests'[s].op = "retire"
          PROVE  /\ requests'[s].ref # Default /\ requests'[s].old # 0
                 /\ requests'[s].into = Default => IsAncestor(requests'[s].old, refs[Default])
      <4>1. requests[s].op = "retire"
        BY <1>3, <3>1
      <4> QED
        BY <1>3, <1>8, <4>1 DEF MoveInv, RetireInv
    <3> QED
      BY <1>1, <2>1, <3>1, SameHistory DEF RetireInv
  <2> QED
    BY <2>3, <2>4
<1>9. ASSUME Separated, MoveInv PROVE WorkInv'
  <2> SUFFICES ASSUME NEW s \in Requests, requests'[s].op \in WorkspaceOps \ {"base"},
                      ~requests'[s].overtaken
               PROVE  refs'[requests[s].ref] \in {0, requests[s].old} \cup requests[s].own
    BY <1>3 DEF WorkInv
  <2>1. CASE s = r
    BY <1>1, <1>2, <2>1, Types
  <2>2. CASE s # r
    <3>1. requests[s].op \in WorkspaceOps \ {"base"} /\ ~requests[s].overtaken
          /\ ~Overtaken(r, s)
      BY <1>3, <2>2
    <3>2. requests[s].ref # requests[r].ref
      BY <2>2, <3>1 DEF Overtaken, RefInv, LeaseInv
    <3>3. refs'[requests[s].ref] = refs[requests[s].ref]
      BY <1>1, <3>2, Types DEF RequestsOf
    <3> QED
      BY <1>9, <3>1, <3>3 DEF MoveInv, WorkInv
  <2> QED
    BY <2>1, <2>2
<1> QED
  BY <1>4, <1>5, <1>6, <1>7, <1>8, <1>9 DEF RefInv, MoveInv

-----------------------------------------------------------------------------
(* The steps.                                                                *)

LEMMA DiscardKeeps ==
  ASSUME RefInv, NEW r \in Requests, NEW b \in Branches, Discard(r, b)
  PROVE  RefInv'
<1>1. /\ refs' = [refs EXCEPT ![b] = 0] /\ b # Default /\ requests' = requests
      /\ parents' = parents /\ preserved' = preserved /\ reported' = reported
      /\ requests[r].op = "none"
  BY DEF Discard
<1>2. requests' = [requests EXCEPT ![r] = requests[r]]
      /\ requests[r] \in RequestsOf(Len(parents)) /\ ~requests[r].leased
  <2>1. requests[r] \in RequestsOf(Len(parents)) /\ requests' = [requests EXCEPT ![r] = requests[r]]
    BY <1>1, Types
  <2>2. requests[r].leased = FALSE
    BY <1>1, <2>1 DEF RefInv, LeaseInv, WorkspaceOps, RequestsOf
  <2> QED
    BY <2>1, <2>2
<1>3. /\ refs' \in [Branches -> 0 .. Len(parents)] /\ refs'[Default] = refs[Default]
      /\ \A c \in WorkBranches : refs'[c] \in {0, refs[c]}
  BY <1>1, RefConstants, Types
<1>4. Separated => refs'[Default] # 0 /\ IsAncestor(refs[Default], refs'[Default])
  BY <1>3, Reflexive DEF RefInv, MoveInv, PromoteInv
<1>5. requests[r].op \notin WorkspaceOps /\ requests[r].op \notin {"set", "preserve", "answer"}
  BY <1>1 DEF WorkspaceOps
<1> QED
  BY <1>1, <1>2, <1>3, <1>4, <1>5, Types, StepKeeps

LEMMA StartStep ==
  ASSUME RefInv, NEW r \in Requests, StartRequest(r)
  PROVE  RefInv'
<1>1. /\ Len(parents) \in Nat /\ 0 \in 0 .. Len(parents)
      /\ \A b \in Branches : refs[b] \in 0 .. Len(parents)
  BY Types
<1>2. ASSUME NEW b \in WorkBranches, NEW base_ref \in Branches, OpenWorkspace(r, b, base_ref)
      PROVE  RefInv'
  <2>1. b \in Branches
    BY RefConstants
  <2> QED
    BY <1>1, <1>2, <2>1, StartKeeps DEF OpenWorkspace
<1>3. ASSUME NEW src \in Branches, NEW dst \in Targets, PromoteCheck(r, src, dst)
      PROVE  RefInv'
  <2>1. dst \in Branches
    BY RefConstants
  <2>2. refs[dst] # 0 => IsAncestor(refs[dst], refs[src])
    BY <1>3 DEF PromoteCheck, Promotable
  <2> QED
    BY <1>1, <1>3, <2>1, <2>2, StartKeeps DEF PromoteCheck
<1>4. ASSUME NEW b \in Branches, NEW into \in Branches, RetireCheck(r, b, into)
      PROVE  RefInv'
  BY <1>1, <1>4, StartKeeps DEF RetireCheck
<1>5. ASSUME NEW b \in Branches, Discard(r, b)
      PROVE  RefInv'
  BY <1>5, DiscardKeeps
<1> QED
  BY <1>2, <1>3, <1>4, <1>5 DEF StartRequest

\* The swaps move the default ref forward only.
LEMMA DefaultStep ==
  ASSUME Separated, RefInv, [RefNext]_refVars
  PROVE  refs'[Default] # 0 /\ IsAncestor(refs[Default], refs'[Default])
<1>1. refs[Default] # 0 /\ IsAncestor(refs[Default], refs[Default]) /\ Default \in Branches
  BY Reflexive, RefConstants DEF RefInv, MoveInv, PromoteInv
<1>2. ASSUME NEW r \in Requests, PromoteSwap(r)
      PROVE  refs'[Default] # 0 /\ IsAncestor(refs[Default], refs'[Default])
  <2>1. CASE refs' = refs
    BY <1>1, <2>1
  <2>2. CASE requests[r].ref # Default
    BY <1>1, <1>2, <2>2, Types DEF PromoteSwap
  <2>3. CASE refs' # refs /\ requests[r].ref = Default
    <3>1. /\ refs[Default] = requests[r].old /\ refs' = [refs EXCEPT ![Default] = requests[r].new]
          /\ requests[r].op = "promote"
      BY <1>2, <2>3 DEF PromoteSwap, SwapHolds, At
    <3>2. requests[r].new # 0 /\ IsAncestor(requests[r].old, requests[r].new)
      BY <1>1, <3>1 DEF RefInv, MoveInv, PromoteInv
    <3> QED
      BY <1>1, <3>1, <3>2, Types
  <2> QED
    BY <2>1, <2>2, <2>3
<1>3. ASSUME NEW r \in Requests, RetireDelete(r)
      PROVE  refs'[Default] = refs[Default]
  <2>1. requests[r].ref # Default
    BY <1>3 DEF RetireDelete, At, RefInv, MoveInv, RetireInv
  <2> QED
    BY <1>1, <1>3, <2>1, Types DEF RetireDelete
<1>4. ASSUME NEW r \in Requests, SetBranch(r)
      PROVE  refs'[Default] = refs[Default]
  <2>1. requests[r].ref # Default
    BY <1>4 DEF SetBranch, At, Separated, RefInv, LeaseInv, Working, WorkspaceOps
  <2> QED
    BY <1>1, <1>4, <2>1, Types DEF SetBranch
<1>5. ASSUME NEW r \in Requests, NEW b \in Branches, Discard(r, b)
      PROVE  refs'[Default] = refs[Default]
  BY <1>1, <1>5, Types DEF Discard
<1>6. ASSUME NEW r \in Requests, StartRequest(r)
      PROVE  refs'[Default] = refs[Default]
  BY <1>5, <1>6 DEF StartRequest, OpenWorkspace, PromoteCheck, RetireCheck, Start
<1>7. ASSUME NEW r \in Requests, StepRequest(r)
      PROVE  refs'[Default] # 0 /\ IsAncestor(refs[Default], refs'[Default])
  BY <1>1, <1>2, <1>3, <1>4, <1>7
  DEF StepRequest, CheckBranchStart, AcquireLease, LoseLease, WriteCommit, PreserveCommit,
      Answer, CommitFails, GiveUp
<1>8. CASE UNCHANGED refVars
  BY <1>1, <1>8 DEF refVars
<1> QED
  BY <1>1, <1>6, <1>7, <1>8 DEF RefNext

\* Request r goes to another state of its workspace, or ends.
LEMMA WentTo ==
  ASSUME RefInv, NEW r \in Requests, NEW op \in WorkspaceOps
  PROVE  LET q == [requests[r] EXCEPT !.op = op] IN
           /\ q \in RequestsOf(Len(parents)) /\ q.op = op
           /\ q.ref = requests[r].ref /\ q.old = requests[r].old /\ q.new = requests[r].new
           /\ q.own = requests[r].own /\ q.leased = requests[r].leased
           /\ q.overtaken = requests[r].overtaken
           /\ GoTo(r, op) => requests' = [requests EXCEPT ![r] = q]
BY Types DEF GoTo, RequestsOf

LEMMA Ended ==
  ASSUME RefInv, NEW r \in Requests, End(r), parents' = parents,
         preserved' = preserved, reported' \subseteq preserved,
         refs' \in [Branches -> 0 .. Len(parents)],
         Separated =>
           /\ refs'[Default] # 0 /\ IsAncestor(refs[Default], refs'[Default])
           /\ \A b \in WorkBranches : refs'[b] \in {0, refs[b]}
  PROVE  RefInv'
<1>1. /\ NoRequest \in RequestsOf(Len(parents)) /\ NoRequest.op = "none"
      /\ NoRequest.leased = FALSE
  <2>1. Len(parents) \in Nat /\ 0 \in 0 .. Len(parents) /\ Default \in Branches
    BY Types, RefConstants
  <2>2. Request("none", Default, Default, 0, 0) \in RequestsOf(Len(parents))
    BY <2>1, NewRequest
  <2> QED
    BY <2>2 DEF NoRequest, Request
<1>2. "none" \notin WorkspaceOps
  BY DEF WorkspaceOps
<1> QED
  BY <1>1, <1>2, Types, StepKeeps DEF End

LEMMA RequestStep ==
  ASSUME RefInv, NEW r \in Requests, StepRequest(r)
  PROVE  RefInv'
<1>1. Separated => refs'[Default] # 0 /\ IsAncestor(refs[Default], refs'[Default])
  BY DefaultStep DEF RefNext
<1>2. /\ WorkspaceOps = {"base", "checked", "open", "set", "preserve", "answer"}
      /\ \A b \in WorkBranches : b \in Branches
  BY RefConstants DEF WorkspaceOps
<1>3. ASSUME NEW extra \in Branches \cup {"none"}, WriteCommit(r, extra)
      PROVE  RefInv'
  BY <1>3, WriteKeeps
<1>4. CASE CheckBranchStart(r)
  <2> DEFINE q == [requests[r] EXCEPT !.op = "checked"]
  <2>1. /\ requests[r].op = "base" /\ refs' = refs /\ parents' = parents
        /\ preserved' = preserved /\ reported' = reported
        /\ refs[requests[r].ref] \in {0, requests[r].old}
        /\ ~requests[r].leased
    BY <1>4 DEF CheckBranchStart, At, BranchStartOk, RefInv, LeaseInv
  <2>2. /\ requests' = [requests EXCEPT ![r] = q]
        /\ q \in RequestsOf(Len(parents)) /\ q.op = "checked"
        /\ q.ref = requests[r].ref /\ q.old = requests[r].old /\ q.new = requests[r].new
        /\ q.own = requests[r].own /\ q.leased = requests[r].leased
    BY <1>2, <1>4, WentTo DEF CheckBranchStart
  <2> HIDE DEF q
  <2> QED
    BY <1>1, <1>2, <2>1, <2>2, Types, StepKeeps DEF Working
<1>5. CASE AcquireLease(r)
  <2> DEFINE q == [requests[r] EXCEPT !.op = "open", !.leased = TRUE]
  <2>1. /\ requests[r].op = "checked" /\ refs' = refs /\ parents' = parents
        /\ preserved' = preserved /\ reported' = reported /\ Unleased(requests[r].ref)
    BY <1>5 DEF AcquireLease, At
  <2>2. /\ requests' = [requests EXCEPT ![r] = q]
        /\ q \in RequestsOf(Len(parents)) /\ q.op = "open"
        /\ q.ref = requests[r].ref /\ q.old = requests[r].old /\ q.new = requests[r].new
        /\ q.own = requests[r].own /\ q.overtaken = requests[r].overtaken
    BY <1>2, <1>5, Types DEF AcquireLease, RequestsOf
  <2> HIDE DEF q
  <2> QED
    BY <1>1, <1>2, <2>1, <2>2, Types, StepKeeps DEF Working
<1>6. CASE LoseLease(r)
  <2> DEFINE q == [requests[r] EXCEPT !.leased = FALSE]
  <2>1. /\ requests[r].op \in WorkspaceOps \ {"base"} /\ refs' = refs /\ parents' = parents
        /\ preserved' = preserved /\ reported' = reported
    BY <1>6 DEF LoseLease, RefInv, LeaseInv
  <2>2. /\ requests' = [requests EXCEPT ![r] = q]
        /\ q \in RequestsOf(Len(parents)) /\ q.op = requests[r].op /\ q.leased = FALSE
        /\ q.ref = requests[r].ref /\ q.old = requests[r].old /\ q.new = requests[r].new
        /\ q.own = requests[r].own /\ q.overtaken = requests[r].overtaken
    BY <1>6, Types DEF LoseLease, RequestsOf
  <2>3. q.op = "answer" => q.new \in preserved
    BY <2>2 DEF RefInv, PreservedInv
  <2>4. "none" \notin WorkspaceOps /\ Working(r)
    BY <1>2, <2>1 DEF Working
  <2> HIDE DEF q
  <2> QED
    BY <1>1, <2>1, <2>2, <2>3, <2>4, Types, StepKeeps
<1>7. CASE SetBranch(r)
  BY <1>7, SetKeeps
<1>8. CASE PreserveCommit(r)
  <2> DEFINE q == [requests[r] EXCEPT !.op = "answer"]
  <2>1. /\ requests[r].op = "preserve" /\ parents' = parents /\ refs' = refs
        /\ reported' = reported /\ preserved' = preserved \cup {requests[r].new}
    BY <1>8 DEF PreserveCommit, At
  <2>2. /\ requests' = [requests EXCEPT ![r] = q]
        /\ q \in RequestsOf(Len(parents)) /\ q.op = "answer"
        /\ q.ref = requests[r].ref /\ q.old = requests[r].old /\ q.new = requests[r].new
        /\ q.own = requests[r].own /\ q.leased = requests[r].leased
        /\ q.overtaken = requests[r].overtaken
    BY <1>2, <1>8, WentTo DEF PreserveCommit
  <2>3. requests[r].new \in Commits
    BY <2>1, Types DEF RefInv, CommitInv, RequestsOf
  <2> HIDE DEF q
  <2> QED
    BY <1>1, <1>2, <2>1, <2>2, <2>3, Types, StepKeeps DEF Working
<1>9. CASE CommitFails(r)
  <2> DEFINE q == [requests[r] EXCEPT !.op = "open"]
  <2>1. /\ requests[r].op \in {"set", "preserve", "answer"} /\ parents' = parents /\ refs' = refs
        /\ reported' = reported /\ preserved' = preserved
    BY <1>9 DEF CommitFails
  <2>2. /\ requests' = [requests EXCEPT ![r] = q]
        /\ q \in RequestsOf(Len(parents)) /\ q.op = "open"
        /\ q.ref = requests[r].ref /\ q.old = requests[r].old /\ q.new = requests[r].new
        /\ q.own = requests[r].own /\ q.leased = requests[r].leased
        /\ q.overtaken = requests[r].overtaken
    BY <1>2, <1>9, WentTo DEF CommitFails
  <2> HIDE DEF q
  <2> QED
    BY <1>1, <1>2, <2>1, <2>2, Types, StepKeeps DEF Working
<1>10. CASE Answer(r)
  <2>1. requests[r].op = "answer" /\ reported' = reported \cup {requests[r].new}
    BY <1>10 DEF Answer, At
  <2>2. reported' \subseteq preserved
    BY <2>1 DEF RefInv, PreservedInv
  <2> QED
    BY <1>1, <1>2, <1>10, <2>2, Types, Ended DEF Answer
<1>11. CASE PromoteSwap(r)
  <2>1. Separated => requests[r].ref \notin WorkBranches
    BY <1>11 DEF PromoteSwap, At, RefInv, MoveInv, PromoteInv, Separated
  <2>2. requests[r].ref \in Branches /\ requests[r].new \in 0 .. Len(parents)
    BY Types DEF RequestsOf
  <2>3. /\ refs' \in [Branches -> 0 .. Len(parents)]
        /\ Separated => \A b \in WorkBranches : refs'[b] \in {0, refs[b]}
    BY <1>2, <1>11, <2>1, <2>2, Types DEF PromoteSwap
  <2> QED
    BY <1>1, <1>11, <2>3, Types, Ended DEF PromoteSwap
<1>12. CASE RetireDelete(r)
  <2>1. requests[r].ref \in Branches
    BY Types DEF RequestsOf
  <2>2. /\ refs' \in [Branches -> 0 .. Len(parents)]
        /\ \A b \in WorkBranches : refs'[b] \in {0, refs[b]}
    BY <1>2, <1>12, <2>1, Types DEF RetireDelete
  <2> QED
    BY <1>1, <1>12, <2>2, Types, Ended DEF RetireDelete
<1>13. CASE GiveUp(r)
  BY <1>1, <1>2, <1>13, Types, Ended DEF GiveUp
<1> QED
  BY <1>3, <1>4, <1>5, <1>6, <1>7, <1>8, <1>9, <1>10, <1>11, <1>12, <1>13 DEF StepRequest

LEMMA NextRefInv == RefInv /\ [RefNext]_refVars => RefInv'
<1> SUFFICES ASSUME RefInv, [RefNext]_refVars PROVE RefInv'
  OBVIOUS
<1>1. CASE RefNext
  BY <1>1, StartStep, RequestStep DEF RefNext
<1>2. CASE UNCHANGED refVars
  BY <1>2, SameHistory
  DEF refVars, RefInv, MoveInv, RefTypeOK, HistoryInv, CommitInv, PreservedInv, PromoteInv,
      RetireInv, LeaseInv, WorkInv, Working, Commits
<1> QED
  BY <1>1, <1>2

LEMMA SpecRefInv == RefSpec => []RefInv
BY InitRefInv, NextRefInv, PTL DEF RefSpec

-----------------------------------------------------------------------------
(* Theorems.                                                                 *)

\* The types, for every set of branches and requests.
THEOREM RefsTypeCorrect == RefSpec => []RefTypeOK
<1>1. RefInv => RefTypeOK
  BY DEF RefInv
<1> QED
  BY <1>1, SpecRefInv, PTL

\* A commit that was reported stays reachable through its preservation ref
\* (commit_overlay), whatever promotions, retirements, discards and commits follow, on every
\* branch.
THEOREM ReportedIsKept == RefSpec => []ReportedStaysReachable
<1>1. RefInv => ReportedStaysReachable
  BY Reflexive DEF RefInv, RefTypeOK, PreservedInv, ReportedStaysReachable, Reachable
<1> QED
  BY <1>1, SpecRefInv, PTL

\* The default branch moves to descendants only (require_fast_forward, update-ref), for
\* every number of concurrent requests.
THEOREM DefaultOnlyForward ==
  ASSUME Separated
  PROVE  RefSpec => DefaultMovesForward
<1>1. RefInv /\ [RefNext]_refVars =>
        [refs'[Default] # 0 /\ IsAncestor(refs[Default], refs'[Default])]_refVars
  BY DefaultStep
<1> QED
  BY <1>1, SpecRefInv, PTL DEF RefSpec, DefaultMovesForward

\* A branch that is retired into the default branch is merged when it is deleted
\* (retire_ref), however long before that was checked.
THEOREM RetiredWasMerged ==
  ASSUME Separated
  PROVE  RefSpec => RetiredIsMerged
<1>1. RefInv => [\A r \in Requests :
        RetireDelete(r) /\ refs' # refs /\ requests[r].into = Default =>
          IsAncestor(refs[requests[r].ref], refs[Default])]_refVars
  BY DEF RefInv, MoveInv, RetireInv, RetireDelete, SwapHolds, At
<1> QED
  BY <1>1, SpecRefInv, PTL DEF RefSpec, RetiredIsMerged

\* A commit overwrites its branch only where its workspace found it or put it, unless one of
\* the two workspaces did not hold the lease when the other one committed (commit_overlay,
\* ensure_branch_start, acquire_writable_lease), for every number of concurrent requests.
THEOREM NoCommitDropped ==
  ASSUME Separated
  PROVE  RefSpec => CommitDropsNothing
<1>1. RefInv => [\A r \in Requests : SetBranch(r) =>
        \/ refs[requests[r].ref] \in {0, requests[r].old} \cup requests[r].own
        \/ requests[r].overtaken]_refVars
  BY DEF RefInv, MoveInv, WorkInv, SetBranch, At, WorkspaceOps
<1> QED
  BY <1>1, SpecRefInv, PTL DEF RefSpec, CommitDropsNothing
=============================================================================
