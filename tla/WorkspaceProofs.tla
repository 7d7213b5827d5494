--------------------------- MODULE WorkspaceProofs ---------------------------
(***************************************************************************)
(* What TLAPS proves of WorkspaceLease and WorkspaceCommit for every set   *)
(* of workspaces, branches and contents: a file record never points at     *)
(* content that is not there; and, when requests come one at a time, what  *)
(* sessions, leases, overlays and branches say of each other.              *)
(***************************************************************************)
EXTENDS WorkspaceCommit, FiniteSetTheorems, SequenceTheorems, TLAPS

\* Requests come one at a time: the functions of the store, and what calls them, do not
\* interleave.  Restarts still cut them off anywhere, and time passes between any two steps.
OneRequest == \A p, q \in Procs : p = q

-----------------------------------------------------------------------------
(***************************************************************************)
(* The calls of the store, seen item by item.                              *)
(***************************************************************************)
Pc(p) == calls[p].pc
Items(p) == 1 .. Len(calls[p].todo)
Ws(p, i) == calls[p].todo[i].ws
Rec(p, i) == calls[p].todo[i].rec

\* The type invariant of the store, without dirs.
Pcs == {"idle", "acquire", "take", "next", "release", "store"}
StoreTypeOK ==
    /\ sessions \in [Workspaces -> Sessions \cup {NoSession}]
    /\ leases \in [Branches -> Leases \cup {Free}]
    /\ calls \in [Procs -> [pc : Pcs, todo : Seq(Tasks)]]
    /\ crashes \in 0 .. MaxCrashes

\* A call has something to do, several things only in the loop of the cleanup, and a record
\* says whether its workspace asked for a branch.
CallShape(p) ==
    /\ Pc(p) = "idle" <=> calls[p].todo = <<>>
    /\ Pc(p) \in {"acquire", "take"} => Items(p) = {1}
    /\ \A i \in Items(p) : Rec(p, i).leased = IsWritable(Ws(p, i))
    /\ Pc(p) \in {"acquire", "take", "release"} => IsWritable(Ws(p, 1))
SessionShape(w) == sessions[w] # NoSession => sessions[w].leased = IsWritable(w)

ShapeInv == (\A p \in Procs : CallShape(p)) /\ (\A w \in Workspaces : SessionShape(w))

-----------------------------------------------------------------------------
(***************************************************************************)
(* Sessions and leases.                                                    *)
(***************************************************************************)

\* How long a record lets its workspace write, and how long the workspace has its lease.
WriteTime(rec) == IF rec.status = "ready" /\ rec.leased THEN rec.left ELSE 0
LeaseTime(w) == IF leases[BranchOf[w]].owner = w THEN leases[BranchOf[w]].left ELSE 0

\* Nobody else has the lease.
Unclaimed(w) == IsWritable(w) => leases[BranchOf[w]] = Free \/ leases[BranchOf[w]].owner = w

\* The session of w and its lease are apart: a call has written one and not yet the other.
Changing(p, w) == Pc(p) \in {"release", "store"} /\ Ws(p, 1) = w

\* The two logs agree on every workspace that no call is about to store.
SessionMatch(w) ==
    IsWritable(w) /\ (\A p \in Procs : ~Changing(p, w)) => WriteTime(sessions[w]) = LeaseTime(w)
SessionClaim(w) == WriteTime(sessions[w]) > 0 => Unclaimed(w)
MatchInv == \A w \in Workspaces : SessionMatch(w) /\ SessionClaim(w)

\* What a call has read and not yet written back is still so.
CallMatch(p) ==
    /\ Pc(p) \in {"acquire", "take"} =>
         Rec(p, 1).status = "ready" /\ WriteTime(sessions[Ws(p, 1)]) = 0
    /\ Pc(p) = "take" => ~Held(BranchOf[Ws(p, 1)])
    /\ Pc(p) = "release" => Rec(p, 1).status # "ready" /\ Unclaimed(Ws(p, 1))
    /\ Pc(p) = "store" /\ IsWritable(Ws(p, 1)) => WriteTime(Rec(p, 1)) = LeaseTime(Ws(p, 1))
    /\ \A i \in Items(p) : (Pc(p) = "next" \/ i > 1) /\ Rec(p, i).status = "ready" =>
         Rec(p, i).left = 0 /\ Unclaimed(Ws(p, i))
CallInv == \A p \in Procs : CallMatch(p)

LeaseInv == crashes = 0 => MatchInv /\ CallInv

\* What a call will write for a committed session leaves it committed, or closes it.
CallFinal(p) ==
    \A i \in Items(p) :
        /\ sessions[Ws(p, i)].status = "committed" =>
             /\ Rec(p, i).status \in {"committed", "closed"}
             /\ Rec(p, i).sha = sessions[Ws(p, i)].sha
        /\ Rec(p, i).status = "committed" => Items(p) = {1}
FinalInv == \A p \in Procs : CallFinal(p)

-----------------------------------------------------------------------------
(***************************************************************************)
(* Files.                                                                  *)
(***************************************************************************)

\* What a request carries at each of its steps.
RequestShape(p) ==
    LET r == requests[p] IN
    /\ r.op = "blob" => r.content \in Contents
    /\ r.op = "record" => r.content \in Contents \cup {Deleted}
    /\ r.op \in {"list", "git", "mark", "marking"} => overlay[r.ws] # NoContent
    /\ r.op \in {"git", "mark", "marking"} => r.content # NoContent
TypeInv == TypeOK /\ ShapeInv /\ \A p \in Procs : RequestShape(p)

\* The content a request is about to record is there, as long as the directory is.
FileInv ==
    /\ \A w \in Workspaces \ retired : Readable(w) /\ (blobs[w] # {} => w \in dirs)
    /\ \A p \in Procs :
         LET r == requests[p] IN
         r.op = "record" /\ r.ws \notin retired /\ r.content \in Contents =>
             r.content \in blobs[r.ws]

Working == {"blob", "record", "list", "git", "mark"}

\* A request has the workspace for itself: nobody ends its session, and what it has read of
\* the overlay is still so.
CallOfRequest(p) ==
    LET r == requests[p] IN
    /\ r.op \in Working =>
         calls[p] = Idle /\ sessions[r.ws].status = "ready" /\ IsWritable(r.ws)
    /\ r.op \in {"git", "mark", "marking"} => r.content = overlay[r.ws]
    /\ r.op \in {"mark", "marking"} =>
         /\ r.sha \in DOMAIN made /\ heads[BranchOf[r.ws]] = r.sha
         /\ made[r.sha].ws = r.ws /\ made[r.sha].content = r.content
    /\ r.op = "marking" /\ Pc(p) # "idle" =>
         /\ Pc(p) \in {"release", "store"} /\ Items(p) = {1}
         /\ Ws(p, 1) = r.ws /\ Rec(p, 1).sha = r.sha
RequestInv == \A p \in Procs : CallOfRequest(p)

\* The commit a record names holds what its workspace was told is written.
Holds(rec, w) == rec.sha \in DOMAIN made /\ made[rec.sha].content = acked[w]

AckedInv ==
    /\ overlay = acked
    /\ \A w \in Workspaces : sessions[w].status = "committed" => Holds(sessions[w], w)
    /\ \A p \in Procs : \A i \in Items(p) :
         Rec(p, i).status = "committed" => Holds(Rec(p, i), Ws(p, i))

\* The head of b was made by w.
HeadIsOf(b, w) == heads[b] # NoSha /\ made[heads[b]].ws = w

\* A head is a commit of a workspace of its branch, and so is a base.
HeadsMade ==
    /\ \A b \in Branches : heads[b] # NoSha =>
         heads[b] \in DOMAIN made /\ BranchOf[made[heads[b]].ws] = b
    /\ \A w \in Workspaces : base[w] \in DOMAIN made \cup {NoSha}

\* The head of a branch is recorded, or a request is about to record it.
Pending(p, w) ==
    /\ requests[p].op \in {"mark", "marking"} /\ requests[p].ws = w
    /\ requests[p].op = "marking" => Pc(p) # "idle"
Recorded(b, w) ==
    /\ sessions[w] # NoSession /\ base[w] # heads[b]
    /\ sessions[w].sha = heads[b] \/ \E p \in Procs : Pending(p, w)
    /\ \A p \in Procs : \A i \in Items(p) : Ws(p, i) = w => Rec(p, i).sha = heads[b]
HeadInv == crashes = 0 => \A b \in Branches : \A w \in Workspaces : HeadIsOf(b, w) => Recorded(b, w)

\* The workspace goes on from the head of its branch.
OnTop(w) ==
    LET head == heads[BranchOf[w]] IN head = base[w] \/ (head # NoSha /\ made[head].ws = w)

\* Whoever may write, is about to, or commits, goes on from the head: it is the only one.
TopInv ==
    crashes = 0 =>
        /\ \A w \in Workspaces : Writable(w) => OnTop(w)
        /\ \A p \in Procs : \A i \in Items(p) : WriteTime(Rec(p, i)) > 0 => OnTop(Ws(p, i))
        /\ \A p \in Procs : requests[p].op \in Working =>
             /\ OnTop(requests[p].ws)
             /\ \A w \in Workspaces :
                  Writable(w) /\ BranchOf[w] = BranchOf[requests[p].ws] => w = requests[p].ws

-----------------------------------------------------------------------------
(***************************************************************************)
(* What the steps do to a call.                                            *)
(***************************************************************************)
CallsTypeOK == calls \in [Procs -> [pc : Pcs, todo : Seq(Tasks)]]

\* The items of a call are workspaces and records.
LEMMA ItemType ==
  ASSUME CallsTypeOK, NEW p \in Procs, NEW i \in Items(p)
  PROVE  /\ calls[p].todo[i] \in Tasks
         /\ Ws(p, i) \in Workspaces /\ Rec(p, i) \in Sessions
         /\ calls[p].todo[i] = [ws |-> Ws(p, i), rec |-> Rec(p, i)]
<1>1. calls[p].todo \in Seq(Tasks)
  BY DEF CallsTypeOK
<1>2. calls[p].todo[i] \in Tasks
  BY <1>1, ElementOfSeq DEF Items
<1> QED
  BY <1>2 DEF Tasks, Ws, Rec

\* A call without items is over.
LEMMA ItemsEmpty ==
  ASSUME CallsTypeOK, NEW p \in Procs
  PROVE  /\ calls[p].todo \in Seq(Tasks)
         /\ Len(calls[p].todo) \in Nat
         /\ calls[p].todo = <<>> <=> Items(p) = {}
         /\ calls[p].todo # <<>> => 1 \in Items(p) /\ Current(p) = calls[p].todo[1]
         /\ Items(p) = {1} <=> Len(calls[p].todo) = 1
<1>1. calls[p].todo \in Seq(Tasks) /\ Len(calls[p].todo) \in Nat
  BY LenProperties DEF CallsTypeOK
<1>2. calls[p].todo = <<>> <=> Len(calls[p].todo) = 0
  BY <1>1, EmptySeq
<1>3. Current(p) = calls[p].todo[1]
  BY DEF Current
<1>4. Items(p) = {1} <=> Len(calls[p].todo) = 1
  <2>1. ASSUME Items(p) = {1}
        PROVE  Len(calls[p].todo) = 1
    <3>1. Len(calls[p].todo) >= 1
      BY <1>1, <2>1 DEF Items
    <3>2. Len(calls[p].todo) \in Items(p)
      BY <1>1, <3>1 DEF Items
    <3> QED
      BY <2>1, <3>2
  <2>2. 1 .. 1 = {1}
    OBVIOUS
  <2> QED
    BY <2>1, <2>2 DEF Items
<1>5. calls[p].todo = <<>> => Items(p) = {}
  BY <1>2 DEF Items
<1>6. calls[p].todo # <<>> => 1 \in Items(p)
  BY <1>1, <1>2 DEF Items
<1> QED
  BY <1>1, <1>3, <1>4, <1>5, <1>6

\* A call begins with one record.
LEMMA BeginView ==
  ASSUME CallsTypeOK, NEW p \in Procs, NEW w \in Workspaces, NEW rec \in Sessions,
         NEW pc \in Pcs, Begin(p, pc, Task(w, rec))
  PROVE  /\ calls[p] = Idle /\ Pc(p) = "idle" /\ Items(p) = {}
         /\ Pc(p)' = pc /\ Items(p)' = {1} /\ Ws(p, 1)' = w /\ Rec(p, 1)' = rec
         /\ calls'[p].todo # <<>>
         /\ \A q \in Procs : q # p => calls'[q] = calls[q]
         /\ CallsTypeOK'
<1> DEFINE todo == <<[ws |-> w, rec |-> rec]>>
<1>1. calls[p] = Idle /\ calls' = [calls EXCEPT ![p] = [pc |-> pc, todo |-> todo]]
  BY DEF Begin, Task
<1>2. todo \in Seq(Tasks) /\ Len(todo) = 1 /\ todo[1] = [ws |-> w, rec |-> rec] /\ todo # <<>>
  BY DEF Tasks
<1> HIDE DEF todo
<1>3. calls'[p] = [pc |-> pc, todo |-> todo] /\ \A q \in Procs : q # p => calls'[q] = calls[q]
  BY <1>1 DEF CallsTypeOK
<1>4. CallsTypeOK'
  BY <1>1, <1>2 DEF CallsTypeOK
<1>5. Pc(p) = "idle" /\ Items(p) = {}
  BY <1>1 DEF Pc, Items, Idle
<1>6. calls'[p].pc = pc /\ calls'[p].todo = todo
  BY <1>3
<1>7. Items(p)' = {1}
  <2>1. 1 .. 1 = {1}
    OBVIOUS
  <2> QED
    BY <1>2, <1>6, <2>1 DEF Items
<1>8. Pc(p)' = pc /\ Ws(p, 1)' = w /\ Rec(p, 1)' = rec
  BY <1>2, <1>6 DEF Pc, Ws, Rec
<1> QED
  BY <1>1, <1>2, <1>3, <1>4, <1>5, <1>6, <1>7, <1>8

\* A call goes to its next step with the same records.
LEMMA GoToView ==
  ASSUME CallsTypeOK, NEW p \in Procs, NEW pc \in Pcs, GoTo(p, pc)
  PROVE  /\ Pc(p)' = pc /\ calls'[p].todo = calls[p].todo
         /\ \A q \in Procs : q # p => calls'[q] = calls[q]
         /\ CallsTypeOK'
<1>1. calls'[p] = [calls[p] EXCEPT !.pc = pc] /\ \A q \in Procs : q # p => calls'[q] = calls[q]
  BY DEF GoTo, CallsTypeOK
<1>2. CallsTypeOK'
  BY <1>1 DEF GoTo, CallsTypeOK
<1> QED
  BY <1>1, <1>2 DEF Pc, CallsTypeOK

\* A call is done with its first record.
LEMMA ContinueView ==
  ASSUME CallsTypeOK, NEW p \in Procs, calls[p].todo # <<>>, Continue(p)
  PROVE  /\ \/ calls'[p] = Idle /\ Pc(p)' = "idle" /\ Items(p)' = {} /\ Items(p) = {1}
            \/ /\ Pc(p)' = "next" /\ calls'[p].todo # <<>> /\ Items(p) # {1}
               /\ \A i \in Items(p)' : /\ i + 1 \in Items(p) /\ i + 1 > 1
                                       /\ Ws(p, i)' = Ws(p, i + 1) /\ Rec(p, i)' = Rec(p, i + 1)
         /\ \A q \in Procs : q # p => calls'[q] = calls[q]
         /\ CallsTypeOK'
<1> DEFINE todo == calls[p].todo
           rest == Tail(todo)
<1>1. todo \in Seq(Tasks) /\ Len(todo) \in Nat /\ Len(todo) # 0 /\ (Items(p) = {1} <=> Len(todo) = 1)
  BY ItemsEmpty, EmptySeq
<1>2. rest \in Seq(Tasks) /\ Len(rest) = Len(todo) - 1 /\ \A i \in 1 .. Len(rest) : rest[i] = todo[i + 1]
  BY <1>1, HeadTailProperties
<1>3. calls'[p] = (IF Len(todo) = 1 THEN Idle ELSE [pc |-> "next", todo |-> rest])
      /\ \A q \in Procs : q # p => calls'[q] = calls[q]
  BY DEF Continue, CallsTypeOK
<1>4. CallsTypeOK'
  <2>1. Idle \in [pc : Pcs, todo : Seq(Tasks)]
    BY EmptySeq DEF Idle, Pcs
  <2>2. [pc |-> "next", todo |-> rest] \in [pc : Pcs, todo : Seq(Tasks)]
    BY <1>2 DEF Pcs
  <2> QED
    BY <2>1, <2>2 DEF Continue, CallsTypeOK
<1> HIDE DEF todo, rest
<1>5. CASE Len(todo) = 1
  BY <1>1, <1>3, <1>4, <1>5 DEF Idle, Pc, Items
<1>6. CASE Len(todo) # 1
  <2>1. calls'[p].pc = "next" /\ calls'[p].todo = rest
    BY <1>3, <1>6
  <2>2. rest # <<>>
    BY <1>1, <1>2, <1>6, EmptySeq
  <2>3. ASSUME NEW i \in Items(p)'
        PROVE  i + 1 \in Items(p) /\ i + 1 > 1 /\ Ws(p, i)' = Ws(p, i + 1) /\ Rec(p, i)' = Rec(p, i + 1)
    <3>1. i \in 1 .. Len(rest)
      BY <2>1 DEF Items
    <3>2. rest[i] = todo[i + 1]
      BY <1>2, <3>1
    <3>3. i + 1 \in 1 .. Len(todo) /\ i + 1 > 1
      BY <1>1, <1>2, <3>1
    <3> QED
      BY <2>1, <3>2, <3>3 DEF Items, Ws, Rec, todo
  <2> QED
    BY <1>1, <1>3, <1>4, <1>6, <2>1, <2>2, <2>3 DEF Pc
<1> QED
  BY <1>5, <1>6

\* The loop of the cleanup is about to end a session: its record says so.
LEMMA ExpireView ==
  ASSUME CallsTypeOK, NEW p \in Procs, calls[p].todo # <<>>, NEW pc \in Pcs,
         calls' = [calls EXCEPT ![p].pc = pc, ![p].todo[1].rec.status = "expired"]
  PROVE  /\ Pc(p)' = pc /\ Items(p)' = Items(p) /\ calls'[p].todo # <<>>
         /\ \A i \in Items(p) : Ws(p, i)' = Ws(p, i)
         /\ \A i \in Items(p) : i # 1 => Rec(p, i)' = Rec(p, i)
         /\ Rec(p, 1)' = [Rec(p, 1) EXCEPT !.status = "expired"]
         /\ \A q \in Procs : q # p => calls'[q] = calls[q]
         /\ CallsTypeOK'
<1> DEFINE todo == calls[p].todo
           item == [todo[1] EXCEPT !.rec.status = "expired"]
           new == [todo EXCEPT ![1] = item]
<1>1. 1 \in Items(p) /\ todo \in Seq(Tasks) /\ 1 \in 1 .. Len(todo)
  BY ItemsEmpty DEF Items
<1>2. todo[1] = [ws |-> Ws(p, 1), rec |-> Rec(p, 1)] /\ Ws(p, 1) \in Workspaces /\ Rec(p, 1) \in Sessions
  BY <1>1, ItemType
<1>3. item = [ws |-> Ws(p, 1), rec |-> [Rec(p, 1) EXCEPT !.status = "expired"]]
  BY <1>2 DEF Sessions
<1>4. [Rec(p, 1) EXCEPT !.status = "expired"] \in Sessions
  BY <1>2 DEF Sessions, Statuses
<1>5. item \in Tasks
  BY <1>2, <1>3, <1>4 DEF Tasks
<1>6. calls'[p] = [pc |-> pc, todo |-> new] /\ \A q \in Procs : q # p => calls'[q] = calls[q]
  BY DEF CallsTypeOK
<1>9. calls'[p].pc = pc /\ calls'[p].todo = new
  BY <1>6
<1> HIDE DEF item
<1>7. /\ new \in Seq(Tasks) /\ Len(new) = Len(todo) /\ new[1] = item
      /\ \A i \in 1 .. Len(todo) : i # 1 => new[i] = todo[i]
  BY <1>1, <1>5, ExceptSeq
<1>8. CallsTypeOK'
  <2>1. [pc |-> pc, todo |-> new] \in [pc : Pcs, todo : Seq(Tasks)]
    BY <1>7
  <2> HIDE DEF new
  <2>2. calls' = [calls EXCEPT ![p] = [pc |-> pc, todo |-> new]]
    BY <1>6 DEF CallsTypeOK
  <2> QED
    BY <2>1, <2>2 DEF CallsTypeOK
<1> HIDE DEF new, todo
<1>10. Items(p)' = Items(p) /\ new # <<>>
  BY <1>1, <1>7, <1>9, EmptySeq DEF Items, todo
<1>11. Ws(p, 1)' = Ws(p, 1) /\ Rec(p, 1)' = [Rec(p, 1) EXCEPT !.status = "expired"]
  BY <1>3, <1>7, <1>9 DEF Ws, Rec
<1>12. \A i \in Items(p) : i # 1 => Ws(p, i)' = Ws(p, i) /\ Rec(p, i)' = Rec(p, i)
  BY <1>7, <1>9 DEF Ws, Rec, Items, todo
<1> QED
  BY <1>6, <1>8, <1>9, <1>10, <1>11, <1>12 DEF Pc

\* Time passes for the records of all calls.
LEMMA TickView ==
  ASSUME CallsTypeOK, Tick
  PROVE  /\ \A p \in Procs :
              /\ Pc(p)' = Pc(p) /\ Items(p)' = Items(p)
              /\ calls'[p].todo = <<>> <=> calls[p].todo = <<>>
              /\ calls[p] = Idle => calls'[p] = Idle
              /\ \A i \in Items(p) : /\ Ws(p, i)' = Ws(p, i)
                                     /\ Rec(p, i)' = [Rec(p, i) EXCEPT !.left = Elapse(@)]
         /\ CallsTypeOK'
<1> DEFINE later(item) == [item EXCEPT !.rec.left = Elapse(@)]
           todo(p) == [i \in DOMAIN calls[p].todo |-> later(calls[p].todo[i])]
<1>1. calls' = [p \in Procs |-> [calls[p] EXCEPT !.todo = todo(p)]]
  BY DEF Tick
<1>2. ASSUME NEW item \in Tasks
      PROVE  later(item) \in Tasks /\ later(item) = [ws |-> item.ws, rec |-> [item.rec EXCEPT !.left = Elapse(@)]]
  <2>1. item = [ws |-> item.ws, rec |-> item.rec] /\ item.ws \in Workspaces /\ item.rec \in Sessions
    BY DEF Tasks
  <2>2. Elapse(item.rec.left) \in Nat
    BY <2>1 DEF Elapse, Sessions
  <2>3. [item.rec EXCEPT !.left = Elapse(@)] \in Sessions
    BY <2>1, <2>2 DEF Sessions
  <2>4. later(item) = [ws |-> item.ws, rec |-> [item.rec EXCEPT !.left = Elapse(@)]]
    BY <2>1
  <2> QED
    BY <2>1, <2>3, <2>4 DEF Tasks
<1> HIDE DEF later
<1>3. ASSUME NEW p \in Procs
      PROVE  /\ todo(p) \in Seq(Tasks) /\ Len(todo(p)) = Len(calls[p].todo)
             /\ \A i \in 1 .. Len(calls[p].todo) : todo(p)[i] = later(calls[p].todo[i])
  <2>1. calls[p].todo \in Seq(Tasks) /\ Len(calls[p].todo) \in Nat
        /\ DOMAIN calls[p].todo = 1 .. Len(calls[p].todo)
    BY LenProperties DEF CallsTypeOK
  <2>2. \A i \in 1 .. Len(calls[p].todo) : calls[p].todo[i] \in Tasks
    BY <2>1, ElementOfSeq
  <2>3. todo(p) \in [1 .. Len(calls[p].todo) -> Tasks]
    BY <1>2, <2>1, <2>2
  <2>4. todo(p) \in Seq(Tasks)
    BY <2>1, <2>3
  <2>5. Len(todo(p)) = Len(calls[p].todo)
    BY <2>1, <2>3, <2>4, LenProperties
  <2> QED
    BY <2>1, <2>4, <2>5
<1> HIDE DEF todo
<1>4. CallsTypeOK'
  BY <1>1, <1>3 DEF CallsTypeOK
<1>5. ASSUME NEW p \in Procs
      PROVE  /\ Pc(p)' = Pc(p) /\ Items(p)' = Items(p)
             /\ calls'[p].todo = <<>> <=> calls[p].todo = <<>>
             /\ calls[p] = Idle => calls'[p] = Idle
             /\ \A i \in Items(p) : /\ Ws(p, i)' = Ws(p, i)
                                    /\ Rec(p, i)' = [Rec(p, i) EXCEPT !.left = Elapse(@)]
  <2>1. calls'[p].pc = calls[p].pc /\ calls'[p].todo = todo(p)
        /\ calls'[p] = [pc |-> calls[p].pc, todo |-> todo(p)]
    BY <1>1 DEF CallsTypeOK
  <2>2. Items(p)' = Items(p)
    BY <1>3, <2>1 DEF Items
  <2>3. calls'[p].todo = <<>> <=> calls[p].todo = <<>>
    BY <1>3, <2>1, ItemsEmpty, EmptySeq
  <2>4. calls[p] = Idle => calls'[p] = Idle
    BY <2>1, <2>3 DEF Idle
  <2>5. ASSUME NEW i \in Items(p)
        PROVE  Ws(p, i)' = Ws(p, i) /\ Rec(p, i)' = [Rec(p, i) EXCEPT !.left = Elapse(@)]
    <3>1. calls[p].todo[i] \in Tasks
      BY ItemType
    <3>2. calls'[p].todo[i] = [ws |-> Ws(p, i), rec |-> [Rec(p, i) EXCEPT !.left = Elapse(@)]]
      BY <1>2, <1>3, <2>1, <3>1 DEF Items, Ws, Rec
    <3> QED
      BY <3>2 DEF Ws, Rec
  <2> QED
    BY <2>1, <2>2, <2>3, <2>4, <2>5 DEF Pc
<1> QED
  BY <1>4, <1>5

\* The cleanup begins with the sessions it has listed.
LEMMA CleanupView ==
  ASSUME CallsTypeOK, sessions \in [Workspaces -> Sessions \cup {NoSession}],
         NEW p \in Procs, CleanupExpired(p)
  PROVE  /\ calls[p] = Idle /\ Pc(p) = "idle" /\ Items(p) = {}
         /\ Pc(p)' = "next" /\ calls'[p].todo # <<>>
         /\ \A i \in Items(p)' :
              /\ Ws(p, i)' \in Workspaces /\ Rec(p, i)' = sessions[Ws(p, i)']
              /\ \/ Expired(Ws(p, i)') /\ MayRelease(Ws(p, i)')
                 \/ Retired(Ws(p, i)')
         /\ \A q \in Procs : q # p => calls'[q] = calls[q]
         /\ CallsTypeOK'
<1> DEFINE listed == {w \in Workspaces : Expired(w) \/ Retired(w)}
           item(w) == [ws |-> w, rec |-> sessions[w]]
<1>1. PICK order \in [1 .. Cardinality(listed) -> listed] :
        Begin(p, "next", [i \in DOMAIN order |-> item(order[i])])
  BY DEF CleanupExpired
<1>2. listed # {} /\ \A w \in listed : Expired(w) => MayRelease(w)
  BY DEF CleanupExpired
<1>3. IsFiniteSet(listed) /\ Cardinality(listed) \in Nat /\ Cardinality(listed) # 0
  <2>1. IsFiniteSet(listed)
    BY LeaseConstants, FS_Subset
  <2> QED
    BY <1>2, <2>1, FS_CardinalityType, FS_EmptySet
<1> DEFINE n == Cardinality(listed)
           todo == [i \in 1 .. n |-> item(order[i])]
<1>4. ASSUME NEW w \in listed
      PROVE  item(w) \in Tasks
  <2>1. sessions[w] \in Sessions
    BY DEF Expired, Retired, NoSession
  <2> QED
    BY <2>1 DEF Tasks
<1> HIDE DEF item, listed, n
<1>5. /\ todo \in Seq(Tasks) /\ Len(todo) = n /\ todo # <<>>
      /\ \A i \in 1 .. n : todo[i] = item(order[i]) /\ order[i] \in listed
  <2>1. n \in Nat /\ n # 0 /\ order \in [1 .. n -> listed]
    BY <1>3 DEF n
  <2>2. todo \in [1 .. n -> Tasks]
    BY <1>4, <2>1
  <2>3. todo \in Seq(Tasks) /\ Len(todo) = n
    BY <2>1, <2>2, LenProperties
  <2> QED
    BY <2>1, <2>3, EmptySeq
<1>6. DOMAIN order = 1 .. n
  BY DEF n
<1> HIDE DEF todo
<1>7. calls[p] = Idle /\ calls' = [calls EXCEPT ![p] = [pc |-> "next", todo |-> todo]]
  BY <1>1, <1>6 DEF Begin, todo
<1>8. calls'[p].pc = "next" /\ calls'[p].todo = todo /\ \A q \in Procs : q # p => calls'[q] = calls[q]
  BY <1>7 DEF CallsTypeOK
<1>9. CallsTypeOK'
  BY <1>5, <1>7 DEF CallsTypeOK, Pcs
<1>10. ASSUME NEW i \in Items(p)'
       PROVE  /\ Ws(p, i)' \in Workspaces /\ Rec(p, i)' = sessions[Ws(p, i)']
              /\ \/ Expired(Ws(p, i)') /\ MayRelease(Ws(p, i)')
                 \/ Retired(Ws(p, i)')
  <2>1. todo[i] = item(order[i]) /\ order[i] \in listed
    BY <1>5, <1>8 DEF Items
  <2>2. Ws(p, i)' = order[i] /\ Rec(p, i)' = sessions[order[i]]
    BY <1>8, <2>1 DEF Ws, Rec, item
  <2> QED
    BY <1>2, <2>1, <2>2 DEF listed
<1>11. Pc(p) = "idle" /\ Items(p) = {}
  BY <1>7 DEF Pc, Items, Idle
<1> QED
  BY <1>5, <1>7, <1>8, <1>9, <1>10, <1>11 DEF Pc

-----------------------------------------------------------------------------
(***************************************************************************)
(* The kinds of calls.                                                     *)
(***************************************************************************)
New(w, ttl) == [status |-> "ready", left |-> ttl, leased |-> IsWritable(w), sha |-> NoSha]
Ended(w, status, sha) == [sessions[w] EXCEPT !.status = status, !.sha = sha]

\* create: a record that is not there, or of a workspace that has ended, is written anew.
Creates(p, w, ttl) ==
    /\ MayOpen(w)
    /\ Begin(p, IF IsWritable(w) THEN "acquire" ELSE "store", Task(w, New(w, ttl)))

\* commit, close and quarantine: the session gets its last status, and gives its lease up.
Ends(p, w, status, sha) ==
    /\ sessions[w] # NoSession /\ MayRelease(w)
    /\ status = "committed" => sessions[w].status = "ready"
    /\ sessions[w].status = "committed" => status = "closed"
    /\ Begin(p, IF sessions[w].leased THEN "release" ELSE "store",
             Task(w, Ended(w, status, sha)))

\* update_workspace_policy, and quarantine of what has ended: the record is written as it was.
Rewrites(p, w) == sessions[w] # NoSession /\ Begin(p, "store", Task(w, sessions[w]))

\* close and quarantine, as kinds.
LEMMA EndKinds ==
  ASSUME sessions \in [Workspaces -> Sessions \cup {NoSession}],
         NEW p \in Procs, NEW w \in Workspaces, CloseWorkspace(p, w) \/ Quarantine(p, w)
  PROVE  \/ \E status \in {"closed", "quarantined"} : Ends(p, w, status, sessions[w].sha)
         \/ Rewrites(p, w)
<1>1. \A status : sessions[w] # NoSession =>
        [sessions[w] EXCEPT !.status = status] = Ended(w, status, sessions[w].sha)
  BY DEF Ended, Sessions
<1>2. CASE CloseWorkspace(p, w)
  <2>1. sessions[w] # NoSession /\ MayRelease(w)
        /\ Finish(p, w, Ended(w, "closed", sessions[w].sha))
    BY <1>1, <1>2 DEF CloseWorkspace, NoSession
  <2>2. Ended(w, "closed", sessions[w].sha).leased = sessions[w].leased
    BY DEF Ended
  <2>3. Ends(p, w, "closed", sessions[w].sha)
    BY <2>1, <2>2 DEF Ends, Finish
  <2> QED
    BY <2>3
<1>3. CASE Quarantine(p, w) /\ sessions[w].status = "ready"
  <2>1. sessions[w] # NoSession /\ MayRelease(w)
        /\ Finish(p, w, Ended(w, "quarantined", sessions[w].sha))
    BY <1>1, <1>3 DEF Quarantine
  <2>2. Ended(w, "quarantined", sessions[w].sha).leased = sessions[w].leased
    BY DEF Ended
  <2>3. Ends(p, w, "quarantined", sessions[w].sha)
    BY <1>3, <2>1, <2>2 DEF Ends, Finish
  <2> QED
    BY <2>3
<1>4. CASE Quarantine(p, w) /\ sessions[w].status # "ready"
  BY <1>4 DEF Quarantine, Rewrites
<1> QED
  BY <1>2, <1>3, <1>4

\* mark_workspace_committed, as a kind.
LEMMA MarkKind ==
  ASSUME sessions \in [Workspaces -> Sessions \cup {NoSession}],
         NEW p \in Procs, NEW w \in Workspaces, NEW sha, MarkCommitted(p, w, sha)
  PROVE  Ends(p, w, "committed", sha)
<1>1. sessions[w] # NoSession /\ sessions[w].status = "ready" /\ MayRelease(w)
      /\ Finish(p, w, Ended(w, "committed", sha))
  BY DEF MarkCommitted, NoSession, Ended
<1>2. Ended(w, "committed", sha).leased = sessions[w].leased
  BY DEF Ended
<1> QED
  BY <1>1, <1>2 DEF Ends, Finish

\* A call of each kind, as a call that begins with one record.
LEMMA CreatesView ==
  ASSUME CallsTypeOK, NEW p \in Procs, NEW w \in Workspaces, NEW ttl \in Ttls, Creates(p, w, ttl)
  PROVE  /\ New(w, ttl) \in Sessions
         /\ calls[p] = Idle /\ Pc(p) = "idle" /\ Items(p) = {}
         /\ Pc(p)' = (IF IsWritable(w) THEN "acquire" ELSE "store")
         /\ Items(p)' = {1} /\ Ws(p, 1)' = w /\ Rec(p, 1)' = New(w, ttl)
         /\ calls'[p].todo # <<>>
         /\ \A q \in Procs : q # p => calls'[q] = calls[q]
         /\ CallsTypeOK'
<1>1. New(w, ttl) \in Sessions
  BY LeaseConstants DEF New, Sessions, Statuses, IsWritable
<1>2. PICK pc \in Pcs : pc = (IF IsWritable(w) THEN "acquire" ELSE "store")
  BY DEF Pcs
<1>3. Begin(p, pc, Task(w, New(w, ttl)))
  BY <1>2 DEF Creates
<1> QED
  BY <1>1, <1>2, <1>3, BeginView

\* Closing, committing or expiring a workspace begins with its ended record.
LEMMA EndsView ==
  ASSUME CallsTypeOK, sessions \in [Workspaces -> Sessions \cup {NoSession}],
         NEW p \in Procs, NEW w \in Workspaces, NEW status \in {"committed", "closed", "quarantined"},
         NEW sha \in Shas \cup {NoSha}, Ends(p, w, status, sha)
  PROVE  /\ Ended(w, status, sha) \in Sessions /\ sessions[w] \in Sessions
         /\ Ended(w, status, sha).status = status /\ Ended(w, status, sha).sha = sha
         /\ Ended(w, status, sha).leased = sessions[w].leased
         /\ calls[p] = Idle /\ Pc(p) = "idle" /\ Items(p) = {}
         /\ Pc(p)' = (IF sessions[w].leased THEN "release" ELSE "store")
         /\ Items(p)' = {1} /\ Ws(p, 1)' = w /\ Rec(p, 1)' = Ended(w, status, sha)
         /\ calls'[p].todo # <<>>
         /\ \A q \in Procs : q # p => calls'[q] = calls[q]
         /\ CallsTypeOK'
<1>1. sessions[w] \in Sessions
  BY DEF Ends
<1>2. /\ Ended(w, status, sha) \in Sessions
      /\ Ended(w, status, sha).status = status /\ Ended(w, status, sha).sha = sha
      /\ Ended(w, status, sha).leased = sessions[w].leased
  BY <1>1 DEF Ended, Sessions, Statuses
<1>3. PICK pc \in Pcs : pc = (IF sessions[w].leased THEN "release" ELSE "store")
  BY DEF Pcs
<1>4. Begin(p, pc, Task(w, Ended(w, status, sha)))
  BY <1>3 DEF Ends
<1> HIDE DEF Ended
<1> QED
  BY <1>1, <1>2, <1>3, <1>4, BeginView

\* A call that rewrites a session begins with the record it has read.
LEMMA RewritesView ==
  ASSUME CallsTypeOK, sessions \in [Workspaces -> Sessions \cup {NoSession}],
         NEW p \in Procs, NEW w \in Workspaces, Rewrites(p, w)
  PROVE  /\ sessions[w] \in Sessions
         /\ calls[p] = Idle /\ Pc(p) = "idle" /\ Items(p) = {}
         /\ Pc(p)' = "store" /\ Items(p)' = {1} /\ Ws(p, 1)' = w /\ Rec(p, 1)' = sessions[w]
         /\ calls'[p].todo # <<>>
         /\ \A q \in Procs : q # p => calls'[q] = calls[q]
         /\ CallsTypeOK'
<1>1. sessions[w] \in Sessions /\ Begin(p, "store", Task(w, sessions[w])) /\ "store" \in Pcs
  BY DEF Rewrites, Pcs
<1> QED
  BY <1>1, BeginView

-----------------------------------------------------------------------------
(***************************************************************************)
(* The steps of the store, by kind.                                        *)
(***************************************************************************)
StoreSame == UNCHANGED <<sessions, leases, crashes>>

StartKind(p) ==
    /\ StoreSame
    /\ \/ calls' = calls
       \/ \E w \in Workspaces :
            \/ \E ttl \in Ttls : Creates(p, w, ttl)
            \/ \E status \in {"committed", "closed", "quarantined"}, sha \in Shas \cup {NoSha} :
                 Ends(p, w, status, sha) /\ (status = "committed" \/ sha = sessions[w].sha)
            \/ Rewrites(p, w)
       \/ CleanupExpired(p)

\* The calls start as one of the kinds.
LEMMA StartIsKind ==
  ASSUME StoreTypeOK, NEW p \in Procs, StartCall(p)
  PROVE  StartKind(p)
<1>0. sessions \in [Workspaces -> Sessions \cup {NoSession}]
  BY DEF StoreTypeOK
<1>1. ASSUME NEW w \in Workspaces, NEW ttl \in Ttls, CreateWorkspace(p, w, ttl)
      PROVE  Creates(p, w, ttl) /\ StoreSame
  BY <1>1 DEF CreateWorkspace, Creates, New, StoreSame
<1>2. ASSUME NEW w \in Workspaces, NEW sha \in Shas, MarkCommitted(p, w, sha)
      PROVE  Ends(p, w, "committed", sha) /\ StoreSame
  BY <1>0, <1>2, MarkKind DEF MarkCommitted, StoreSame
<1>3. ASSUME NEW w \in Workspaces, CloseWorkspace(p, w) \/ Quarantine(p, w)
      PROVE  StartKind(p)
  <2>1. CASE Rewrites(p, w)
    BY <1>3, <2>1 DEF StartKind, StoreSame, CloseWorkspace, Quarantine
  <2>2. CASE \E status \in {"closed", "quarantined"} : Ends(p, w, status, sessions[w].sha)
    <3>1. PICK status \in {"closed", "quarantined"} : Ends(p, w, status, sessions[w].sha)
      BY <2>2
    <3>2. sessions[w].sha \in Shas \cup {NoSha}
      BY <1>0 DEF Sessions, NoSession
    <3>3. StoreSame
      BY <1>3 DEF StoreSame, CloseWorkspace, Quarantine
    <3>4. status \in {"committed", "closed", "quarantined"}
      OBVIOUS
    <3> QED
      BY <3>1, <3>2, <3>3, <3>4 DEF StartKind
  <2> QED
    BY <1>0, <1>3, <2>1, <2>2, EndKinds
<1>4. ASSUME NEW w \in Workspaces, UpdatePolicy(p, w)
      PROVE  Rewrites(p, w) /\ StoreSame
  BY <1>4 DEF UpdatePolicy, Rewrites, StoreSame
<1>5. ASSUME NEW w \in Workspaces, CreateRefused(p, w)
      PROVE  calls' = calls /\ StoreSame
  BY <1>5 DEF CreateRefused, StoreSame
<1>6. CleanupExpired(p) => StoreSame
  BY DEF CleanupExpired, StoreSame
<1> QED
  BY <1>1, <1>2, <1>3, <1>4, <1>5, <1>6 DEF StartCall, StartKind

\* A step of the sessions, the leases and the calls, or none of theirs.
StoreStep ==
    \/ \E p \in Procs : StartKind(p) \/ StepCall(p)
    \/ Tick
    \/ CrashRestart
    \/ StoreSame /\ calls' = calls

\* The steps of the whole, as steps of the store.
LEMMA NextIsStoreStep ==
  ASSUME StoreTypeOK, requests \in [Procs -> Requests \cup {NoRequest}], [Next]_vars
  PROVE  StoreStep
<1>1. ASSUME NEW p \in Procs, NEW w \in Workspaces,
             (\E ttl \in Ttls : Create(p, w, ttl)) \/ ChangeWorkspace(p, w)
      PROVE  StoreStep
  <2>1. StartCall(p)
    BY <1>1 DEF Create, ChangeWorkspace, StartCall
  <2> QED
    BY <2>1, StartIsKind DEF StoreStep
<1>2. ASSUME NEW p \in Procs, Cleanup(p) \/ StepStore(p)
      PROVE  StoreStep
  <2>1. StartCall(p) \/ StepCall(p)
    BY <1>2 DEF Cleanup, StepStore, StartCall
  <2> QED
    BY <2>1, StartIsKind DEF StoreStep
<1>3. ASSUME NEW p \in Procs, MarkSession(p)
      PROVE  StoreStep
  <2>1. CASE UNCHANGED leaseVars
    BY <2>1 DEF leaseVars, StoreStep, StoreSame
  <2>2. CASE MarkCommitted(p, Req(p).ws, Req(p).sha)
    <3>1. Req(p).ws \in Workspaces /\ Req(p).sha \in Shas \cup {NoSha}
      BY <1>3 DEF MarkSession, Step, Req, Requests, NoRequest
    <3>2. Ends(p, Req(p).ws, "committed", Req(p).sha) /\ StoreSame
      BY <2>2, <3>1, MarkKind DEF StoreTypeOK, MarkCommitted, StoreSame
    <3>3. StartKind(p)
      BY <3>1, <3>2 DEF StartKind
    <3> QED
      BY <3>3 DEF StoreStep
  <2> QED
    BY <1>3, <2>1, <2>2 DEF MarkSession
<1>4. ASSUME NEW p \in Procs, NEW w \in Workspaces,
             (\E c \in Contents : WriteFile(p, w, c)) \/ DeleteFile(p, w) \/ Commit(p, w)
      PROVE  StoreStep
  BY <1>4 DEF WriteFile, DeleteFile, Commit, leaseVars, StoreStep, StoreSame
<1>5. ASSUME NEW p \in Procs,
             PutBlob(p) \/ PutFileRecord(p) \/ ListChanges(p) \/ CommitOverlay(p) \/ Answer(p)
      PROVE  StoreStep
  BY <1>5 DEF PutBlob, PutFileRecord, ListChanges, CommitOverlay, Answer, leaseVars, StoreStep, StoreSame
<1>6. Pass \/ Crash => StoreStep
  BY DEF Pass, Crash, StoreStep
<1>7. UNCHANGED vars => StoreStep
  BY DEF vars, leaseVars, StoreStep, StoreSame
<1> QED
  BY <1>1, <1>2, <1>3, <1>4, <1>5, <1>6, <1>7 DEF Next

\* What a call works at.
LEMMA CurrentView ==
  ASSUME CallsTypeOK, NEW p \in Procs, CallShape(p), Pc(p) # "idle"
  PROVE  /\ calls[p].todo # <<>> /\ 1 \in Items(p)
         /\ Ws(p, 1) \in Workspaces /\ Rec(p, 1) \in Sessions
         /\ Current(p).ws = Ws(p, 1) /\ Current(p).rec = Rec(p, 1)
         /\ BranchAt(p) = BranchOf[Ws(p, 1)]
<1>1. calls[p].todo # <<>>
  BY DEF CallShape
<1>2. 1 \in Items(p) /\ Current(p) = calls[p].todo[1]
  BY <1>1, ItemsEmpty
<1> QED
  BY <1>1, <1>2, ItemType DEF Ws, Rec, BranchAt

\* A call that is over.
LEMMA IdleView ==
  ASSUME NEW p \in Procs, calls[p] = Idle
  PROVE  Pc(p) = "idle" /\ Items(p) = {} /\ calls[p].todo = <<>>
BY DEF Pc, Items, Idle

\* A step to Idle.
LEMMA StopView ==
  ASSUME CallsTypeOK, NEW p \in Procs, calls' = [calls EXCEPT ![p] = Idle]
  PROVE  /\ calls'[p] = Idle /\ Pc(p)' = "idle" /\ Items(p)' = {} /\ calls'[p].todo = <<>>
         /\ \A q \in Procs : q # p => calls'[q] = calls[q]
         /\ CallsTypeOK'
<1>1. Idle \in [pc : Pcs, todo : Seq(Tasks)]
  BY EmptySeq DEF Idle, Pcs
<1> QED
  BY <1>1 DEF CallsTypeOK, Pc, Items, Idle

\* A step of a call ends it, or takes the call on with the same or the remaining items.
LEMMA StepCallsType ==
  ASSUME CallsTypeOK, NEW p \in Procs, CallShape(p), StepCall(p)
  PROVE  /\ CallsTypeOK' /\ CallShape(p)'
         /\ \A q \in Procs : q # p => calls'[q] = calls[q]
<1>1. Pc(p) # "idle"
  BY DEF StepCall, AcquireLease, TakeLease, CleanupNext, ReleaseLease, StoreSession, At, Pc
<1>2. /\ calls[p].todo # <<>> /\ 1 \in Items(p)
      /\ Current(p).ws = Ws(p, 1) /\ Current(p).rec = Rec(p, 1)
      /\ Ws(p, 1) \in Workspaces /\ Rec(p, 1) \in Sessions
  BY <1>1, CurrentView
<1>3. ASSUME NEW pc \in {"take", "store"}, GoTo(p, pc), pc = "take" => Pc(p) = "acquire"
      PROVE  /\ CallsTypeOK' /\ CallShape(p)'
             /\ \A q \in Procs : q # p => calls'[q] = calls[q]
  <2>1. pc \in Pcs
    BY DEF Pcs
  <2>2. /\ Pc(p)' = pc /\ calls'[p].todo = calls[p].todo /\ CallsTypeOK'
        /\ \A q \in Procs : q # p => calls'[q] = calls[q]
    BY <1>3, <2>1, GoToView
  <2>3. Items(p)' = Items(p) /\ \A i : Ws(p, i)' = Ws(p, i) /\ Rec(p, i)' = Rec(p, i)
    BY <2>2 DEF Items, Ws, Rec
  <2>4. CallShape(p)'
    BY <1>2, <1>3, <2>2, <2>3 DEF CallShape
  <2> QED
    BY <2>2, <2>4
<1>4. ASSUME Continue(p)
      PROVE  /\ CallsTypeOK' /\ CallShape(p)'
             /\ \A q \in Procs : q # p => calls'[q] = calls[q]
  <2>1. /\ \/ calls'[p] = Idle /\ Pc(p)' = "idle" /\ Items(p)' = {} /\ Items(p) = {1}
           \/ /\ Pc(p)' = "next" /\ calls'[p].todo # <<>> /\ Items(p) # {1}
              /\ \A i \in Items(p)' : /\ i + 1 \in Items(p) /\ i + 1 > 1
                                      /\ Ws(p, i)' = Ws(p, i + 1) /\ Rec(p, i)' = Rec(p, i + 1)
        /\ \A q \in Procs : q # p => calls'[q] = calls[q]
        /\ CallsTypeOK'
    BY <1>2, <1>4, ContinueView
  <2>2. CASE calls'[p] = Idle /\ Pc(p)' = "idle" /\ Items(p)' = {}
    <3>1. calls'[p].todo = <<>>
      BY <2>2 DEF Idle
    <3> QED
      BY <2>1, <2>2, <3>1 DEF CallShape
  <2>3. CASE /\ Pc(p)' = "next" /\ calls'[p].todo # <<>>
             /\ \A i \in Items(p)' : /\ i + 1 \in Items(p) /\ i + 1 > 1
                                     /\ Ws(p, i)' = Ws(p, i + 1) /\ Rec(p, i)' = Rec(p, i + 1)
    <3>1. CallShape(p)'
      BY <2>3 DEF CallShape
    <3> QED
      BY <2>1, <3>1
  <2> QED
    BY <2>1, <2>2, <2>3
<1>5. CASE AcquireLease(p)
  <2>1. ASSUME calls' = [calls EXCEPT ![p] = Idle]
        PROVE  /\ CallsTypeOK' /\ CallShape(p)'
               /\ \A q \in Procs : q # p => calls'[q] = calls[q]
    BY <2>1, StopView DEF CallShape
  <2> QED
    BY <1>3, <1>5, <2>1 DEF AcquireLease, At, Pc
<1>6. CASE TakeLease(p) \/ ReleaseLease(p)
  BY <1>3, <1>6 DEF TakeLease, ReleaseLease
<1>7. CASE CleanupNext(p) /\ Current(p).rec.status = "ready"
  <2>1. PICK pc \in Pcs : pc = (IF Rec(p, 1).leased THEN "release" ELSE "store")
    BY DEF Pcs
  <2>2. calls' = [calls EXCEPT ![p].pc = pc, ![p].todo[1].rec.status = "expired"]
    BY <1>2, <1>7, <2>1 DEF CleanupNext
  <2>3. /\ Pc(p)' = pc /\ Items(p)' = Items(p) /\ calls'[p].todo # <<>>
        /\ \A i \in Items(p) : Ws(p, i)' = Ws(p, i)
        /\ \A i \in Items(p) : i # 1 => Rec(p, i)' = Rec(p, i)
        /\ Rec(p, 1)' = [Rec(p, 1) EXCEPT !.status = "expired"]
        /\ \A q \in Procs : q # p => calls'[q] = calls[q]
        /\ CallsTypeOK'
    BY <1>2, <2>2, ExpireView
  <2>4. Rec(p, 1)'.leased = Rec(p, 1).leased
    BY <1>2, <2>3 DEF Sessions
  <2>5. \A i \in Items(p) : Rec(p, i)'.leased = IsWritable(Ws(p, i)')
    BY <1>2, <2>3, <2>4 DEF CallShape
  <2>6. CallShape(p)'
    BY <1>2, <2>1, <2>3, <2>4, <2>5 DEF CallShape
  <2> QED
    BY <2>3, <2>6
<1>8. CASE CleanupNext(p) /\ Current(p).rec.status # "ready"
  BY <1>4, <1>8 DEF CleanupNext
<1>9. CASE StoreSession(p)
  BY <1>4, <1>9 DEF StoreSession
<1> QED
  BY <1>5, <1>6, <1>7, <1>8, <1>9 DEF StepCall

\* A call that starts has the shape of a call.
LEMMA StartCallsType ==
  ASSUME StoreTypeOK, \A w \in Workspaces : SessionShape(w), NEW p \in Procs, CallShape(p),
         StartKind(p)
  PROVE  /\ CallsTypeOK' /\ CallShape(p)'
         /\ \A q \in Procs : q # p => calls'[q] = calls[q]
<1>0. CallsTypeOK /\ sessions \in [Workspaces -> Sessions \cup {NoSession}]
  BY DEF StoreTypeOK, CallsTypeOK
<1>1. CASE calls' = calls
  BY <1>0, <1>1 DEF CallsTypeOK, CallShape, Pc, Items, Ws, Rec
<1>2. ASSUME NEW w \in Workspaces, NEW ttl \in Ttls, Creates(p, w, ttl)
      PROVE  /\ CallsTypeOK' /\ CallShape(p)'
             /\ \A q \in Procs : q # p => calls'[q] = calls[q]
  <2>1. New(w, ttl).leased = IsWritable(w)
    BY DEF New
  <2> QED
    BY <1>0, <1>2, <2>1, CreatesView DEF CallShape
<1>3. ASSUME NEW w \in Workspaces, NEW status \in {"committed", "closed", "quarantined"},
             NEW sha \in Shas \cup {NoSha}, Ends(p, w, status, sha)
      PROVE  /\ CallsTypeOK' /\ CallShape(p)'
             /\ \A q \in Procs : q # p => calls'[q] = calls[q]
  <2>1. sessions[w].leased = IsWritable(w)
    BY <1>3 DEF Ends, SessionShape
  <2>2. /\ Ended(w, status, sha).leased = sessions[w].leased
        /\ Pc(p)' = (IF sessions[w].leased THEN "release" ELSE "store")
        /\ Items(p)' = {1} /\ Ws(p, 1)' = w /\ Rec(p, 1)' = Ended(w, status, sha)
        /\ calls'[p].todo # <<>>
        /\ \A q \in Procs : q # p => calls'[q] = calls[q]
        /\ CallsTypeOK'
    BY <1>0, <1>3, EndsView
  <2>3. CallShape(p)'
    BY <2>1, <2>2 DEF CallShape
  <2> QED
    BY <2>2, <2>3
<1>4. ASSUME NEW w \in Workspaces, Rewrites(p, w)
      PROVE  /\ CallsTypeOK' /\ CallShape(p)'
             /\ \A q \in Procs : q # p => calls'[q] = calls[q]
  <2>1. sessions[w].leased = IsWritable(w)
    BY <1>4 DEF Rewrites, SessionShape
  <2> QED
    BY <1>0, <1>4, <2>1, RewritesView DEF CallShape
<1>5. CASE CleanupExpired(p)
  <2>1. /\ Pc(p)' = "next" /\ calls'[p].todo # <<>>
        /\ \A i \in Items(p)' :
             /\ Ws(p, i)' \in Workspaces /\ Rec(p, i)' = sessions[Ws(p, i)']
             /\ \/ Expired(Ws(p, i)') /\ MayRelease(Ws(p, i)')
                \/ Retired(Ws(p, i)')
        /\ \A q \in Procs : q # p => calls'[q] = calls[q]
        /\ CallsTypeOK'
    BY <1>0, <1>5, CleanupView
  <2>2. ASSUME NEW i \in Items(p)'
        PROVE  Rec(p, i)'.leased = IsWritable(Ws(p, i)')
    BY <2>1 DEF SessionShape, Expired, Retired, NoSession
  <2>3. CallShape(p)'
    BY <2>1, <2>2 DEF CallShape
  <2> QED
    BY <2>1, <2>3
<1> QED
  BY <1>1, <1>2, <1>3, <1>4, <1>5 DEF StartKind

\* Elapse counts down to zero.
LEMMA ElapseType ==
  ASSUME NEW t \in Nat
  PROVE  Elapse(t) \in Nat /\ (t = 0 => Elapse(t) = 0) /\ (Elapse(t) > 0 => t > 0)
BY DEF Elapse

\* What time does to one session and one lease.
LEMMA TickRecords ==
  ASSUME StoreTypeOK, Tick
  PROVE  /\ \A w \in Workspaces : /\ sessions'[w] = [sessions[w] EXCEPT !.left = Elapse(@)]
                                  /\ sessions[w] = NoSession => sessions'[w] = NoSession
                                  /\ sessions[w] # NoSession => sessions[w] \in Sessions /\ sessions'[w] \in Sessions
                                  /\ sessions'[w].status = sessions[w].status
                                  /\ sessions'[w].leased = sessions[w].leased
                                  /\ sessions'[w].sha = sessions[w].sha
                                  /\ sessions'[w].left = Elapse(sessions[w].left)
         /\ \A b \in Branches : /\ leases'[b].owner = leases[b].owner
                                /\ leases'[b].left = Elapse(leases[b].left)
                                /\ leases[b] = Free => leases'[b] = Free
                                /\ leases[b] # Free => leases[b] \in Leases /\ leases'[b] \in Leases
         /\ sessions' \in [Workspaces -> Sessions \cup {NoSession}]
         /\ leases' \in [Branches -> Leases \cup {Free}]
<1>1. ASSUME NEW w \in Workspaces
      PROVE  /\ sessions'[w] = [sessions[w] EXCEPT !.left = Elapse(@)]
             /\ sessions[w] = NoSession => sessions'[w] = NoSession
             /\ sessions[w] # NoSession => sessions[w] \in Sessions /\ sessions'[w] \in Sessions
             /\ sessions'[w].status = sessions[w].status
             /\ sessions'[w].leased = sessions[w].leased
             /\ sessions'[w].sha = sessions[w].sha
             /\ sessions'[w].left = Elapse(sessions[w].left)
  <2>1. sessions'[w] = [sessions[w] EXCEPT !.left = Elapse(@)]
    BY DEF Tick
  <2>2. CASE sessions[w] = NoSession
    <3>1. Elapse(sessions[w].left) = sessions[w].left
      BY <2>2 DEF NoSession, Elapse
    <3>2. sessions'[w] = NoSession
      BY <2>1, <2>2, <3>1 DEF NoSession
    <3> QED
      BY <2>1, <2>2, <3>1, <3>2
  <2>3. CASE sessions[w] \in Sessions
    <3>1. Elapse(sessions[w].left) \in Nat
      BY <2>3, ElapseType DEF Sessions
    <3> QED
      BY <2>1, <2>3, <3>1 DEF Sessions, NoSession, Statuses
  <2> QED
    BY <2>2, <2>3 DEF StoreTypeOK
<1>2. ASSUME NEW b \in Branches
      PROVE  /\ leases'[b].owner = leases[b].owner
             /\ leases'[b].left = Elapse(leases[b].left)
             /\ leases[b] = Free => leases'[b] = Free
             /\ leases[b] # Free => leases[b] \in Leases /\ leases'[b] \in Leases
  <2>1. leases'[b] = [leases[b] EXCEPT !.left = Elapse(@)]
    BY DEF Tick
  <2>2. CASE leases[b] = Free
    BY <2>1, <2>2 DEF Free, Elapse
  <2>3. CASE leases[b] \in Leases /\ leases[b] # Free
    <3>1. Elapse(leases[b].left) \in Nat
      BY <2>3, ElapseType DEF Leases
    <3> QED
      BY <2>1, <2>3, <3>1 DEF Leases
  <2>4. leases[b] # Free => leases[b] \in Leases
    BY DEF StoreTypeOK
  <2> QED
    BY <2>2, <2>3, <2>4
<1>3. sessions' \in [Workspaces -> Sessions \cup {NoSession}]
  BY <1>1 DEF Tick
<1>4. leases' \in [Branches -> Leases \cup {Free}]
  BY <1>2 DEF Tick
<1> QED
  BY <1>1, <1>2, <1>3, <1>4

\* The store keeps its types, and its calls their shape.
LEMMA StoreTypeStep ==
  ASSUME StoreTypeOK, ShapeInv, StoreStep
  PROVE  StoreTypeOK' /\ ShapeInv'
<1>0. CallsTypeOK /\ \A p \in Procs : CallShape(p)
  BY DEF StoreTypeOK, CallsTypeOK, ShapeInv
<1>a. ASSUME NEW q \in Procs, calls'[q] = calls[q]
      PROVE  CallShape(q)'
  BY <1>0, <1>a DEF CallShape, Pc, Items, Ws, Rec
<1>b. ASSUME sessions' = sessions
      PROVE  \A w \in Workspaces : SessionShape(w)'
  BY <1>b DEF ShapeInv, SessionShape
<1>1. ASSUME NEW p \in Procs, StartKind(p)
      PROVE  StoreTypeOK' /\ ShapeInv'
  <2>1. CallsTypeOK' /\ CallShape(p)' /\ \A q \in Procs : q # p => calls'[q] = calls[q]
    BY <1>0, <1>1, StartCallsType DEF ShapeInv
  <2>2. sessions' = sessions /\ leases' = leases /\ crashes' = crashes
    BY <1>1 DEF StartKind, StoreSame
  <2> QED
    BY <1>a, <1>b, <2>1, <2>2 DEF StoreTypeOK, CallsTypeOK, ShapeInv
<1>2. ASSUME NEW p \in Procs, StepCall(p)
      PROVE  StoreTypeOK' /\ ShapeInv'
  <2>1. CallsTypeOK' /\ CallShape(p)' /\ \A q \in Procs : q # p => calls'[q] = calls[q]
    BY <1>0, <1>2, StepCallsType
  <2>2. Pc(p) # "idle"
    BY <1>2 DEF StepCall, AcquireLease, TakeLease, CleanupNext, ReleaseLease, StoreSession, At, Pc
  <2>3. /\ 1 \in Items(p) /\ Current(p).ws = Ws(p, 1) /\ Current(p).rec = Rec(p, 1)
        /\ Ws(p, 1) \in Workspaces /\ Rec(p, 1) \in Sessions
    BY <1>0, <2>2, CurrentView
  <2>4. crashes' = crashes
    BY <1>2 DEF StepCall, AcquireLease, TakeLease, CleanupNext, ReleaseLease, StoreSession
  <2>5. leases' \in [Branches -> Leases \cup {Free}]
    <3>1. [owner |-> Ws(p, 1), left |-> Rec(p, 1).left] \in Leases
      BY <2>3 DEF Leases, Sessions
    <3> QED
      BY <1>2, <2>3, <3>1
      DEF StepCall, AcquireLease, TakeLease, CleanupNext, ReleaseLease, StoreSession, StoreTypeOK
  <2>6. sessions' \in [Workspaces -> Sessions \cup {NoSession}]
    BY <1>2, <2>3
    DEF StepCall, AcquireLease, TakeLease, CleanupNext, ReleaseLease, StoreSession, StoreTypeOK
  <2>7. \A w \in Workspaces : SessionShape(w)'
    <3>1. CASE StoreSession(p)
      <4>1. \A w \in Workspaces : sessions'[w] = (IF w = Ws(p, 1) THEN Rec(p, 1) ELSE sessions[w])
        BY <2>3, <3>1 DEF StoreSession, StoreTypeOK
      <4>2. Rec(p, 1).leased = IsWritable(Ws(p, 1))
        BY <1>0, <2>3 DEF CallShape
      <4> QED
        BY <4>1, <4>2 DEF ShapeInv, SessionShape
    <3>2. CASE sessions' = sessions
      BY <1>b, <3>2
    <3> QED
      BY <1>2, <3>1, <3>2 DEF StepCall, AcquireLease, TakeLease, CleanupNext, ReleaseLease
  <2> QED
    BY <1>a, <2>1, <2>4, <2>5, <2>6, <2>7 DEF StoreTypeOK, CallsTypeOK, ShapeInv
<1>3. CASE Tick
  <2>1. /\ \A p \in Procs :
             /\ Pc(p)' = Pc(p) /\ Items(p)' = Items(p)
             /\ calls'[p].todo = <<>> <=> calls[p].todo = <<>>
             /\ \A i \in Items(p) : /\ Ws(p, i)' = Ws(p, i)
                                    /\ Rec(p, i)' = [Rec(p, i) EXCEPT !.left = Elapse(@)]
        /\ CallsTypeOK'
    BY <1>0, <1>3, TickView
  <2>2. ASSUME NEW p \in Procs
        PROVE  CallShape(p)'
    <3>1. \A i \in Items(p) : Rec(p, i)'.leased = Rec(p, i).leased
      BY <1>0, <2>1, ItemType DEF Sessions
    <3>2. Pc(p) # "idle" => 1 \in Items(p)
      BY <1>0, CurrentView
    <3> QED
      BY <1>0, <2>1, <3>1, <3>2 DEF CallShape
  <2>3. \A w \in Workspaces : SessionShape(w)'
    BY <1>3, TickRecords DEF ShapeInv, SessionShape
  <2>4. crashes' = crashes
    BY <1>3 DEF Tick
  <2> QED
    BY <1>3, <2>1, <2>2, <2>3, <2>4, TickRecords DEF StoreTypeOK, CallsTypeOK, ShapeInv
<1>4. CASE CrashRestart
  <2>1. calls' = [p \in Procs |-> Idle] /\ crashes' \in 0 .. MaxCrashes
    BY <1>4, LeaseConstants DEF CrashRestart, StoreTypeOK
  <2>2. CallsTypeOK'
    BY <2>1, EmptySeq DEF CallsTypeOK, Idle, Pcs
  <2>3. \A p \in Procs : CallShape(p)'
    BY <2>1 DEF CallShape, Pc, Items, Idle
  <2> QED
    BY <1>b, <1>4, <2>1, <2>2, <2>3 DEF CrashRestart, StoreTypeOK, CallsTypeOK, ShapeInv
<1>5. CASE StoreSame /\ calls' = calls
  BY <1>a, <1>b, <1>5 DEF StoreSame, StoreTypeOK, ShapeInv
<1> QED
  BY <1>1, <1>2, <1>3, <1>4, <1>5 DEF StoreStep

-----------------------------------------------------------------------------
(***************************************************************************)
(* Sessions and leases agree.                                              *)
(***************************************************************************)

\* Both times are natural numbers; a lease that is not held gives no time.
LEMMA Times ==
  ASSUME StoreTypeOK, NEW w \in Workspaces
  PROVE  /\ WriteTime(sessions[w]) \in Nat
         /\ \A rec \in Sessions : WriteTime(rec) \in Nat
         /\ IsWritable(w) => /\ BranchOf[w] \in Branches
                             /\ LeaseTime(w) \in Nat
                             /\ LeaseTime(w) > 0 => Held(BranchOf[w]) /\ leases[BranchOf[w]].owner = w
                             /\ ~Held(BranchOf[w]) => LeaseTime(w) = 0
                             /\ leases[BranchOf[w]] # Free => leases[BranchOf[w]] \in Leases
<1>1. \A rec \in Sessions : WriteTime(rec) \in Nat
  BY DEF WriteTime, Sessions
<1>2. WriteTime(NoSession) \in Nat
  BY DEF WriteTime, NoSession
<1>3. WriteTime(sessions[w]) \in Nat
  BY <1>1, <1>2 DEF StoreTypeOK
<1>4. ASSUME IsWritable(w)
      PROVE  /\ BranchOf[w] \in Branches
             /\ LeaseTime(w) \in Nat
             /\ LeaseTime(w) > 0 => Held(BranchOf[w]) /\ leases[BranchOf[w]].owner = w
             /\ ~Held(BranchOf[w]) => LeaseTime(w) = 0
             /\ leases[BranchOf[w]] # Free => leases[BranchOf[w]] \in Leases
  <2>1. BranchOf[w] \in Branches
    BY <1>4, LeaseConstants DEF IsWritable
  <2>2. CASE leases[BranchOf[w]] = Free
    BY <2>1, <2>2 DEF LeaseTime, Free, Held
  <2>3. CASE leases[BranchOf[w]] \in Leases /\ leases[BranchOf[w]] # Free
    BY <2>1, <2>3 DEF LeaseTime, Leases, Held
  <2> QED
    BY <2>1, <2>2, <2>3 DEF StoreTypeOK
<1> QED
  BY <1>1, <1>3, <1>4

\* Only a ready session that is leased gives time to write.
LEMMA NoTime ==
  ASSUME NEW rec
  PROVE  /\ rec.status # "ready" => WriteTime(rec) = 0
         /\ ~rec.leased => WriteTime(rec) = 0
BY DEF WriteTime

\* A step that leaves both logs alone, of a call that is no further than before.
LEMMA MatchSame ==
  ASSUME MatchInv, sessions' = sessions, leases' = leases,
         NEW p \in Procs, \A q \in Procs : q = p, ~(Pc(p) \in {"release", "store"})
  PROVE  MatchInv'
<1>1. \A w \in Workspaces : IsWritable(w) => WriteTime(sessions[w]) = LeaseTime(w)
  BY DEF MatchInv, SessionMatch, Changing
<1>2. ASSUME NEW w \in Workspaces
      PROVE  /\ WriteTime(sessions[w])' = WriteTime(sessions[w]) /\ LeaseTime(w)' = LeaseTime(w)
             /\ Unclaimed(w)' <=> Unclaimed(w)
  BY DEF WriteTime, LeaseTime, Unclaimed
<1>3. ASSUME NEW w \in Workspaces
      PROVE  SessionMatch(w)' /\ SessionClaim(w)'
  BY <1>1, <1>2 DEF MatchInv, SessionMatch, SessionClaim
<1> QED
  BY <1>3 DEF MatchInv

\* A call that starts has read both logs when they agreed.
LEMMA LeaseStart ==
  ASSUME StoreTypeOK, ShapeInv, MatchInv, CallInv, ForeignRelease = FALSE,
         NEW p \in Procs, \A q \in Procs : q = p, StartKind(p)
  PROVE  MatchInv' /\ CallInv'
<1>0. CallsTypeOK /\ sessions \in [Workspaces -> Sessions \cup {NoSession}]
      /\ sessions' = sessions /\ leases' = leases
  BY DEF StoreTypeOK, CallsTypeOK, StartKind, StoreSame
<1>1. CASE calls' = calls
  <2>1. \A w \in Workspaces : SessionMatch(w)' /\ SessionClaim(w)'
    BY <1>0, <1>1
    DEF MatchInv, SessionMatch, SessionClaim, WriteTime, LeaseTime, Unclaimed, Changing, Pc, Ws
  <2>2. \A q \in Procs : CallMatch(q)'
    BY <1>0, <1>1
    DEF CallInv, CallMatch, WriteTime, LeaseTime, Unclaimed, Held, Pc, Ws, Rec, Items
  <2> QED
    BY <2>1, <2>2 DEF MatchInv, CallInv
<1> SUFFICES ASSUME Pc(p) = "idle"
             PROVE  MatchInv' /\ CallMatch(p)'
  <2>1. calls' # calls => Pc(p) = "idle"
    BY <1>0, IdleView DEF StartKind, Creates, Ends, Rewrites, CleanupExpired, Begin
  <2> QED
    BY <1>1, <2>1 DEF CallInv
<1>2. MatchInv' /\ \A w \in Workspaces : IsWritable(w) => WriteTime(sessions[w]) = LeaseTime(w)
  BY <1>0, MatchSame DEF MatchInv, SessionMatch, Changing
<1>3. ASSUME NEW w \in Workspaces
      PROVE  /\ WriteTime(sessions[w])' = WriteTime(sessions[w]) /\ LeaseTime(w)' = LeaseTime(w)
             /\ Unclaimed(w)' <=> Unclaimed(w)
  BY <1>0 DEF WriteTime, LeaseTime, Unclaimed
<1>4. ASSUME NEW w \in Workspaces, MayRelease(w), sessions[w] # NoSession
      PROVE  Unclaimed(w)
  BY <1>4 DEF MayRelease, NotTakenOver, Unclaimed, ShapeInv, SessionShape
<1>5. ASSUME NEW w \in Workspaces, NEW ttl \in Ttls, Creates(p, w, ttl)
      PROVE  CallMatch(p)'
  <2>1. /\ Pc(p)' = (IF IsWritable(w) THEN "acquire" ELSE "store")
        /\ Items(p)' = {1} /\ Ws(p, 1)' = w /\ Rec(p, 1)' = New(w, ttl)
    BY <1>0, <1>5, CreatesView
  <2>2. New(w, ttl).status = "ready"
    BY DEF New
  <2>3. WriteTime(sessions[w]) = 0
    BY <1>5, NoTime DEF Creates, MayOpen
  <2>4. Pc(p)' = "acquire" => WriteTime(sessions[w])' = 0
    BY <1>3, <2>3
  <2>5. WriteTime(sessions[Ws(p, 1)])' = 0
    BY <1>0, <2>1, <2>3 DEF WriteTime
  <2> QED
    BY <2>1, <2>2, <2>5 DEF CallMatch
<1>6. ASSUME NEW w \in Workspaces, NEW status \in {"committed", "closed", "quarantined"},
             NEW sha \in Shas \cup {NoSha}, Ends(p, w, status, sha)
      PROVE  CallMatch(p)'
  <2>1. /\ Ended(w, status, sha).status = status
        /\ Pc(p)' = (IF sessions[w].leased THEN "release" ELSE "store")
        /\ Items(p)' = {1} /\ Ws(p, 1)' = w /\ Rec(p, 1)' = Ended(w, status, sha)
    BY <1>0, <1>6, EndsView
  <2>2. sessions[w].leased = IsWritable(w) /\ Unclaimed(w)
    BY <1>4, <1>6 DEF Ends, ShapeInv, SessionShape
  <2>3. Unclaimed(Ws(p, 1))'
    BY <1>3, <2>1, <2>2 DEF Unclaimed
  <2>4. Rec(p, 1)'.status # "ready"
    BY <2>1
  <2>5. Pc(p)' = "release" \/ (Pc(p)' = "store" /\ ~IsWritable(w))
    BY <2>1, <2>2
  <2> HIDE DEF Ended
  <2> QED
    BY <2>1, <2>3, <2>4, <2>5 DEF CallMatch
<1>7. ASSUME NEW w \in Workspaces, Rewrites(p, w)
      PROVE  CallMatch(p)'
  <2>1. Pc(p)' = "store" /\ Items(p)' = {1} /\ Ws(p, 1)' = w /\ Rec(p, 1)' = sessions[w]
    BY <1>0, <1>7, RewritesView
  <2>2. IsWritable(w) => WriteTime(Rec(p, 1))' = LeaseTime(Ws(p, 1))'
    BY <1>0, <1>2, <2>1 DEF WriteTime, LeaseTime
  <2> QED
    BY <2>1, <2>2 DEF CallMatch
<1>8. ASSUME CleanupExpired(p)
      PROVE  CallMatch(p)'
  <2>1. /\ Pc(p)' = "next" /\ calls'[p].todo # <<>>
        /\ \A i \in Items(p)' :
             /\ Ws(p, i)' \in Workspaces /\ Rec(p, i)' = sessions[Ws(p, i)']
             /\ \/ Expired(Ws(p, i)') /\ MayRelease(Ws(p, i)')
                \/ Retired(Ws(p, i)')
    BY <1>0, <1>8, CleanupView
  <2>2. ASSUME NEW i \in Items(p)', Rec(p, i)'.status = "ready"
        PROVE  Rec(p, i)'.left = 0 /\ Unclaimed(Ws(p, i))'
    <3>1. PICK w \in Workspaces : w = Ws(p, i)'
      BY <2>1
    <3>2. Rec(p, i)' = sessions[w] /\ Expired(w) /\ MayRelease(w)
      BY <2>1, <2>2, <3>1 DEF Retired
    <3>3. Unclaimed(w)'
      BY <1>3, <1>4, <3>2 DEF Expired, NoSession
    <3> QED
      BY <3>1, <3>2, <3>3 DEF Expired, Unclaimed
  <2>3. ~(Pc(p)' \in {"acquire", "take"}) /\ Pc(p)' # "take" /\ Pc(p)' # "release" /\ Pc(p)' # "store"
    BY <2>1
  <2> QED
    BY <2>2, <2>3 DEF CallMatch
<1>9. calls' = calls => CallMatch(p)'
  BY <1>1 DEF CallInv
<1>10. CallMatch(p)'
  BY <1>5, <1>6, <1>7, <1>8, <1>9 DEF StartKind
<1> QED
  BY <1>2, <1>10

\* A call that is done with its first record had seen the others before.
LEMMA ContinueMatch ==
  ASSUME StoreTypeOK, ShapeInv, NEW p \in Procs, CallMatch(p), Pc(p) # "idle", Continue(p),
         \A w \in Workspaces : Unclaimed(w) => Unclaimed(w)'
  PROVE  CallMatch(p)' /\ ~(Pc(p)' \in {"release", "store"})
<1>0. CallsTypeOK /\ CallShape(p)
  BY DEF StoreTypeOK, CallsTypeOK, ShapeInv
<1>1. \/ calls'[p] = Idle /\ Pc(p)' = "idle" /\ Items(p)' = {} /\ Items(p) = {1}
      \/ /\ Pc(p)' = "next" /\ calls'[p].todo # <<>> /\ Items(p) # {1}
         /\ \A i \in Items(p)' : /\ i + 1 \in Items(p) /\ i + 1 > 1
                                 /\ Ws(p, i)' = Ws(p, i + 1) /\ Rec(p, i)' = Rec(p, i + 1)
  BY <1>0, CurrentView, ContinueView
<1>2. ~(Pc(p)' \in {"acquire", "take"}) /\ Pc(p)' # "take" /\ Pc(p)' # "release" /\ Pc(p)' # "store"
  BY <1>1
<1>3. ASSUME NEW i \in Items(p)', Rec(p, i)'.status = "ready"
      PROVE  Rec(p, i)'.left = 0 /\ Unclaimed(Ws(p, i))'
  <2>1. PICK j \in Items(p) : j > 1 /\ Ws(p, i)' = Ws(p, j) /\ Rec(p, i)' = Rec(p, j)
    BY <1>1, <1>3
  <2>2. Rec(p, j).left = 0 /\ Unclaimed(Ws(p, j))
    BY <1>3, <2>1 DEF CallMatch
  <2>3. PICK w \in Workspaces : w = Ws(p, j)
    BY <1>0, ItemType
  <2>4. Unclaimed(w)'
    BY <2>2, <2>3
  <2> QED
    BY <2>1, <2>2, <2>3, <2>4 DEF Unclaimed
<1>4. CallMatch(p)'
  BY <1>2, <1>3 DEF CallMatch
<1> QED
  BY <1>2, <1>4

\* A call keeps what it has seen, and changes a lease only between a match and the next.
LEMMA LeaseCall ==
  ASSUME StoreTypeOK, ShapeInv, MatchInv, CallInv,
         NEW p \in Procs, \A q \in Procs : q = p, StepCall(p)
  PROVE  MatchInv' /\ CallInv'
<1>0. CallsTypeOK /\ CallShape(p) /\ CallMatch(p)
  BY DEF StoreTypeOK, CallsTypeOK, ShapeInv, CallInv
<1>1. Pc(p) # "idle"
  BY DEF StepCall, AcquireLease, TakeLease, CleanupNext, ReleaseLease, StoreSession, At, Pc
<1>2. /\ calls[p].todo # <<>> /\ 1 \in Items(p)
      /\ Current(p).ws = Ws(p, 1) /\ Current(p).rec = Rec(p, 1)
      /\ BranchAt(p) = BranchOf[Ws(p, 1)]
      /\ Ws(p, 1) \in Workspaces /\ Rec(p, 1) \in Sessions
  BY <1>0, <1>1, CurrentView
<1>w. PICK w \in Workspaces : w = Ws(p, 1)
  BY <1>2
<1>r. PICK rec \in Sessions : rec = Rec(p, 1)
  BY <1>2
<1>3. \A v \in Workspaces : IsWritable(v) /\ (v # w \/ ~(Pc(p) \in {"release", "store"})) =>
        WriteTime(sessions[v]) = LeaseTime(v)
  BY <1>w DEF MatchInv, SessionMatch, Changing
<1>4. ASSUME NEW pc \in Pcs, GoTo(p, pc)
      PROVE  /\ Pc(p)' = pc /\ Items(p)' = Items(p)
             /\ \A i : Ws(p, i)' = Ws(p, i) /\ Rec(p, i)' = Rec(p, i)
  <2>1. Pc(p)' = pc /\ calls'[p].todo = calls[p].todo
    BY <1>0, <1>4, GoToView
  <2> QED
    BY <2>1 DEF Items, Ws, Rec
<1>5. {"take", "store"} \subseteq Pcs
  BY DEF Pcs
<1>6. ASSUME leases' = leases
      PROVE  /\ \A v \in Workspaces : LeaseTime(v)' = LeaseTime(v) /\ (Unclaimed(v)' <=> Unclaimed(v))
             /\ \A b : Held(b)' <=> Held(b)
  BY <1>6 DEF LeaseTime, Unclaimed, Held
<1>7. ASSUME sessions' = sessions
      PROVE  \A v \in Workspaces : WriteTime(sessions[v])' = WriteTime(sessions[v])
  BY <1>7 DEF WriteTime
<1>8. CASE AcquireLease(p)
  <2>1. MatchInv'
    BY <1>8, MatchSame DEF AcquireLease, At, Pc
  <2>2. Pc(p) = "acquire" /\ rec.status = "ready" /\ WriteTime(sessions[w]) = 0
        /\ IsWritable(w) /\ Items(p) = {1}
    BY <1>0, <1>2, <1>w, <1>r, <1>8 DEF AcquireLease, At, Pc, CallMatch, CallShape
  <2>3. CASE ~Held(BranchOf[w]) /\ GoTo(p, "take")
    <3>1. /\ Pc(p)' = "take" /\ Items(p)' = {1}
          /\ Ws(p, 1)' = w /\ Rec(p, 1)' = rec
      BY <1>4, <1>5, <1>w, <1>r, <2>2, <2>3
    <3>2. ~Held(BranchOf[Ws(p, 1)])' /\ WriteTime(sessions[Ws(p, 1)])' = 0
      BY <1>2, <1>w, <1>r, <1>8, <2>2, <2>3, <3>1 DEF AcquireLease, Held, WriteTime
    <3>3. CallMatch(p)'
      BY <2>2, <3>1, <3>2 DEF CallMatch
    <3> QED
      BY <2>1, <3>3 DEF CallInv
  <2>4. CASE calls' = [calls EXCEPT ![p] = Idle]
    <3>1. CallMatch(p)'
      BY <1>0, <2>4, StopView DEF CallMatch
    <3> QED
      BY <2>1, <3>1 DEF CallInv
  <2>5. ~(Held(BranchOf[w]) /\ leases[BranchOf[w]].owner = w)
    <3>1. LeaseTime(w) = 0
      BY <1>2, <1>w, <1>r, <1>3, <2>2
    <3>2. leases[BranchOf[w]] # Free => leases[BranchOf[w]] \in Leases
      BY <1>2, <1>w, <1>r, <2>2, Times
    <3> QED
      BY <3>1, <3>2 DEF LeaseTime, Held, Leases
  <2> QED
    BY <1>2, <1>w, <1>r, <1>8, <2>3, <2>4, <2>5 DEF AcquireLease, LeaseActive
<1>9. CASE TakeLease(p)
  <2>1. Pc(p) = "take" /\ rec.status = "ready" /\ WriteTime(sessions[w]) = 0 /\ ~Held(BranchOf[w])
        /\ IsWritable(w) /\ Items(p) = {1} /\ rec.leased /\ sessions' = sessions
    BY <1>0, <1>2, <1>w, <1>r, <1>9 DEF TakeLease, At, Pc, CallMatch, CallShape
  <2>2. BranchOf[w] \in Branches
    BY <1>2, <1>w, <1>r, <2>1, Times
  <2>3. \A b \in Branches : leases'[b] = IF b = BranchOf[w] THEN [owner |-> w, left |-> rec.left]
                                         ELSE leases[b]
    BY <1>2, <1>w, <1>r, <1>9, <2>2 DEF TakeLease, StoreTypeOK
  <2>4. /\ Pc(p)' = "store" /\ Items(p)' = {1}
        /\ Ws(p, 1)' = w /\ Rec(p, 1)' = rec
    BY <1>4, <1>5, <1>w, <1>r, <1>9, <2>1 DEF TakeLease
  <2>5. ASSUME NEW v \in Workspaces, IsWritable(v), BranchOf[v] = BranchOf[w]
        PROVE  WriteTime(sessions[v]) = 0
    BY <1>3, <2>1, <2>5, Times
  <2>6. ASSUME NEW v \in Workspaces
        PROVE  SessionMatch(v)' /\ SessionClaim(v)'
    <3>1. CASE IsWritable(v) /\ BranchOf[v] = BranchOf[w] /\ v # w
      <4>1. LeaseTime(v)' = 0
        BY <2>2, <2>3, <3>1 DEF LeaseTime
      <4> QED
        BY <1>7, <2>1, <2>5, <3>1, <4>1 DEF SessionMatch, SessionClaim
    <3>2. CASE v = w
      <4>1. Changing(p, w)'
        BY <2>4 DEF Changing
      <4>2. Unclaimed(w)'
        BY <2>2, <2>3 DEF Unclaimed
      <4> QED
        BY <3>2, <4>1, <4>2 DEF SessionMatch, SessionClaim, Unclaimed, Changing
    <3>3. CASE IsWritable(v) /\ BranchOf[v] # BranchOf[w]
      <4>1. BranchOf[v] \in Branches
        BY <3>3, Times
      <4>2. LeaseTime(v)' = LeaseTime(v) /\ (Unclaimed(v)' <=> Unclaimed(v))
        BY <2>3, <3>3, <4>1 DEF LeaseTime, Unclaimed
      <4> QED
        BY <1>3, <1>7, <2>1, <3>3, <4>2 DEF SessionMatch, SessionClaim, MatchInv
    <3>4. CASE ~IsWritable(v)
      BY <3>4 DEF SessionMatch, SessionClaim, Unclaimed
    <3> QED
      BY <3>1, <3>2, <3>3, <3>4
  <2>7. WriteTime(Rec(p, 1))' = LeaseTime(Ws(p, 1))'
    <3>1. WriteTime(rec) = rec.left
      BY <2>1 DEF WriteTime
    <3>2. LeaseTime(w)' = rec.left
      BY <2>2, <2>3 DEF LeaseTime
    <3> QED
      BY <2>4, <3>1, <3>2 DEF WriteTime, LeaseTime
  <2>8. CallMatch(p)'
    BY <2>4, <2>7 DEF CallMatch
  <2> QED
    BY <2>6, <2>8 DEF MatchInv, CallInv
<1>10. CASE CleanupNext(p) /\ rec.status = "ready"
  <2>1. MatchInv' /\ Pc(p) = "next" /\ leases' = leases /\ Unclaimed(w)
    <3>1. Pc(p) = "next" /\ leases' = leases /\ sessions' = sessions
      BY <1>10 DEF CleanupNext, At, Pc
    <3>2. MatchInv'
      BY <3>1, MatchSame
    <3> QED
      BY <1>0, <1>2, <1>w, <1>r, <1>10, <3>1, <3>2 DEF CallMatch
  <2>2. PICK pc \in Pcs : pc = (IF rec.leased THEN "release" ELSE "store")
    BY DEF Pcs
  <2>3. calls' = [calls EXCEPT ![p].pc = pc, ![p].todo[1].rec.status = "expired"]
    BY <1>2, <1>w, <1>r, <1>10, <2>2 DEF CleanupNext
  <2>4. /\ Pc(p)' = pc /\ Items(p)' = Items(p)
        /\ \A i \in Items(p) : Ws(p, i)' = Ws(p, i)
        /\ \A i \in Items(p) : i # 1 => Rec(p, i)' = Rec(p, i)
        /\ Rec(p, 1)' = [rec EXCEPT !.status = "expired"]
    BY <1>0, <1>2, <1>w, <1>r, <2>3, ExpireView
  <2>5. Rec(p, 1)'.status = "expired" /\ Ws(p, 1)' = w
    BY <1>2, <1>w, <1>r, <2>4 DEF Sessions
  <2>6. pc = "release" \/ (pc = "store" /\ ~IsWritable(w))
    BY <1>0, <1>2, <1>w, <1>r, <2>2 DEF CallShape
  <2>7. Unclaimed(Ws(p, 1))'
    BY <1>6, <2>1, <2>5 DEF Unclaimed
  <2>8. ASSUME NEW i \in Items(p)', Rec(p, i)'.status = "ready"
        PROVE  Rec(p, i)'.left = 0 /\ Unclaimed(Ws(p, i))'
    <3>1. i \in Items(p) /\ i # 1 /\ Rec(p, i)' = Rec(p, i) /\ Ws(p, i)' = Ws(p, i)
      BY <2>4, <2>5, <2>8
    <3>2. Rec(p, i).left = 0 /\ Unclaimed(Ws(p, i))
      BY <1>0, <2>1, <2>8, <3>1 DEF CallMatch
    <3> QED
      BY <2>1, <3>1, <3>2 DEF Unclaimed
  <2>9. CallMatch(p)'
    BY <2>4, <2>5, <2>6, <2>7, <2>8 DEF CallMatch
  <2> QED
    BY <2>1, <2>9 DEF CallInv
<1>11. CASE CleanupNext(p) /\ rec.status # "ready"
  <2>1. Pc(p) = "next" /\ leases' = leases /\ sessions' = sessions /\ Continue(p)
    BY <1>2, <1>w, <1>r, <1>11 DEF CleanupNext, At, Pc
  <2>2. MatchInv'
    BY <2>1, MatchSame
  <2>3. CallMatch(p)'
    BY <1>0, <1>6, <2>1, ContinueMatch
  <2> QED
    BY <2>2, <2>3 DEF CallInv
<1>12. CASE ReleaseLease(p)
  <2>1. Pc(p) = "release" /\ rec.status # "ready" /\ Unclaimed(w) /\ IsWritable(w) /\ sessions' = sessions
    BY <1>0, <1>w, <1>r, <1>12 DEF ReleaseLease, At, Pc, CallMatch, CallShape
  <2>2. BranchOf[w] \in Branches
    BY <1>2, <1>w, <1>r, <2>1, Times
  <2>3. \A b \in Branches : leases'[b] = IF b = BranchOf[w] THEN Free ELSE leases[b]
    BY <1>2, <1>w, <1>r, <1>12, <2>2 DEF ReleaseLease, StoreTypeOK
  <2>4. /\ Pc(p)' = "store" /\ Items(p)' = Items(p)
        /\ \A i : Ws(p, i)' = Ws(p, i) /\ Rec(p, i)' = Rec(p, i)
    BY <1>4, <1>5, <1>12 DEF ReleaseLease
  <2>5. ASSUME NEW v \in Workspaces
        PROVE  Unclaimed(v) => Unclaimed(v)'
    <3>1. IsWritable(v) => BranchOf[v] \in Branches
      BY Times
    <3> QED
      BY <2>3, <3>1 DEF Unclaimed
  <2>6. ASSUME NEW v \in Workspaces
        PROVE  SessionMatch(v)' /\ SessionClaim(v)'
    <3>1. SessionClaim(v)'
      BY <1>7, <2>1, <2>5 DEF MatchInv, SessionClaim
    <3>2. CASE v = w
      BY <1>w, <2>4, <3>1, <3>2 DEF SessionMatch, Changing
    <3>3. CASE v # w /\ IsWritable(v)
      <4>1. BranchOf[v] \in Branches /\ WriteTime(sessions[v]) = LeaseTime(v)
        BY <1>3, <3>3, Times
      <4>2. LeaseTime(v)' = LeaseTime(v)
        BY <2>1, <2>3, <3>3, <4>1 DEF LeaseTime, Unclaimed, Free
      <4> QED
        BY <1>7, <2>1, <3>1, <4>1, <4>2 DEF SessionMatch
    <3>4. CASE ~IsWritable(v)
      BY <3>1, <3>4 DEF SessionMatch
    <3> QED
      BY <3>2, <3>3, <3>4
  <2>7. WriteTime(Rec(p, 1))' = 0 /\ LeaseTime(Ws(p, 1))' = 0
    <3>1. LeaseTime(w)' = 0
      BY <2>2, <2>3 DEF LeaseTime, Free
    <3> QED
      BY <1>w, <1>r, <2>1, <2>4, <3>1 DEF WriteTime, LeaseTime
  <2>8. ASSUME NEW i \in Items(p)', i > 1, Rec(p, i)'.status = "ready"
        PROVE  Rec(p, i)'.left = 0 /\ Unclaimed(Ws(p, i))'
    <3>1. Rec(p, i).left = 0 /\ Unclaimed(Ws(p, i)) /\ Ws(p, i) \in Workspaces
      BY <1>0, <2>4, <2>8, ItemType DEF CallMatch
    <3> QED
      BY <2>4, <2>5, <3>1 DEF Unclaimed
  <2>9. CallMatch(p)'
    BY <2>4, <2>7, <2>8 DEF CallMatch
  <2> QED
    BY <2>6, <2>9 DEF MatchInv, CallInv
<1>13. CASE StoreSession(p)
  <2>1. Pc(p) = "store" /\ leases' = leases /\ Continue(p)
        /\ (IsWritable(w) => WriteTime(rec) = LeaseTime(w))
    BY <1>0, <1>w, <1>r, <1>13 DEF StoreSession, At, Pc, CallMatch
  <2>2. \A v \in Workspaces : sessions'[v] = IF v = w THEN rec ELSE sessions[v]
    BY <1>2, <1>w, <1>r, <1>13 DEF StoreSession, StoreTypeOK
  <2>3. CallMatch(p)' /\ ~(Pc(p)' \in {"release", "store"})
    BY <1>0, <1>6, <2>1, ContinueMatch
  <2>4. ASSUME NEW v \in Workspaces
        PROVE  SessionMatch(v)' /\ SessionClaim(v)'
    <3>1. LeaseTime(v)' = LeaseTime(v) /\ (Unclaimed(v)' <=> Unclaimed(v))
      BY <1>6, <2>1
    <3>2. CASE v = w
      <4>1. WriteTime(sessions[v])' = WriteTime(rec)
        BY <2>2, <3>2 DEF WriteTime
      <4>2. WriteTime(rec) > 0 => Unclaimed(w)
        BY <1>2, <1>w, <1>r, <2>1, Times DEF Unclaimed
      <4> QED
        BY <2>1, <3>1, <3>2, <4>1, <4>2 DEF SessionMatch, SessionClaim
    <3>3. CASE v # w
      <4>1. WriteTime(sessions[v])' = WriteTime(sessions[v])
        BY <2>2, <3>3 DEF WriteTime
      <4> QED
        BY <1>3, <3>1, <3>3, <4>1 DEF SessionMatch, SessionClaim, MatchInv
    <3> QED
      BY <3>2, <3>3
  <2> QED
    BY <2>3, <2>4 DEF MatchInv, CallInv
<1> QED
  BY <1>2, <1>w, <1>r, <1>8, <1>9, <1>10, <1>11, <1>12, <1>13 DEF StepCall

\* Time runs alike in both logs.
LEMMA LeaseTick ==
  ASSUME StoreTypeOK, ShapeInv, MatchInv, CallInv, Tick
  PROVE  MatchInv' /\ CallInv'
<1>0. CallsTypeOK /\ \A p \in Procs : CallShape(p) /\ CallMatch(p)
  BY DEF StoreTypeOK, CallsTypeOK, ShapeInv, CallInv
<1>1. ASSUME NEW w \in Workspaces
      PROVE  /\ WriteTime(sessions[w])' = Elapse(WriteTime(sessions[w]))
             /\ Unclaimed(w) => Unclaimed(w)'
             /\ IsWritable(w) => /\ LeaseTime(w)' = Elapse(LeaseTime(w))
                                 /\ ~Held(BranchOf[w]) => ~Held(BranchOf[w])'
  <2>1. WriteTime(sessions[w])' = Elapse(WriteTime(sessions[w]))
    <3>1. /\ sessions'[w].status = sessions[w].status
          /\ sessions'[w].leased = sessions[w].leased
          /\ sessions'[w].left = Elapse(sessions[w].left)
      BY TickRecords
    <3>2. Elapse(0) = 0
      BY DEF Elapse
    <3> QED
      BY <3>1, <3>2 DEF WriteTime
  <2>2. ASSUME IsWritable(w)
        PROVE  /\ leases'[BranchOf[w]].owner = leases[BranchOf[w]].owner
               /\ leases'[BranchOf[w]].left = Elapse(leases[BranchOf[w]].left)
               /\ leases[BranchOf[w]] = Free => leases'[BranchOf[w]] = Free
               /\ leases[BranchOf[w]].left \in Nat
    <3>1. BranchOf[w] \in Branches
      BY <2>2, Times
    <3>2. leases[BranchOf[w]].left \in Nat
      BY <3>1 DEF StoreTypeOK, Leases, Free
    <3> QED
      BY <3>1, <3>2, TickRecords
  <2>3. IsWritable(w) => LeaseTime(w)' = Elapse(LeaseTime(w))
    <3>1. Elapse(0) = 0
      BY DEF Elapse
    <3> QED
      BY <2>2, <3>1 DEF LeaseTime
  <2>4. IsWritable(w) /\ ~Held(BranchOf[w]) => ~Held(BranchOf[w])'
    BY <2>2, ElapseType DEF Held
  <2>5. Unclaimed(w) => Unclaimed(w)'
    BY <2>2 DEF Unclaimed
  <2> QED
    BY <2>1, <2>3, <2>4, <2>5
<1>2. /\ \A p \in Procs :
           /\ Pc(p)' = Pc(p) /\ Items(p)' = Items(p)
           /\ \A i \in Items(p) : /\ Ws(p, i)' = Ws(p, i)
                                  /\ Rec(p, i)' = [Rec(p, i) EXCEPT !.left = Elapse(@)]
  BY <1>0, TickView
<1>3. \A p \in Procs : Pc(p) # "idle" => 1 \in Items(p)
  BY <1>0, CurrentView
<1>4. ASSUME NEW w \in Workspaces
      PROVE  SessionMatch(w)' /\ SessionClaim(w)'
  <2>1. \A p \in Procs : Changing(p, w)' <=> Changing(p, w)
    BY <1>2, <1>3 DEF Changing
  <2>2. WriteTime(sessions[w]) \in Nat
    BY Times
  <2> QED
    BY <1>1, <2>1, <2>2, ElapseType DEF MatchInv, SessionMatch, SessionClaim
<1>5. ASSUME NEW p \in Procs, NEW i \in Items(p)
      PROVE  /\ Ws(p, i) \in Workspaces /\ Ws(p, i)' = Ws(p, i)
             /\ Rec(p, i)'.status = Rec(p, i).status
             /\ Rec(p, i).left = 0 => Rec(p, i)'.left = 0
             /\ WriteTime(Rec(p, i))' = Elapse(WriteTime(Rec(p, i)))
  <2>1. Rec(p, i) \in Sessions /\ Ws(p, i) \in Workspaces
    BY <1>0, ItemType
  <2>2. Ws(p, i)' = Ws(p, i) /\ Rec(p, i)' = [Rec(p, i) EXCEPT !.left = Elapse(@)]
    BY <1>2
  <2>3. /\ Rec(p, i)'.status = Rec(p, i).status /\ Rec(p, i)'.leased = Rec(p, i).leased
        /\ Rec(p, i)'.left = Elapse(Rec(p, i).left)
    BY <2>1, <2>2 DEF Sessions
  <2>4. Elapse(0) = 0
    BY DEF Elapse
  <2> QED
    BY <2>1, <2>2, <2>3, <2>4 DEF WriteTime
<1>6. ASSUME NEW p \in Procs
      PROVE  CallMatch(p)'
  <2>1. CASE Pc(p) = "idle"
    <3>1. Items(p) = {}
      BY <1>0, <2>1, ItemsEmpty DEF CallShape
    <3> QED
      BY <1>2, <2>1, <3>1 DEF CallMatch
  <2>2. CASE Pc(p) # "idle"
    <3>1. 1 \in Items(p)
      BY <1>3, <2>2
    <3>2. PICK w \in Workspaces : w = Ws(p, 1) /\ w = Ws(p, 1)'
      BY <1>5, <3>1
    <3>3. Pc(p) \in {"acquire", "take"} =>
            Rec(p, 1)'.status = "ready" /\ WriteTime(sessions[Ws(p, 1)])' = 0
      <4>1. Pc(p) \in {"acquire", "take"} => WriteTime(sessions[w])' = 0
        BY <1>0, <1>1, <3>2 DEF CallMatch, Elapse
      <4> QED
        BY <1>0, <1>5, <3>1, <3>2, <4>1 DEF CallMatch, WriteTime
    <3>4. Pc(p) = "take" => ~Held(BranchOf[Ws(p, 1)])'
      <4>1. Pc(p) = "take" => ~Held(BranchOf[w])'
        BY <1>0, <1>1, <3>2 DEF CallMatch, CallShape
      <4> QED
        BY <3>2, <4>1 DEF Held
    <3>5. Pc(p) = "release" => Rec(p, 1)'.status # "ready" /\ Unclaimed(Ws(p, 1))'
      <4>1. Pc(p) = "release" => Unclaimed(w)'
        BY <1>0, <1>1, <3>2 DEF CallMatch
      <4> QED
        BY <1>0, <1>5, <3>1, <3>2, <4>1 DEF CallMatch, Unclaimed
    <3>6. Pc(p) = "store" /\ IsWritable(w) => WriteTime(Rec(p, 1))' = LeaseTime(Ws(p, 1))'
      <4>1. Pc(p) = "store" /\ IsWritable(w) => WriteTime(Rec(p, 1))' = LeaseTime(w)'
        BY <1>0, <1>1, <1>5, <3>1, <3>2 DEF CallMatch
      <4> QED
        BY <3>2, <4>1 DEF LeaseTime
    <3>7. ASSUME NEW i \in Items(p)', Pc(p)' = "next" \/ i > 1, Rec(p, i)'.status = "ready"
          PROVE  Rec(p, i)'.left = 0 /\ Unclaimed(Ws(p, i))'
      <4>1. PICK v \in Workspaces : v = Ws(p, i) /\ v = Ws(p, i)'
        BY <1>2, <1>5
      <4>2. Rec(p, i).left = 0 /\ Unclaimed(v)
        BY <1>0, <1>2, <1>5, <3>7, <4>1 DEF CallMatch
      <4>3. Unclaimed(v)'
        BY <1>1, <4>2
      <4> QED
        BY <1>2, <1>5, <4>1, <4>2, <4>3 DEF Unclaimed
    <3> QED
      BY <1>2, <3>2, <3>3, <3>4, <3>5, <3>6, <3>7 DEF CallMatch
  <2> QED
    BY <2>1, <2>2
<1> QED
  BY <1>4, <1>6 DEF MatchInv, CallInv

\* The two logs agree on, until the first restart.
LEMMA LeaseStep ==
  ASSUME OneRequest, ForeignRelease = FALSE, StoreTypeOK, ShapeInv, LeaseInv, StoreStep
  PROVE  LeaseInv'
<1> SUFFICES ASSUME crashes' = 0
             PROVE  MatchInv' /\ CallInv'
  BY DEF LeaseInv
<1>1. crashes \in Nat
  BY LeaseConstants DEF StoreTypeOK
<1>2. ~CrashRestart
  BY <1>1 DEF CrashRestart
<1>3. crashes = 0
  BY <1>2 DEF StoreStep, StartKind, StoreSame, Tick, StepCall, AcquireLease, TakeLease, CleanupNext,
          ReleaseLease, StoreSession
<1>4. MatchInv /\ CallInv
  BY <1>3 DEF LeaseInv
<1>5. ASSUME NEW p \in Procs, StartKind(p) \/ StepCall(p)
      PROVE  MatchInv' /\ CallInv'
  <2>1. \A q \in Procs : q = p
    BY DEF OneRequest
  <2> QED
    BY <1>4, <1>5, <2>1, LeaseStart, LeaseCall
<1>6. CASE StoreSame /\ calls' = calls
  <2>1. \A w \in Workspaces : SessionMatch(w)' /\ SessionClaim(w)'
    BY <1>4, <1>6
    DEF StoreSame, MatchInv, SessionMatch, SessionClaim, WriteTime, LeaseTime, Unclaimed, Changing, Pc, Ws
  <2>2. \A q \in Procs : CallMatch(q)'
    BY <1>4, <1>6
    DEF StoreSame, CallInv, CallMatch, WriteTime, LeaseTime, Unclaimed, Held, Pc, Ws, Rec, Items
  <2> QED
    BY <2>1, <2>2 DEF MatchInv, CallInv
<1> QED
  BY <1>2, <1>4, <1>5, <1>6, LeaseTick DEF StoreStep

\* Of the workspaces that may write to a branch, each owns its lease.
LEMMA LeaseProperties ==
  ASSUME OneRequest, StoreTypeOK, ShapeInv, LeaseInv
  PROVE  ExclusiveUntilRestart /\ LeaseMatchesSession
<1>1. ASSUME NEW w \in Workspaces
      PROVE  Writable(w) <=> WriteTime(sessions[w]) > 0
  <2>1. sessions[w].left \in Nat
    BY DEF StoreTypeOK, Sessions, NoSession
  <2> QED
    BY <2>1 DEF Writable, WriteTime
<1>2. ASSUME NEW w \in Workspaces, Writable(w)
      PROVE  IsWritable(w)
  BY <1>2 DEF Writable, ShapeInv, SessionShape, NoSession
<1>3. LeaseMatchesSession
  <2>1. SUFFICES ASSUME Quiet, NEW w \in Workspaces, IsWritable(w)
                 PROVE  Writable(w) <=> Held(BranchOf[w]) /\ leases[BranchOf[w]].owner = w
    BY DEF LeaseMatchesSession, IsWritable
  <2>2. \A p \in Procs : Pc(p) = "idle"
    BY <2>1, IdleView DEF Quiet
  <2>3. WriteTime(sessions[w]) = LeaseTime(w)
    BY <2>1, <2>2 DEF Quiet, LeaseInv, MatchInv, SessionMatch, Changing
  <2>4. Held(BranchOf[w]) /\ leases[BranchOf[w]].owner = w => LeaseTime(w) > 0
    BY DEF Held, LeaseTime
  <2> QED
    BY <1>1, <2>1, <2>3, <2>4, Times
<1>4. ExclusiveUntilRestart
  <2>1. SUFFICES ASSUME crashes = 0, NEW v \in Workspaces, NEW w \in Workspaces,
                        Writable(v), Writable(w), BranchOf[v] = BranchOf[w]
                 PROVE  v = w
    BY DEF ExclusiveUntilRestart, Exclusive
  <2>2. SessionClaim(v) /\ SessionMatch(v) /\ SessionClaim(w) /\ SessionMatch(w)
    BY <2>1 DEF LeaseInv, MatchInv
  <2>3. CASE leases[BranchOf[v]] # Free
    BY <1>1, <1>2, <2>1, <2>2, <2>3 DEF SessionClaim, Unclaimed
  <2>4. CASE leases[BranchOf[v]] = Free
    <3>1. LeaseTime(v) = 0 /\ LeaseTime(w) = 0
      BY <2>1, <2>4 DEF LeaseTime, Free
    <3>2. \A u \in {v, w} : \E p \in Procs : Changing(p, u)
      BY <1>1, <1>2, <2>1, <2>2, <3>1, Times DEF SessionMatch
    <3> QED
      BY <3>2 DEF OneRequest, Changing
  <2> QED
    BY <2>3, <2>4
<1> QED
  BY <1>3, <1>4

-----------------------------------------------------------------------------
(***************************************************************************)
(* Committed sessions.                                                     *)
(***************************************************************************)
FinalStep ==
    \A w \in Workspaces : sessions[w].status = "committed" =>
        sessions'[w].status \in {"committed", "closed"} /\ sessions'[w].sha = sessions[w].sha

\* A call that starts leaves a committed session committed, or closes it.
LEMMA FinalStart ==
  ASSUME StoreTypeOK, NEW p \in Procs, CallFinal(p), StartKind(p)
  PROVE  CallFinal(p)'
<1>0. CallsTypeOK /\ sessions \in [Workspaces -> Sessions \cup {NoSession}] /\ sessions' = sessions
  BY DEF StoreTypeOK, CallsTypeOK, StartKind, StoreSame
<1>1. ASSUME calls' = calls
      PROVE  CallFinal(p)'
  BY <1>0, <1>1 DEF CallFinal, Items, Ws, Rec
<1>2. ASSUME NEW w \in Workspaces, NEW ttl \in Ttls, Creates(p, w, ttl)
      PROVE  CallFinal(p)'
  <2>1. Items(p)' = {1} /\ Ws(p, 1)' = w /\ Rec(p, 1)' = New(w, ttl)
    BY <1>0, <1>2, CreatesView
  <2>2. New(w, ttl).status = "ready" /\ sessions[w].status # "committed"
    BY <1>2 DEF New, Creates, MayOpen
  <2> QED
    BY <1>0, <2>1, <2>2 DEF CallFinal
<1>3. ASSUME NEW w \in Workspaces, NEW status \in {"committed", "closed", "quarantined"},
             NEW sha \in Shas \cup {NoSha}, Ends(p, w, status, sha),
             status = "committed" \/ sha = sessions[w].sha
      PROVE  CallFinal(p)'
  <2>1. /\ Ended(w, status, sha).status = status /\ Ended(w, status, sha).sha = sha
        /\ Items(p)' = {1} /\ Ws(p, 1)' = w /\ Rec(p, 1)' = Ended(w, status, sha)
    BY <1>0, <1>3, EndsView
  <2>2. sessions[w].status = "committed" => status = "closed"
    BY <1>3 DEF Ends
  <2> HIDE DEF Ended
  <2> QED
    BY <1>0, <1>3, <2>1, <2>2 DEF CallFinal
<1>4. ASSUME NEW w \in Workspaces, Rewrites(p, w)
      PROVE  CallFinal(p)'
  <2>1. Items(p)' = {1} /\ Ws(p, 1)' = w /\ Rec(p, 1)' = sessions[w]
    BY <1>0, <1>4, RewritesView
  <2> QED
    BY <1>0, <2>1 DEF CallFinal
<1>5. ASSUME CleanupExpired(p)
      PROVE  CallFinal(p)'
  <2>1. \A i \in Items(p)' :
          /\ Rec(p, i)' = sessions[Ws(p, i)']
          /\ Expired(Ws(p, i)') \/ Retired(Ws(p, i)')
    BY <1>0, <1>5, CleanupView
  <2>2. \A i \in Items(p)' : sessions[Ws(p, i)'].status # "committed"
    BY <2>1 DEF Expired, Retired
  <2> QED
    BY <1>0, <2>1, <2>2 DEF CallFinal
<1> QED
  BY <1>1, <1>2, <1>3, <1>4, <1>5 DEF StartKind

\* The records of a call that is done with its first one.
LEMMA ContinueItems ==
  ASSUME StoreTypeOK, ShapeInv, NEW p \in Procs, Pc(p) # "idle", Continue(p)
  PROVE  /\ \A i \in Items(p)' : /\ i + 1 \in Items(p) /\ i + 1 > 1
                                 /\ Ws(p, i)' = Ws(p, i + 1) /\ Rec(p, i)' = Rec(p, i + 1)
         /\ Items(p) = {1} => calls'[p] = Idle
         /\ Items(p) # {1} => Pc(p)' = "next"
         /\ calls'[p] = Idle \/ Pc(p)' = "next"
<1>1. CallsTypeOK /\ CallShape(p)
  BY DEF StoreTypeOK, CallsTypeOK, ShapeInv
<1>2. calls[p].todo # <<>>
  BY <1>1 DEF CallShape
<1> QED
  BY <1>1, <1>2, ContinueView

\* What a step of a call writes for a committed session.
LEMMA FinalCall ==
  ASSUME StoreTypeOK, ShapeInv, NEW p \in Procs, CallFinal(p), StepCall(p)
  PROVE  CallFinal(p)' /\ FinalStep
<1>0. CallsTypeOK /\ CallShape(p)
  BY DEF StoreTypeOK, CallsTypeOK, ShapeInv
<1>1. Pc(p) # "idle"
  BY DEF StepCall, AcquireLease, TakeLease, CleanupNext, ReleaseLease, StoreSession, At, Pc
<1>2. /\ calls[p].todo # <<>> /\ 1 \in Items(p)
      /\ Current(p).ws = Ws(p, 1) /\ Current(p).rec = Rec(p, 1)
      /\ Ws(p, 1) \in Workspaces /\ Rec(p, 1) \in Sessions
  BY <1>0, <1>1, CurrentView
<1>3. ASSUME NEW pc \in Pcs, GoTo(p, pc), sessions' = sessions
      PROVE  CallFinal(p)'
  <2>1. calls'[p].todo = calls[p].todo
    BY <1>0, <1>3, GoToView
  <2> QED
    BY <1>3, <2>1 DEF CallFinal, Items, Ws, Rec
<1>4. ASSUME sessions' = sessions
      PROVE  FinalStep
  BY <1>4 DEF FinalStep
<1>5. {"take", "store"} \subseteq Pcs
  BY DEF Pcs
<1>6. CASE AcquireLease(p)
  <2>1. ASSUME calls' = [calls EXCEPT ![p] = Idle]
        PROVE  CallFinal(p)'
    BY <1>0, <2>1, StopView DEF CallFinal
  <2> QED
    BY <1>3, <1>4, <1>5, <1>6, <2>1 DEF AcquireLease
<1>7. CASE TakeLease(p) \/ ReleaseLease(p)
  BY <1>3, <1>4, <1>5, <1>7 DEF TakeLease, ReleaseLease
<1>8. ASSUME Continue(p), \A w \in Workspaces : sessions'[w].status = "committed" =>
                            (Items(p) = {1} \/ sessions'[w] = sessions[w])
      PROVE  CallFinal(p)'
  <2>1. SUFFICES ASSUME NEW i \in Items(p)'
                 PROVE  /\ sessions'[Ws(p, i)'].status = "committed" =>
                             /\ Rec(p, i)'.status \in {"committed", "closed"}
                             /\ Rec(p, i)'.sha = sessions'[Ws(p, i)'].sha
                        /\ Rec(p, i)'.status # "committed"
    BY DEF CallFinal
  <2>2. /\ i + 1 \in Items(p) /\ i + 1 > 1
        /\ Ws(p, i)' = Ws(p, i + 1) /\ Rec(p, i)' = Rec(p, i + 1)
    BY <1>1, <1>8, ContinueItems
  <2>3. Items(p) # {1} /\ Ws(p, i + 1) \in Workspaces
    <3>1. Items(p) # {1}
      BY <2>2
    <3>2. PICK j \in Items(p) : j = i + 1
      BY <2>2
    <3>3. Ws(p, j) \in Workspaces
      BY <1>0, ItemType
    <3> QED
      BY <3>1, <3>2, <3>3
  <2> QED
    BY <1>8, <2>2, <2>3 DEF CallFinal
<1>9. CASE CleanupNext(p) /\ Rec(p, 1).status = "ready"
  <2>1. PICK pc \in Pcs : pc = (IF Rec(p, 1).leased THEN "release" ELSE "store")
    BY DEF Pcs
  <2>2. calls' = [calls EXCEPT ![p].pc = pc, ![p].todo[1].rec.status = "expired"]
        /\ sessions' = sessions
    BY <1>2, <1>9, <2>1 DEF CleanupNext
  <2>3. /\ Items(p)' = Items(p)
        /\ \A i \in Items(p) : Ws(p, i)' = Ws(p, i)
        /\ \A i \in Items(p) : i # 1 => Rec(p, i)' = Rec(p, i)
        /\ Rec(p, 1)' = [Rec(p, 1) EXCEPT !.status = "expired"]
    BY <1>0, <1>2, <2>2, ExpireView
  <2>4. Rec(p, 1)'.status = "expired" /\ sessions[Ws(p, 1)].status # "committed"
    BY <1>2, <1>9, <2>3 DEF Sessions, CallFinal
  <2>5. CallFinal(p)'
    BY <1>2, <2>2, <2>3, <2>4 DEF CallFinal
  <2> QED
    BY <1>4, <2>2, <2>5
<1>10. CASE CleanupNext(p) /\ Rec(p, 1).status # "ready"
  BY <1>2, <1>4, <1>8, <1>10 DEF CleanupNext
<1>11. CASE StoreSession(p)
  <2>1. \A w \in Workspaces : sessions'[w] = IF w = Ws(p, 1) THEN Rec(p, 1) ELSE sessions[w]
    BY <1>2, <1>11 DEF StoreSession, StoreTypeOK
  <2>2. FinalStep
    BY <1>2, <2>1 DEF FinalStep, CallFinal
  <2>3. CallFinal(p)'
    BY <1>2, <1>8, <1>11, <2>1 DEF StoreSession, CallFinal
  <2> QED
    BY <2>2, <2>3
<1> QED
  BY <1>2, <1>6, <1>7, <1>9, <1>10, <1>11 DEF StepCall

\* A committed session is final, when requests come one at a time.
LEMMA FinalInvStep ==
  ASSUME OneRequest, StoreTypeOK, ShapeInv, FinalInv, StoreStep
  PROVE  FinalInv' /\ FinalStep
<1>0. CallsTypeOK
  BY DEF StoreTypeOK, CallsTypeOK
<1>1. ASSUME NEW p \in Procs, StartKind(p) \/ StepCall(p)
      PROVE  FinalInv' /\ FinalStep
  <2>1. CallFinal(p) /\ \A q \in Procs : q = p
    BY DEF OneRequest, FinalInv
  <2>2. StartKind(p) => FinalStep
    BY DEF StartKind, StoreSame, FinalStep
  <2> QED
    BY <1>1, <2>1, <2>2, FinalStart, FinalCall DEF FinalInv
<1>2. CASE Tick
  <2>1. \A w \in Workspaces : sessions'[w].status = sessions[w].status /\ sessions'[w].sha = sessions[w].sha
    BY <1>2, TickRecords
  <2>2. ASSUME NEW p \in Procs, NEW i \in Items(p)
        PROVE  /\ Ws(p, i) \in Workspaces /\ Ws(p, i)' = Ws(p, i)
               /\ Rec(p, i)'.status = Rec(p, i).status /\ Rec(p, i)'.sha = Rec(p, i).sha
    <3>1. Rec(p, i) \in Sessions /\ Ws(p, i) \in Workspaces
      BY <1>0, ItemType
    <3> QED
      BY <1>0, <1>2, <3>1, TickView DEF Sessions
  <2>3. \A p \in Procs : Items(p)' = Items(p)
    BY <1>0, <1>2, TickView
  <2> QED
    BY <2>1, <2>2, <2>3 DEF FinalInv, CallFinal, FinalStep
<1>3. CASE CrashRestart
  <2>1. \A p \in Procs : Items(p)' = {}
    BY <1>3 DEF CrashRestart, Items, Idle
  <2> QED
    BY <1>3, <2>1 DEF CrashRestart, FinalInv, CallFinal, FinalStep
<1>4. CASE StoreSame /\ calls' = calls
  BY <1>4 DEF StoreSame, FinalInv, CallFinal, FinalStep, Items, Ws, Rec
<1> QED
  BY <1>1, <1>2, <1>3, <1>4 DEF StoreStep

-----------------------------------------------------------------------------
(***************************************************************************)
(* Types.                                                                  *)
(***************************************************************************)
Opens == \E p \in Procs, w \in Workspaces, ttl \in Ttls : Create(p, w, ttl)

\* A step of the store that the overlays only follow.
Follows ==
    /\ DirsFollow
    /\ \E w \in Workspaces : dirs' = dirs \cup {w} \/ dirs' = dirs \ {w} \/ dirs' = dirs
    /\ base' = base \/ Opens

\* Which steps these are.
LEMMA FollowsKinds ==
  ASSUME StoreTypeOK, ShapeInv, NEW p \in Procs,
         \/ \E w \in Workspaces : (\E ttl \in Ttls : Create(p, w, ttl)) \/ ChangeWorkspace(p, w)
         \/ Cleanup(p)
         \/ StepStore(p)
  PROVE  Follows
<1>1. ASSUME NEW w \in Workspaces, NEW ttl \in Ttls, Create(p, w, ttl)
      PROVE  Follows
  BY <1>1 DEF Create, CreateWorkspace, Follows, Opens
<1>2. ASSUME NEW w \in Workspaces, ChangeWorkspace(p, w)
      PROVE  Follows
  BY <1>2 DEF ChangeWorkspace, CloseWorkspace, Quarantine, UpdatePolicy, CreateRefused, Follows
<1>3. CASE Cleanup(p)
  <2>1. PICK w \in Workspaces : TRUE
    BY <1>3, FS_EmptySet DEF Cleanup, CleanupExpired
  <2> QED
    BY <1>3, <2>1 DEF Cleanup, CleanupExpired, Follows
<1>4. CASE StepStore(p)
  <2>1. StepCall(p) /\ DirsFollow /\ base' = base
    BY <1>4 DEF StepStore
  <2>2. Pc(p) # "idle"
    BY <2>1 DEF StepCall, AcquireLease, TakeLease, CleanupNext, ReleaseLease, StoreSession, At, Pc
  <2>3. Current(p).ws \in Workspaces
    BY <2>2, CurrentView DEF StoreTypeOK, CallsTypeOK, ShapeInv
  <2>4. dirs' = dirs \ {Current(p).ws} \/ dirs' = dirs
    BY <2>1 DEF StepCall, AcquireLease, TakeLease, CleanupNext, ReleaseLease, StoreSession
  <2> QED
    BY <2>1, <2>3, <2>4 DEF Follows
<1> QED
  BY <1>1, <1>2, <1>3, <1>4

\* The types of the files, without those of the store.
FileTypeOK ==
    /\ dirs \subseteq Workspaces
    /\ overlay \in [Workspaces -> Contents \cup {Deleted, NoContent}]
    /\ blobs \in [Workspaces -> SUBSET Contents]
    /\ base \in [Workspaces -> Shas \cup {NoSha}]
    /\ heads \in [Branches -> Shas \cup {NoSha}]
    /\ DOMAIN made \subseteq Shas
    /\ \A s \in DOMAIN made : made[s] \in [ws : Workspaces, content : Contents \cup {Deleted}]
    /\ requests \in [Procs -> Requests \cup {NoRequest}]
    /\ acked \in [Workspaces -> Contents \cup {Deleted, NoContent}]
    /\ retired \subseteq Workspaces

\* The two halves of the type invariant.
LEMMA TypeHalves ==
  TypeOK <=> StoreTypeOK /\ FileTypeOK
BY DEF TypeOK, LeaseTypeOK, StoreTypeOK, FileTypeOK, Pcs

\* A request at one of its steps.
LEMMA ReqType ==
  ASSUME FileTypeOK, NEW p \in Procs, requests[p].op # "none"
  PROVE  /\ requests[p] \in Requests /\ Req(p) = requests[p]
         /\ requests[p].ws \in Workspaces /\ requests[p].sha \in Shas \cup {NoSha}
         /\ requests[p].content \in Contents \cup {Deleted, NoContent}
         /\ requests[p] = [op |-> requests[p].op, ws |-> requests[p].ws,
                           content |-> requests[p].content, sha |-> requests[p].sha]
BY DEF FileTypeOK, Requests, NoRequest, Req

\* A request that becomes another one.
LEMMA BecomeView ==
  ASSUME requests \in [Procs -> Requests \cup {NoRequest}],
         NEW p \in Procs, NEW r \in Requests \cup {NoRequest}, Become(p, r)
  PROVE  /\ requests'[p] = r /\ \A q \in Procs : q # p => requests'[q] = requests[q]
         /\ requests' \in [Procs -> Requests \cup {NoRequest}]
BY DEF Become

\* The files keep their types.
LEMMA FileTypeStep ==
  ASSUME StoreTypeOK, ShapeInv, FileTypeOK, \A p \in Procs : RequestShape(p), [Next]_vars
  PROVE  FileTypeOK' /\ \A p \in Procs : RequestShape(p)'
<1> DEFINE Good == FileTypeOK' /\ \A p \in Procs : RequestShape(p)'
<1>1. ASSUME requests' = requests, overlay' = overlay
      PROVE  \A p \in Procs : RequestShape(p)'
  BY <1>1 DEF RequestShape
<1>2. ASSUME Follows
      PROVE  Good
  <2>1. requests' = requests /\ overlay' = overlay /\ heads' = heads /\ made' = made /\ acked' = acked
    BY <1>2 DEF Follows, DirsFollow
  <2>2. dirs' \subseteq Workspaces /\ retired' \subseteq Workspaces
    BY <1>2 DEF Follows, DirsFollow, FileTypeOK
  <2>3. blobs' \in [Workspaces -> SUBSET Contents]
    BY <1>2 DEF Follows, DirsFollow, FileTypeOK
  <2>4. base' \in [Workspaces -> Shas \cup {NoSha}]
    <3>1. ASSUME NEW p \in Procs, NEW w \in Workspaces, NEW ttl \in Ttls, Create(p, w, ttl)
          PROVE  base' \in [Workspaces -> Shas \cup {NoSha}]
      <4>1. IsWritable(w) => BranchOf[w] \in Branches
        BY LeaseConstants DEF IsWritable
      <4>2. (IF IsWritable(w) THEN heads[BranchOf[w]] ELSE NoSha) \in Shas \cup {NoSha}
        BY <4>1 DEF FileTypeOK
      <4> QED
        BY <3>1, <4>2 DEF Create, FileTypeOK
    <3> QED
      BY <1>2, <3>1 DEF Follows, Opens, FileTypeOK
  <2>5. FileTypeOK'
    BY <2>1, <2>2, <2>3, <2>4 DEF FileTypeOK
  <2> QED
    BY <1>1, <2>1, <2>5
<1>3. ASSUME NEW p \in Procs, NEW r \in Requests \cup {NoRequest}, Become(p, r),
             UNCHANGED <<overlay, heads, base, made, acked, retired>>,
             blobs' \in [Workspaces -> SUBSET Contents], dirs' \subseteq Workspaces,
             r.op = "blob" => r.content \in Contents,
             r.op = "record" => r.content \in Contents \cup {Deleted},
             r.op \in {"list", "git", "mark", "marking"} => overlay[r.ws] # NoContent,
             r.op \in {"git", "mark", "marking"} => r.content # NoContent
      PROVE  Good
  <2>1. /\ requests'[p] = r /\ \A q \in Procs : q # p => requests'[q] = requests[q]
        /\ requests' \in [Procs -> Requests \cup {NoRequest}]
    BY <1>3, BecomeView DEF FileTypeOK
  <2>2. FileTypeOK'
    BY <1>3, <2>1 DEF FileTypeOK
  <2>3. \A q \in Procs : RequestShape(q)'
    BY <1>3, <2>1 DEF RequestShape
  <2> QED
    BY <2>2, <2>3
<1>4. NoRequest.op = "none"
  BY DEF NoRequest
<1>5. ASSUME NEW p \in Procs, NEW w \in Workspaces
      PROVE  /\ \A c \in Contents : WriteFile(p, w, c) => Good
             /\ DeleteFile(p, w) => Good
             /\ Commit(p, w) => Good
  <2>1. ASSUME NEW c \in Contents, WriteFile(p, w, c)
        PROVE  Good
    <3>1. [op |-> "blob", ws |-> w, content |-> c, sha |-> NoSha] \in Requests
      BY DEF Requests
    <3> QED
      BY <1>3, <2>1, <3>1 DEF WriteFile, leaseVars, FileTypeOK
  <2>2. ASSUME DeleteFile(p, w)
        PROVE  Good
    <3>1. [op |-> "record", ws |-> w, content |-> Deleted, sha |-> NoSha] \in Requests
      BY DEF Requests
    <3> QED
      BY <1>3, <2>2, <3>1 DEF DeleteFile, leaseVars, FileTypeOK
  <2>3. ASSUME Commit(p, w)
        PROVE  Good
    <3>1. [op |-> "list", ws |-> w, content |-> NoContent, sha |-> NoSha] \in Requests
      BY DEF Requests
    <3> QED
      BY <1>3, <2>3, <3>1 DEF Commit, leaseVars, FileTypeOK
  <2> QED
    BY <2>1, <2>2, <2>3
<1>6. ASSUME NEW p \in Procs, PutBlob(p)
      PROVE  Good
  <2>1. requests[p].op = "blob" /\ requests[p] \in Requests /\ requests[p].content \in Contents
        /\ requests[p].ws \in Workspaces
    BY <1>6, ReqType DEF PutBlob, Step, RequestShape
  <2>2. [Req(p) EXCEPT !.op = "record"] \in Requests
    BY <2>1 DEF Requests, Req
  <2>3. /\ blobs' \in [Workspaces -> SUBSET Contents] /\ dirs' \subseteq Workspaces
        /\ UNCHANGED <<overlay, heads, base, made, acked, retired>>
    BY <1>6, <2>1 DEF PutBlob, Req, FileTypeOK
  <2>4. /\ Become(p, [Req(p) EXCEPT !.op = "record"])
        /\ [Req(p) EXCEPT !.op = "record"].op = "record"
        /\ [Req(p) EXCEPT !.op = "record"].content \in Contents
    BY <1>6, <2>1 DEF PutBlob, Req, Requests
  <2> QED
    BY <1>3, <2>2, <2>3, <2>4
<1>7. ASSUME NEW p \in Procs, PutFileRecord(p)
      PROVE  Good
  <2>1. requests[p].op = "record" /\ requests[p].ws \in Workspaces
        /\ requests[p].content \in Contents \cup {Deleted}
    BY <1>7, ReqType DEF PutFileRecord, Step, RequestShape
  <2>2. /\ requests'[p] = NoRequest /\ \A q \in Procs : q # p => requests'[q] = requests[q]
        /\ requests' \in [Procs -> Requests \cup {NoRequest}]
    BY <1>7, BecomeView DEF PutFileRecord, End, FileTypeOK
  <2>3. FileTypeOK'
    BY <1>7, <2>1, <2>2 DEF PutFileRecord, Req, leaseVars, FileTypeOK
  <2>4. \A w \in Workspaces : overlay'[w] = IF w = requests[p].ws THEN requests[p].content ELSE overlay[w]
    BY <1>7, <2>1 DEF PutFileRecord, Req, FileTypeOK
  <2>5. NoContent \notin Contents \cup {Deleted}
    BY ContentConstants
  <2>6. ASSUME NEW q \in Procs
        PROVE  RequestShape(q)'
    <3>1. CASE q = p
      BY <1>4, <2>2, <3>1 DEF RequestShape
    <3>2. CASE q # p /\ requests[q].op = "none"
      BY <2>2, <3>2 DEF RequestShape
    <3>3. CASE q # p /\ requests[q].op # "none"
      <4>1. requests[q].ws \in Workspaces /\ requests'[q] = requests[q]
        BY <2>2, <3>3, ReqType
      <4>2. overlay[requests[q].ws] # NoContent => overlay'[requests[q].ws] # NoContent
        BY <2>1, <2>4, <2>5, <4>1
      <4> QED
        BY <4>1, <4>2 DEF RequestShape
    <3> QED
      BY <3>1, <3>2, <3>3
  <2> QED
    BY <2>3, <2>6
<1>8. ASSUME NEW p \in Procs, End(p), UNCHANGED <<dirs, overlay, blobs, base, heads, made, acked, retired>>
      PROVE  Good
  BY <1>3, <1>4, <1>8 DEF End, FileTypeOK
<1>9. ASSUME NEW p \in Procs, ListChanges(p)
      PROVE  Good
  <2>1. UNCHANGED <<dirs, overlay, blobs, base, heads, made, acked, retired>>
    BY <1>9 DEF ListChanges, leaseVars
  <2>2. requests[p].op = "list" /\ requests[p] \in Requests /\ requests[p].ws \in Workspaces
        /\ overlay[requests[p].ws] # NoContent
    BY <1>9, ReqType DEF ListChanges, Step, RequestShape
  <2>3. CASE Become(p, [Req(p) EXCEPT !.op = "git", !.content = overlay[Req(p).ws]])
    <3>1. overlay[Req(p).ws] \in Contents \cup {Deleted, NoContent}
      BY <2>2 DEF Req, FileTypeOK
    <3> DEFINE r == [Req(p) EXCEPT !.op = "git", !.content = overlay[Req(p).ws]]
    <3>2. r \in Requests /\ r.op = "git" /\ r.ws = requests[p].ws /\ r.content = overlay[requests[p].ws]
      BY <2>2, <3>1 DEF Requests, Req
    <3> HIDE DEF r
    <3>3. Become(p, r)
      BY <2>3 DEF r
    <3> QED
      BY <1>3, <2>1, <2>2, <3>2, <3>3 DEF FileTypeOK
  <2> QED
    BY <1>8, <1>9, <2>1, <2>3 DEF ListChanges
<1>10. ASSUME NEW p \in Procs, CommitOverlay(p)
       PROVE  Good
  <2>1. requests[p].op = "git" /\ requests[p] \in Requests /\ requests[p].ws \in Workspaces
        /\ overlay[requests[p].ws] # NoContent /\ requests[p].content # NoContent
        /\ requests[p].content \in Contents \cup {Deleted}
    BY <1>10, ReqType DEF CommitOverlay, Step, RequestShape
  <2>2. PICK s \in Shas \ DOMAIN made :
          /\ made' = [t \in DOMAIN made \cup {s} |->
                        IF t = s THEN [ws |-> Req(p).ws, content |-> Req(p).content] ELSE made[t]]
          /\ heads' = [heads EXCEPT ![BranchOf[Req(p).ws]] = s]
          /\ Become(p, [Req(p) EXCEPT !.op = "mark", !.sha = s])
    BY <1>10 DEF CommitOverlay
  <2>3. UNCHANGED <<dirs, overlay, blobs, base, acked, retired>>
    BY <1>10 DEF CommitOverlay, leaseVars
  <2>4. heads' \in [Branches -> Shas \cup {NoSha}]
    BY <2>2 DEF FileTypeOK
  <2>5. DOMAIN made' \subseteq Shas
        /\ \A t \in DOMAIN made' : made'[t] \in [ws : Workspaces, content : Contents \cup {Deleted}]
    BY <2>1, <2>2 DEF FileTypeOK, Req
  <2> DEFINE r == [Req(p) EXCEPT !.op = "mark", !.sha = s]
  <2>6. r \in Requests /\ r.op = "mark" /\ r.ws = requests[p].ws /\ r.content = requests[p].content
    BY <2>1 DEF Requests, Req
  <2> HIDE DEF r
  <2>7. Become(p, r)
    BY <2>2 DEF r
  <2>8. /\ requests'[p] = r /\ \A q \in Procs : q # p => requests'[q] = requests[q]
        /\ requests' \in [Procs -> Requests \cup {NoRequest}]
    BY <2>6, <2>7, BecomeView DEF FileTypeOK
  <2>9. FileTypeOK'
    BY <2>3, <2>4, <2>5, <2>8 DEF FileTypeOK
  <2>10. \A q \in Procs : RequestShape(q)'
    BY <2>1, <2>3, <2>6, <2>8 DEF RequestShape
  <2> QED
    BY <2>9, <2>10
<1>11. ASSUME NEW p \in Procs, MarkSession(p)
       PROVE  Good
  <2>1. UNCHANGED <<dirs, overlay, blobs, base, heads, made, acked, retired>>
    BY <1>11 DEF MarkSession, MarkCommitted, leaseVars
  <2>2. requests[p].op = "mark" /\ requests[p] \in Requests
        /\ overlay[requests[p].ws] # NoContent /\ requests[p].content # NoContent
    BY <1>11, ReqType DEF MarkSession, Step, RequestShape
  <2>3. CASE Become(p, [Req(p) EXCEPT !.op = "marking"])
    <3> DEFINE r == [Req(p) EXCEPT !.op = "marking"]
    <3>1. r \in Requests /\ r.op = "marking" /\ r.ws = requests[p].ws /\ r.content = requests[p].content
      BY <2>2 DEF Requests, Req
    <3> HIDE DEF r
    <3>2. Become(p, r)
      BY <2>3 DEF r
    <3> QED
      BY <1>3, <2>1, <2>2, <3>1, <3>2 DEF FileTypeOK
  <2> QED
    BY <1>8, <1>11, <2>1, <2>3 DEF MarkSession
<1>12. ASSUME NEW p \in Procs, Answer(p)
       PROVE  Good
  BY <1>8, <1>12 DEF Answer, leaseVars
<1>13. Pass => Good
  BY <1>1 DEF Pass, Tick, fileVars, FileTypeOK
<1>14. Crash => Good
  <2>1. ASSUME Crash
        PROVE  FileTypeOK'
    BY <2>1 DEF Crash, CrashRestart, FileTypeOK
  <2>2. Crash => \A p \in Procs : RequestShape(p)'
    BY <1>4 DEF Crash, RequestShape
  <2> QED
    BY <2>1, <2>2
<1>15. UNCHANGED vars => Good
  BY <1>1 DEF vars, leaseVars, fileVars, FileTypeOK
<1>16. ASSUME NEW p \in Procs,
              \/ \E w \in Workspaces : (\E ttl \in Ttls : Create(p, w, ttl)) \/ ChangeWorkspace(p, w)
              \/ Cleanup(p)
              \/ StepStore(p)
       PROVE  Good
  BY <1>2, <1>16, FollowsKinds
<1> HIDE DEF Good
<1>17. Good
  BY <1>5, <1>6, <1>7, <1>9, <1>10, <1>11, <1>12, <1>13, <1>14, <1>15, <1>16 DEF Next
<1> QED
  BY <1>17 DEF Good

-----------------------------------------------------------------------------
(***************************************************************************)
(* Files.                                                                  *)
(***************************************************************************)

\* A step after which a request that is about to record a content had one to record before.
LEMMA FileKeeps ==
  ASSUME FileInv, UNCHANGED <<dirs, overlay, blobs, retired>>,
         \A p \in Procs : requests'[p].op = "record" =>
           requests'[p] = requests[p] \/ requests'[p].content \notin Contents
  PROVE  FileInv'
<1>1. \A w \in Workspaces \ retired' : Readable(w)' /\ (blobs'[w] # {} => w \in dirs')
  BY DEF FileInv, Readable
<1>2. \A p \in Procs : requests'[p].op = "record" /\ requests'[p].ws \notin retired'
                         /\ requests'[p].content \in Contents =>
                       requests'[p].content \in blobs'[requests'[p].ws]
  BY DEF FileInv
<1> QED
  BY <1>1, <1>2 DEF FileInv

\* The content is there before the record, and stays until the directory goes.
LEMMA FileStep ==
  ASSUME StoreTypeOK, ShapeInv, FileTypeOK, \A p \in Procs : RequestShape(p), FileInv, [Next]_vars
  PROVE  FileInv'
<1>1. ASSUME Follows
      PROVE  FileInv'
  <2>1. requests' = requests /\ overlay' = overlay /\ retired' = retired \cup (dirs \ dirs')
        /\ \A w \in Workspaces : blobs'[w] = IF w \in dirs' THEN blobs[w] ELSE {}
    BY <1>1 DEF Follows, DirsFollow
  <2>2. ASSUME NEW w \in Workspaces \ retired'
        PROVE  w \notin retired /\ blobs'[w] = blobs[w] /\ (blobs'[w] # {} => w \in dirs')
    <3>1. w \notin retired /\ (w \in dirs => w \in dirs')
      BY <2>1
    <3>2. blobs[w] # {} => w \in dirs
      BY <3>1 DEF FileInv
    <3> QED
      BY <2>1, <3>1, <3>2
  <2>3. \A w \in Workspaces \ retired' : Readable(w)' /\ (blobs'[w] # {} => w \in dirs')
    BY <2>1, <2>2 DEF FileInv, Readable
  <2>4. ASSUME NEW p \in Procs, requests[p].op = "record", requests[p].ws \notin retired',
               requests[p].content \in Contents
        PROVE  requests[p].content \in blobs'[requests[p].ws]
    <3>1. requests[p].ws \in Workspaces \ retired'
      BY <2>4, ReqType
    <3> QED
      BY <2>2, <2>4, <3>1 DEF FileInv
  <2> QED
    BY <2>1, <2>3, <2>4 DEF FileInv
<1>2. ASSUME NEW p \in Procs, NEW r \in Requests \cup {NoRequest}, Become(p, r),
             UNCHANGED <<dirs, overlay, blobs, retired>>,
             r.op = "record" => r.content \notin Contents
      PROVE  FileInv'
  BY <1>2, BecomeView, FileKeeps DEF FileTypeOK
<1>3. NoRequest.op = "none" /\ Deleted \notin Contents
  BY ContentConstants DEF NoRequest
<1>4. ASSUME NEW p \in Procs, NEW w \in Workspaces
      PROVE  /\ \A c \in Contents : WriteFile(p, w, c) => FileInv'
             /\ DeleteFile(p, w) => FileInv'
             /\ Commit(p, w) => FileInv'
  <2>1. ASSUME NEW c \in Contents, WriteFile(p, w, c)
        PROVE  FileInv'
    <3>1. [op |-> "blob", ws |-> w, content |-> c, sha |-> NoSha] \in Requests
      BY DEF Requests
    <3> QED
      BY <1>2, <2>1, <3>1 DEF WriteFile, leaseVars
  <2>2. ASSUME DeleteFile(p, w)
        PROVE  FileInv'
    <3>1. [op |-> "record", ws |-> w, content |-> Deleted, sha |-> NoSha] \in Requests
      BY DEF Requests
    <3> QED
      BY <1>2, <1>3, <2>2, <3>1 DEF DeleteFile, leaseVars
  <2>3. ASSUME Commit(p, w)
        PROVE  FileInv'
    <3>1. [op |-> "list", ws |-> w, content |-> NoContent, sha |-> NoSha] \in Requests
      BY DEF Requests
    <3> QED
      BY <1>2, <2>3, <3>1 DEF Commit, leaseVars
  <2> QED
    BY <2>1, <2>2, <2>3
<1>5. ASSUME NEW p \in Procs, PutBlob(p)
      PROVE  FileInv'
  <2>1. requests[p].op = "blob" /\ requests[p] \in Requests /\ requests[p].ws \in Workspaces
    BY <1>5, ReqType DEF PutBlob, Step
  <2> DEFINE r == [Req(p) EXCEPT !.op = "record"]
  <2>2. r \in Requests /\ r.op = "record" /\ r.ws = requests[p].ws /\ r.content = requests[p].content
    BY <2>1 DEF Requests, Req
  <2>3. /\ Become(p, r)
        /\ dirs' = dirs \cup {requests[p].ws}
        /\ \A w \in Workspaces :
             blobs'[w] = IF w = requests[p].ws THEN blobs[w] \cup {requests[p].content} ELSE blobs[w]
        /\ overlay' = overlay /\ retired' = retired
    BY <1>5, <2>1 DEF PutBlob, Req, FileTypeOK
  <2> HIDE DEF r
  <2>4. requests'[p] = r /\ \A q \in Procs : q # p => requests'[q] = requests[q]
    BY <2>2, <2>3, BecomeView DEF FileTypeOK
  <2>5. \A w \in Workspaces \ retired' : Readable(w)' /\ (blobs'[w] # {} => w \in dirs')
    BY <2>3 DEF FileInv, Readable
  <2>6. ASSUME NEW q \in Procs, requests'[q].op = "record", requests'[q].ws \notin retired',
               requests'[q].content \in Contents
        PROVE  requests'[q].content \in blobs'[requests'[q].ws]
    <3>1. CASE q = p
      BY <2>1, <2>2, <2>3, <2>4, <3>1
    <3>2. CASE q # p
      <4>1. requests'[q] = requests[q] /\ requests[q].ws \in Workspaces
        BY <2>4, <2>6, <3>2, ReqType
      <4>2. requests[q].content \in blobs[requests[q].ws]
        BY <2>3, <2>6, <4>1 DEF FileInv
      <4> QED
        BY <2>3, <4>1, <4>2
    <3> QED
      BY <3>1, <3>2
  <2> QED
    BY <2>5, <2>6 DEF FileInv
<1>6. ASSUME NEW p \in Procs, PutFileRecord(p)
      PROVE  FileInv'
  <2>1. requests[p].op = "record" /\ requests[p].ws \in Workspaces
    BY <1>6, ReqType DEF PutFileRecord, Step
  <2>2. requests'[p] = NoRequest /\ \A q \in Procs : q # p => requests'[q] = requests[q]
    BY <1>6, BecomeView DEF PutFileRecord, End, FileTypeOK
  <2>3. /\ dirs' = dirs /\ blobs' = blobs /\ retired' = retired
        /\ \A w \in Workspaces : overlay'[w] = IF w = requests[p].ws THEN requests[p].content ELSE overlay[w]
    BY <1>6, <2>1 DEF PutFileRecord, Req, leaseVars, FileTypeOK
  <2>4. \A w \in Workspaces \ retired' : Readable(w)' /\ (blobs'[w] # {} => w \in dirs')
    BY <2>1, <2>3 DEF FileInv, Readable
  <2>5. \A q \in Procs : requests'[q].op = "record" => requests'[q] = requests[q]
    BY <1>3, <2>2
  <2> QED
    BY <2>3, <2>4, <2>5 DEF FileInv
<1>7. ASSUME NEW p \in Procs, End(p), UNCHANGED <<dirs, overlay, blobs, retired>>
      PROVE  FileInv'
  BY <1>2, <1>3, <1>7 DEF End
<1>8. ASSUME NEW p \in Procs, requests[p].op # "none", NEW op \in {"git", "mark", "marking"},
             NEW content \in Contents \cup {Deleted, NoContent}, NEW sha \in Shas \cup {NoSha},
             Become(p, [Req(p) EXCEPT !.op = op, !.content = content, !.sha = sha]),
             UNCHANGED <<dirs, overlay, blobs, retired>>
      PROVE  FileInv'
  <2> DEFINE r == [Req(p) EXCEPT !.op = op, !.content = content, !.sha = sha]
  <2>1. r \in Requests /\ r.op = op
    BY <1>8, ReqType DEF Requests
  <2> HIDE DEF r
  <2>2. Become(p, r)
    BY <1>8 DEF r
  <2> QED
    BY <1>2, <1>8, <2>1, <2>2
<1>9. ASSUME NEW p \in Procs, ListChanges(p)
      PROVE  FileInv'
  <2>1. requests[p].op = "list" /\ requests[p] \in Requests /\ Req(p) = requests[p]
        /\ UNCHANGED <<dirs, overlay, blobs, retired>>
    BY <1>9, ReqType DEF ListChanges, Step, leaseVars
  <2>2. CASE Become(p, [Req(p) EXCEPT !.op = "git", !.content = overlay[Req(p).ws]])
    <3>1. overlay[Req(p).ws] \in Contents \cup {Deleted, NoContent} /\ Req(p).sha \in Shas \cup {NoSha}
      BY <2>1 DEF FileTypeOK, Requests
    <3>2. [Req(p) EXCEPT !.op = "git", !.content = overlay[Req(p).ws]] =
            [Req(p) EXCEPT !.op = "git", !.content = overlay[Req(p).ws], !.sha = Req(p).sha]
      BY <2>1 DEF Requests
    <3> QED
      BY <1>8, <2>1, <2>2, <3>1, <3>2
  <2> QED
    BY <1>7, <1>9, <2>1, <2>2 DEF ListChanges
<1>10. ASSUME NEW p \in Procs, CommitOverlay(p)
       PROVE  FileInv'
  <2>1. requests[p].op = "git" /\ requests[p] \in Requests /\ Req(p) = requests[p]
        /\ UNCHANGED <<dirs, overlay, blobs, retired>>
    BY <1>10, ReqType DEF CommitOverlay, Step, leaseVars
  <2>2. PICK s \in Shas : Become(p, [Req(p) EXCEPT !.op = "mark", !.sha = s])
    BY <1>10 DEF CommitOverlay
  <2>3. /\ Req(p).content \in Contents \cup {Deleted, NoContent}
        /\ [Req(p) EXCEPT !.op = "mark", !.sha = s] =
             [Req(p) EXCEPT !.op = "mark", !.content = Req(p).content, !.sha = s]
    BY <2>1 DEF Requests
  <2> QED
    BY <1>8, <2>1, <2>2, <2>3
<1>11. ASSUME NEW p \in Procs, MarkSession(p)
       PROVE  FileInv'
  <2>1. requests[p].op = "mark" /\ requests[p] \in Requests /\ Req(p) = requests[p]
        /\ UNCHANGED <<dirs, overlay, blobs, retired>>
    BY <1>11, ReqType DEF MarkSession, MarkCommitted, Step, leaseVars
  <2>2. CASE Become(p, [Req(p) EXCEPT !.op = "marking"])
    <3>1. /\ Req(p).content \in Contents \cup {Deleted, NoContent} /\ Req(p).sha \in Shas \cup {NoSha}
          /\ [Req(p) EXCEPT !.op = "marking"] =
               [Req(p) EXCEPT !.op = "marking", !.content = Req(p).content, !.sha = Req(p).sha]
      BY <2>1 DEF Requests
    <3> QED
      BY <1>8, <2>1, <2>2, <3>1
  <2> QED
    BY <1>7, <1>11, <2>1, <2>2 DEF MarkSession
<1>12. ASSUME NEW p \in Procs, Answer(p)
       PROVE  FileInv'
  BY <1>7, <1>12 DEF Answer, leaseVars
<1>13. Pass => FileInv'
  BY FileKeeps DEF Pass, Tick, fileVars
<1>14. Crash => FileInv'
  BY <1>3, FileKeeps DEF Crash, CrashRestart
<1>15. UNCHANGED vars => FileInv'
  BY FileKeeps DEF vars, leaseVars, fileVars
<1>16. ASSUME NEW p \in Procs,
              \/ \E w \in Workspaces : (\E ttl \in Ttls : Create(p, w, ttl)) \/ ChangeWorkspace(p, w)
              \/ Cleanup(p)
              \/ StepStore(p)
       PROVE  FileInv'
  BY <1>1, <1>16, FollowsKinds
<1> QED
  BY <1>4, <1>5, <1>6, <1>9, <1>10, <1>11, <1>12, <1>13, <1>14, <1>15, <1>16 DEF Next

-----------------------------------------------------------------------------
(***************************************************************************)
(* The steps, by what they do for a request.                               *)
(***************************************************************************)
StoreKept == StoreSame /\ calls' = calls
FilesKept == UNCHANGED <<overlay, base, heads, made, acked>>

\* A request goes on for the same workspace.
Goes(p, from, to) ==
    /\ requests[p].op = from /\ requests'[p].op = to
    /\ requests[p].ws \in Workspaces /\ requests'[p].ws = requests[p].ws

BeginsWork(p) ==
    /\ Available(p) /\ requests'[p].op \in {"blob", "record", "list"}
    /\ requests'[p].ws \in Workspaces /\ Writable(requests'[p].ws)
    /\ StoreKept /\ FilesKept
PutsBlob(p) == Goes(p, "blob", "record") /\ StoreKept /\ FilesKept
PutsRecord(p) ==
    /\ requests[p].op = "record" /\ requests'[p] = NoRequest
    /\ requests[p].ws \in Workspaces
    /\ overlay' = [overlay EXCEPT ![requests[p].ws] = requests[p].content]
    /\ acked' = [acked EXCEPT ![requests[p].ws] = requests[p].content]
    /\ StoreKept /\ UNCHANGED <<base, heads, made>>
Lists(p) ==
    /\ Goes(p, "list", "git") /\ requests'[p].content = overlay[requests[p].ws]
    /\ StoreKept /\ FilesKept
Stops(p) ==
    /\ requests[p].op \in {"list", "mark", "marking"} /\ requests'[p] = NoRequest
    /\ requests[p].op = "mark" => sessions[requests[p].ws].status # "ready"
    /\ requests[p].op = "marking" => calls[p] = Idle
    /\ StoreKept /\ FilesKept
Commits(p, s) ==
    /\ Goes(p, "git", "mark")
    /\ requests'[p].content = requests[p].content /\ requests'[p].sha = s
    /\ made' = [t \in DOMAIN made \cup {s} |->
                  IF t = s THEN [ws |-> requests[p].ws, content |-> requests[p].content]
                           ELSE made[t]]
    /\ heads' = [heads EXCEPT ![BranchOf[requests[p].ws]] = s]
    /\ StoreKept /\ UNCHANGED <<overlay, base, acked>>
Marks(p) ==
    /\ Goes(p, "mark", "marking")
    /\ requests'[p].content = requests[p].content /\ requests'[p].sha = requests[p].sha
    /\ requests[p].sha \in Shas \cup {NoSha}
    /\ Ends(p, requests[p].ws, "committed", requests[p].sha)
    /\ StoreSame /\ FilesKept
Works(p) ==
    /\ \/ BeginsWork(p) \/ PutsBlob(p) \/ PutsRecord(p) \/ Lists(p) \/ Stops(p) \/ Marks(p)
       \/ \E s \in Shas \ DOMAIN made : Commits(p, s)
    /\ \A q \in Procs : q # p => requests'[q] = requests[q]

\* The calls that no request of a file makes, except the first.
Plain(p) ==
    /\ requests[p].op = "none"
    /\ \/ calls' = calls
       \/ \E w \in Workspaces :
            \/ \E status \in {"closed", "quarantined"} :
                 Ends(p, w, status, sessions[w].sha)
            \/ Rewrites(p, w)
       \/ CleanupExpired(p)
    /\ StoreSame /\ FilesKept /\ requests' = requests
Opening(p, w, ttl) ==
    /\ requests[p].op = "none" /\ Creates(p, w, ttl)
    /\ sessions[w] # NoSession => base'[w] = base[w]
    /\ base' = [base EXCEPT ![w] = IF IsWritable(w) THEN heads[BranchOf[w]] ELSE NoSha]
    /\ StoreSame /\ UNCHANGED <<overlay, heads, made, acked, requests>>
Calling(p) == StepCall(p) /\ FilesKept /\ requests' = requests
Passing == Tick /\ FilesKept /\ requests' = requests
Crashing == CrashRestart /\ FilesKept /\ requests' = [p \in Procs |-> NoRequest]
Resting == StoreKept /\ FilesKept /\ requests' = requests

\* A file request that begins, goes on or ends.
LEMMA WorkKinds ==
  ASSUME StoreTypeOK, FileTypeOK, NEW p \in Procs, NEW w \in Workspaces,
         \/ (\E c \in Contents : WriteFile(p, w, c)) \/ DeleteFile(p, w) \/ Commit(p, w)
         \/ PutBlob(p) \/ PutFileRecord(p) \/ ListChanges(p) \/ CommitOverlay(p)
         \/ MarkSession(p) \/ Answer(p)
  PROVE  Works(p)
<1>1. requests \in [Procs -> Requests \cup {NoRequest}]
  BY DEF FileTypeOK
<1>2. \A r : Become(p, r) => requests'[p] = r /\ \A q \in Procs : q # p => requests'[q] = requests[q]
  BY <1>1 DEF Become
<1>3. ASSUME requests[p].op # "none"
      PROVE  requests[p] \in Requests /\ Req(p) = requests[p]
  BY <1>3, ReqType
<1>4. ASSUME (\E c \in Contents : WriteFile(p, w, c)) \/ DeleteFile(p, w) \/ Commit(p, w)
      PROVE  Works(p)
  <2>1. PICK r : Become(p, r) /\ r.op \in {"blob", "record", "list"} /\ r.ws = w
    <3>1. ASSUME NEW op \in {"blob", "record", "list"}, NEW c,
                 Become(p, [op |-> op, ws |-> w, content |-> c, sha |-> NoSha])
          PROVE  \E r : Become(p, r) /\ r.op \in {"blob", "record", "list"} /\ r.ws = w
      <4> DEFINE r == [op |-> op, ws |-> w, content |-> c, sha |-> NoSha]
      <4>1. r.op \in {"blob", "record", "list"} /\ r.ws = w
        OBVIOUS
      <4> HIDE DEF r
      <4>2. Become(p, r)
        BY <3>1 DEF r
      <4> QED
        BY <4>1, <4>2
    <3> QED
      BY <1>4, <3>1 DEF WriteFile, DeleteFile, Commit
  <2>2. Available(p) /\ Writable(w) /\ StoreKept /\ FilesKept
    BY <1>4 DEF WriteFile, DeleteFile, Commit, Committable, leaseVars, StoreKept, StoreSame, FilesKept
  <2>3. BeginsWork(p)
    BY <1>2, <2>1, <2>2 DEF BeginsWork
  <2> QED
    BY <1>2, <2>1, <2>3 DEF Works
<1>5. ASSUME PutBlob(p)
      PROVE  Works(p)
  <2>1. requests[p].op = "blob" /\ requests[p] \in Requests /\ Req(p) = requests[p]
        /\ Become(p, [requests[p] EXCEPT !.op = "record"]) /\ StoreKept /\ FilesKept
    BY <1>3, <1>5 DEF PutBlob, Step, StoreKept, StoreSame, FilesKept
  <2>2. /\ [requests[p] EXCEPT !.op = "record"].op = "record"
        /\ [requests[p] EXCEPT !.op = "record"].ws = requests[p].ws /\ requests[p].ws \in Workspaces
    BY <2>1 DEF Requests
  <2> QED
    BY <1>2, <2>1, <2>2 DEF Works, PutsBlob, Goes
<1>6. ASSUME PutFileRecord(p)
      PROVE  Works(p)
  <2>1. requests[p].op = "record" /\ requests[p] \in Requests /\ Req(p) = requests[p]
    BY <1>3, <1>6 DEF PutFileRecord, Step
  <2>2. PutsRecord(p)
    BY <1>2, <1>6, <2>1 DEF PutFileRecord, End, PutsRecord, Requests, leaseVars, StoreKept, StoreSame
  <2> QED
    BY <1>2, <1>6, <2>2 DEF PutFileRecord, End, Works
<1>7. ASSUME End(p), requests[p].op \in {"list", "mark", "marking"},
             requests[p].op = "mark" => sessions[requests[p].ws].status # "ready",
             requests[p].op = "marking" => calls[p] = Idle,
             StoreKept, FilesKept
      PROVE  Works(p)
  BY <1>2, <1>7 DEF End, Works, Stops
<1>8. ASSUME ListChanges(p)
      PROVE  Works(p)
  <2>1. requests[p].op = "list" /\ requests[p] \in Requests /\ Req(p) = requests[p]
        /\ StoreKept /\ FilesKept
    BY <1>3, <1>8 DEF ListChanges, Step, leaseVars, StoreKept, StoreSame, FilesKept
  <2> DEFINE r == [requests[p] EXCEPT !.op = "git", !.content = overlay[requests[p].ws]]
  <2>2. r.op = "git" /\ r.ws = requests[p].ws /\ requests[p].ws \in Workspaces
        /\ r.content = overlay[requests[p].ws]
    BY <2>1 DEF Requests
  <2>3. Become(p, r) \/ End(p)
    BY <1>8, <2>1 DEF ListChanges
  <2> HIDE DEF r
  <2> QED
    BY <1>2, <1>7, <2>1, <2>2, <2>3 DEF Works, Lists, Goes
<1>9. ASSUME CommitOverlay(p)
      PROVE  Works(p)
  <2>1. requests[p].op = "git" /\ requests[p] \in Requests /\ Req(p) = requests[p]
    BY <1>3, <1>9 DEF CommitOverlay, Step
  <2>2. PICK s \in Shas \ DOMAIN made :
          /\ made' = [t \in DOMAIN made \cup {s} |->
                        IF t = s THEN [ws |-> requests[p].ws, content |-> requests[p].content] ELSE made[t]]
          /\ heads' = [heads EXCEPT ![BranchOf[requests[p].ws]] = s]
          /\ Become(p, [requests[p] EXCEPT !.op = "mark", !.sha = s])
    BY <1>9, <2>1 DEF CommitOverlay
  <2> DEFINE r == [requests[p] EXCEPT !.op = "mark", !.sha = s]
  <2>3. r.op = "mark" /\ r.ws = requests[p].ws /\ requests[p].ws \in Workspaces
        /\ r.content = requests[p].content /\ r.sha = s
    BY <2>1 DEF Requests
  <2>4. requests'[p] = r /\ \A q \in Procs : q # p => requests'[q] = requests[q]
    BY <1>2, <2>2
  <2> HIDE DEF r
  <2>5. StoreKept /\ UNCHANGED <<overlay, base, acked>>
    BY <1>9 DEF CommitOverlay, leaseVars, StoreKept, StoreSame
  <2>6. Commits(p, s)
    BY <2>1, <2>2, <2>3, <2>4, <2>5 DEF Commits, Goes
  <2> QED
    BY <2>4, <2>6 DEF Works
<1>10. ASSUME MarkSession(p)
       PROVE  Works(p)
  <2>1. requests[p].op = "mark" /\ requests[p] \in Requests /\ Req(p) = requests[p]
        /\ requests[p].sha \in Shas \cup {NoSha} /\ requests[p].ws \in Workspaces
    BY <1>3, <1>10 DEF MarkSession, Step, Requests
  <2>2. CASE sessions[requests[p].ws].status # "ready"
    <3>1. End(p) /\ StoreKept /\ FilesKept
      BY <1>10, <2>1, <2>2 DEF MarkSession, leaseVars, StoreKept, StoreSame, FilesKept
    <3> QED
      BY <1>7, <2>1, <2>2, <3>1
  <2>3. CASE sessions[requests[p].ws].status = "ready"
    <3> DEFINE r == [requests[p] EXCEPT !.op = "marking"]
    <3>1. r.op = "marking" /\ r.ws = requests[p].ws /\ r.content = requests[p].content
          /\ r.sha = requests[p].sha
      BY <2>1 DEF Requests
    <3>2. MarkCommitted(p, requests[p].ws, requests[p].sha) /\ Become(p, r) /\ FilesKept
      BY <1>10, <2>1, <2>3 DEF MarkSession, FilesKept
    <3> HIDE DEF r
    <3>3. Ends(p, requests[p].ws, "committed", requests[p].sha) /\ StoreSame
      BY <2>1, <3>2, MarkKind DEF MarkCommitted, StoreSame, StoreTypeOK
    <3>4. Marks(p)
      BY <1>2, <2>1, <3>1, <3>2, <3>3 DEF Marks, Goes
    <3> QED
      BY <1>2, <3>2, <3>4 DEF Works
  <2> QED
    BY <2>2, <2>3
<1>11. ASSUME Answer(p)
       PROVE  Works(p)
  BY <1>7, <1>11 DEF Answer, Step, leaseVars, StoreKept, StoreSame, FilesKept
<1> QED
  BY <1>4, <1>5, <1>6, <1>8, <1>9, <1>10, <1>11

\* Every step is of one of the kinds.
LEMMA NextKinds ==
  ASSUME StoreTypeOK, FileTypeOK, [Next]_vars
  PROVE  \/ \E p \in Procs : Works(p) \/ Plain(p) \/ Calling(p)
         \/ \E p \in Procs, w \in Workspaces, ttl \in Ttls : Opening(p, w, ttl)
         \/ Passing \/ Crashing \/ Resting
<1>1. ASSUME NEW p \in Procs, NEW w \in Workspaces, NEW ttl \in Ttls, Create(p, w, ttl)
      PROVE  Opening(p, w, ttl)
  BY <1>1 DEF Create, Step, CreateWorkspace, Creates, New, DirsFollow, Opening, StoreSame, FileTypeOK
<1>2. ASSUME NEW p \in Procs, NEW w \in Workspaces, ChangeWorkspace(p, w)
      PROVE  Plain(p)
  <2>1. requests[p].op = "none" /\ FilesKept /\ requests' = requests
    BY <1>2 DEF ChangeWorkspace, Step, DirsFollow, FilesKept
  <2>2. StoreSame
    BY <1>2 DEF ChangeWorkspace, CloseWorkspace, Quarantine, UpdatePolicy, CreateRefused, StoreSame
  <2>3. CASE CloseWorkspace(p, w) \/ Quarantine(p, w)
    BY <2>1, <2>2, <2>3, EndKinds DEF Plain, StoreTypeOK
  <2>4. CASE UpdatePolicy(p, w) \/ CreateRefused(p, w)
    BY <2>1, <2>2, <2>4 DEF UpdatePolicy, CreateRefused, Plain, Rewrites
  <2> QED
    BY <1>2, <2>3, <2>4 DEF ChangeWorkspace
<1>3. ASSUME NEW p \in Procs, Cleanup(p)
      PROVE  Plain(p)
  BY <1>3 DEF Cleanup, Step, CleanupExpired, DirsFollow, StoreSame, FilesKept, Plain
<1>4. ASSUME NEW p \in Procs, StepStore(p)
      PROVE  Calling(p)
  BY <1>4 DEF StepStore, DirsFollow, FilesKept, Calling
<1>5. ASSUME NEW p \in Procs,
             PutBlob(p) \/ PutFileRecord(p) \/ ListChanges(p) \/ CommitOverlay(p)
               \/ MarkSession(p) \/ Answer(p)
      PROVE  Works(p)
  <2>1. requests[p].op # "none"
    BY <1>5 DEF PutBlob, PutFileRecord, ListChanges, CommitOverlay, MarkSession, Answer, Step
  <2>2. requests[p].ws \in Workspaces
    BY <2>1, ReqType
  <2> QED
    BY <1>5, <2>2, WorkKinds
<1>6. Pass => Passing
  BY DEF Pass, fileVars, FilesKept, Passing
<1>7. Crash => Crashing
  BY DEF Crash, FilesKept, Crashing
<1>8. UNCHANGED vars => Resting
  BY DEF vars, leaseVars, fileVars, StoreKept, StoreSame, FilesKept, Resting
<1> QED
  BY <1>1, <1>2, <1>3, <1>4, <1>5, <1>6, <1>7, <1>8, WorkKinds DEF Next

\* What a call has to do that no file request makes.
LEMMA PlainEffect ==
  ASSUME StoreTypeOK, ShapeInv, NEW p \in Procs, Plain(p)
  PROVE  \/ calls' = calls
         \/ /\ calls[p] = Idle
            /\ \A i \in Items(p)' : \E w \in Workspaces :
                 /\ Ws(p, i)' = w /\ sessions[w] # NoSession
                 /\ Rec(p, i)'.sha = sessions[w].sha
                 /\ Rec(p, i)' = sessions[w] \/ Rec(p, i)'.status \in {"closed", "quarantined"}
<1>0. CallsTypeOK /\ sessions \in [Workspaces -> Sessions \cup {NoSession}]
  BY DEF StoreTypeOK, CallsTypeOK
<1>1. ASSUME NEW w \in Workspaces, NEW status \in {"closed", "quarantined"},
             Ends(p, w, status, sessions[w].sha)
      PROVE  /\ calls[p] = Idle /\ Items(p)' = {1} /\ Ws(p, 1)' = w /\ sessions[w] # NoSession
             /\ Rec(p, 1)'.sha = sessions[w].sha /\ Rec(p, 1)'.status = status
  <2>1. sessions[w] # NoSession /\ sessions[w].sha \in Shas \cup {NoSha}
    BY <1>0, <1>1 DEF Ends, Sessions
  <2>2. status \in {"committed", "closed", "quarantined"}
    OBVIOUS
  <2>3. /\ calls[p] = Idle /\ Items(p)' = {1} /\ Ws(p, 1)' = w
        /\ Rec(p, 1)' = Ended(w, status, sessions[w].sha)
        /\ Ended(w, status, sessions[w].sha).status = status
        /\ Ended(w, status, sessions[w].sha).sha = sessions[w].sha
    BY <1>0, <1>1, <2>1, <2>2, EndsView
  <2> QED
    BY <2>1, <2>3
<1>2. ASSUME NEW w \in Workspaces, Rewrites(p, w)
      PROVE  /\ calls[p] = Idle /\ Items(p)' = {1} /\ Ws(p, 1)' = w
             /\ Rec(p, 1)' = sessions[w] /\ sessions[w] # NoSession
  BY <1>0, <1>2, RewritesView DEF Rewrites
<1>3. ASSUME CleanupExpired(p)
      PROVE  /\ calls[p] = Idle
             /\ \A i \in Items(p)' : /\ Ws(p, i)' \in Workspaces
                                     /\ Rec(p, i)' = sessions[Ws(p, i)']
                                     /\ sessions[Ws(p, i)'] # NoSession
  <2>1. /\ calls[p] = Idle
        /\ \A i \in Items(p)' :
             /\ Ws(p, i)' \in Workspaces /\ Rec(p, i)' = sessions[Ws(p, i)']
             /\ Expired(Ws(p, i)') \/ Retired(Ws(p, i)')
    BY <1>0, <1>3, CleanupView
  <2> QED
    BY <2>1 DEF Expired, Retired, NoSession
<1> QED
  BY <1>1, <1>2, <1>3 DEF Plain

\* A step of a call leaves it with some of its records, and puts at most the first one.
LEMMA CallEffect ==
  ASSUME StoreTypeOK, ShapeInv, NEW p \in Procs, StepCall(p)
  PROVE  /\ Pc(p) # "idle" /\ calls[p] # Idle /\ crashes' = crashes
         /\ \A i \in Items(p)' : \E j \in Items(p) :
              /\ Ws(p, i)' = Ws(p, j) /\ Rec(p, i)'.sha = Rec(p, j).sha
              /\ Rec(p, i)' = Rec(p, j) \/ Rec(p, i)'.status = "expired"
         /\ \/ sessions' = sessions
            \/ /\ 1 \in Items(p)
               /\ \A w \in Workspaces : sessions'[w] = IF w = Ws(p, 1) THEN Rec(p, 1) ELSE sessions[w]
         /\ Pc(p) = "release" => /\ Pc(p)' = "store" /\ Items(p)' = Items(p) /\ sessions' = sessions
                                 /\ \A i : Ws(p, i)' = Ws(p, i) /\ Rec(p, i)' = Rec(p, i)
         /\ Pc(p) = "store" => /\ Items(p) = {1} => calls'[p] = Idle
                               /\ \A w \in Workspaces :
                                    sessions'[w] = IF w = Ws(p, 1) THEN Rec(p, 1) ELSE sessions[w]
<1> DEFINE Kept ==
             \A i \in Items(p)' : \E j \in Items(p) :
               /\ Ws(p, i)' = Ws(p, j) /\ Rec(p, i)'.sha = Rec(p, j).sha
               /\ Rec(p, i)' = Rec(p, j) \/ Rec(p, i)'.status = "expired"
           Put == \A w \in Workspaces : sessions'[w] = IF w = Ws(p, 1) THEN Rec(p, 1) ELSE sessions[w]
<1>0. CallsTypeOK /\ CallShape(p)
  BY DEF StoreTypeOK, CallsTypeOK, ShapeInv
<1>1. Pc(p) # "idle" /\ calls[p] # Idle /\ crashes' = crashes
  BY IdleView
  DEF StepCall, AcquireLease, TakeLease, CleanupNext, ReleaseLease, StoreSession, At, Pc
<1>2. /\ calls[p].todo # <<>> /\ 1 \in Items(p)
      /\ Current(p).ws = Ws(p, 1) /\ Current(p).rec = Rec(p, 1)
      /\ Ws(p, 1) \in Workspaces /\ Rec(p, 1) \in Sessions
  BY <1>0, <1>1, CurrentView
<1>3. ASSUME NEW pc \in Pcs, GoTo(p, pc)
      PROVE  /\ Kept /\ Pc(p)' = pc /\ Items(p)' = Items(p)
             /\ \A i : Ws(p, i)' = Ws(p, i) /\ Rec(p, i)' = Rec(p, i)
  <2>1. Pc(p)' = pc /\ calls'[p].todo = calls[p].todo
    BY <1>0, <1>3, GoToView
  <2> QED
    BY <2>1 DEF Items, Ws, Rec
<1>4. ASSUME Continue(p)
      PROVE  Kept /\ (Items(p) = {1} => calls'[p] = Idle)
  BY <1>1, <1>4, ContinueItems
<1>5. {"take", "store"} \subseteq Pcs
  BY DEF Pcs
<1>6. CASE AcquireLease(p)
  <2>1. Pc(p) = "acquire" /\ sessions' = sessions
    BY <1>6 DEF AcquireLease, At, Pc
  <2>2. ASSUME calls' = [calls EXCEPT ![p] = Idle]
        PROVE  Kept
    BY <1>0, <2>2, StopView
  <2>3. Kept
    BY <1>3, <1>5, <1>6, <2>2 DEF AcquireLease
  <2> QED
    BY <1>1, <2>1, <2>3
<1>7. CASE TakeLease(p)
  <2>1. Pc(p) = "take" /\ sessions' = sessions /\ Kept
    BY <1>3, <1>5, <1>7 DEF TakeLease, At, Pc
  <2> QED
    BY <1>1, <2>1
<1>8. CASE ReleaseLease(p)
  <2>1. Pc(p) = "release" /\ sessions' = sessions /\ GoTo(p, "store")
    BY <1>8 DEF ReleaseLease, At, Pc
  <2>2. /\ Kept /\ Pc(p)' = "store" /\ Items(p)' = Items(p)
        /\ \A i : Ws(p, i)' = Ws(p, i) /\ Rec(p, i)' = Rec(p, i)
    BY <1>3, <1>5, <2>1
  <2> QED
    BY <1>1, <2>1, <2>2
<1>9. CASE CleanupNext(p)
  <2>1. Pc(p) = "next" /\ sessions' = sessions
    BY <1>9 DEF CleanupNext, At, Pc
  <2>2. ASSUME Rec(p, 1).status = "ready"
        PROVE  Kept
    <3>1. PICK pc \in Pcs : pc = (IF Rec(p, 1).leased THEN "release" ELSE "store")
      BY DEF Pcs
    <3>2. calls' = [calls EXCEPT ![p].pc = pc, ![p].todo[1].rec.status = "expired"]
      BY <1>2, <1>9, <2>2, <3>1 DEF CleanupNext
    <3>3. /\ Items(p)' = Items(p)
          /\ \A i \in Items(p) : Ws(p, i)' = Ws(p, i)
          /\ \A i \in Items(p) : i # 1 => Rec(p, i)' = Rec(p, i)
          /\ Rec(p, 1)' = [Rec(p, 1) EXCEPT !.status = "expired"]
      BY <1>0, <1>2, <3>2, ExpireView
    <3>4. Rec(p, 1)'.status = "expired" /\ Rec(p, 1)'.sha = Rec(p, 1).sha
      BY <1>2, <3>3 DEF Sessions
    <3> QED
      BY <3>3, <3>4
  <2>3. Rec(p, 1).status # "ready" => Kept
    BY <1>2, <1>4, <1>9 DEF CleanupNext
  <2> QED
    BY <1>1, <2>1, <2>2, <2>3
<1>10. CASE StoreSession(p)
  <2>1. Pc(p) = "store" /\ Kept /\ (Items(p) = {1} => calls'[p] = Idle)
    BY <1>4, <1>10 DEF StoreSession, At, Pc
  <2>2. Put
    BY <1>2, <1>10 DEF StoreSession, StoreTypeOK
  <2> QED
    BY <1>1, <1>2, <2>1, <2>2
<1> QED
  BY <1>6, <1>7, <1>8, <1>9, <1>10 DEF StepCall

\* What time does to a call.
LEMMA TickEffect ==
  ASSUME StoreTypeOK, Tick, NEW p \in Procs
  PROVE  /\ Pc(p)' = Pc(p) /\ Items(p)' = Items(p)
         /\ calls[p] = Idle => calls'[p] = Idle
         /\ \A i \in Items(p) :
              /\ Ws(p, i) \in Workspaces /\ Ws(p, i)' = Ws(p, i)
              /\ Rec(p, i)'.status = Rec(p, i).status /\ Rec(p, i)'.sha = Rec(p, i).sha
              /\ WriteTime(Rec(p, i))' > 0 => WriteTime(Rec(p, i)) > 0
         /\ \A w \in Workspaces : /\ sessions'[w].status = sessions[w].status
                                  /\ sessions'[w].sha = sessions[w].sha
                                  /\ sessions[w] # NoSession => sessions'[w] # NoSession
                                  /\ Writable(w)' => Writable(w)
<1>0. CallsTypeOK
  BY DEF StoreTypeOK, CallsTypeOK
<1>1. /\ Pc(p)' = Pc(p) /\ Items(p)' = Items(p)
      /\ calls[p] = Idle => calls'[p] = Idle
      /\ \A i \in Items(p) : /\ Ws(p, i)' = Ws(p, i)
                             /\ Rec(p, i)' = [Rec(p, i) EXCEPT !.left = Elapse(@)]
  BY <1>0, TickView
<1>2. ASSUME NEW i \in Items(p)
      PROVE  /\ Ws(p, i) \in Workspaces
             /\ Rec(p, i)'.status = Rec(p, i).status /\ Rec(p, i)'.sha = Rec(p, i).sha
             /\ WriteTime(Rec(p, i))' > 0 => WriteTime(Rec(p, i)) > 0
  <2>1. Rec(p, i) \in Sessions /\ Ws(p, i) \in Workspaces
    BY <1>0, ItemType
  <2>2. /\ Rec(p, i)'.status = Rec(p, i).status /\ Rec(p, i)'.sha = Rec(p, i).sha
        /\ Rec(p, i)'.leased = Rec(p, i).leased
        /\ Rec(p, i)'.left = Elapse(Rec(p, i).left) /\ Rec(p, i).left \in Nat
    BY <1>1, <2>1 DEF Sessions
  <2>3. Elapse(Rec(p, i).left) > 0 => Rec(p, i).left > 0
    BY <2>2, ElapseType
  <2> QED
    BY <2>1, <2>2, <2>3 DEF WriteTime
<1>3. ASSUME NEW w \in Workspaces
      PROVE  /\ sessions'[w].status = sessions[w].status
             /\ sessions'[w].sha = sessions[w].sha
             /\ sessions[w] # NoSession => sessions'[w] # NoSession
             /\ Writable(w)' => Writable(w)
  <2>1. /\ sessions'[w].status = sessions[w].status /\ sessions'[w].sha = sessions[w].sha
        /\ sessions'[w].leased = sessions[w].leased
        /\ sessions'[w].left = Elapse(sessions[w].left)
        /\ sessions[w] # NoSession => sessions'[w] \in Sessions
    BY TickRecords
  <2>2. sessions[w].left \in Nat
    BY DEF StoreTypeOK, Sessions, NoSession
  <2>3. NoSession \notin Sessions
    BY DEF NoSession, Sessions, Statuses
  <2>4. Elapse(sessions[w].left) > 0 => sessions[w].left > 0
    BY <2>2, ElapseType
  <2> QED
    BY <2>1, <2>3, <2>4 DEF Writable
<1> QED
  BY <1>1, <1>2, <1>3

-----------------------------------------------------------------------------
(***************************************************************************)
(* A request and its workspace.                                            *)
(***************************************************************************)

\* What is at stake when one request at a time is served: it, and only it, has a step.
LEMMA Alone ==
  ASSUME OneRequest, NEW p \in Procs
  PROVE  \A q \in Procs : q = p
BY DEF OneRequest

\* No step takes from a request what it has checked and read.
LEMMA RequestStep ==
  ASSUME OneRequest, StoreTypeOK, ShapeInv, FileTypeOK, HeadsMade, RequestInv, [Next]_vars
  PROVE  RequestInv'
<1>0. NoRequest.op = "none" /\ "none" \notin Working
  BY DEF NoRequest, Working
<1>1. ASSUME NEW p \in Procs, requests'[p].op = "none"
      PROVE  CallOfRequest(p)'
  BY <1>1 DEF CallOfRequest, Working
<1>2. ASSUME NEW p \in Procs, Plain(p)
      PROVE  RequestInv'
  <2>1. requests'[p].op = "none"
    BY <1>2 DEF Plain
  <2> QED
    BY <1>1, <2>1, Alone DEF RequestInv
<1>3. ASSUME NEW p \in Procs, NEW w \in Workspaces, NEW ttl \in Ttls, Opening(p, w, ttl)
      PROVE  RequestInv'
  <2>1. requests'[p].op = "none"
    BY <1>3 DEF Opening
  <2> QED
    BY <1>1, <2>1, Alone DEF RequestInv
<1>4. ASSUME NEW p \in Procs, Calling(p)
      PROVE  RequestInv'
  <2>1. /\ Pc(p) # "idle" /\ calls[p] # Idle
        /\ Pc(p) = "release" => /\ Pc(p)' = "store" /\ Items(p)' = Items(p)
                                /\ \A i : Ws(p, i)' = Ws(p, i) /\ Rec(p, i)' = Rec(p, i)
        /\ Pc(p) = "store" /\ Items(p) = {1} => calls'[p] = Idle
    BY <1>4, CallEffect DEF Calling
  <2>2. /\ requests' = requests /\ overlay' = overlay /\ made' = made /\ heads' = heads
        /\ CallOfRequest(p)
    BY <1>4 DEF Calling, FilesKept, RequestInv
  <2>3. calls'[p] = Idle => Pc(p)' = "idle"
    BY DEF Pc, Idle
  <2>4. CallOfRequest(p)'
    BY <2>1, <2>2, <2>3 DEF CallOfRequest
  <2> QED
    BY <2>4, Alone DEF RequestInv
<1>5. CASE Passing
  <2>1. /\ requests' = requests /\ overlay' = overlay /\ made' = made /\ heads' = heads
    BY <1>5 DEF Passing, FilesKept
  <2>2. ASSUME NEW p \in Procs
        PROVE  CallOfRequest(p)'
    <3>1. /\ Pc(p)' = Pc(p) /\ Items(p)' = Items(p)
          /\ calls[p] = Idle => calls'[p] = Idle
          /\ \A i \in Items(p) : /\ Ws(p, i)' = Ws(p, i) /\ Rec(p, i)'.sha = Rec(p, i).sha
          /\ \A w \in Workspaces : sessions'[w].status = sessions[w].status
      BY <1>5, TickEffect DEF Passing
    <3>2. requests[p].op \in Working => requests[p].ws \in Workspaces
      BY <1>0, ReqType
    <3> QED
      BY <2>1, <3>1, <3>2 DEF RequestInv, CallOfRequest
  <2> QED
    BY <2>2 DEF RequestInv
<1>6. CASE Crashing
  <2>1. \A p \in Procs : requests'[p].op = "none"
    BY <1>0, <1>6 DEF Crashing
  <2> QED
    BY <1>1, <2>1 DEF RequestInv
<1>7. CASE Resting
  <2>1. /\ requests' = requests /\ overlay' = overlay /\ made' = made /\ heads' = heads
        /\ sessions' = sessions /\ calls' = calls
    BY <1>7 DEF Resting, StoreKept, StoreSame, FilesKept
  <2>2. \A p \in Procs : CallOfRequest(p)'
    BY <2>1 DEF RequestInv, CallOfRequest, Pc, Items, Ws, Rec
  <2> QED
    BY <2>2 DEF RequestInv
<1>8. ASSUME NEW p \in Procs, Works(p)
      PROVE  RequestInv'
  <2>0. CallOfRequest(p)
    BY DEF RequestInv
  <2>1. CASE BeginsWork(p)
    <3>1. calls'[p] = Idle /\ Writable(requests'[p].ws) /\ requests'[p].ws \in Workspaces
          /\ requests'[p].op \in {"blob", "record", "list"} /\ sessions' = sessions
      BY <2>1 DEF BeginsWork, Available, StoreKept, StoreSame
    <3>2. IsWritable(requests'[p].ws) /\ sessions'[requests'[p].ws].status = "ready"
      BY <3>1 DEF Writable, ShapeInv, SessionShape, NoSession
    <3>3. CallOfRequest(p)'
      BY <3>1, <3>2 DEF CallOfRequest, Working
    <3> QED
      BY <3>3, Alone DEF RequestInv
  <2>2. CASE PutsBlob(p) \/ Lists(p)
    <3>1. /\ requests'[p].ws = requests[p].ws /\ requests[p].op \in {"blob", "list"}
          /\ \/ requests'[p].op = "record"
             \/ requests'[p].op = "git" /\ requests'[p].content = overlay[requests[p].ws]
          /\ sessions' = sessions /\ calls' = calls /\ overlay' = overlay
      BY <2>2 DEF PutsBlob, Lists, Goes, StoreKept, StoreSame, FilesKept
    <3>2. CallOfRequest(p)'
      BY <2>0, <3>1 DEF CallOfRequest, Working
    <3> QED
      BY <3>2, Alone DEF RequestInv
  <2>3. CASE PutsRecord(p) \/ Stops(p)
    <3>1. requests'[p].op = "none"
      BY <1>0, <2>3 DEF PutsRecord, Stops
    <3> QED
      BY <1>1, <3>1, Alone DEF RequestInv
  <2>4. ASSUME NEW s \in Shas \ DOMAIN made, Commits(p, s)
        PROVE  RequestInv'
    <3>1. /\ requests[p].op = "git" /\ requests'[p].op = "mark" /\ requests'[p].ws = requests[p].ws
          /\ requests[p].ws \in Workspaces
          /\ requests'[p].content = requests[p].content /\ requests'[p].sha = s
          /\ sessions' = sessions /\ calls' = calls /\ overlay' = overlay
      BY <2>4 DEF Commits, Goes, StoreKept, StoreSame
    <3>2. calls[p] = Idle /\ sessions[requests[p].ws].status = "ready" /\ IsWritable(requests[p].ws)
          /\ requests[p].content = overlay[requests[p].ws]
      BY <2>0, <3>1 DEF CallOfRequest, Working
    <3>3. BranchOf[requests[p].ws] \in Branches
      BY <3>1, <3>2, LeaseConstants DEF IsWritable
    <3>4. /\ s \in DOMAIN made' /\ heads'[BranchOf[requests[p].ws]] = s
          /\ made'[s].ws = requests[p].ws /\ made'[s].content = requests[p].content
      BY <2>4, <3>3 DEF Commits, FileTypeOK
    <3>5. CallOfRequest(p)'
      BY <3>1, <3>2, <3>4 DEF CallOfRequest, Working
    <3> QED
      BY <3>5, Alone DEF RequestInv
  <2>5. CASE Marks(p)
    <3>1. /\ requests[p].op = "mark" /\ requests'[p].op = "marking" /\ requests'[p].ws = requests[p].ws
          /\ requests[p].ws \in Workspaces
          /\ requests'[p].content = requests[p].content /\ requests'[p].sha = requests[p].sha
          /\ overlay' = overlay /\ made' = made /\ heads' = heads
          /\ Ends(p, requests[p].ws, "committed", requests[p].sha)
          /\ requests[p].sha \in Shas \cup {NoSha}
      BY <2>5 DEF Marks, Goes, FilesKept
    <3>2. PICK w \in Workspaces, sha \in Shas \cup {NoSha} : w = requests[p].ws /\ sha = requests[p].sha
      BY <3>1
    <3>3. /\ Pc(p)' = (IF sessions[w].leased THEN "release" ELSE "store")
          /\ Items(p)' = {1} /\ Ws(p, 1)' = w /\ Rec(p, 1)'.sha = sha
      <4>1. Ends(p, w, "committed", sha)
        BY <3>1, <3>2
      <4>2. CallsTypeOK /\ sessions \in [Workspaces -> Sessions \cup {NoSession}]
        BY DEF StoreTypeOK, CallsTypeOK
      <4>3. "committed" \in {"committed", "closed", "quarantined"}
        OBVIOUS
      <4> QED
        BY <4>1, <4>2, <4>3, EndsView
    <3>4. CallOfRequest(p)'
      BY <2>0, <3>1, <3>2, <3>3 DEF CallOfRequest, Working
    <3> QED
      BY <3>4, Alone DEF RequestInv
  <2> QED
    BY <1>8, <2>1, <2>2, <2>3, <2>4, <2>5 DEF Works
<1> QED
  BY <1>2, <1>3, <1>4, <1>5, <1>6, <1>7, <1>8, NextKinds

\* Heads and bases are commits, each of a workspace of the branch.
LEMMA MadeStep ==
  ASSUME OneRequest, StoreTypeOK, FileTypeOK, RequestInv, HeadsMade, [Next]_vars
  PROVE  HeadsMade'
<1>1. ASSUME heads' = heads, made' = made, base' = base
      PROVE  HeadsMade'
  BY <1>1 DEF HeadsMade
<1>2. ASSUME NEW p \in Procs, NEW w \in Workspaces, NEW ttl \in Ttls, Opening(p, w, ttl)
      PROVE  HeadsMade'
  <2>1. heads' = heads /\ made' = made
        /\ base' = [base EXCEPT ![w] = IF IsWritable(w) THEN heads[BranchOf[w]] ELSE NoSha]
    BY <1>2 DEF Opening
  <2>2. IsWritable(w) => BranchOf[w] \in Branches
    BY LeaseConstants DEF IsWritable
  <2> QED
    BY <2>1, <2>2 DEF HeadsMade, FileTypeOK
<1>3. ASSUME NEW p \in Procs, Works(p)
      PROVE  HeadsMade'
  <2>1. ASSUME NEW s \in Shas \ DOMAIN made, Commits(p, s)
        PROVE  HeadsMade'
    <3>1. requests[p].ws \in Workspaces /\ requests[p].op = "git"
      BY <2>1 DEF Commits, Goes
    <3>2. IsWritable(requests[p].ws)
      BY <3>1 DEF RequestInv, CallOfRequest, Working
    <3>3. BranchOf[requests[p].ws] \in Branches
      BY <3>1, <3>2, LeaseConstants DEF IsWritable
    <3>4. /\ \A b \in Branches : heads'[b] = IF b = BranchOf[requests[p].ws] THEN s ELSE heads[b]
          /\ DOMAIN made' = DOMAIN made \cup {s}
          /\ made'[s].ws = requests[p].ws
          /\ \A t \in DOMAIN made : made'[t] = made[t]
          /\ base' = base
      BY <2>1, <3>3 DEF Commits, FileTypeOK
    <3> QED
      BY <3>1, <3>3, <3>4 DEF HeadsMade
  <2> QED
    BY <1>1, <1>3, <2>1
    DEF Works, BeginsWork, PutsBlob, PutsRecord, Lists, Stops, Marks, FilesKept
<1> QED
  BY <1>1, <1>2, <1>3, NextKinds DEF Plain, Calling, Passing, Crashing, Resting, FilesKept

-----------------------------------------------------------------------------
(***************************************************************************)
(* The acknowledged writes and the commit.                                 *)
(***************************************************************************)

\* A step that writes nothing, after which whatever is or will be committed already was.
LEMMA AckedKeeps ==
  ASSUME AckedInv, overlay' = overlay, acked' = acked, made' = made,
         \A w \in Workspaces : sessions'[w].status = "committed" =>
           Holds(sessions'[w], w),
         \A p \in Procs : \A i \in Items(p)' : Rec(p, i)'.status = "committed" =>
           Holds(Rec(p, i)', Ws(p, i)')
  PROVE  AckedInv'
BY DEF AckedInv, Holds

\* What a commit holds is what its workspace was told, wherever the record of it is.
LEMMA AckedStep ==
  ASSUME OneRequest, StoreTypeOK, ShapeInv, FileTypeOK, HeadsMade, RequestInv, AckedInv,
         [Next]_vars
  PROVE  AckedInv'
<1>0. CallsTypeOK /\ sessions \in [Workspaces -> Sessions \cup {NoSession}]
  BY DEF StoreTypeOK, CallsTypeOK
<1>1. ASSUME StoreKept, overlay' = overlay, acked' = acked, made' = made
      PROVE  AckedInv'
  BY <1>1 DEF StoreKept, StoreSame, AckedInv, Holds, Items, Ws, Rec
<1>2. ASSUME NEW p \in Procs, Plain(p)
      PROVE  AckedInv'
  <2>1. sessions' = sessions /\ overlay' = overlay /\ acked' = acked /\ made' = made
    BY <1>2 DEF Plain, StoreSame, FilesKept
  <2>2. ASSUME calls' # calls
        PROVE  \A i \in Items(p)' : Rec(p, i)'.status = "committed" => Holds(Rec(p, i)', Ws(p, i)')
    <3>1. \A i \in Items(p)' : \E w \in Workspaces :
            /\ Ws(p, i)' = w
            /\ Rec(p, i)' = sessions[w] \/ Rec(p, i)'.status \in {"closed", "quarantined"}
      BY <1>2, <2>2, PlainEffect
    <3> QED
      BY <3>1 DEF AckedInv
  <2>3. CASE calls' = calls
    BY <1>1, <1>2, <2>1, <2>3 DEF StoreKept, Plain
  <2>4. CASE calls' # calls
    BY <2>1, <2>2, <2>4, Alone, AckedKeeps DEF AckedInv
  <2> QED
    BY <2>3, <2>4
<1>3. ASSUME NEW p \in Procs, NEW w \in Workspaces, NEW ttl \in Ttls, Opening(p, w, ttl)
      PROVE  AckedInv'
  <2>1. sessions' = sessions /\ overlay' = overlay /\ acked' = acked /\ made' = made
        /\ Creates(p, w, ttl)
    BY <1>3 DEF Opening, StoreSame
  <2>2. Items(p)' = {1} /\ Rec(p, 1)' = New(w, ttl)
    BY <1>0, <2>1, CreatesView
  <2>3. \A i \in Items(p)' : Rec(p, i)'.status # "committed"
    BY <2>2 DEF New
  <2> QED
    BY <2>1, <2>3, Alone, AckedKeeps DEF AckedInv
<1>4. ASSUME NEW p \in Procs, Calling(p)
      PROVE  AckedInv'
  <2>1. overlay' = overlay /\ acked' = acked /\ made' = made
    BY <1>4 DEF Calling, FilesKept
  <2>2. \A i \in Items(p)' : \E j \in Items(p) :
          /\ Ws(p, i)' = Ws(p, j)
          /\ Rec(p, i)' = Rec(p, j) \/ Rec(p, i)'.status = "expired"
    BY <1>4, CallEffect DEF Calling
  <2>3. \A i \in Items(p)' : Rec(p, i)'.status = "committed" => Holds(Rec(p, i)', Ws(p, i)')
    BY <2>2 DEF AckedInv
  <2>4. \A w \in Workspaces : sessions'[w].status = "committed" => Holds(sessions'[w], w)
    BY <1>4, CallEffect DEF Calling, AckedInv
  <2> QED
    BY <2>1, <2>3, <2>4, Alone, AckedKeeps
<1>5. CASE Passing
  <2>1. overlay' = overlay /\ acked' = acked /\ made' = made
    BY <1>5 DEF Passing, FilesKept
  <2>2. \A w \in Workspaces : sessions'[w].status = "committed" => Holds(sessions'[w], w)
    BY <1>5, TickRecords DEF Passing, AckedInv, Holds
  <2>3. \A p \in Procs : \A i \in Items(p)' : Rec(p, i)'.status = "committed" => Holds(Rec(p, i)', Ws(p, i)')
    BY <1>5, TickEffect DEF Passing, AckedInv, Holds
  <2> QED
    BY <2>1, <2>2, <2>3, AckedKeeps
<1>6. CASE Crashing
  <2>1. overlay' = overlay /\ acked' = acked /\ made' = made /\ sessions' = sessions
        /\ \A p \in Procs : Items(p)' = {}
    BY <1>6 DEF Crashing, CrashRestart, FilesKept, Items, Idle
  <2> QED
    BY <2>1, AckedKeeps DEF AckedInv
<1>7. CASE Resting
  BY <1>1, <1>7 DEF Resting, FilesKept
<1>8. ASSUME NEW p \in Procs, Works(p)
      PROVE  AckedInv'
  <2>0. CallOfRequest(p)
    BY DEF RequestInv
  <2>1. CASE BeginsWork(p) \/ PutsBlob(p) \/ Lists(p) \/ Stops(p)
    BY <1>1, <2>1 DEF BeginsWork, PutsBlob, Lists, Stops, FilesKept
  <2>2. CASE PutsRecord(p)
    <3>1. /\ requests[p].ws \in Workspaces
          /\ calls[p] = Idle /\ sessions[requests[p].ws].status = "ready"
      BY <2>0, <2>2 DEF PutsRecord, CallOfRequest, Working
    <3>2. /\ \A w \in Workspaces : w # requests[p].ws => acked'[w] = acked[w]
          /\ overlay' = acked' /\ made' = made /\ sessions' = sessions /\ calls' = calls
      BY <2>2 DEF PutsRecord, StoreKept, StoreSame, AckedInv, FileTypeOK
    <3>3. \A q \in Procs : Items(q)' = {}
      BY <3>1, <3>2, Alone DEF Items, Idle
    <3> QED
      BY <3>1, <3>2, <3>3 DEF AckedInv, Holds
  <2>3. ASSUME NEW s \in Shas \ DOMAIN made, Commits(p, s)
        PROVE  AckedInv'
    <3>1. /\ overlay' = overlay /\ acked' = acked /\ sessions' = sessions /\ calls' = calls
          /\ DOMAIN made \subseteq DOMAIN made' /\ \A t \in DOMAIN made : made'[t] = made[t]
      BY <2>3 DEF Commits, StoreKept, StoreSame
    <3> QED
      BY <3>1 DEF AckedInv, Holds, Items, Ws, Rec
  <2>4. CASE Marks(p)
    <3>1. /\ requests[p].op = "mark" /\ requests[p].ws \in Workspaces
          /\ overlay' = overlay /\ made' = made /\ acked' = acked /\ sessions' = sessions
          /\ Ends(p, requests[p].ws, "committed", requests[p].sha)
          /\ requests[p].sha \in Shas \cup {NoSha}
      BY <2>4 DEF Marks, Goes, FilesKept, StoreSame
    <3>2. PICK w \in Workspaces, sha \in Shas \cup {NoSha} : w = requests[p].ws /\ sha = requests[p].sha
      BY <3>1
    <3>3. sha \in DOMAIN made /\ made[sha].content = acked[w]
      BY <2>0, <3>1, <3>2 DEF CallOfRequest, AckedInv
    <3>4. Items(p)' = {1} /\ Ws(p, 1)' = w /\ Rec(p, 1)'.sha = sha
      <4>1. Ends(p, w, "committed", sha)
        BY <3>1, <3>2
      <4>2. "committed" \in {"committed", "closed", "quarantined"}
        OBVIOUS
      <4> QED
        BY <1>0, <4>1, <4>2, EndsView
    <3>5. \A i \in Items(p)' : Holds(Rec(p, i)', Ws(p, i)')
      BY <3>3, <3>4 DEF Holds
    <3> QED
      BY <3>1, <3>5, Alone, AckedKeeps DEF AckedInv
  <2> QED
    BY <1>8, <2>1, <2>2, <2>3, <2>4 DEF Works
<1> QED
  BY <1>2, <1>3, <1>4, <1>5, <1>6, <1>7, <1>8, NextKinds

\* A committed workspace has what it was told.
LEMMA AckedProperty ==
  ASSUME AckedInv
  PROVE  CommitHasAckedWrites
BY DEF AckedInv, Holds, CommitHasAckedWrites

-----------------------------------------------------------------------------
(***************************************************************************)
(* The head of a branch and the session of the workspace that made it.     *)
(***************************************************************************)

\* While a head is to be recorded, the call that does it is the only one.
LEMMA PendingHead ==
  ASSUME OneRequest, RequestInv, HeadsMade, NEW b \in Branches, NEW w \in Workspaces, HeadIsOf(b, w),
         NEW p \in Procs, Pending(p, w)
  PROVE  requests[p].sha = heads[b] /\ BranchOf[w] = b
<1>1. BranchOf[w] = b
  BY DEF HeadIsOf, HeadsMade
<1> QED
  BY <1>1 DEF Pending, RequestInv, CallOfRequest

\* A step that leaves heads and bases alone, and the sha of whatever has made a head.
LEMMA HeadKeeps ==
  ASSUME HeadInv, UNCHANGED <<heads, made, base, crashes>>,
         \A w \in Workspaces : \A b \in Branches : HeadIsOf(b, w) /\ Recorded(b, w) =>
           /\ sessions'[w] # NoSession
           /\ sessions'[w].sha = heads[b] \/ \E p \in Procs : Pending(p, w)'
           /\ \A p \in Procs : \A i \in Items(p)' : Ws(p, i)' = w => Rec(p, i)'.sha = heads[b]
  PROVE  HeadInv'
<1> SUFFICES ASSUME crashes' = 0, NEW b \in Branches, NEW w \in Workspaces, HeadIsOf(b, w)'
             PROVE  Recorded(b, w)'
  BY DEF HeadInv
<1>1. HeadIsOf(b, w) /\ Recorded(b, w)
  BY DEF HeadIsOf, HeadInv
<1>2. base'[w] # heads'[b]
  BY <1>1 DEF Recorded
<1> QED
  BY <1>1, <1>2 DEF Recorded

\* A head is recorded, or about to be, until the first restart.
LEMMA HeadStep ==
  ASSUME OneRequest, StoreTypeOK, ShapeInv, FileTypeOK, HeadsMade, RequestInv, HeadInv, [Next]_vars
  PROVE  HeadInv'
<1>0. CallsTypeOK /\ sessions \in [Workspaces -> Sessions \cup {NoSession}]
  BY DEF StoreTypeOK, CallsTypeOK
<1>1. ASSUME NEW p \in Procs, Plain(p)
      PROVE  HeadInv'
  <2>1. sessions' = sessions /\ UNCHANGED <<heads, made, base, crashes>> /\ requests[p].op = "none"
        /\ requests' = requests
    BY <1>1 DEF Plain, StoreSame, FilesKept
  <2>2. ASSUME NEW w \in Workspaces, NEW b \in Branches, HeadIsOf(b, w), Recorded(b, w)
        PROVE  /\ sessions'[w] # NoSession /\ sessions'[w].sha = heads[b]
               /\ \A i \in Items(p)' : Ws(p, i)' = w => Rec(p, i)'.sha = heads[b]
    <3>1. sessions[w] # NoSession /\ sessions[w].sha = heads[b]
      BY <2>1, <2>2, Alone DEF Recorded, Pending
    <3>2. calls' = calls => \A i \in Items(p)' : Ws(p, i)' = w => Rec(p, i)'.sha = heads[b]
      BY <2>2 DEF Recorded, Items, Ws, Rec
    <3>3. calls' # calls => \A i \in Items(p)' : Ws(p, i)' = w => Rec(p, i)'.sha = heads[b]
      BY <1>1, <3>1, PlainEffect
    <3> QED
      BY <2>1, <3>1, <3>2, <3>3
  <2> QED
    BY <2>1, <2>2, Alone, HeadKeeps
<1>2. ASSUME NEW p \in Procs, NEW v \in Workspaces, NEW ttl \in Ttls, Opening(p, v, ttl)
      PROVE  HeadInv'
  <2>1. /\ sessions' = sessions /\ heads' = heads /\ made' = made /\ crashes' = crashes
        /\ requests' = requests /\ requests[p].op = "none" /\ Creates(p, v, ttl)
        /\ base' = [base EXCEPT ![v] = IF IsWritable(v) THEN heads[BranchOf[v]] ELSE NoSha]
        /\ sessions[v] # NoSession => base'[v] = base[v]
    BY <1>2 DEF Opening, StoreSame
  <2>2. Items(p)' = {1} /\ Ws(p, 1)' = v
    BY <1>0, <2>1, CreatesView
  <2>3. SUFFICES ASSUME crashes' = 0, NEW b \in Branches, NEW w \in Workspaces, HeadIsOf(b, w)'
                 PROVE  Recorded(b, w)'
    BY DEF HeadInv
  <2>4. HeadIsOf(b, w) /\ Recorded(b, w)
    BY <2>1, <2>3 DEF HeadIsOf, HeadInv
  <2>5. w # v
    <3>1. BranchOf[w] = b /\ IsWritable(w)
      BY <2>4, LeaseConstants DEF HeadIsOf, HeadsMade, IsWritable
    <3>2. sessions[w] # NoSession /\ base[w] # heads[b]
      BY <2>4 DEF Recorded
    <3>3. w = v => base'[v] = heads[b]
      BY <2>1, <3>1 DEF FileTypeOK
    <3> QED
      BY <2>1, <3>2, <3>3
  <2>6. base'[w] = base[w]
    BY <2>1, <2>5 DEF FileTypeOK
  <2>7. sessions[w].sha = heads[b]
    BY <2>1, <2>4, Alone DEF Recorded, Pending
  <2> QED
    BY <2>1, <2>2, <2>4, <2>5, <2>6, <2>7, Alone DEF Recorded
<1>3. ASSUME NEW p \in Procs, Calling(p)
      PROVE  HeadInv'
  <2>1. UNCHANGED <<heads, made, base>> /\ requests' = requests /\ CallOfRequest(p)
    BY <1>3 DEF Calling, FilesKept, RequestInv
  <2>2. /\ Pc(p) # "idle" /\ calls[p] # Idle /\ crashes' = crashes
        /\ \A i \in Items(p)' : \E j \in Items(p) : Ws(p, i)' = Ws(p, j) /\ Rec(p, i)'.sha = Rec(p, j).sha
        /\ \/ sessions' = sessions
           \/ /\ 1 \in Items(p)
              /\ \A w \in Workspaces : sessions'[w] = IF w = Ws(p, 1) THEN Rec(p, 1) ELSE sessions[w]
        /\ Pc(p) = "release" => Pc(p)' = "store"
        /\ Pc(p) = "store" =>
             \A w \in Workspaces : sessions'[w] = IF w = Ws(p, 1) THEN Rec(p, 1) ELSE sessions[w]
    BY <1>3, CallEffect DEF Calling
  <2>3. ASSUME NEW w \in Workspaces, NEW b \in Branches, HeadIsOf(b, w), Recorded(b, w)
        PROVE  /\ sessions'[w] # NoSession
               /\ sessions'[w].sha = heads[b] \/ \E q \in Procs : Pending(q, w)'
               /\ \A i \in Items(p)' : Ws(p, i)' = w => Rec(p, i)'.sha = heads[b]
    <3>1. \A i \in Items(p)' : Ws(p, i)' = w => Rec(p, i)'.sha = heads[b]
      BY <2>2, <2>3 DEF Recorded
    <3>2. sessions'[w] # NoSession
      <4>1. 1 \in Items(p) => Rec(p, 1) # NoSession
        <5>1. NoSession \notin Sessions
          BY DEF Sessions, NoSession, Statuses
        <5> QED
          BY <1>0, <5>1, ItemType
      <4> QED
        BY <2>2, <2>3, <4>1 DEF Recorded
    <3>3. CASE sessions[w].sha = heads[b]
      BY <2>2, <2>3, <3>1, <3>2, <3>3 DEF Recorded
    <3>4. CASE \E q \in Procs : Pending(q, w)
      <4>1. Pending(p, w) /\ requests[p].sha = heads[b]
        BY <2>3, <3>4, Alone, PendingHead
      <4>2. /\ requests[p].op = "marking" /\ requests[p].ws = w
            /\ Pc(p) \in {"release", "store"} /\ Items(p) = {1}
            /\ Ws(p, 1) = w /\ Rec(p, 1).sha = heads[b]
        BY <2>1, <2>2, <4>1 DEF Pending, CallOfRequest, Working
      <4>3. CASE Pc(p) = "release"
        <5>1. Pending(p, w)'
          BY <2>1, <2>2, <4>2, <4>3 DEF Pending
        <5> QED
          BY <3>1, <3>2, <5>1
      <4>4. CASE Pc(p) = "store"
        BY <2>2, <3>1, <3>2, <4>2, <4>4
      <4> QED
        BY <4>2, <4>3, <4>4
    <3> QED
      BY <2>3, <3>3, <3>4 DEF Recorded
  <2> QED
    BY <2>1, <2>2, <2>3, Alone, HeadKeeps
<1>4. CASE Passing
  <2>1. UNCHANGED <<heads, made, base, crashes>> /\ requests' = requests
    BY <1>4 DEF Passing, Tick, FilesKept
  <2>2. ASSUME NEW w \in Workspaces, NEW b \in Branches, HeadIsOf(b, w), Recorded(b, w)
        PROVE  /\ sessions'[w] # NoSession
               /\ sessions'[w].sha = heads[b] \/ \E p \in Procs : Pending(p, w)'
               /\ \A p \in Procs : \A i \in Items(p)' : Ws(p, i)' = w => Rec(p, i)'.sha = heads[b]
    <3>1. sessions'[w] # NoSession /\ sessions'[w].sha = sessions[w].sha
      <4>1. NoSession \notin Sessions
        BY DEF Sessions, NoSession, Statuses
      <4>2. sessions[w] # NoSession => sessions'[w] \in Sessions
        BY <1>4, TickRecords DEF Passing
      <4>3. sessions'[w].sha = sessions[w].sha
        BY <1>4, TickRecords DEF Passing
      <4> QED
        BY <2>2, <4>1, <4>2, <4>3 DEF Recorded
    <3>2. \A p \in Procs : Pending(p, w) => Pending(p, w)'
      BY <1>4, <2>1, TickEffect DEF Passing, Pending
    <3>3. \A p \in Procs : \A i \in Items(p)' : Ws(p, i)' = w => Rec(p, i)'.sha = heads[b]
      BY <1>4, <2>2, TickEffect DEF Passing, Recorded
    <3> QED
      BY <2>2, <3>1, <3>2, <3>3 DEF Recorded
  <2> QED
    BY <2>1, <2>2, HeadKeeps
<1>5. CASE Crashing
  <2>1. crashes' # 0
    BY <1>5, LeaseConstants DEF Crashing, CrashRestart, StoreTypeOK
  <2> QED
    BY <2>1 DEF HeadInv
<1>6. ASSUME StoreKept, FilesKept, NEW p \in Procs,
             \A w \in Workspaces : Pending(p, w) => Pending(p, w)'
      PROVE  HeadInv'
  <2>1. sessions' = sessions /\ calls' = calls /\ UNCHANGED <<heads, made, base, crashes>>
    BY <1>6 DEF StoreKept, StoreSame, FilesKept
  <2>2. ASSUME NEW w \in Workspaces, NEW b \in Branches, HeadIsOf(b, w), Recorded(b, w)
        PROVE  /\ sessions'[w] # NoSession
               /\ sessions'[w].sha = heads[b] \/ \E q \in Procs : Pending(q, w)'
               /\ \A q \in Procs : \A i \in Items(q)' : Ws(q, i)' = w => Rec(q, i)'.sha = heads[b]
    <3>1. \A q \in Procs : Pending(q, w) => Pending(q, w)'
      BY <1>6, Alone
    <3>2. \A q \in Procs : \A i \in Items(q)' : Ws(q, i)' = w => Rec(q, i)'.sha = heads[b]
      BY <2>1, <2>2 DEF Recorded, Items, Ws, Rec
    <3> QED
      BY <2>1, <2>2, <3>1, <3>2 DEF Recorded
  <2> QED
    BY <2>1, <2>2, HeadKeeps
<1>7. ASSUME NEW p \in Procs, Works(p)
      PROVE  HeadInv'
  <2>0. CallOfRequest(p)
    BY DEF RequestInv
  <2>1. CASE BeginsWork(p) \/ PutsBlob(p) \/ Lists(p) \/ Stops(p)
    <3>1. \A w \in Workspaces : ~Pending(p, w)
      BY <2>0, <2>1 DEF BeginsWork, Available, Step, PutsBlob, Lists, Stops, Goes, Pending, CallOfRequest,
         Working, Pc, Idle
    <3> QED
      BY <1>6, <2>1, <3>1 DEF BeginsWork, PutsBlob, Lists, Stops
  <2>2. CASE PutsRecord(p)
    <3>1. requests[p].op = "record" /\ sessions' = sessions /\ calls' = calls
          /\ UNCHANGED <<heads, made, base, crashes>>
      BY <2>2 DEF PutsRecord, StoreKept, StoreSame
    <3>2. ASSUME NEW w \in Workspaces, NEW b \in Branches, HeadIsOf(b, w), Recorded(b, w)
          PROVE  /\ sessions'[w] # NoSession /\ sessions'[w].sha = heads[b]
                 /\ \A q \in Procs : \A i \in Items(q)' : Ws(q, i)' = w => Rec(q, i)'.sha = heads[b]
      <4>1. \A q \in Procs : ~Pending(q, w)
        BY <3>1, Alone DEF Pending
      <4>2. \A q \in Procs : \A i \in Items(q)' : Ws(q, i)' = w => Rec(q, i)'.sha = heads[b]
        BY <3>1, <3>2 DEF Recorded, Items, Ws, Rec
      <4> QED
        BY <3>1, <3>2, <4>1, <4>2 DEF Recorded
    <3> QED
      BY <3>1, <3>2, HeadKeeps
  <2>3. ASSUME NEW s \in Shas \ DOMAIN made, Commits(p, s)
        PROVE  HeadInv'
    <3>1. /\ requests[p].op = "git" /\ requests'[p].op = "mark"
          /\ requests'[p].ws = requests[p].ws /\ requests[p].ws \in Workspaces
          /\ sessions' = sessions /\ calls' = calls /\ crashes' = crashes /\ base' = base
      BY <2>3 DEF Commits, Goes, StoreKept, StoreSame
    <3>2. calls[p] = Idle /\ sessions[requests[p].ws].status = "ready" /\ IsWritable(requests[p].ws)
      BY <2>0, <3>1 DEF CallOfRequest, Working
    <3>3. BranchOf[requests[p].ws] \in Branches
      BY <3>1, <3>2, LeaseConstants DEF IsWritable
    <3>4. /\ \A b \in Branches : heads'[b] = IF b = BranchOf[requests[p].ws] THEN s ELSE heads[b]
          /\ made'[s].ws = requests[p].ws
          /\ \A t \in DOMAIN made : made'[t] = made[t]
      BY <2>3, <3>3 DEF Commits, FileTypeOK
    <3>5. SUFFICES ASSUME crashes' = 0, NEW b \in Branches, NEW w \in Workspaces, HeadIsOf(b, w)'
                   PROVE  Recorded(b, w)'
      BY DEF HeadInv
    <3>6. \A q \in Procs : Items(q)' = {}
      BY <3>1, <3>2, Alone DEF Items, Idle
    <3>7. CASE b = BranchOf[requests[p].ws]
      <4>1. heads'[b] = s /\ w = requests[p].ws
        BY <3>4, <3>5, <3>7 DEF HeadIsOf
      <4>2. sessions[w] # NoSession
        BY <3>2, <4>1 DEF NoSession
      <4>3. base[w] # s
        BY LeaseConstants DEF HeadsMade
      <4>4. Pending(p, w)'
        BY <3>1, <4>1 DEF Pending
      <4> QED
        BY <3>1, <3>6, <4>1, <4>2, <4>3, <4>4 DEF Recorded
    <3>8. CASE b # BranchOf[requests[p].ws]
      <4>1. HeadIsOf(b, w) /\ heads'[b] = heads[b]
        BY <3>4, <3>5, <3>8 DEF HeadIsOf, HeadsMade
      <4>2. Recorded(b, w)
        BY <3>1, <3>5, <4>1 DEF HeadInv
      <4>3. \A q \in Procs : ~Pending(q, w)
        BY <3>1, Alone DEF Pending
      <4> QED
        BY <3>1, <3>6, <4>1, <4>2, <4>3 DEF Recorded
    <3> QED
      BY <3>7, <3>8
  <2>4. CASE Marks(p)
    <3>1. /\ requests[p].op = "mark" /\ requests'[p].op = "marking" /\ requests[p].ws \in Workspaces
          /\ requests'[p].ws = requests[p].ws
          /\ sessions' = sessions /\ UNCHANGED <<heads, made, base, crashes>>
          /\ Ends(p, requests[p].ws, "committed", requests[p].sha)
          /\ requests[p].sha \in Shas \cup {NoSha}
      BY <2>4 DEF Marks, Goes, FilesKept, StoreSame
    <3>2. PICK v \in Workspaces, sha \in Shas \cup {NoSha} : v = requests[p].ws /\ sha = requests[p].sha
      BY <3>1
    <3>3. Items(p)' = {1} /\ Ws(p, 1)' = v /\ Rec(p, 1)'.sha = sha /\ Pc(p)' # "idle"
      <4>1. Ends(p, v, "committed", sha)
        BY <3>1, <3>2
      <4>2. "committed" \in {"committed", "closed", "quarantined"}
        OBVIOUS
      <4> QED
        BY <1>0, <4>1, <4>2, EndsView
    <3>4. ASSUME NEW w \in Workspaces, NEW b \in Branches, HeadIsOf(b, w), Recorded(b, w)
          PROVE  /\ sessions'[w] # NoSession
                 /\ sessions'[w].sha = heads[b] \/ \E q \in Procs : Pending(q, w)'
                 /\ \A i \in Items(p)' : Ws(p, i)' = w => Rec(p, i)'.sha = heads[b]
      <4>1. Pending(p, v) /\ Pending(p, v)'
        BY <3>1, <3>2, <3>3 DEF Pending
      <4>2. w = v => sha = heads[b]
        BY <3>2, <3>4, <4>1, PendingHead
      <4>3. w # v => sessions[w].sha = heads[b]
        BY <3>2, <3>4, <4>1, Alone DEF Recorded, Pending
      <4> QED
        BY <3>1, <3>3, <3>4, <4>1, <4>2, <4>3 DEF Recorded
    <3> QED
      BY <3>1, <3>4, Alone, HeadKeeps
  <2> QED
    BY <1>7, <2>1, <2>2, <2>3, <2>4 DEF Works
<1>8. CASE Resting
  <2>1. requests' = requests /\ calls' = calls /\ sessions' = sessions
        /\ UNCHANGED <<heads, made, base, crashes>>
    BY <1>8 DEF Resting, StoreKept, StoreSame, FilesKept
  <2> QED
    BY <2>1 DEF HeadInv, HeadIsOf, Recorded, Pending, Pc, Items, Ws, Rec
<1> QED
  BY <1>1, <1>2, <1>3, <1>4, <1>5, <1>7, <1>8, NextKinds

\* When nothing runs, nothing is left to record.
LEMMA HeadProperty ==
  ASSUME HeadsMade, HeadInv, TypeOK
  PROVE  HeadIsRecorded
<1> SUFFICES ASSUME crashes = 0, \A p \in Procs : Available(p), NEW b \in Branches, heads[b] # NoSha
             PROVE  sessions[made[heads[b]].ws].sha = heads[b]
  BY DEF HeadIsRecorded
<1>1. heads[b] \in DOMAIN made
  BY DEF HeadsMade
<1>2. PICK w \in Workspaces : w = made[heads[b]].ws
  BY <1>1 DEF TypeOK
<1>3. Recorded(b, w)
  BY <1>2 DEF HeadIsOf, HeadInv
<1> QED
  BY <1>2, <1>3 DEF Recorded, Pending, Available, Step

-----------------------------------------------------------------------------
(***************************************************************************)
(* A commit goes on from the head.                                         *)
(***************************************************************************)

\* A record gives time to write exactly when its session is one that can be written to.
LEMMA WritableTime ==
  ASSUME StoreTypeOK, ShapeInv, NEW w \in Workspaces
  PROVE  /\ WriteTime(sessions[w]) > 0 <=> Writable(w)
         /\ Writable(w) => IsWritable(w)
<1>1. sessions[w].left \in Nat
  BY DEF StoreTypeOK, Sessions, NoSession
<1>2. Writable(w) => IsWritable(w)
  BY DEF Writable, ShapeInv, SessionShape, NoSession
<1> QED
  BY <1>1, <1>2 DEF Writable, WriteTime

\* A step that leaves heads and bases alone.
LEMMA TopKeeps ==
  ASSUME TopInv, UNCHANGED <<heads, made, base, crashes>>,
         \A w \in Workspaces : Writable(w)' => Writable(w) \/ OnTop(w),
         \A p \in Procs : \A i \in Items(p)' : WriteTime(Rec(p, i)') > 0 => OnTop(Ws(p, i)'),
         \A p \in Procs : requests'[p].op \in Working =>
           /\ requests[p].op \in Working /\ requests'[p].ws = requests[p].ws
           /\ \A w \in Workspaces : Writable(w)' => Writable(w)
  PROVE  TopInv'
<1> SUFFICES ASSUME crashes' = 0
             PROVE  /\ \A w \in Workspaces : Writable(w)' => OnTop(w)'
                    /\ \A p \in Procs : \A i \in Items(p)' : WriteTime(Rec(p, i))' > 0 => OnTop(Ws(p, i))'
                    /\ \A p \in Procs : requests'[p].op \in Working =>
                         /\ OnTop(requests[p].ws)'
                         /\ \A w \in Workspaces :
                              Writable(w)' /\ BranchOf[w] = BranchOf[requests'[p].ws] => w = requests'[p].ws
  BY DEF TopInv
<1>1. \A w \in Workspaces : OnTop(w)' <=> OnTop(w)
  BY DEF OnTop
<1>2. \A w \in Workspaces : Writable(w)' => OnTop(w)'
  BY <1>1 DEF TopInv
<1>3. \A p \in Procs : \A i \in Items(p)' : WriteTime(Rec(p, i))' > 0 => OnTop(Ws(p, i))'
  BY DEF WriteTime, OnTop
<1>4. ASSUME NEW p \in Procs, requests'[p].op \in Working
      PROVE  /\ OnTop(requests[p].ws)'
             /\ \A w \in Workspaces :
                  Writable(w)' /\ BranchOf[w] = BranchOf[requests'[p].ws] => w = requests'[p].ws
  <2>1. OnTop(requests[p].ws) /\ requests'[p].ws = requests[p].ws
    BY <1>4 DEF TopInv
  <2>2. OnTop(requests[p].ws)'
    BY <2>1 DEF OnTop
  <2> QED
    BY <1>4, <2>1, <2>2 DEF TopInv
<1> QED
  BY <1>2, <1>3, <1>4

\* Whoever can write goes on from the head of its branch, until the first restart.
LEMMA TopStep ==
  ASSUME OneRequest, StoreTypeOK, ShapeInv, LeaseInv, FileTypeOK, HeadsMade, RequestInv, TopInv,
         [Next]_vars
  PROVE  TopInv'
<1>0. CallsTypeOK /\ sessions \in [Workspaces -> Sessions \cup {NoSession}]
      /\ "none" \notin Working /\ NoRequest.op = "none"
  BY DEF StoreTypeOK, CallsTypeOK, Working, NoRequest
<1> SUFFICES ASSUME crashes' = 0
             PROVE  TopInv'
  BY DEF TopInv
<1>1. ASSUME NEW p \in Procs, Plain(p), crashes = 0
      PROVE  TopInv'
  <2>1. sessions' = sessions /\ UNCHANGED <<heads, made, base, crashes>> /\ requests'[p].op = "none"
    BY <1>1 DEF Plain, StoreSame, FilesKept
  <2>2. \A w \in Workspaces : Writable(w)' => Writable(w)
    BY <2>1 DEF Writable
  <2>3. \A i \in Items(p)' : WriteTime(Rec(p, i)') > 0 => OnTop(Ws(p, i)')
    <3>1. CASE calls' = calls
      BY <1>1, <3>1 DEF TopInv, Items, Ws, Rec
    <3>2. CASE calls' # calls
      <4>1. \A i \in Items(p)' : \E w \in Workspaces :
              /\ Ws(p, i)' = w
              /\ Rec(p, i)' = sessions[w] \/ Rec(p, i)'.status \in {"closed", "quarantined"}
        BY <1>1, <3>2, PlainEffect
      <4>2. \A i \in Items(p)' : Rec(p, i)'.status \in {"closed", "quarantined"} => WriteTime(Rec(p, i)') = 0
        BY NoTime
      <4> QED
        BY <1>1, <4>1, <4>2, WritableTime DEF TopInv
    <3> QED
      BY <3>1, <3>2
  <2> QED
    BY <1>0, <2>1, <2>2, <2>3, Alone, TopKeeps
<1>2. ASSUME NEW p \in Procs, NEW v \in Workspaces, NEW ttl \in Ttls, Opening(p, v, ttl), crashes = 0
      PROVE  TopInv'
  <2>1. /\ sessions' = sessions /\ heads' = heads /\ made' = made /\ crashes' = crashes
        /\ requests' = requests /\ requests[p].op = "none" /\ Creates(p, v, ttl)
        /\ base' = [base EXCEPT ![v] = IF IsWritable(v) THEN heads[BranchOf[v]] ELSE NoSha]
    BY <1>2 DEF Opening, StoreSame
  <2>2. Items(p)' = {1} /\ Ws(p, 1)' = v /\ Rec(p, 1)' = New(v, ttl)
    BY <1>0, <2>1, CreatesView
  <2>3. \A w \in Workspaces : Writable(w)' => OnTop(w)'
    <3>1. ASSUME NEW w \in Workspaces, Writable(w)'
          PROVE  OnTop(w)'
      <4>1. Writable(w) /\ w # v
        BY <2>1, <3>1 DEF Writable, Creates, MayOpen
      <4>2. OnTop(w) /\ base'[w] = base[w]
        BY <1>2, <2>1, <4>1 DEF TopInv, FileTypeOK
      <4> QED
        BY <2>1, <4>2 DEF OnTop
    <3> QED
      BY <3>1
  <2>4. WriteTime(Rec(p, 1))' > 0 => OnTop(Ws(p, 1))'
    <3>1. CASE ~IsWritable(v)
      <4>1. ~(Rec(p, 1)'.leased)
        BY <2>2, <3>1 DEF New
      <4>2. WriteTime(Rec(p, 1))' = 0
        BY <4>1 DEF WriteTime
      <4> QED
        BY <4>2
    <3>2. CASE IsWritable(v)
      <4>1. base'[v] = heads'[BranchOf[v]]
        BY <2>1, <3>2 DEF FileTypeOK
      <4>2. OnTop(v)'
        BY <4>1 DEF OnTop
      <4> QED
        BY <2>2, <4>2 DEF OnTop
    <3> QED
      BY <3>1, <3>2
  <2>5. \A q \in Procs : requests'[q].op \notin Working
    BY <1>0, <2>1, Alone
  <2>6. \A q \in Procs : \A i \in Items(q)' : WriteTime(Rec(q, i))' > 0 => OnTop(Ws(q, i))'
    BY <2>2, <2>4, Alone
  <2> QED
    BY <2>3, <2>5, <2>6 DEF TopInv
<1>3. ASSUME NEW p \in Procs, Calling(p), crashes = 0
      PROVE  TopInv'
  <2>1. UNCHANGED <<heads, made, base>> /\ requests' = requests /\ CallOfRequest(p)
    BY <1>3 DEF Calling, FilesKept, RequestInv
  <2>2. /\ calls[p] # Idle /\ crashes' = crashes
        /\ \A i \in Items(p)' : \E j \in Items(p) :
             Ws(p, i)' = Ws(p, j) /\ (Rec(p, i)' = Rec(p, j) \/ Rec(p, i)'.status = "expired")
        /\ \/ sessions' = sessions
           \/ /\ 1 \in Items(p)
              /\ \A w \in Workspaces : sessions'[w] = IF w = Ws(p, 1) THEN Rec(p, 1) ELSE sessions[w]
    BY <1>3, CallEffect DEF Calling
  <2>3. requests'[p].op \notin Working
    BY <2>1, <2>2 DEF CallOfRequest
  <2>4. \A i \in Items(p)' : WriteTime(Rec(p, i)') > 0 => OnTop(Ws(p, i)')
    <3>1. \A i \in Items(p)' : Rec(p, i)'.status = "expired" => WriteTime(Rec(p, i)') = 0
      BY NoTime
    <3> QED
      BY <1>3, <2>2, <3>1 DEF TopInv
  <2>5. ASSUME NEW w \in Workspaces, Writable(w)'
        PROVE  Writable(w) \/ OnTop(w)
    <3>1. CASE sessions'[w] = sessions[w]
      BY <2>5, <3>1 DEF Writable
    <3>2. CASE 1 \in Items(p) /\ w = Ws(p, 1) /\ sessions'[w] = Rec(p, 1)
      <4>1. Rec(p, 1) \in Sessions
        BY <1>0, <3>2, ItemType
      <4>2. WriteTime(Rec(p, 1)) > 0
        BY <2>5, <3>2, <4>1 DEF Writable, WriteTime, Sessions
      <4> QED
        BY <1>3, <3>2, <4>2 DEF TopInv
    <3> QED
      BY <2>2, <3>1, <3>2
  <2> QED
    BY <2>1, <2>2, <2>3, <2>4, <2>5, Alone, TopKeeps
<1>4. CASE Passing
  <2>1. UNCHANGED <<heads, made, base, crashes>> /\ requests' = requests
    BY <1>4 DEF Passing, Tick, FilesKept
  <2>2. \A w \in Workspaces : Writable(w)' => Writable(w)
    <3>1. ASSUME NEW w \in Workspaces, Writable(w)'
          PROVE  Writable(w)
      <4>1. /\ sessions'[w].status = sessions[w].status /\ sessions'[w].leased = sessions[w].leased
            /\ sessions'[w].left = Elapse(sessions[w].left)
        BY <1>4, TickRecords DEF Passing
      <4>2. sessions[w].left \in Nat
        BY DEF StoreTypeOK, Sessions, NoSession
      <4> QED
        BY <3>1, <4>1, <4>2, ElapseType DEF Writable
    <3> QED
      BY <3>1
  <2>3. \A p \in Procs : \A i \in Items(p)' : WriteTime(Rec(p, i)') > 0 => OnTop(Ws(p, i)')
    <3>1. ASSUME NEW p \in Procs, NEW i \in Items(p)', WriteTime(Rec(p, i)') > 0
          PROVE  OnTop(Ws(p, i)')
      <4>1. Items(p)' = Items(p)
        BY <1>4, TickEffect DEF Passing
      <4>2. Ws(p, i)' = Ws(p, i) /\ (WriteTime(Rec(p, i))' > 0 => WriteTime(Rec(p, i)) > 0)
        BY <1>4, <4>1, TickEffect DEF Passing
      <4>3. WriteTime(Rec(p, i)) > 0
        BY <3>1, <4>2 DEF WriteTime
      <4> QED
        BY <2>1, <4>1, <4>2, <4>3 DEF TopInv
    <3> QED
      BY <3>1
  <2> QED
    BY <2>1, <2>2, <2>3, TopKeeps
<1>5. ~Crashing
  BY LeaseConstants DEF Crashing, CrashRestart, StoreTypeOK
<1>6. ASSUME StoreKept, UNCHANGED <<heads, made, base>>, NEW p \in Procs, crashes = 0,
             requests'[p].op \in Working => requests[p].op \in Working /\ requests'[p].ws = requests[p].ws
      PROVE  TopInv'
  <2>1. sessions' = sessions /\ calls' = calls /\ crashes' = crashes
    BY <1>6 DEF StoreKept, StoreSame
  <2>2. \A w \in Workspaces : Writable(w)' => Writable(w)
    BY <2>1 DEF Writable
  <2>3. \A q \in Procs : \A i \in Items(q)' : WriteTime(Rec(q, i)') > 0 => OnTop(Ws(q, i)')
    BY <1>6, <2>1 DEF TopInv, Items, Ws, Rec
  <2> QED
    BY <1>6, <2>1, <2>2, <2>3, Alone, TopKeeps
<1>7. ASSUME NEW p \in Procs, Works(p), crashes = 0
      PROVE  TopInv'
  <2>0. CallOfRequest(p)
    BY DEF RequestInv
  <2>1. CASE BeginsWork(p)
    <3>1. /\ Writable(requests'[p].ws) /\ requests'[p].ws \in Workspaces
          /\ sessions' = sessions /\ calls' = calls /\ UNCHANGED <<heads, made, base, crashes>>
      BY <2>1 DEF BeginsWork, StoreKept, StoreSame, FilesKept
    <3>2. PICK v \in Workspaces : v = requests'[p].ws
      BY <3>1
    <3>3. \A w \in Workspaces : Writable(w) /\ BranchOf[w] = BranchOf[v] => w = v
      BY <1>7, <3>1, <3>2, LeaseProperties DEF ExclusiveUntilRestart, Exclusive
    <3>4. \A w \in Workspaces : (Writable(w)' <=> Writable(w)) /\ (OnTop(w)' <=> OnTop(w))
      BY <3>1 DEF Writable, OnTop
    <3>5. \A w \in Workspaces : Writable(w) => OnTop(w)
      BY <1>7 DEF TopInv
    <3>6. OnTop(requests[p].ws)'
      BY <3>1, <3>2, <3>5 DEF OnTop
    <3>7. \A q \in Procs : \A i \in Items(q)' : WriteTime(Rec(q, i))' > 0 => OnTop(Ws(q, i))'
      BY <1>7, <3>1 DEF TopInv, Items, Ws, Rec, WriteTime, OnTop
    <3> QED
      BY <3>2, <3>3, <3>4, <3>5, <3>6, <3>7, Alone DEF TopInv
  <2>2. CASE PutsBlob(p) \/ Lists(p)
    BY <1>6, <1>7, <2>2 DEF PutsBlob, Lists, Goes, FilesKept, Working
  <2>3. CASE PutsRecord(p) \/ Stops(p)
    BY <1>0, <1>6, <1>7, <2>3 DEF PutsRecord, Stops, FilesKept
  <2>4. ASSUME NEW s \in Shas \ DOMAIN made, Commits(p, s)
        PROVE  TopInv'
    <3>1. /\ requests[p].op = "git" /\ requests'[p].ws = requests[p].ws
          /\ sessions' = sessions /\ calls' = calls /\ base' = base
      BY <2>4 DEF Commits, Goes, StoreKept, StoreSame
    <3>2. PICK v \in Workspaces : v = requests[p].ws
      BY <2>4 DEF Commits, Goes
    <3>3. /\ calls[p] = Idle /\ IsWritable(v)
          /\ \A w \in Workspaces : Writable(w) /\ BranchOf[w] = BranchOf[v] => w = v
      BY <1>7, <2>0, <3>1, <3>2 DEF CallOfRequest, TopInv, Working
    <3>4. BranchOf[v] \in Branches
      BY <3>3, LeaseConstants DEF IsWritable
    <3>5. /\ \A b \in Branches : heads'[b] = IF b = BranchOf[v] THEN s ELSE heads[b]
          /\ made'[s].ws = v
          /\ \A t \in DOMAIN made : made'[t] = made[t]
      BY <2>4, <3>2, <3>4 DEF Commits, FileTypeOK
    <3>6. ASSUME NEW w \in Workspaces, w = v
          PROVE  OnTop(w)'
      BY <3>4, <3>5, <3>6, LeaseConstants DEF OnTop
    <3>7. ASSUME NEW w \in Workspaces, Writable(w)'
          PROVE  OnTop(w)'
      <4>1. Writable(w) /\ IsWritable(w) /\ OnTop(w)
        BY <1>7, <3>1, <3>7, WritableTime DEF Writable, TopInv
      <4>2. BranchOf[w] \in Branches
        BY <4>1, LeaseConstants DEF IsWritable
      <4>3. CASE BranchOf[w] # BranchOf[v]
        BY <3>1, <3>5, <4>1, <4>2, <4>3 DEF OnTop, HeadsMade
      <4> QED
        BY <3>3, <3>6, <4>1, <4>3
    <3>8. \A q \in Procs : Items(q)' = {}
      BY <3>1, <3>3, Alone DEF Items, Idle
    <3>9. OnTop(requests[p].ws)'
      <4>1. OnTop(v)'
        BY <3>6
      <4> QED
        BY <3>1, <3>2, <4>1 DEF OnTop
    <3>10. \A w \in Workspaces : Writable(w)' /\ BranchOf[w] = BranchOf[requests'[p].ws] => w = requests'[p].ws
      BY <3>1, <3>2, <3>3 DEF Writable
    <3> QED
      BY <3>7, <3>8, <3>9, <3>10, Alone DEF TopInv
  <2>5. CASE Marks(p)
    <3>1. /\ requests'[p].op = "marking" /\ requests[p].ws \in Workspaces
          /\ sessions' = sessions /\ UNCHANGED <<heads, made, base, crashes>>
          /\ Ends(p, requests[p].ws, "committed", requests[p].sha)
          /\ requests[p].sha \in Shas \cup {NoSha}
      BY <2>5 DEF Marks, Goes, FilesKept, StoreSame
    <3>2. Items(p)' = {1} /\ Rec(p, 1)'.status = "committed"
      <4>1. PICK v \in Workspaces, sha \in Shas \cup {NoSha} : v = requests[p].ws /\ sha = requests[p].sha
        BY <3>1
      <4>2. Ends(p, v, "committed", sha)
        BY <3>1, <4>1
      <4>3. "committed" \in {"committed", "closed", "quarantined"}
        OBVIOUS
      <4> QED
        BY <1>0, <4>2, <4>3, EndsView
    <3>3. \A i \in Items(p)' : WriteTime(Rec(p, i)') = 0
      BY <3>2, NoTime
    <3>4. \A w \in Workspaces : Writable(w)' => Writable(w)
      BY <3>1 DEF Writable
    <3>5. requests'[p].op \notin Working
      BY <3>1 DEF Working
    <3> QED
      BY <3>1, <3>3, <3>4, <3>5, Alone, TopKeeps
  <2> QED
    BY <1>7, <2>1, <2>2, <2>3, <2>4, <2>5 DEF Works
<1>8. ASSUME Resting, crashes = 0
      PROVE  TopInv'
  <2>1. requests' = requests /\ calls' = calls /\ sessions' = sessions
        /\ UNCHANGED <<heads, made, base, crashes>>
    BY <1>8 DEF Resting, StoreKept, StoreSame, FilesKept
  <2> QED
    BY <1>8, <2>1 DEF TopInv, OnTop, Writable, Items, Ws, Rec, WriteTime
<1>9. CASE crashes = 0
  BY <1>1, <1>2, <1>3, <1>4, <1>5, <1>7, <1>8, <1>9, NextKinds
<1>10. CASE crashes # 0
  BY <1>4, <1>5, <1>10, CallEffect, NextKinds
  DEF Works, BeginsWork, PutsBlob, PutsRecord, Lists, Stops, Commits, Marks, Plain, Calling, Opening,
      Resting, StoreKept, StoreSame
<1> QED
  BY <1>9, <1>10

\* A commit is made by a request that has the head to go on from.
LEMMA TopProperty ==
  ASSUME TopInv, NEW p \in Procs, crashes = 0, CommitOverlay(p)
  PROVE  LET w == requests[p].ws
             head == heads[BranchOf[w]]
         IN  head = base[w] \/ made[head].ws = w
BY DEF TopInv, CommitOverlay, Step, Working, OnTop

-----------------------------------------------------------------------------
(***************************************************************************)
(* The whole.                                                              *)
(***************************************************************************)

\* Everything holds at the start: there is no session, no file and no request.
LEMMA InitHolds ==
  ASSUME Init
  PROVE  /\ TypeInv /\ FileInv /\ FinalInv /\ HeadsMade /\ RequestInv
         /\ AckedInv /\ HeadInv /\ LeaseInv /\ TopInv
<1>1. /\ sessions = [w \in Workspaces |-> NoSession] /\ leases = [b \in Branches |-> Free]
      /\ dirs = {} /\ calls = [p \in Procs |-> Idle] /\ crashes = 0
      /\ overlay = [w \in Workspaces |-> NoContent] /\ blobs = [w \in Workspaces |-> {}]
      /\ base = [w \in Workspaces |-> NoSha] /\ heads = [b \in Branches |-> NoSha]
      /\ DOMAIN made = {} /\ requests = [p \in Procs |-> NoRequest]
      /\ acked = [w \in Workspaces |-> NoContent] /\ retired = {}
  BY DEF Init, LeaseInit
<1>2. \A p \in Procs : Pc(p) = "idle" /\ Items(p) = {} /\ calls[p].todo = <<>> /\ calls[p] = Idle
  BY <1>1, IdleView
<1>3. /\ \A p \in Procs : requests[p].op = "none"
      /\ \A w \in Workspaces : sessions[w] = NoSession /\ sessions[w].status = "none"
                               /\ WriteTime(sessions[w]) = 0 /\ ~Writable(w)
  BY <1>1 DEF NoRequest, NoSession, WriteTime, Writable
<1>4. TypeInv
  <2>1. calls \in [Procs -> [pc : Pcs, todo : Seq(Tasks)]]
    BY <1>1, EmptySeq DEF Idle, Pcs
  <2>2. StoreTypeOK
    BY <1>1, <2>1, LeaseConstants DEF StoreTypeOK
  <2>3. FileTypeOK
    BY <1>1 DEF FileTypeOK
  <2>4. ShapeInv
    BY <1>2, <1>3 DEF ShapeInv, CallShape, SessionShape
  <2>5. \A p \in Procs : RequestShape(p)
    BY <1>3 DEF RequestShape
  <2> QED
    BY <2>2, <2>3, <2>4, <2>5, TypeHalves DEF TypeInv
<1>5. FileInv
  <2>1. \A w \in Workspaces : Readable(w) /\ blobs[w] = {}
    BY <1>1, ContentConstants DEF Readable
  <2> QED
    BY <1>3, <2>1 DEF FileInv
<1>6. FinalInv
  BY <1>2 DEF FinalInv, CallFinal
<1>7. HeadsMade /\ HeadInv
  BY <1>1 DEF HeadsMade, HeadInv, HeadIsOf
<1>8. RequestInv
  BY <1>3 DEF RequestInv, CallOfRequest, Working
<1>9. AckedInv
  BY <1>1, <1>2, <1>3 DEF AckedInv
<1>10. LeaseInv
  <2>1. \A w \in Workspaces : IsWritable(w) => LeaseTime(w) = 0 /\ WriteTime(sessions[w]) = 0
    BY <1>1, <1>3, LeaseConstants DEF IsWritable, LeaseTime, Free
  <2>2. MatchInv
    BY <1>3, <2>1 DEF MatchInv, SessionMatch, SessionClaim
  <2>3. CallInv
    BY <1>2 DEF CallInv, CallMatch
  <2> QED
    BY <2>2, <2>3 DEF LeaseInv
<1>11. TopInv
  BY <1>2, <1>3 DEF TopInv, Working
<1> QED
  BY <1>4, <1>5, <1>6, <1>7, <1>8, <1>9, <1>10, <1>11

\* The type invariant is one, however many requests run at once.
LEMMA TypeStep ==
  ASSUME TypeInv, [Next]_vars
  PROVE  TypeInv' /\ StoreStep
<1>1. StoreTypeOK /\ FileTypeOK /\ ShapeInv /\ \A p \in Procs : RequestShape(p)
  BY TypeHalves DEF TypeInv
<1>2. StoreStep
  BY <1>1, NextIsStoreStep DEF FileTypeOK
<1>3. StoreTypeOK' /\ ShapeInv' /\ FileTypeOK' /\ \A p \in Procs : RequestShape(p)'
  BY <1>1, <1>2, StoreTypeStep, FileTypeStep
<1>4. TypeOK'
  BY <1>3 DEF TypeOK, LeaseTypeOK, StoreTypeOK, FileTypeOK, Pcs
<1> QED
  BY <1>2, <1>3, <1>4 DEF TypeInv

\* Sessions, leases, calls, overlays, commits and requests stay what they are declared to
\* be, whatever runs at the same time and wherever the process stops.
THEOREM TypesHold == Spec => [](TypeOK /\ ShapeInv)
<1>1. Init => TypeInv
  BY InitHolds
<1>2. TypeInv /\ [Next]_vars => TypeInv'
  BY TypeStep
<1>3. TypeInv => TypeOK /\ ShapeInv
  BY DEF TypeInv
<1> QED
  BY <1>1, <1>2, <1>3, PTL DEF Spec

\* prepare_workspace_file writes the content under its hash before put_record names it, and
\* only the removal of the directory takes it away again: for any number of requests at
\* once, an overlay record never points at content that is not there.
THEOREM FilesReadable == Spec => []OverlayReadable
<1> DEFINE Inv == TypeInv /\ FileInv
<1>1. Init => Inv
  BY InitHolds
<1>2. Inv /\ [Next]_vars => Inv'
  <2>1. ASSUME Inv, [Next]_vars
        PROVE  Inv'
    <3>1. StoreTypeOK /\ FileTypeOK /\ ShapeInv /\ \A p \in Procs : RequestShape(p)
      BY <2>1, TypeHalves DEF TypeInv
    <3> QED
      BY <2>1, <3>1, TypeStep, FileStep
  <2> QED
    BY <2>1
<1>3. Inv => OverlayReadable
  BY DEF FileInv, OverlayReadable
<1> QED
  BY <1>1, <1>2, <1>3, PTL DEF Spec

\* When requests come one at a time, a committed session can only be closed, and keeps its
\* commit: across restarts anywhere, and whoever releases whose lease.
THEOREM CommitIsFinal ==
  ASSUME OneRequest
  PROVE  Spec => CommittedIsFinal
<1> DEFINE Inv == TypeInv /\ FinalInv
<1>1. Init => Inv
  BY InitHolds
<1>2. ASSUME Inv, [Next]_vars
      PROVE  Inv' /\ FinalStep
  <2>1. StoreTypeOK /\ ShapeInv
    BY <1>2, TypeHalves DEF TypeInv
  <2> QED
    BY <1>2, <2>1, TypeStep, FinalInvStep
<1>3. Inv /\ [Next]_vars => Inv'
  BY <1>2
<1>4. Inv /\ [Next]_vars =>
        [\A w \in Workspaces : sessions[w].status = "committed" =>
           /\ sessions'[w].status \in {"committed", "closed"}
           /\ sessions'[w].sha = sessions[w].sha]_leaseVars
  BY <1>2 DEF FinalStep
<1> QED
  BY <1>1, <1>3, <1>4, PTL DEF Spec, CommittedIsFinal

\* What holds of one request at a time: what it has read of its workspace is still so.
RequestsInv == TypeInv /\ HeadsMade /\ RequestInv /\ AckedInv /\ HeadInv

\* Every step preserves RequestsInv when requests come one at a time.
LEMMA RequestsStep ==
  ASSUME OneRequest, RequestsInv, [Next]_vars
  PROVE  RequestsInv'
<1>1. StoreTypeOK /\ FileTypeOK /\ ShapeInv
  BY TypeHalves DEF RequestsInv, TypeInv
<1> QED
  BY <1>1, TypeStep, MadeStep, RequestStep, AckedStep, HeadStep DEF RequestsInv

\* When requests come one at a time, the commit recorded in a committed session holds every
\* write its client was told is done, wherever the process stopped before.
THEOREM WritesCommitted ==
  ASSUME OneRequest
  PROVE  Spec => []CommitHasAckedWrites
<1>1. Init => RequestsInv
  BY InitHolds DEF RequestsInv
<1>2. RequestsInv /\ [Next]_vars => RequestsInv'
  BY RequestsStep
<1>3. RequestsInv => CommitHasAckedWrites
  BY AckedProperty DEF RequestsInv
<1> QED
  BY <1>1, <1>2, <1>3, PTL DEF Spec

\* When requests come one at a time and until the first restart, the head of a branch is the
\* commit its workspace's session records, as soon as nothing is running.
THEOREM HeadsRecorded ==
  ASSUME OneRequest
  PROVE  Spec => []HeadIsRecorded
<1>1. Init => RequestsInv
  BY InitHolds DEF RequestsInv
<1>2. RequestsInv /\ [Next]_vars => RequestsInv'
  BY RequestsStep
<1>3. RequestsInv => HeadIsRecorded
  BY HeadProperty DEF RequestsInv, TypeInv
<1> QED
  BY <1>1, <1>2, <1>3, PTL DEF Spec

\* What holds of the leases, if nobody releases the lease of another workspace.
LeasesInv == TypeInv /\ LeaseInv

\* Every step preserves LeasesInv if moreover nobody releases a lease of somebody else.
LEMMA LeasesStep ==
  ASSUME OneRequest, ForeignRelease = FALSE, LeasesInv, [Next]_vars
  PROVE  LeasesInv'
<1>1. StoreTypeOK /\ ShapeInv
  BY TypeHalves DEF LeasesInv, TypeInv
<1> QED
  BY <1>1, TypeStep, LeaseStep DEF LeasesInv

\* When requests come one at a time and nobody releases a lease that another workspace has
\* taken over, the two logs agree between requests until the first restart: a workspace can
\* be written to exactly when it owns the unexpired lease of its branch.
THEOREM LeasesMatch ==
  ASSUME OneRequest, ForeignRelease = FALSE
  PROVE  Spec => []LeaseMatchesSession
<1>1. Init => LeasesInv
  BY InitHolds DEF LeasesInv
<1>2. LeasesInv /\ [Next]_vars => LeasesInv'
  BY LeasesStep
<1>3. LeasesInv => LeaseMatchesSession
  BY LeaseProperties, TypeHalves DEF LeasesInv, TypeInv
<1> QED
  BY <1>1, <1>2, <1>3, PTL DEF Spec

\* Under the same conditions a branch has one workspace that can be written to, also between
\* the writes of a call.
THEOREM OneWriter ==
  ASSUME OneRequest, ForeignRelease = FALSE
  PROVE  Spec => []ExclusiveUntilRestart
<1>1. Init => LeasesInv
  BY InitHolds DEF LeasesInv
<1>2. LeasesInv /\ [Next]_vars => LeasesInv'
  BY LeasesStep
<1>3. LeasesInv => ExclusiveUntilRestart
  BY LeaseProperties, TypeHalves DEF LeasesInv, TypeInv
<1> QED
  BY <1>1, <1>2, <1>3, PTL DEF Spec

\* And a commit goes on from the head that it replaces, or from an earlier commit of the
\* same workspace: PreviousValue::Any in commit_overlay drops nobody else's work.
THEOREM CommitsOnTop ==
  ASSUME OneRequest, ForeignRelease = FALSE
  PROVE  Spec => CommitOnTop
<1> DEFINE Inv == RequestsInv /\ LeasesInv /\ TopInv
           Drops(p) == crashes = 0 /\ CommitOverlay(p) =>
             LET w == requests[p].ws
                 head == heads[BranchOf[w]]
             IN  head = base[w] \/ made[head].ws = w
<1>1. Init => Inv
  BY InitHolds DEF RequestsInv, LeasesInv
<1>2. Inv /\ [Next]_vars => Inv'
  <2>1. ASSUME Inv, [Next]_vars
        PROVE  Inv'
    <3>1. StoreTypeOK /\ FileTypeOK /\ ShapeInv
      BY <2>1, TypeHalves DEF LeasesInv, TypeInv
    <3> QED
      BY <2>1, <3>1, RequestsStep, LeasesStep, TopStep DEF RequestsInv, LeasesInv
  <2> QED
    BY <2>1
<1>3. Inv => \A p \in Procs : Drops(p)
  BY TopProperty
<1>4. Inv /\ [Next]_vars => [\A p \in Procs : Drops(p)]_vars
  BY <1>3
<1> QED
  BY <1>1, <1>2, <1>4, PTL DEF Spec, CommitOnTop
=============================================================================
