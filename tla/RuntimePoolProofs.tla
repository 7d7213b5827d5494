------------------------- MODULE RuntimePoolProofs -------------------------
(***************************************************************************)
(* What TLAPS proves of RuntimePool for every set of jobs and pools, every *)
(* size and every queue: the limits of a pool hold, and no worker is idle  *)
(* while a job waits; every call has one place or one answer; no worker is *)
(* lost; the counters are exact; and nobody overtakes a job that waits.    *)
(***************************************************************************)
EXTENDS RuntimePool, FiniteSetTheorems, SequenceTheorems, TLAPS

-----------------------------------------------------------------------------
(* The parts of the state the limits are about.                              *)

PlacesTypeOK ==
    /\ active \in [Pools -> SUBSET Jobs]
    /\ queues \in [Pools -> [Priorities -> Seq(Jobs)]]
    /\ depth \in [Pools -> Nat]
    /\ refilling \in Pools \cup {NoPool}

\* The rest of the type invariant.
MessagesTypeOK ==
    /\ count \in [Pools -> [Counters -> Nat]]
    /\ inbox \subseteq Messages
    /\ timers \subseteq Timers
    /\ caller \in [Jobs -> {"idle", "waiting", "dead"}]
    /\ answers \in [Jobs -> Seq(Answers)]
    /\ task \in [Jobs -> {"none", "running", "ended"}]

Lengths(q) == Len(q["high"]) + Len(q["normal"]) + Len(q["low"])

PlacesInv == PlacesTypeOK /\ WithinLimits

\* The jobs of a pool are finite in number.
LEMMA ActiveIsFinite ==
  ASSUME NEW S \in SUBSET Jobs
  PROVE  IsFiniteSet(S) /\ Cardinality(S) \in Nat
BY PoolConstants, FS_Subset, FS_CardinalityType

\* A job more takes at most one worker more.
LEMMA OneMore ==
  ASSUME NEW S \in SUBSET Jobs, NEW j \in Jobs
  PROVE  Cardinality(S \cup {j}) <= Cardinality(S) + 1
BY ActiveIsFinite, FS_AddElement

\* A job less takes no worker more.
LEMMA OneLess ==
  ASSUME NEW S \in SUBSET Jobs, NEW j \in Jobs
  PROVE  Cardinality(S \ {j}) <= Cardinality(S)
BY ActiveIsFinite, FS_Subset

\* The lengths are numbers, and 0 if the queues are empty.
LEMMA LengthsType ==
  ASSUME NEW q \in [Priorities -> Seq(Jobs)]
  PROVE  /\ Lengths(q) \in Nat
         /\ (\A r \in Priorities : q[r] = <<>>) => Lengths(q) = 0
<1> DEFINE h == q["high"]
           m == q["normal"]
           l == q["low"]
<1>1. h \in Seq(Jobs) /\ m \in Seq(Jobs) /\ l \in Seq(Jobs)
  BY DEF Priorities
<1>2. Len(h) \in Nat /\ Len(m) \in Nat /\ Len(l) \in Nat
  BY <1>1, LenProperties
<1>3. (\A r \in Priorities : q[r] = <<>>) => h = <<>> /\ m = <<>> /\ l = <<>>
  BY DEF Priorities
<1>4. Lengths(q) = Len(h) + Len(m) + Len(l)
  BY DEF Lengths
<1> HIDE DEF h, m, l
<1>5. h = <<>> /\ m = <<>> /\ l = <<>> => Len(h) = 0 /\ Len(m) = 0 /\ Len(l) = 0
  BY EmptySeq
<1> QED
  BY <1>2, <1>3, <1>4, <1>5

\* One queue of one pool becomes s.
Changed(p, r, s) == [queues EXCEPT ![p][r] = s]

\* One queue of one pool changes: the others do not, and the sum follows.
LEMMA QueueChange ==
  ASSUME queues \in [Pools -> [Priorities -> Seq(Jobs)]],
         NEW p \in Pools, NEW r \in Priorities, NEW s \in Seq(Jobs), NEW d \in Int,
         Len(s) = Len(queues[p][r]) + d,
         queues' = Changed(p, r, s)
  PROVE  /\ queues' \in [Pools -> [Priorities -> Seq(Jobs)]]
         /\ \A o \in Pools : o # p => queues'[o] = queues[o]
         /\ Lengths(queues'[p]) = Lengths(queues[p]) + d
<1>1. queues' \in [Pools -> [Priorities -> Seq(Jobs)]]
  BY DEF Changed
<1>2. \A o \in Pools : o # p => queues'[o] = queues[o]
  BY DEF Changed
<1>3. queues'[p][r] = s /\ \A t \in Priorities : t # r => queues'[p][t] = queues[p][t]
  BY DEF Changed
<1>4. \A t \in Priorities : Len(queues[p][t]) \in Nat
  BY LenProperties
<1>5. Lengths(queues'[p]) = Lengths(queues[p]) + d
  <2> DEFINE new == queues'[p]
             old == queues[p]
  <2>1. new[r] = s /\ \A t \in Priorities : t # r => new[t] = old[t]
    BY <1>3
  <2>2. \A t \in Priorities : Len(old[t]) \in Nat
    BY <1>4
  <2>3. Len(s) = Len(old[r]) + d
    OBVIOUS
  <2> DEFINE L(x) == Len(x)
  <2>4. \A t \in Priorities : t # r => L(new[t]) = L(old[t])
    BY <2>1
  <2>5. L(new[r]) = L(old[r]) + d /\ \A t \in Priorities : L(old[t]) \in Int
    BY <2>1, <2>2, <2>3
  <2> HIDE DEF L, new, old
  <2>6. L(new["high"]) + L(new["normal"]) + L(new["low"])
          = L(old["high"]) + L(old["normal"]) + L(old["low"]) + d
    BY <2>4, <2>5 DEF Priorities
  <2> QED
    BY <2>6 DEF new, old, L, Lengths
<1> QED
  BY <1>1, <1>2, <1>5

\* A sequence without its i-th element.
LEMMA Without ==
  ASSUME NEW s \in Seq(Jobs), NEW i \in DOMAIN s
  PROVE  /\ SubSeq(s, 1, i - 1) \o SubSeq(s, i + 1, Len(s)) \in Seq(Jobs)
         /\ Len(SubSeq(s, 1, i - 1) \o SubSeq(s, i + 1, Len(s))) = Len(s) - 1
<1>1. Len(s) \in Nat /\ i \in 1 .. Len(s)
  BY LenProperties
<1> DEFINE a == SubSeq(s, 1, i - 1)
           b == SubSeq(s, i + 1, Len(s))
<1>2. a \in Seq(Jobs) /\ Len(a) = i - 1
  BY <1>1, SubSeqProperties
<1>3. b \in Seq(Jobs) /\ Len(b) = Len(s) - i
  BY <1>1, SubSeqProperties
<1> HIDE DEF a, b
<1>4. a \o b \in Seq(Jobs) /\ Len(a \o b) = Len(a) + Len(b)
  BY <1>2, <1>3, ConcatProperties
<1>5. Len(a \o b) = Len(s) - 1
  BY <1>1, <1>2, <1>3, <1>4
<1> QED
  BY <1>4, <1>5, Zenon DEF a, b

-----------------------------------------------------------------------------
(* The limits, pool by pool, and what each change of the places does to them. *)

PoolFits(p) ==
    /\ Cardinality(active[p]) <= Size[p]
    /\ depth[p] <= QueueMax[p]
    /\ depth[p] = Lengths(queues[p])
    /\ depth[p] > 0 /\ refilling # p => Cardinality(active[p]) = Size[p]

\* The limits hold of all pools if they hold of each.
LEMMA LimitsByPool == WithinLimits <=> \A p \in Pools : PoolFits(p)
BY Zenon DEF WithinLimits, PoolFits, Lengths

\* So they do after a step.
LEMMA LimitsByPoolNext == WithinLimits' <=> \A p \in Pools : PoolFits(p)'
BY Zenon DEF WithinLimits, PoolFits, Lengths

\* A pool whose places do not change, and that is not left by maybe_start_next, fits on.
LEMMA OthersFit ==
  ASSUME NEW p \in Pools, PoolFits(p), active'[p] = active[p], queues'[p] = queues[p],
         depth'[p] = depth[p], refilling' = refilling \/ refilling = NoPool
  PROVE  PoolFits(p)'
BY PoolConstants DEF PoolFits

\* handle_call finds a free worker: then nobody waits.
LEMMA StartStep ==
  ASSUME PlacesInv, NEW j \in Jobs, refilling = NoPool, HasWorker(PoolOf[j]),
         active' = [active EXCEPT ![PoolOf[j]] = @ \cup {j}],
         queues' = queues, depth' = depth, refilling' = refilling
  PROVE  PlacesInv'
<1> DEFINE p == PoolOf[j]
<1>1. p \in Pools /\ p # NoPool
  BY PoolConstants
<1>2. PlacesTypeOK'
  BY <1>1 DEF PlacesInv, PlacesTypeOK
<1>3. \A o \in Pools : PoolFits(o)
  BY LimitsByPool DEF PlacesInv
<1>4. PoolFits(p)'
  <2>1. active'[p] = active[p] \cup {j} /\ active[p] \in SUBSET Jobs
    BY <1>1 DEF PlacesInv, PlacesTypeOK
  <2>2. /\ Cardinality(active[p]) \in Nat /\ Cardinality(active'[p]) \in Nat
        /\ Cardinality(active'[p]) <= Cardinality(active[p]) + 1
    BY <2>1, OneMore, ActiveIsFinite
  <2>3. Cardinality(active[p]) < Size[p] /\ Size[p] \in Nat /\ depth[p] \in Nat
    BY <1>1, PoolConstants DEF HasWorker, PlacesInv, PlacesTypeOK
  <2>4. ~(depth[p] > 0)
    BY <1>1, <1>3, <2>2, <2>3 DEF PoolFits
  <2> QED
    BY <1>1, <1>3, <2>2, <2>3, <2>4 DEF PoolFits
<1>5. \A o \in Pools : o # p => PoolFits(o)'
  BY <1>1, <1>3, OthersFit DEF PlacesInv, PlacesTypeOK
<1> QED
  BY <1>2, <1>4, <1>5, LimitsByPoolNext DEF PlacesInv

\* handle_call finds none and queues the job: then every worker is busy.
LEMMA EnqueueStep ==
  ASSUME PlacesInv, NEW j \in Jobs, refilling = NoPool, ~HasWorker(PoolOf[j]),
         Enqueue(j), active' = active, refilling' = refilling
  PROVE  PlacesInv'
<1> DEFINE p == PoolOf[j]
           r == PriorityOf[j]
           s == Append(queues[p][r], j)
<1>1. p \in Pools /\ p # NoPool /\ r \in Priorities
  BY PoolConstants
<1>2. queues[p][r] \in Seq(Jobs) /\ Len(queues[p][r]) \in Nat
  BY <1>1, LenProperties DEF PlacesInv, PlacesTypeOK
<1>3. s \in Seq(Jobs) /\ Len(s) = Len(queues[p][r]) + 1
  BY <1>2, AppendProperties
<1>4. queues' = Changed(p, r, s)
  BY Zenon DEF Enqueue, Join, Changed
<1> HIDE DEF s
<1>5. /\ queues' \in [Pools -> [Priorities -> Seq(Jobs)]]
      /\ \A o \in Pools : o # p => queues'[o] = queues[o]
      /\ Lengths(queues'[p]) = Lengths(queues[p]) + 1
  <2>1. queues \in [Pools -> [Priorities -> Seq(Jobs)]] /\ 1 \in Int
    BY DEF PlacesInv, PlacesTypeOK
  <2> QED
    BY <1>1, <1>3, <1>4, <2>1, QueueChange
<1>6. /\ depth' \in [Pools -> Nat]
      /\ \A o \in Pools : o # p => depth'[o] = depth[o]
      /\ depth'[p] = depth[p] + 1
      /\ depth[p] \in Nat
      /\ depth[p] < QueueMax[p]
  BY <1>1 DEF Enqueue, HasRoom, PlacesInv, PlacesTypeOK
<1>7. PlacesTypeOK'
  BY <1>5, <1>6 DEF PlacesInv, PlacesTypeOK
<1>8. \A o \in Pools : PoolFits(o)
  BY LimitsByPool DEF PlacesInv
<1>9. PoolFits(p)'
  <2>1. Cardinality(active[p]) \in Nat /\ Size[p] \in Nat /\ QueueMax[p] \in Nat
    BY <1>1, ActiveIsFinite, PoolConstants DEF PlacesInv, PlacesTypeOK
  <2>2. Cardinality(active[p]) = Size[p]
    BY <1>1, <1>8, <2>1 DEF PoolFits, HasWorker
  <2> QED
    BY <1>1, <1>5, <1>6, <1>8, <2>1, <2>2 DEF PoolFits
<1>10. \A o \in Pools : o # p => PoolFits(o)'
  BY <1>1, <1>5, <1>6, <1>8, OthersFit
<1> QED
  BY <1>7, <1>9, <1>10, LimitsByPoolNext DEF PlacesInv

\* A job leaves its queue: who has a worker is not touched.
LEMMA LeaveQueue ==
  ASSUME PlacesInv, NEW j \in Jobs, NEW s \in Seq(Jobs),
         Len(s) = Len(Queue(j)) - 1,
         queues' = Changed(PoolOf[j], PriorityOf[j], s),
         depth' = OneFewer(PoolOf[j])
  PROVE  LET p == PoolOf[j]
         IN  /\ p \in Pools
             /\ queues' \in [Pools -> [Priorities -> Seq(Jobs)]]
             /\ \A o \in Pools : o # p => queues'[o] = queues[o] /\ depth'[o] = depth[o]
             /\ Lengths(queues'[p]) = Lengths(queues[p]) - 1
             /\ depth' \in [Pools -> Nat]
             /\ depth'[p] = depth[p] - 1
<1> DEFINE p == PoolOf[j]
           r == PriorityOf[j]
<1>1. p \in Pools /\ r \in Priorities
  BY PoolConstants
<1>2. Len(s) = Len(queues[p][r]) + (-1) /\ -1 \in Int
  <2>1. Len(queues[p][r]) \in Nat
    BY <1>1, LenProperties DEF PlacesInv, PlacesTypeOK
  <2> QED
    BY <2>1 DEF Queue
<1>3. /\ queues' \in [Pools -> [Priorities -> Seq(Jobs)]]
      /\ \A o \in Pools : o # p => queues'[o] = queues[o]
      /\ Lengths(queues'[p]) = Lengths(queues[p]) + (-1)
  <2>1. queues \in [Pools -> [Priorities -> Seq(Jobs)]]
    BY DEF PlacesInv, PlacesTypeOK
  <2> QED
    BY <1>1, <1>2, <2>1, QueueChange
<1>4. queues[p] \in [Priorities -> Seq(Jobs)] /\ queues'[p] \in [Priorities -> Seq(Jobs)]
  BY <1>1, <1>3 DEF PlacesInv, PlacesTypeOK
<1>5. Lengths(queues[p]) \in Nat /\ Lengths(queues'[p]) \in Nat
  BY <1>4, LengthsType
<1>6. depth[p] = Lengths(queues[p])
  BY <1>1, LimitsByPool DEF PlacesInv, PoolFits
<1>7. depth' = [depth EXCEPT ![p] = depth[p] - 1] /\ depth \in [Pools -> Nat]
  BY DEF OneFewer, PlacesInv, PlacesTypeOK
<1>8. depth[p] - 1 \in Nat
  BY <1>3, <1>5, <1>6
<1>9. /\ depth' \in [Pools -> Nat]
      /\ depth'[p] = depth[p] - 1
      /\ \A o \in Pools : o # p => depth'[o] = depth[o]
  BY <1>1, <1>7, <1>8
<1>10. Lengths(queues'[p]) = Lengths(queues[p]) - 1
  BY <1>3, <1>5
<1> QED
  BY <1>1, <1>3, <1>9, <1>10

\* A job leaves its queue from any place of it.
LEMMA RemoveStep ==
  ASSUME PlacesInv, NEW j \in Jobs, refilling = NoPool, RemoveJob(j),
         active' = active, refilling' = refilling
  PROVE  PlacesInv'
<1> DEFINE p == PoolOf[j]
<1>1. PICK i \in DOMAIN Queue(j) :
        /\ queues' = [queues EXCEPT ![PoolOf[j]][PriorityOf[j]] =
                        SubSeq(@, 1, i - 1) \o SubSeq(@, i + 1, Len(@))]
        /\ depth' = OneFewer(PoolOf[j])
  BY DEF RemoveJob
<1> DEFINE s == SubSeq(Queue(j), 1, i - 1) \o SubSeq(Queue(j), i + 1, Len(Queue(j)))
<1>2. Queue(j) \in Seq(Jobs)
  BY PoolConstants DEF Queue, PlacesInv, PlacesTypeOK
<1>3. s \in Seq(Jobs) /\ Len(s) = Len(Queue(j)) - 1
  BY <1>2, Without
<1>4. queues' = Changed(PoolOf[j], PriorityOf[j], s)
  BY <1>1, Zenon DEF Queue, Changed
<1> HIDE DEF s
<1>5. /\ p \in Pools
      /\ queues' \in [Pools -> [Priorities -> Seq(Jobs)]]
      /\ \A o \in Pools : o # p => queues'[o] = queues[o] /\ depth'[o] = depth[o]
      /\ Lengths(queues'[p]) = Lengths(queues[p]) - 1
      /\ depth' \in [Pools -> Nat]
      /\ depth'[p] = depth[p] - 1
  BY <1>1, <1>3, <1>4, LeaveQueue
<1>6. PlacesTypeOK'
  BY <1>5 DEF PlacesInv, PlacesTypeOK
<1>7. \A o \in Pools : PoolFits(o)
  BY LimitsByPool DEF PlacesInv
<1>8. depth[p] \in Nat /\ QueueMax[p] \in Nat /\ refilling # p
  BY <1>5, PoolConstants DEF PlacesInv, PlacesTypeOK
<1>9. PoolFits(p)'
  BY <1>5, <1>7, <1>8 DEF PoolFits
<1>10. \A o \in Pools : o # p => PoolFits(o)'
  BY <1>5, <1>7, OthersFit
<1> QED
  BY <1>6, <1>9, <1>10, LimitsByPoolNext DEF PlacesInv

\* A worker is given back: maybe_start_next takes over.
LEMMA FreeStep ==
  ASSUME PlacesInv, NEW j \in Jobs, refilling = NoPool, Free(j),
         queues' = queues, depth' = depth
  PROVE  PlacesInv'
<1> DEFINE p == PoolOf[j]
<1>1. p \in Pools
  BY PoolConstants
<1>2. PlacesTypeOK'
  BY <1>1 DEF PlacesInv, PlacesTypeOK, Free
<1>3. \A o \in Pools : PoolFits(o)
  BY LimitsByPool DEF PlacesInv
<1>4. PoolFits(p)'
  <2>1. active'[p] = active[p] \ {j} /\ active[p] \in SUBSET Jobs
    BY <1>1 DEF PlacesInv, PlacesTypeOK, Free
  <2>2. /\ Cardinality(active[p]) \in Nat /\ Cardinality(active'[p]) \in Nat
        /\ Cardinality(active'[p]) <= Cardinality(active[p])
    BY <2>1, OneLess, ActiveIsFinite
  <2>3. Size[p] \in Nat /\ refilling' = p
    BY <1>1, PoolConstants DEF Free
  <2> QED
    BY <1>1, <1>3, <2>2, <2>3 DEF PoolFits
<1>5. \A o \in Pools : o # p => PoolFits(o)'
  <2>1. \A o \in Pools : o # p => active'[o] = active[o]
    BY DEF Free, PlacesInv, PlacesTypeOK
  <2> QED
    BY <1>3, <2>1, OthersFit
<1> QED
  BY <1>2, <1>4, <1>5, LimitsByPoolNext DEF PlacesInv

\* maybe_start_next moves a job from the queue to a worker, and stays at it.
LEMMA NextStep ==
  ASSUME PlacesInv, NEW j \in Jobs, StartNext(j)
  PROVE  PlacesInv'
<1> DEFINE p == PoolOf[j]
           s == Tail(Queue(j))
<1>1. Queue(j) \in Seq(Jobs) /\ Queue(j) # <<>>
  BY PoolConstants DEF Queue, PlacesInv, PlacesTypeOK, StartNext, IsFirst
<1>2. s \in Seq(Jobs) /\ Len(s) = Len(Queue(j)) - 1
  BY <1>1, HeadTailProperties
<1>3. /\ queues' = Changed(PoolOf[j], PriorityOf[j], s)
      /\ depth' = OneFewer(PoolOf[j])
  BY Zenon DEF StartNext, Queue, Changed
<1> HIDE DEF s
<1>4. /\ p \in Pools
      /\ queues' \in [Pools -> [Priorities -> Seq(Jobs)]]
      /\ \A o \in Pools : o # p => queues'[o] = queues[o] /\ depth'[o] = depth[o]
      /\ Lengths(queues'[p]) = Lengths(queues[p]) - 1
      /\ depth' \in [Pools -> Nat]
      /\ depth'[p] = depth[p] - 1
  BY <1>2, <1>3, LeaveQueue
<1>5. /\ active' \in [Pools -> SUBSET Jobs]
      /\ \A o \in Pools : o # p => active'[o] = active[o]
      /\ active'[p] = active[p] \cup {j}
      /\ active[p] \in SUBSET Jobs
  BY <1>4 DEF StartNext, StartJob, PlacesInv, PlacesTypeOK
<1>6. refilling = p /\ refilling' = p /\ HasWorker(p)
  BY DEF StartNext
<1>7. PlacesTypeOK'
  BY <1>4, <1>5, <1>6 DEF PlacesTypeOK
<1>8. \A o \in Pools : PoolFits(o)
  BY LimitsByPool DEF PlacesInv
<1>9. PoolFits(p)'
  <2>1. /\ Cardinality(active[p]) \in Nat /\ Cardinality(active'[p]) \in Nat
        /\ Cardinality(active'[p]) <= Cardinality(active[p]) + 1
    BY <1>5, OneMore, ActiveIsFinite
  <2>2. Size[p] \in Nat /\ QueueMax[p] \in Nat /\ depth[p] \in Nat
    BY <1>4, PoolConstants DEF PlacesInv, PlacesTypeOK
  <2>3. Cardinality(active[p]) < Size[p]
    BY <1>6 DEF HasWorker
  <2>4. Cardinality(active'[p]) <= Size[p]
    BY <2>1, <2>2, <2>3
  <2> QED
    BY <1>4, <1>6, <1>8, <2>2, <2>4 DEF PoolFits
<1>10. \A o \in Pools : o # p => PoolFits(o)'
  BY <1>4, <1>5, <1>6, <1>8, OthersFit
<1> QED
  BY <1>7, <1>9, <1>10, LimitsByPoolNext DEF PlacesInv

\* maybe_start_next ends with every worker busy or nobody waiting.
LEMMA RefilledStep ==
  ASSUME PlacesInv, Refilled
  PROVE  PlacesInv'
<1>0. PICK p \in Pools : refilling = p
  BY DEF Refilled, PlacesInv, PlacesTypeOK
<1>1. refilling' = NoPool /\ active' = active /\ queues' = queues /\ depth' = depth
  BY DEF Refilled
<1>2. PlacesTypeOK'
  BY <1>1 DEF PlacesInv, PlacesTypeOK
<1>3. \A o \in Pools : PoolFits(o)
  BY LimitsByPool DEF PlacesInv
<1>4. /\ Cardinality(active[p]) \in Nat /\ Size[p] \in Nat /\ depth[p] \in Nat
      /\ Cardinality(active[p]) <= Size[p]
      /\ depth[p] = Lengths(queues[p])
  BY <1>3, ActiveIsFinite, PoolConstants DEF PlacesInv, PlacesTypeOK, PoolFits
<1>5. depth[p] > 0 => Cardinality(active[p]) = Size[p]
  <2>1. CASE ~HasWorker(p)
    BY <1>4, <2>1 DEF HasWorker
  <2>2. CASE \A r \in Priorities : queues[p][r] = <<>>
    <3>1. queues[p] \in [Priorities -> Seq(Jobs)]
      BY DEF PlacesInv, PlacesTypeOK
    <3>2. Lengths(queues[p]) = 0
      BY <2>2, <3>1, LengthsType
    <3> QED
      BY <1>4, <3>2
  <2>3. CASE depth[p] = 0
    BY <1>4, <2>3
  <2> QED
    BY <1>0, <2>1, <2>2, <2>3 DEF Refilled
<1>6. PoolFits(p)'
  BY <1>1, <1>3, <1>5 DEF PoolFits
<1>7. \A o \in Pools : o # p => PoolFits(o)'
  BY <1>0, <1>1, <1>3 DEF PoolFits
<1> QED
  BY <1>2, <1>6, <1>7, LimitsByPoolNext DEF PlacesInv

\* A step that leaves workers and queues alone keeps the limits.
LEMMA StillFits ==
  ASSUME PlacesInv, active' = active, queues' = queues, depth' = depth,
         refilling' = refilling
  PROVE  PlacesInv'
<1>1. PlacesTypeOK'
  BY DEF PlacesInv, PlacesTypeOK
<1>2. \A p \in Pools : PoolFits(p)
  BY LimitsByPool DEF PlacesInv
<1>3. \A p \in Pools : PoolFits(p)'
  BY <1>2, OthersFit
<1> QED
  BY <1>1, <1>3, LimitsByPoolNext DEF PlacesInv

\* Empty pools are within their limits.
LEMMA InitPlaces == Init => PlacesInv
<1> SUFFICES ASSUME Init PROVE PlacesInv
  OBVIOUS
<1>1. \A p \in Pools : queues[p] \in [Priorities -> Seq(Jobs)] /\
                       \A r \in Priorities : queues[p][r] = <<>>
  BY EmptySeq DEF Init
<1>2. PlacesTypeOK
  BY <1>1 DEF Init, PlacesTypeOK
<1>3. \A p \in Pools : PoolFits(p)
  <2> SUFFICES ASSUME NEW p \in Pools PROVE PoolFits(p)
    OBVIOUS
  <2>1. active[p] = {} /\ depth[p] = 0
    BY DEF Init
  <2>2. Cardinality(active[p]) = 0
    BY <2>1, FS_EmptySet
  <2>3. Lengths(queues[p]) = 0
    BY <1>1, LengthsType
  <2> QED
    BY <2>1, <2>2, <2>3, PoolConstants DEF PoolFits
<1> QED
  BY <1>2, <1>3, LimitsByPool DEF PlacesInv

\* Every step keeps the limits.
LEMMA NextPlaces == PlacesInv /\ [Next]_vars => PlacesInv'
<1> SUFFICES ASSUME PlacesInv, [Next]_vars PROVE PlacesInv'
  OBVIOUS
<1>1. ASSUME NEW j \in Jobs, Call(j) \/ CallerDies(j)
      PROVE  PlacesInv'
  BY <1>1, StillFits DEF Call, CallerDies, coordinator
<1>2. ASSUME NEW j \in Jobs, TaskStep(j)
      PROVE  PlacesInv'
  BY <1>2, StillFits DEF TaskStep, TaskReturns, TaskCrashes, TaskEnds, coordinator
<1>3. ASSUME NEW m, Fire(m) \/ Ignore(m)
      PROVE  PlacesInv'
  BY <1>3, StillFits DEF Fire, Ignore, coordinator
<1>4. ASSUME NEW j \in Jobs, HandleRun(j)
      PROVE  PlacesInv'
  <2>1. refilling = NoPool /\ refilling' = refilling
    BY <1>4 DEF HandleRun
  <2>2. CASE HasWorker(PoolOf[j]) /\ StartJob(j) /\ UNCHANGED <<queues, depth, answers>>
    BY <2>1, <2>2, StartStep DEF StartJob
  <2>3. CASE /\ ~HasWorker(PoolOf[j]) /\ Enqueue(j)
             /\ UNCHANGED <<active, count, answers, task>>
    BY <2>1, <2>3, EnqueueStep
  <2>4. CASE UNCHANGED <<active, queues, depth, timers, task>>
    BY <2>1, <2>4, StillFits
  <2> QED
    BY <1>4, <2>2, <2>3, <2>4, Zenon DEF HandleRun
<1>5. ASSUME NEW j \in Jobs, HandleQueueTimeout(j)
      PROVE  PlacesInv'
  BY <1>5, RemoveStep DEF HandleQueueTimeout, Receive
<1>6. ASSUME NEW j \in Jobs, HandleResult(j) \/ HandleTaskDown(j) \/ HandleExecutionTimeout(j)
      PROVE  PlacesInv'
  BY <1>6, FreeStep DEF HandleResult, HandleTaskDown, HandleExecutionTimeout, Receive
<1>7. ASSUME NEW j \in Jobs, HandleCallerDown(j)
      PROVE  PlacesInv'
  <2>1. refilling = NoPool
    BY <1>7 DEF HandleCallerDown
  <2>2. CASE RemoveJob(j) /\ UNCHANGED <<active, refilling, caller, task>>
    BY <2>1, <2>2, RemoveStep
  <2>3. CASE Free(j) /\ UNCHANGED <<queues, depth>>
    BY <2>1, <2>3, FreeStep
  <2> QED
    BY <1>7, <2>2, <2>3, Zenon DEF HandleCallerDown
<1>8. ASSUME NEW j \in Jobs, StartNext(j)
      PROVE  PlacesInv'
  BY <1>8, NextStep
<1>9. CASE Refilled
  BY <1>9, RefilledStep
<1>10. CASE UNCHANGED vars
  BY <1>10, StillFits DEF vars
<1> QED
  BY <1>1, <1>2, <1>3, <1>4, <1>5, <1>6, <1>7, <1>8, <1>9, <1>10, Zenon DEF Next, Serve

-----------------------------------------------------------------------------
(* The messages, timers and processes have the types they should.            *)

\* Messages and timers have the types of the mailbox.
LEMMA MsgType ==
  ASSUME NEW j \in Jobs
  PROVE  /\ \A kind \in Kinds \cup TimerKinds : Msg(kind, j) \in Messages
         /\ \A kind \in TimerKinds : Msg(kind, j) \in Timers
BY DEF Msg, Messages, Timers

\* What a step sends has the type of the mailbox: DOWNs of callers.
LEMMA DownsType ==
  ASSUME NEW dead \in SUBSET Jobs
  PROVE  Downs(dead) \subseteq Messages
BY MsgType DEF Downs, Kinds

\* What a kill sends, too.
LEMMA KillDownsType ==
  ASSUME NEW j \in Jobs
  PROVE  KillDowns(j) \subseteq Messages
<1>1. {Msg("task_down", k) : k \in {i \in {j} : task[i] = "running"}} \subseteq Messages
  BY MsgType DEF Kinds
<1> QED
  BY <1>1, DownsType DEF KillDowns

\* A kill keeps the types of tasks and callers.
LEMMA KillType ==
  ASSUME MessagesTypeOK, NEW j \in Jobs, Kill(j)
  PROVE  /\ caller' \in [Jobs -> {"idle", "waiting", "dead"}]
         /\ task' \in [Jobs -> {"none", "running", "ended"}]
BY DEF Kill, Die, MessagesTypeOK

\* A reply keeps the type of the answers.
LEMMA ReplyType ==
  ASSUME MessagesTypeOK, NEW j \in Jobs, NEW a \in Answers, Reply(j, a)
  PROVE  answers' \in [Jobs -> Seq(Answers)]
<1>1. answers[j] \in Seq(Answers)
  BY DEF MessagesTypeOK
<1>2. Append(answers[j], a) \in Seq(Answers)
  BY <1>1, AppendProperties
<1> QED
  BY <1>2 DEF Reply, MessagesTypeOK

\* Counting keeps the type of the counters.
LEMMA CountedType ==
  ASSUME MessagesTypeOK, NEW p \in Pools, NEW c \in Counters, count' = Counted(p, c)
  PROVE  count' \in [Pools -> [Counters -> Nat]]
BY DEF Counted, MessagesTypeOK

\* Every step keeps the types of mailbox, timers, callers, answers and tasks.
LEMMA NextMessages == MessagesTypeOK /\ [Next]_vars => MessagesTypeOK'
<1> SUFFICES ASSUME MessagesTypeOK, [Next]_vars PROVE MessagesTypeOK'
  OBVIOUS
<1> USE PoolConstants
<1>1. ASSUME NEW j \in Jobs, Call(j)
      PROVE  MessagesTypeOK'
  <2>1. Msg("run", j) \in Messages
    BY MsgType DEF Kinds
  <2> QED
    BY <1>1, <2>1 DEF Call, coordinator, MessagesTypeOK
<1>2. ASSUME NEW j \in Jobs, CallerDies(j)
      PROVE  MessagesTypeOK'
  BY <1>2, DownsType DEF CallerDies, Die, coordinator, MessagesTypeOK
<1>3. ASSUME NEW j \in Jobs, TaskStep(j)
      PROVE  MessagesTypeOK'
  <2>1. Msg("result", j) \in Messages /\ Msg("task_down", j) \in Messages
    BY MsgType DEF Kinds
  <2> QED
    BY <1>3, <2>1 DEF TaskStep, TaskReturns, TaskCrashes, TaskEnds, coordinator, MessagesTypeOK
<1>4. ASSUME NEW m \in timers, Fire(m)
      PROVE  MessagesTypeOK'
  BY <1>4 DEF Fire, coordinator, MessagesTypeOK, Messages
<1>5. ASSUME NEW j \in Jobs, HandleRun(j)
      PROVE  MessagesTypeOK'
  <2>1. inbox' \subseteq Messages
    <3>1. \A k \in Jobs : Msg("caller_down", k) \in Messages
      BY MsgType DEF Kinds
    <3> QED
      BY <1>5, <3>1 DEF HandleRun, MessagesTypeOK
  <2>2. CASE StartJob(j) /\ UNCHANGED <<queues, depth, answers>>
    <3>1. count' \in [Pools -> [Counters -> Nat]]
      BY <2>2, CountedType DEF StartJob, Counters
    <3>2. timers' \subseteq Timers
      BY <2>2, MsgType DEF StartJob, MessagesTypeOK, TimerKinds
    <3> QED
      BY <1>5, <2>1, <2>2, <3>1, <3>2 DEF HandleRun, StartJob, MessagesTypeOK
  <2>3. CASE Enqueue(j) /\ UNCHANGED <<active, count, answers, task>>
    <3>1. timers' \subseteq Timers
      BY <2>3, MsgType DEF Enqueue, QueueTimer, MessagesTypeOK, TimerKinds
    <3> QED
      BY <1>5, <2>1, <2>3, <3>1 DEF HandleRun, MessagesTypeOK
  <2>4. CASE /\ Reply(j, "queue_full") /\ count' = Counted(PoolOf[j], "rejected")
             /\ UNCHANGED <<active, queues, depth, timers, task>>
    <3>1. count' \in [Pools -> [Counters -> Nat]] /\ answers' \in [Jobs -> Seq(Answers)]
      BY <2>4, CountedType, ReplyType DEF Counters, Answers
    <3> QED
      BY <1>5, <2>1, <2>4, <3>1 DEF HandleRun, MessagesTypeOK
  <2> QED
    BY <1>5, <2>2, <2>3, <2>4, Zenon DEF HandleRun
<1>6. ASSUME NEW j \in Jobs, HandleQueueTimeout(j)
      PROVE  MessagesTypeOK'
  <2>1. count' \in [Pools -> [Counters -> Nat]] /\ answers' \in [Jobs -> Seq(Answers)]
    BY <1>6, CountedType, ReplyType DEF HandleQueueTimeout, Counters, Answers
  <2> QED
    BY <1>6, <2>1 DEF HandleQueueTimeout, Receive, MessagesTypeOK
<1>7. ASSUME NEW j \in Jobs, HandleResult(j) \/ HandleTaskDown(j)
      PROVE  MessagesTypeOK'
  <2>1. count' \in [Pools -> [Counters -> Nat]] /\ answers' \in [Jobs -> Seq(Answers)]
    BY <1>7, CountedType, ReplyType DEF HandleResult, HandleTaskDown, Counters, Answers
  <2> QED
    BY <1>7, <2>1 DEF HandleResult, HandleTaskDown, Receive, Free, MessagesTypeOK
<1>8. ASSUME NEW j \in Jobs, HandleExecutionTimeout(j)
      PROVE  MessagesTypeOK'
  <2>1. count' \in [Pools -> [Counters -> Nat]] /\ answers' \in [Jobs -> Seq(Answers)]
    BY <1>8, CountedType, ReplyType DEF HandleExecutionTimeout, Counters, Answers
  <2>2. inbox' \subseteq Messages
    BY <1>8, KillDownsType DEF HandleExecutionTimeout, MessagesTypeOK
  <2>3. timers' \subseteq Timers
    BY <1>8 DEF HandleExecutionTimeout, Free, MessagesTypeOK
  <2>4. Kill(j)
    BY <1>8 DEF HandleExecutionTimeout
  <2> QED
    BY <2>1, <2>2, <2>3, <2>4, KillType DEF MessagesTypeOK
<1>9. ASSUME NEW j \in Jobs, HandleCallerDown(j)
       PROVE  MessagesTypeOK'
  <2>1. count' \in [Pools -> [Counters -> Nat]]
    BY <1>9, CountedType DEF HandleCallerDown, Counters
  <2>2. inbox' \subseteq Messages
    BY <1>9, KillDownsType DEF HandleCallerDown, MessagesTypeOK
  <2>3. timers' \subseteq Timers
    BY <1>9 DEF HandleCallerDown, Free, MessagesTypeOK
  <2>4. Kill(j) \/ UNCHANGED <<caller, task>>
    BY <1>9 DEF HandleCallerDown
  <2>5. answers' = answers
    BY <1>9 DEF HandleCallerDown
  <2> QED
    BY <2>1, <2>2, <2>3, <2>4, <2>5, KillType DEF MessagesTypeOK
<1>10. ASSUME NEW m \in inbox, Ignore(m)
       PROVE  MessagesTypeOK'
  BY <1>10 DEF Ignore, Receive, coordinator, MessagesTypeOK
<1>11. ASSUME NEW j \in Jobs, StartNext(j)
       PROVE  MessagesTypeOK'
  <2>1. count' \in [Pools -> [Counters -> Nat]]
    BY <1>11, CountedType DEF StartNext, StartJob, Counters
  <2>2. timers' \subseteq Timers
    BY <1>11, MsgType DEF StartNext, StartJob, MessagesTypeOK, TimerKinds
  <2> QED
    BY <1>11, <2>1, <2>2 DEF StartNext, StartJob, MessagesTypeOK
<1>12. CASE Refilled
  BY <1>12 DEF Refilled, MessagesTypeOK
<1>13. CASE UNCHANGED vars
  BY <1>13 DEF vars, MessagesTypeOK
<1> QED
  BY <1>1, <1>2, <1>3, <1>4, <1>5, <1>6, <1>7, <1>8, <1>9, <1>10, <1>11, <1>12,
     <1>13, Zenon DEF Next, Serve

\* They hold at the start.
LEMMA InitMessages == Init => MessagesTypeOK
BY EmptySeq DEF Init, MessagesTypeOK, Counters

-----------------------------------------------------------------------------
\* Every state has the types of the type invariant, the counter of a queue never falls
\* below zero among them (dequeue_job, pop_next).
THEOREM TypeCorrect == Spec => []TypeOK
<1>1. PlacesInv /\ MessagesTypeOK => TypeOK
  BY DEF PlacesInv, PlacesTypeOK, MessagesTypeOK, TypeOK
<1> QED
  BY <1>1, InitPlaces, NextPlaces, InitMessages, NextMessages, PTL DEF Spec

\* The limits of every pool hold: for every number of jobs, pools, workers and places
\* in the queue, whatever crashes, times out or is cancelled.
THEOREM LimitsHold == Spec => []WithinLimits
<1>1. PlacesInv => WithinLimits
  BY DEF PlacesInv
<1> QED
  BY <1>1, InitPlaces, NextPlaces, PTL DEF Spec

-----------------------------------------------------------------------------
(***************************************************************************)
(* What becomes of one job.                                                *)
(***************************************************************************)
In(q, j) == \E i \in DOMAIN q : q[i] = j
Once(q, j) == \A a, b \in DOMAIN q : q[a] = j /\ q[b] = j => a = b
Has(kind, j) == Msg(kind, j) \in inbox

\* A job that the coordinator has not taken in, or has not started.
Unstarted(j) == ~IsActive(j) /\ answers[j] = <<>> /\ task[j] = "none"

\* The job is in one place or has one answer, and what is on its way to the coordinator says
\* what has happened: a task is over before its end is reported, a caller gone before its DOWN.
JobInv(j) ==
    /\ Once(Queue(j), j)
    /\ caller[j] = "idle" \/ Has("run", j) => Unstarted(j) /\ ~IsQueued(j)
    /\ Has("run", j) => caller[j] # "idle"
    /\ IsQueued(j) => Unstarted(j) /\ Msg("queue_timeout", j) \in timers \cup inbox
    /\ IsActive(j) => answers[j] = <<>> /\ (task[j] = "running" \/ Has("task_down", j))
    /\ task[j] = "running" => IsActive(j)
    /\ Has("result", j) \/ Has("task_down", j) => task[j] = "ended"
    /\ Has("caller_down", j) => caller[j] = "dead"
    /\ answers[j] = <<>> \/ \E a \in Answers : answers[j] = <<a>>
    /\ caller[j] = "waiting" /\ ~Has("run", j) => IsActive(j) \/ IsQueued(j) \/ answers[j] # <<>>

JobsInv == \A j \in Jobs : JobInv(j)

\* Who waits for an answer of the pool in a task has not ended.
ParentInv ==
    \A j \in Jobs : Parent[j] # NoJob /\ Waiting(j) => task[Parent[j]] = "running"

CallsInv == JobsInv /\ ParentInv

Typed == PlacesTypeOK /\ MessagesTypeOK

\* Messages are told apart by what they say and whom they are about.
LEMMA MsgSame ==
  ASSUME NEW a, NEW b, NEW j, NEW k
  PROVE  Msg(a, j) = Msg(b, k) <=> a = b /\ j = k
<1>1. Msg(a, j) = Msg(b, k) => a = b /\ j = k
  <2>1. Msg(a, j).kind = a /\ Msg(a, j).job = j /\ Msg(b, k).kind = b /\ Msg(b, k).job = k
    BY DEF Msg
  <2> QED
    BY <2>1
<1> QED
  BY <1>1

\* All that JobInv(k) reads stays as it was.
Same(k) ==
    /\ IsActive(k)' <=> IsActive(k)
    /\ IsQueued(k)' <=> IsQueued(k)
    /\ Once(Queue(k), k) => Once(Queue(k)', k)
    /\ answers'[k] = answers[k]
    /\ task'[k] = task[k]
    /\ caller'[k] = caller[k]
    /\ \A kind \in Kinds : Has(kind, k)' <=> Has(kind, k)
    /\ IsQueued(k) /\ Msg("queue_timeout", k) \in timers \cup inbox =>
         Msg("queue_timeout", k) \in timers' \cup inbox'

\* A job of which a step changes nothing that JobInv reads keeps JobInv.
LEMMA Untouched ==
  ASSUME NEW k \in Jobs, JobInv(k), Same(k)
  PROVE  JobInv(k)'
<1>1. /\ Has("run", k)' <=> Has("run", k)
      /\ Has("result", k)' <=> Has("result", k)
      /\ Has("task_down", k)' <=> Has("task_down", k)
      /\ Has("caller_down", k)' <=> Has("caller_down", k)
  BY DEF Same, Kinds
<1>2. Unstarted(k)' <=> Unstarted(k)
  BY DEF Same, Unstarted
<1> QED
  BY <1>1, <1>2 DEF JobInv, Same

\* No call begins to wait, and no task ends.
LEMMA ParentKept ==
  ASSUME ParentInv,
         \A k \in Jobs : caller'[k] = "waiting" /\ answers'[k] = <<>> => Waiting(k),
         \A k \in Jobs : task[k] = "running" => task'[k] = "running"
  PROVE  ParentInv'
BY PoolConstants DEF ParentInv, Waiting

\* A reply makes an answer of none.
LEMMA ReplyIs ==
  ASSUME MessagesTypeOK, NEW j \in Jobs, NEW a \in Answers, Reply(j, a)
  PROVE  /\ answers[j] = <<>> => answers'[j] = <<a>>
         /\ answers'[j] # <<>>
         /\ \A k \in Jobs : k # j => answers'[k] = answers[k]
<1>1. /\ answers'[j] = Append(answers[j], a)
      /\ \A k \in Jobs : k # j => answers'[k] = answers[k]
  BY DEF Reply, MessagesTypeOK
<1>2. answers[j] \in Seq(Answers)
  BY DEF MessagesTypeOK
<1>3. answers[j] = <<>> => Append(answers[j], a) = <<a>>
  OBVIOUS
<1>4. Append(answers[j], a) # <<>>
  BY <1>2, AppendProperties
<1> QED
  BY <1>1, <1>3, <1>4

-----------------------------------------------------------------------------
(* Jobs in a queue.                                                          *)

\* A job at the end of a queue it was not in.
LEMMA JoinIs ==
  ASSUME NEW q \in Seq(Jobs), NEW j \in Jobs
  PROVE  /\ \A k \in Jobs : k # j => /\ In(Append(q, j), k) <=> In(q, k)
                                     /\ Once(q, k) => Once(Append(q, j), k)
         /\ In(Append(q, j), j)
         /\ ~In(q, j) => Once(Append(q, j), j)
<1> DEFINE w == Append(q, j)
<1>1. /\ Len(q) \in Nat /\ DOMAIN q = 1 .. Len(q) /\ DOMAIN w = 1 .. Len(q) + 1
      /\ w[Len(q) + 1] = j /\ \A i \in 1 .. Len(q) : w[i] = q[i]
  BY AppendProperties, LenProperties
<1> HIDE DEF w
<1>2. DOMAIN w = DOMAIN q \cup {Len(q) + 1} /\ Len(q) + 1 \notin DOMAIN q
  BY <1>1
<1>3. \A i \in DOMAIN q : w[i] = q[i]
  BY <1>1
<1>4. \A k \in Jobs : k # j => (In(w, k) <=> In(q, k)) /\ (Once(q, k) => Once(w, k))
  BY <1>1, <1>2, <1>3 DEF In, Once
<1>5. In(w, j) /\ (~In(q, j) => Once(w, j))
  BY <1>1, <1>2, <1>3 DEF In, Once
<1> QED
  BY <1>4, <1>5 DEF w

\* A queue of which one place is left out has the other jobs where they were, in their order.
LEMMA LeaveIs ==
  ASSUME NEW q \in Seq(Jobs), NEW w \in Seq(Jobs), NEW i \in DOMAIN q, NEW j \in Jobs, q[i] = j,
         Len(w) = Len(q) - 1,
         \A n \in 1 .. Len(w) : w[n] = IF n < i THEN q[n] ELSE q[n + 1]
  PROVE  /\ \A k \in Jobs : k # j => /\ In(w, k) <=> In(q, k)
                                     /\ Once(q, k) => Once(w, k)
         /\ Once(q, j) => ~In(w, j) /\ Once(w, j)
<1>1. /\ Len(q) \in Nat /\ DOMAIN q = 1 .. Len(q) /\ i \in 1 .. Len(q)
      /\ Len(w) \in Nat /\ DOMAIN w = 1 .. Len(w) /\ Len(w) = Len(q) - 1
  BY LenProperties
<1> DEFINE from(n) == IF n < i THEN n ELSE n + 1
<1>2. \A n \in 1 .. Len(w) : from(n) \in 1 .. Len(q) /\ from(n) # i /\ w[n] = q[from(n)]
  BY <1>1
<1>3. \A m, n \in 1 .. Len(w) : from(m) = from(n) => m = n
  BY <1>1
<1>4. \A m \in 1 .. Len(q) : m # i => \E n \in 1 .. Len(w) : from(n) = m
  <2> SUFFICES ASSUME NEW m \in 1 .. Len(q), m # i
               PROVE  \E n \in 1 .. Len(w) : from(n) = m
    OBVIOUS
  <2>1. CASE m < i
    BY <1>1, <2>1
  <2>2. CASE m > i
    <3>1. m - 1 \in 1 .. Len(w) /\ from(m - 1) = m
      BY <1>1, <2>2
    <3> QED
      BY <3>1
  <2> QED
    BY <1>1, <2>1, <2>2
<1> HIDE DEF from
<1>5. ASSUME NEW k \in Jobs, k # j
      PROVE  (In(w, k) <=> In(q, k)) /\ (Once(q, k) => Once(w, k))
  <2>1. In(w, k) => In(q, k)
    BY <1>1, <1>2 DEF In
  <2>2. ASSUME NEW m \in 1 .. Len(q), q[m] = k
        PROVE  In(w, k)
    <3>1. m # i
      BY <1>5, <2>2
    <3>2. PICK n \in 1 .. Len(w) : from(n) = m
      BY <1>4, <3>1
    <3> QED
      BY <1>1, <1>2, <2>2, <3>2 DEF In
  <2>3. ASSUME Once(q, k), NEW a \in 1 .. Len(w), NEW b \in 1 .. Len(w), w[a] = k, w[b] = k
        PROVE  a = b
    <3>1. from(a) = from(b)
      BY <1>1, <1>2, <2>3 DEF Once
    <3> QED
      BY <1>3, <3>1
  <2> QED
    BY <1>1, <2>1, <2>2, <2>3 DEF In, Once
<1>6. Once(q, j) => ~In(w, j) /\ Once(w, j)
  BY <1>1, <1>2 DEF In, Once
<1> QED
  BY <1>5, <1>6

\* The queue of each job after one queue of one pool has become s.
LEMMA QueueIs ==
  ASSUME PlacesTypeOK, NEW j \in Jobs, NEW s,
         queues' = Changed(PoolOf[j], PriorityOf[j], s)
  PROVE  \A k \in Jobs :
           \/ Queue(k) = Queue(j) /\ Queue(k)' = s
           \/ Queue(k)' = Queue(k) /\ k # j
BY PoolConstants DEF Changed, Queue, PlacesTypeOK

\* A job leaves its queue from one place of it, and the jobs behind it move up.
LEMMA LeaveShape ==
  ASSUME PlacesTypeOK, NEW j \in Jobs, RemoveJob(j) \/ (IsFirst(j) /\ queues' =
           [queues EXCEPT ![PoolOf[j]][PriorityOf[j]] = Tail(@)])
  PROVE  /\ Queue(j) \in Seq(Jobs)
         /\ \E w \in Seq(Jobs), i \in DOMAIN Queue(j) :
              /\ Queue(j)[i] = j /\ Len(w) = Len(Queue(j)) - 1
              /\ \A n \in 1 .. Len(w) : w[n] = IF n < i THEN Queue(j)[n] ELSE Queue(j)[n + 1]
              /\ queues' = Changed(PoolOf[j], PriorityOf[j], w)
<1> DEFINE q == Queue(j)
<1>1. q \in Seq(Jobs) /\ Len(q) \in Nat /\ DOMAIN q = 1 .. Len(q)
  BY PoolConstants, LenProperties DEF Queue, PlacesTypeOK
<1>2. \E w \in Seq(Jobs), i \in DOMAIN q :
        /\ q[i] = j /\ Len(w) = Len(q) - 1
        /\ \A n \in 1 .. Len(w) : w[n] = IF n < i THEN q[n] ELSE q[n + 1]
        /\ queues' = Changed(PoolOf[j], PriorityOf[j], w)
  <2>1. CASE RemoveJob(j)
    <3>1. PICK i \in DOMAIN q :
            /\ q[i] = j
            /\ queues' = [queues EXCEPT ![PoolOf[j]][PriorityOf[j]] =
                            SubSeq(@, 1, i - 1) \o SubSeq(@, i + 1, Len(@))]
      BY <2>1 DEF RemoveJob
    <3> DEFINE a == SubSeq(q, 1, i - 1)
               b == SubSeq(q, i + 1, Len(q))
               w == a \o b
    <3>2. queues' = Changed(PoolOf[j], PriorityOf[j], w)
      BY <3>1, Zenon DEF Queue, Changed
    <3>3. i \in 1 .. Len(q)
      BY <1>1
    <3> HIDE DEF q
    <3>4. a \in Seq(Jobs) /\ Len(a) = i - 1 /\ \A n \in 1 .. i - 1 : a[n] = q[n]
      BY <1>1, <3>3, SubSeqProperties
    <3>5. b \in Seq(Jobs) /\ Len(b) = Len(q) - i /\ \A n \in 1 .. Len(q) - i : b[n] = q[i + n]
      BY <1>1, <3>3, SubSeqProperties
    <3> HIDE DEF a, b
    <3>6. /\ w \in Seq(Jobs) /\ Len(w) = Len(a) + Len(b)
          /\ \A n \in 1 .. Len(a) + Len(b) : w[n] = IF n <= Len(a) THEN a[n] ELSE b[n - Len(a)]
      <4>1. a \in Seq(Jobs) /\ b \in Seq(Jobs)
        BY <3>4, <3>5
      <4> QED
        BY <4>1, ConcatProperties
    <3> HIDE DEF w
    <3>7. Len(w) = Len(q) - 1
      BY <1>1, <3>3, <3>4, <3>5, <3>6
    <3>8. \A n \in 1 .. Len(w) : w[n] = IF n < i THEN q[n] ELSE q[n + 1]
      <4> SUFFICES ASSUME NEW n \in 1 .. Len(w)
                   PROVE  w[n] = IF n < i THEN q[n] ELSE q[n + 1]
        OBVIOUS
      <4>1. CASE n < i
        BY <1>1, <3>3, <3>4, <3>5, <3>6, <4>1
      <4>2. CASE ~(n < i)
        <5>1. n - Len(a) \in 1 .. Len(q) - i /\ i + (n - Len(a)) = n + 1 /\ ~(n <= Len(a))
          BY <1>1, <3>3, <3>4, <3>7, <4>2
        <5> QED
          BY <3>5, <3>6, <3>7, <5>1, <4>2
      <4> QED
        BY <4>1, <4>2
    <3> QED
      BY <3>1, <3>2, <3>6, <3>7, <3>8, Zenon
  <2>2. CASE IsFirst(j) /\ queues' = [queues EXCEPT ![PoolOf[j]][PriorityOf[j]] = Tail(@)]
    <3> DEFINE w == Tail(q)
    <3>1. q # <<>> /\ Head(q) = j
      BY <2>2 DEF IsFirst
    <3>2. queues' = Changed(PoolOf[j], PriorityOf[j], w)
      BY <2>2, Zenon DEF Queue, Changed
    <3> HIDE DEF q
    <3>3. /\ w \in Seq(Jobs) /\ Len(w) = Len(q) - 1 /\ 1 \in DOMAIN q /\ q[1] = j
          /\ \A n \in 1 .. Len(w) : w[n] = q[n + 1]
      BY <1>1, <3>1
    <3>4. \A n \in 1 .. Len(w) : ~(n < 1)
      OBVIOUS
    <3> HIDE DEF w
    <3>5. \A n \in 1 .. Len(w) : w[n] = IF n < 1 THEN q[n] ELSE q[n + 1]
      BY <3>3, <3>4
    <3>6. w \in Seq(Jobs) /\ 1 \in DOMAIN q /\ q[1] = j /\ Len(w) = Len(q) - 1
      BY <3>3
    <3> QED
      BY <3>2, <3>5, <3>6, Zenon
  <2> QED
    BY <2>1, <2>2
<1> QED
  BY <1>1, <1>2

\* What a job's leaving of its queue is to the jobs.
LEMMA LeftQueue ==
  ASSUME PlacesTypeOK, JobsInv, NEW j \in Jobs, RemoveJob(j) \/ (IsFirst(j) /\ queues' =
           [queues EXCEPT ![PoolOf[j]][PriorityOf[j]] = Tail(@)])
  PROVE  /\ IsQueued(j) /\ ~IsQueued(j)' /\ Once(Queue(j)', j)
         /\ \A k \in Jobs : k # j => /\ IsQueued(k)' <=> IsQueued(k)
                                     /\ Once(Queue(k), k) => Once(Queue(k)', k)
<1> DEFINE q == Queue(j)
<1>1. q \in Seq(Jobs) /\ Len(q) \in Nat /\ DOMAIN q = 1 .. Len(q)
  BY PoolConstants, LenProperties DEF Queue, PlacesTypeOK
<1>2. PICK w \in Seq(Jobs), i \in DOMAIN q :
        /\ q[i] = j /\ Len(w) = Len(q) - 1
        /\ \A n \in 1 .. Len(w) : w[n] = IF n < i THEN q[n] ELSE q[n + 1]
        /\ queues' = Changed(PoolOf[j], PriorityOf[j], w)
  BY LeaveShape, Zenon
<1>3. Once(q, j)
  BY DEF JobsInv, JobInv
<1> HIDE DEF q
<1>4. /\ \A k \in Jobs : k # j => /\ In(w, k) <=> In(q, k)
                                  /\ Once(q, k) => Once(w, k)
      /\ ~In(w, j) /\ Once(w, j)
  <2>1. /\ q[i] = j /\ Len(w) = Len(q) - 1
        /\ \A n \in 1 .. Len(w) : w[n] = IF n < i THEN q[n] ELSE q[n + 1]
    BY <1>2
  <2>2. q \in Seq(Jobs) /\ w \in Seq(Jobs) /\ i \in DOMAIN q
    BY <1>1, <1>2
  <2>3. /\ \A k \in Jobs : k # j => /\ In(w, k) <=> In(q, k)
                                    /\ Once(q, k) => Once(w, k)
        /\ Once(q, j) => ~In(w, j) /\ Once(w, j)
    BY <2>1, <2>2, LeaveIs, Zenon
  <2> QED
    BY <1>3, <2>3
<1>5. \A k \in Jobs : (Queue(k) = q /\ Queue(k)' = w) \/ (Queue(k)' = Queue(k) /\ k # j)
  BY <1>2, QueueIs DEF q
<1>6. \A k \in Jobs : /\ IsQueued(k) <=> In(Queue(k), k)
                      /\ IsQueued(k)' <=> In(Queue(k)', k)
  BY DEF IsQueued, In
<1>7. In(q, j)
  BY <1>2 DEF In
<1> QED
  BY <1>4, <1>5, <1>6, <1>7 DEF q

\* The queues stay: so does everybody's place.
LEMMA QueuesSame ==
  ASSUME queues' = queues
  PROVE  \A k \in Jobs : Queue(k)' = Queue(k) /\ (IsQueued(k)' <=> IsQueued(k))
BY DEF Queue, IsQueued

-----------------------------------------------------------------------------
(* What each step is to the job it is about, and to the others.              *)

\* A job gets a worker, or gives it back.
LEMMA WorkerIs ==
  ASSUME PlacesTypeOK, NEW j \in Jobs
  PROVE  /\ active' = [active EXCEPT ![PoolOf[j]] = @ \cup {j}] =>
              IsActive(j)' /\ \A k \in Jobs : k # j => (IsActive(k)' <=> IsActive(k))
         /\ active' = [active EXCEPT ![PoolOf[j]] = @ \ {j}] =>
              ~IsActive(j)' /\ \A k \in Jobs : k # j => (IsActive(k)' <=> IsActive(k))
<1>1. ASSUME NEW S, active' = [active EXCEPT ![PoolOf[j]] = S]
      PROVE  /\ active'[PoolOf[j]] = S
             /\ \A k \in Jobs : PoolOf[k] # PoolOf[j] => active'[PoolOf[k]] = active[PoolOf[k]]
  BY <1>1, PoolConstants DEF PlacesTypeOK
<1>2. ASSUME active' = [active EXCEPT ![PoolOf[j]] = @ \cup {j}]
      PROVE  IsActive(j)' /\ \A k \in Jobs : k # j => (IsActive(k)' <=> IsActive(k))
  <2>1. /\ active'[PoolOf[j]] = active[PoolOf[j]] \cup {j}
        /\ \A k \in Jobs : PoolOf[k] # PoolOf[j] => active'[PoolOf[k]] = active[PoolOf[k]]
    BY <1>1, <1>2
  <2> QED
    BY <2>1 DEF IsActive
<1>3. ASSUME active' = [active EXCEPT ![PoolOf[j]] = @ \ {j}]
      PROVE  ~IsActive(j)' /\ \A k \in Jobs : k # j => (IsActive(k)' <=> IsActive(k))
  <2>1. /\ active'[PoolOf[j]] = active[PoolOf[j]] \ {j}
        /\ \A k \in Jobs : PoolOf[k] # PoolOf[j] => active'[PoolOf[k]] = active[PoolOf[k]]
    BY <1>1, <1>3
  <2> QED
    BY <2>1 DEF IsActive
<1> QED
  BY <1>2, <1>3

\* A call: its job is nowhere yet, and its message is on its way.
LEMMA CallCalls ==
  ASSUME Typed, CallsInv, NEW j \in Jobs, Call(j)
  PROVE  CallsInv'
<1>1. /\ caller[j] = "idle" /\ caller' = [caller EXCEPT ![j] = "waiting"]
      /\ inbox' = inbox \cup {Msg("run", j)}
      /\ UNCHANGED <<active, queues, timers, answers, task>>
  BY DEF Call, coordinator
<1>2. caller'[j] = "waiting" /\ \A k \in Jobs : k # j => caller'[k] = caller[k]
  BY <1>1 DEF Typed, MessagesTypeOK
<1>3. \A k \in Jobs : Queue(k)' = Queue(k) /\ (IsQueued(k)' <=> IsQueued(k))
                      /\ (IsActive(k)' <=> IsActive(k))
  BY <1>1, QueuesSame DEF IsActive
<1>4. ASSUME NEW k \in Jobs, k # j
      PROVE  JobInv(k)'
  <2>1. \A kind : Msg(kind, k) # Msg("run", j)
    BY <1>4, MsgSame
  <2>2. Same(k)
    BY <1>1, <1>2, <1>3, <1>4, <2>1 DEF Same, Has
  <2> QED
    BY <2>2, Untouched DEF CallsInv, JobsInv
<1>5. JobInv(j)'
  <2>1. JobInv(j) /\ Unstarted(j) /\ ~IsQueued(j)
    BY <1>1 DEF CallsInv, JobsInv, JobInv
  <2>2. Unstarted(j)' /\ ~IsQueued(j)' /\ ~IsActive(j)' /\ task'[j] = "none" /\ answers'[j] = <<>>
    BY <1>1, <1>3, <2>1 DEF Unstarted
  <2>3. /\ Has("run", j)' /\ (Has("result", j)' <=> Has("result", j))
        /\ (Has("task_down", j)' <=> Has("task_down", j))
        /\ (Has("caller_down", j)' <=> Has("caller_down", j))
    BY <1>1, MsgSame DEF Has
  <2> QED
    BY <1>1, <1>2, <1>3, <2>1, <2>2, <2>3 DEF JobInv
<1>6. ParentInv'
  BY <1>1, <1>2, PoolConstants DEF CallsInv, ParentInv, Waiting, Call
<1> QED
  BY <1>4, <1>5, <1>6 DEF CallsInv, JobsInv

\* The DOWNs of some callers are about those whose jobs the coordinator has.
LEMMA DownsAre ==
  ASSUME NEW dead, NEW k, NEW kind
  PROVE  Msg(kind, k) \in Downs(dead) <=>
           kind = "caller_down" /\ k \in dead /\ (IsActive(k) \/ IsQueued(k))
BY MsgSame DEF Downs

\* The process of a request ends: the coordinator hears of it if it has the job.
LEMMA CallerDiesCalls ==
  ASSUME Typed, CallsInv, NEW j \in Jobs, CallerDies(j)
  PROVE  CallsInv'
<1>1. /\ Waiting(j) /\ caller' = [k \in Jobs |-> IF k \in {j} THEN "dead" ELSE caller[k]]
      /\ inbox' = inbox \cup Downs({j})
      /\ UNCHANGED <<active, queues, timers, answers, task>>
  BY DEF CallerDies, coordinator, Die
<1>2. caller'[j] = "dead" /\ \A k \in Jobs : k # j => caller'[k] = caller[k]
  BY <1>1
<1>3. \A k \in Jobs : Queue(k)' = Queue(k) /\ (IsQueued(k)' <=> IsQueued(k))
                      /\ (IsActive(k)' <=> IsActive(k))
  BY <1>1, QueuesSame DEF IsActive
<1>4. ASSUME NEW k \in Jobs, k # j
      PROVE  JobInv(k)'
  <2>1. \A kind : Msg(kind, k) \notin Downs({j})
    BY <1>4, DownsAre
  <2>2. Same(k)
    BY <1>1, <1>2, <1>3, <1>4, <2>1 DEF Same, Has
  <2> QED
    BY <2>2, Untouched DEF CallsInv, JobsInv
<1>5. JobInv(j)'
  <2>1. JobInv(j) /\ caller[j] = "waiting"
    BY <1>1 DEF CallsInv, JobsInv, Waiting
  <2>2. /\ (Has("run", j)' <=> Has("run", j)) /\ (Has("result", j)' <=> Has("result", j))
        /\ (Has("task_down", j)' <=> Has("task_down", j))
    BY <1>1, DownsAre DEF Has
  <2>3. Unstarted(j)' <=> Unstarted(j)
    BY <1>1, <1>3 DEF Unstarted
  <2> QED
    BY <1>1, <1>2, <1>3, <2>1, <2>2, <2>3 DEF JobInv
<1>6. ParentInv'
  BY <1>1, <1>2, ParentKept DEF CallsInv, Waiting
<1> QED
  BY <1>4, <1>5, <1>6 DEF CallsInv, JobsInv

\* A task ends: it has a worker until the coordinator hears of it, and nobody waits in it.
LEMMA TaskCalls ==
  ASSUME Typed, CallsInv, NEW j \in Jobs, TaskStep(j)
  PROVE  CallsInv'
<1>1. PICK msgs \in {{Msg("result", j), Msg("task_down", j)}, {Msg("task_down", j)}} :
        TaskEnds(j, msgs)
  BY DEF TaskStep, TaskReturns, TaskCrashes
<1>2. /\ task[j] = "running" /\ \A k \in Jobs : Parent[k] = j => ~Waiting(k)
      /\ inbox' = inbox \cup msgs
      /\ UNCHANGED <<active, queues, timers, caller, answers>>
      /\ task' = [task EXCEPT ![j] = "ended"]
  BY <1>1 DEF TaskEnds, coordinator
<1>3. task'[j] = "ended" /\ \A k \in Jobs : k # j => task'[k] = task[k]
  BY <1>2 DEF Typed, MessagesTypeOK
<1>4. \A k \in Jobs : Queue(k)' = Queue(k) /\ (IsQueued(k)' <=> IsQueued(k))
                      /\ (IsActive(k)' <=> IsActive(k))
  BY <1>2, QueuesSame DEF IsActive
<1>5. \A k, kind : Msg(kind, k) \in msgs => k = j /\ kind \in {"result", "task_down"}
  BY MsgSame
<1>6. ASSUME NEW k \in Jobs, k # j
      PROVE  JobInv(k)'
  <2>1. Same(k)
    BY <1>2, <1>3, <1>4, <1>5, <1>6 DEF Same, Has
  <2> QED
    BY <2>1, Untouched DEF CallsInv, JobsInv
<1>7. JobInv(j)'
  <2>1. JobInv(j)
    BY DEF CallsInv, JobsInv
  <2>2. /\ Has("run", j)' <=> Has("run", j)
        /\ Has("caller_down", j)' <=> Has("caller_down", j)
        /\ Has("task_down", j)'
    BY <1>2, <1>5 DEF Has
  <2>3. /\ IsActive(j) /\ ~IsQueued(j) /\ caller[j] # "idle" /\ ~Has("run", j)
        /\ answers[j] = <<>>
    BY <1>2, <2>1 DEF JobInv, Unstarted
  <2> QED
    BY <1>2, <1>3, <1>4, <2>1, <2>2, <2>3 DEF JobInv
<1>8. ParentInv'
  BY <1>2, <1>3, PoolConstants DEF CallsInv, ParentInv, Waiting
<1> QED
  BY <1>6, <1>7, <1>8 DEF CallsInv, JobsInv

\* A timer sends its message.
LEMMA FireCalls ==
  ASSUME Typed, CallsInv, NEW m \in timers, Fire(m)
  PROVE  CallsInv'
<1>1. /\ timers' = timers \ {m} /\ inbox' = inbox \cup {m}
      /\ UNCHANGED <<active, queues, caller, answers, task>> /\ m.kind \in TimerKinds
  BY DEF Fire, coordinator, Typed, MessagesTypeOK, Timers
<1>2. \A k \in Jobs : Queue(k)' = Queue(k) /\ (IsQueued(k)' <=> IsQueued(k))
                      /\ (IsActive(k)' <=> IsActive(k))
  BY <1>1, QueuesSame DEF IsActive
<1>3. \A kind \in Kinds, k \in Jobs : Msg(kind, k) # m
  BY <1>1 DEF Msg, Kinds, TimerKinds
<1>4. \A k \in Jobs : Same(k)
  BY <1>1, <1>2, <1>3 DEF Same, Has
<1>5. ParentInv'
  BY <1>1, ParentKept DEF CallsInv, Waiting
<1> QED
  BY <1>4, <1>5, Untouched DEF CallsInv, JobsInv

\* A message that comes too late means nothing.
LEMMA IgnoreCalls ==
  ASSUME Typed, CallsInv, NEW m \in inbox, Ignore(m)
  PROVE  CallsInv'
<1> DEFINE j == m.job
           gone == IF m.kind = "result" THEN {Msg("task_down", j)} ELSE {}
<1>1. /\ inbox' = inbox \ ({m} \cup gone)
      /\ UNCHANGED <<active, queues, timers, caller, answers, task>>
      /\ m.kind \in {"result", "task_down", "execution_timeout", "queue_timeout"}
      /\ m.kind # "queue_timeout" => ~IsActive(j)
      /\ m.kind = "queue_timeout" => ~IsQueued(j)
  BY DEF Ignore, Receive, coordinator
<1>2. j \in Jobs /\ m = Msg(m.kind, j)
  BY DEF Typed, MessagesTypeOK, Messages, Timers, Msg
<1>3. \A k \in Jobs : Queue(k)' = Queue(k) /\ (IsQueued(k)' <=> IsQueued(k))
                      /\ (IsActive(k)' <=> IsActive(k))
  BY <1>1, QueuesSame DEF IsActive
<1>4. \A k, kind : Msg(kind, k) \in {m} \cup gone =>
                     k = j /\ (kind = m.kind \/ (m.kind = "result" /\ kind = "task_down"))
  BY <1>2, MsgSame
<1> HIDE DEF j, gone
<1>5. ASSUME NEW k \in Jobs, k # j
      PROVE  JobInv(k)'
  <2>1. Same(k)
    BY <1>1, <1>3, <1>4, <1>5 DEF Same, Has
  <2> QED
    BY <2>1, Untouched DEF CallsInv, JobsInv
<1>6. JobInv(j)'
  <2>1. JobInv(j)
    BY <1>2 DEF CallsInv, JobsInv
  <2>2. /\ Has("run", j)' <=> Has("run", j)
        /\ Has("caller_down", j)' <=> Has("caller_down", j)
        /\ Has("result", j)' => Has("result", j)
        /\ Has("task_down", j)' => Has("task_down", j)
        /\ IsActive(j) /\ Has("task_down", j) => Has("task_down", j)'
        /\ IsQueued(j) /\ Msg("queue_timeout", j) \in timers \cup inbox =>
             Msg("queue_timeout", j) \in timers' \cup inbox'
    BY <1>1, <1>4 DEF Has
  <2>3. Unstarted(j)' <=> Unstarted(j)
    BY <1>1, <1>2, <1>3 DEF Unstarted
  <2> QED
    BY <1>1, <1>2, <1>3, <2>1, <2>2, <2>3 DEF JobInv
<1>7. ParentInv'
  BY <1>1, ParentKept DEF CallsInv, Waiting
<1> QED
  BY <1>5, <1>6, <1>7 DEF CallsInv, JobsInv

\* A job starts: it comes from the mailbox or from its queue.
LEMMA StartCalls ==
  ASSUME Typed, CallsInv, NEW j \in Jobs, StartJob(j), Unstarted(j), caller[j] # "idle",
         ~IsQueued(j)', Once(Queue(j)', j),
         \A k \in Jobs : k # j => /\ IsQueued(k)' <=> IsQueued(k)
                                  /\ Once(Queue(k), k) => Once(Queue(k)', k),
         NEW X, NEW Y, inbox' = (inbox \ X) \cup Y, X \subseteq {Msg("run", j)}, ~Has("run", j)',
         \A m \in Y : m = Msg("caller_down", j) /\ caller[j] = "dead",
         UNCHANGED <<caller, answers>>
  PROVE  CallsInv'
<1>1. /\ active' = [active EXCEPT ![PoolOf[j]] = @ \cup {j}]
      /\ timers' = (timers \ {Msg("queue_timeout", j)})
                     \cup {Msg("execution_timeout", k) : k \in {j} \cap Limited}
      /\ task' = [task EXCEPT ![j] = "running"]
  BY DEF StartJob
<1>2. task'[j] = "running" /\ \A k \in Jobs : k # j => task'[k] = task[k]
  BY <1>1 DEF Typed, MessagesTypeOK
<1>3. IsActive(j)' /\ \A k \in Jobs : k # j => (IsActive(k)' <=> IsActive(k))
  BY <1>1, WorkerIs DEF Typed
<1>4. \A k, kind : k # j => (Msg(kind, k) \in inbox' <=> Msg(kind, k) \in inbox)
  BY MsgSame
<1>5. ASSUME NEW k \in Jobs, k # j
      PROVE  JobInv(k)'
  <2>1. Msg("queue_timeout", k) \in timers => Msg("queue_timeout", k) \in timers'
    BY <1>1, <1>5, MsgSame
  <2>2. Msg("queue_timeout", k) \in timers \cup inbox =>
          Msg("queue_timeout", k) \in timers' \cup inbox'
    BY <1>4, <1>5, <2>1
  <2>3. \A kind \in Kinds : Has(kind, k)' <=> Has(kind, k)
    BY <1>4, <1>5 DEF Has
  <2>4. caller'[k] = caller[k] /\ answers'[k] = answers[k] /\ task'[k] = task[k]
    BY <1>2, <1>5
  <2>5. /\ IsQueued(k)' <=> IsQueued(k)
        /\ Once(Queue(k), k) => Once(Queue(k)', k)
        /\ IsActive(k)' <=> IsActive(k)
    BY <1>3, <1>5
  <2>6. Same(k)
    BY <2>2, <2>3, <2>4, <2>5 DEF Same
  <2> QED
    BY <2>6, Untouched DEF CallsInv, JobsInv
<1>6. JobInv(j)'
  <2>1. JobInv(j)
    BY DEF CallsInv, JobsInv
  <2>2. /\ Has("result", j)' <=> Has("result", j)
        /\ Has("task_down", j)' <=> Has("task_down", j)
        /\ Has("caller_down", j)' => Has("caller_down", j) \/ caller[j] = "dead"
    BY MsgSame DEF Has
  <2>3. ~Has("result", j) /\ ~Has("task_down", j) /\ answers[j] = <<>>
    BY <2>1 DEF JobInv, Unstarted
  <2> QED
    BY <1>2, <1>3, <2>1, <2>2, <2>3 DEF JobInv
<1>7. ParentInv'
  BY <1>2, ParentKept DEF CallsInv, Waiting
<1> QED
  BY <1>5, <1>6, <1>7 DEF CallsInv, JobsInv

\* handle_call takes a call in: the job starts, joins its queue, or is turned away.
LEMMA RunCalls ==
  ASSUME Typed, CallsInv, NEW j \in Jobs, HandleRun(j)
  PROVE  CallsInv'
<1> DEFINE run == Msg("run", j)
           downs == {Msg("caller_down", k) : k \in {i \in {j} : caller[i] = "dead"}}
<1>0. JobInv(j)
  BY DEF CallsInv, JobsInv
<1>1. /\ Has("run", j) /\ Unstarted(j) /\ ~IsQueued(j) /\ caller[j] # "idle" /\ caller' = caller
      /\ Once(Queue(j), j)
  BY <1>0 DEF HandleRun, Has, JobInv
<1>2. \A m \in downs : m = Msg("caller_down", j) /\ caller[j] = "dead"
  OBVIOUS
<1>3. CASE /\ StartJob(j) /\ inbox' = (inbox \ {run}) \cup downs
           /\ UNCHANGED <<queues, depth, answers>>
  <2>1. \A k \in Jobs : Queue(k)' = Queue(k) /\ (IsQueued(k)' <=> IsQueued(k))
    BY <1>3, QueuesSame
  <2>2. ~Has("run", j)'
    BY <1>2, <1>3, MsgSame DEF Has
  <2> HIDE DEF downs, run
  <2>3. UNCHANGED <<caller, answers>> /\ inbox' = (inbox \ {run}) \cup downs
    BY <1>1, <1>3
  <2>4. ~IsQueued(j)' /\ Once(Queue(j)', j)
    BY <1>1, <2>1
  <2>5. \A k \in Jobs : k # j => /\ IsQueued(k)' <=> IsQueued(k)
                                 /\ Once(Queue(k), k) => Once(Queue(k)', k)
    BY <2>1
  <2>6. {run} \subseteq {Msg("run", j)}
    BY DEF run
  <2> QED
    BY <1>1, <1>2, <1>3, <2>2, <2>3, <2>4, <2>5, <2>6, StartCalls
<1>4. CASE /\ Enqueue(j) /\ inbox' = (inbox \ {run}) \cup downs
           /\ UNCHANGED <<active, count, answers, task>>
  <2> DEFINE s == Append(Queue(j), j)
  <2>1. /\ queues' = Changed(PoolOf[j], PriorityOf[j], s)
        /\ timers' = timers \cup {Msg("queue_timeout", j)}
    BY <1>4, Zenon DEF Enqueue, Join, QueueTimer, Changed, Queue
  <2>2. Queue(j) \in Seq(Jobs)
    BY PoolConstants DEF Queue, Typed, PlacesTypeOK
  <2>3. /\ \A k \in Jobs : k # j => /\ In(s, k) <=> In(Queue(j), k)
                                    /\ Once(Queue(j), k) => Once(s, k)
        /\ In(s, j) /\ (~In(Queue(j), j) => Once(s, j))
    BY <2>2, JoinIs
  <2> HIDE DEF s
  <2>4. \A k \in Jobs : (Queue(k) = Queue(j) /\ Queue(k)' = s) \/ (Queue(k)' = Queue(k) /\ k # j)
    BY <2>1, QueueIs DEF Typed
  <2>5. \A k \in Jobs : (IsQueued(k) <=> In(Queue(k), k)) /\ (IsQueued(k)' <=> In(Queue(k)', k))
    BY DEF IsQueued, In
  <2>6. /\ IsQueued(j)' /\ Once(Queue(j)', j)
        /\ \A k \in Jobs : k # j => /\ IsQueued(k)' <=> IsQueued(k)
                                    /\ Once(Queue(k), k) => Once(Queue(k)', k)
    BY <1>1, <2>3, <2>4, <2>5
  <2>7. \A k \in Jobs : IsActive(k)' <=> IsActive(k)
    BY <1>4 DEF IsActive
  <2>8. \A k, kind : k # j => (Msg(kind, k) \in inbox' <=> Msg(kind, k) \in inbox)
    BY <1>2, <1>4, MsgSame
  <2>9. ASSUME NEW k \in Jobs, k # j
        PROVE  JobInv(k)'
    <3>1. Same(k)
      BY <1>1, <1>4, <2>1, <2>6, <2>7, <2>8, <2>9 DEF Same, Has
    <3> QED
      BY <3>1, Untouched DEF CallsInv, JobsInv
  <2>10. JobInv(j)'
    <3>1. /\ ~Has("run", j)'
          /\ Has("result", j)' <=> Has("result", j)
          /\ Has("task_down", j)' <=> Has("task_down", j)
          /\ Has("caller_down", j)' => Has("caller_down", j) \/ caller[j] = "dead"
      BY <1>2, <1>4, MsgSame DEF Has
    <3>2. Unstarted(j)' /\ task'[j] = "none" /\ answers'[j] = <<>> /\ ~IsActive(j)'
      BY <1>1, <1>4, <2>7 DEF Unstarted
    <3>3. Has("result", j) \/ Has("task_down", j) => task[j] = "ended"
      BY <1>0 DEF JobInv
    <3>4. ~Has("result", j)' /\ ~Has("task_down", j)'
      BY <1>1, <3>1, <3>3 DEF Unstarted
    <3>5. caller'[j] = caller[j] /\ (Has("caller_down", j)' => caller'[j] = "dead")
      BY <1>0, <1>1, <3>1 DEF JobInv
    <3>6. Msg("queue_timeout", j) \in timers' \cup inbox'
      BY <2>1
    <3> QED
      BY <1>1, <2>6, <3>1, <3>2, <3>4, <3>5, <3>6 DEF JobInv
  <2>11. ParentInv'
    BY <1>1, <1>4, ParentKept DEF CallsInv, Waiting
  <2> QED
    BY <2>9, <2>10, <2>11 DEF CallsInv, JobsInv
<1>5. CASE /\ Reply(j, "queue_full") /\ inbox' = inbox \ {run}
           /\ UNCHANGED <<active, queues, depth, timers, task>>
  <2>1. /\ answers'[j] = <<"queue_full">> /\ answers'[j] # <<>>
        /\ \A k \in Jobs : k # j => answers'[k] = answers[k]
    BY <1>1, <1>5, ReplyIs DEF Typed, Answers, Unstarted
  <2>2. \A k \in Jobs : Queue(k)' = Queue(k) /\ (IsQueued(k)' <=> IsQueued(k))
                        /\ (IsActive(k)' <=> IsActive(k))
    BY <1>5, QueuesSame DEF IsActive
  <2>3. \A k, kind : Msg(kind, k) \in inbox' <=> Msg(kind, k) \in inbox /\ ~(k = j /\ kind = "run")
    BY <1>5, MsgSame
  <2>4. ASSUME NEW k \in Jobs, k # j
        PROVE  JobInv(k)'
    <3>1. Same(k)
      BY <1>1, <1>5, <2>1, <2>2, <2>3, <2>4 DEF Same, Has
    <3> QED
      BY <3>1, Untouched DEF CallsInv, JobsInv
  <2>5. JobInv(j)'
    BY <1>0, <1>1, <1>5, <2>1, <2>2, <2>3 DEF JobInv, Has, Unstarted, Answers
  <2>6. ParentInv'
    BY <1>1, <1>5, <2>1, ParentKept DEF CallsInv, Waiting
  <2> QED
    BY <2>4, <2>5, <2>6 DEF CallsInv, JobsInv
<1>6. \/ /\ StartJob(j) /\ inbox' = (inbox \ {run}) \cup downs
         /\ UNCHANGED <<queues, depth, answers>>
      \/ /\ Enqueue(j) /\ inbox' = (inbox \ {run}) \cup downs
         /\ UNCHANGED <<active, count, answers, task>>
      \/ /\ Reply(j, "queue_full") /\ inbox' = inbox \ {run}
         /\ UNCHANGED <<active, queues, depth, timers, task>>
  BY DEF HandleRun
<1> QED
  BY <1>3, <1>4, <1>5, <1>6

\* queue_timeout: a job leaves its queue, with an answer.
LEMMA QueueTimeoutCalls ==
  ASSUME Typed, CallsInv, NEW j \in Jobs, HandleQueueTimeout(j)
  PROVE  CallsInv'
<1>1. /\ inbox' = inbox \ {Msg("queue_timeout", j), Msg("caller_down", j)}
      /\ RemoveJob(j) /\ Reply(j, "queue_timeout") /\ UNCHANGED <<active, timers, caller, task>>
  BY DEF HandleQueueTimeout, Receive
<1>2. /\ IsQueued(j) /\ ~IsQueued(j)' /\ Once(Queue(j)', j)
      /\ \A k \in Jobs : k # j => /\ IsQueued(k)' <=> IsQueued(k)
                                  /\ Once(Queue(k), k) => Once(Queue(k)', k)
  BY <1>1, LeftQueue DEF Typed, CallsInv
<1>3. JobInv(j) /\ Unstarted(j) /\ caller[j] # "idle" /\ ~Has("run", j)
  BY <1>2 DEF CallsInv, JobsInv, JobInv
<1>4. /\ answers'[j] = <<"queue_timeout">> /\ answers'[j] # <<>>
      /\ \A k \in Jobs : k # j => answers'[k] = answers[k]
  BY <1>1, <1>3, ReplyIs DEF Typed, Answers, Unstarted
<1>5. \A k \in Jobs : IsActive(k)' <=> IsActive(k)
  BY <1>1 DEF IsActive
<1>6. \A k, kind : Msg(kind, k) \in inbox' <=>
        Msg(kind, k) \in inbox /\ ~(k = j /\ kind \in {"queue_timeout", "caller_down"})
  BY <1>1, MsgSame
<1>7. ASSUME NEW k \in Jobs, k # j
      PROVE  JobInv(k)'
  <2>1. Same(k)
    BY <1>1, <1>2, <1>4, <1>5, <1>6, <1>7 DEF Same, Has
  <2> QED
    BY <2>1, Untouched DEF CallsInv, JobsInv
<1>8. JobInv(j)'
  BY <1>1, <1>2, <1>3, <1>4, <1>5, <1>6 DEF JobInv, Has, Unstarted, Answers
<1>9. ParentInv'
  BY <1>1, <1>4, ParentKept DEF CallsInv, Waiting
<1> QED
  BY <1>7, <1>8, <1>9 DEF CallsInv, JobsInv

\* A task is over, with a result or without one: the worker is free, and there is an answer.
LEMMA EndCalls ==
  ASSUME Typed, CallsInv, NEW j \in Jobs, HandleResult(j) \/ HandleTaskDown(j)
  PROVE  CallsInv'
<1>1. PICK a \in Answers, X \in SUBSET {"result", "task_down", "caller_down"} :
        /\ Reply(j, a) /\ inbox' = inbox \ {Msg(kind, j) : kind \in X}
        /\ Has("result", j) \/ Has("task_down", j)
        /\ UNCHANGED <<queues, caller, task>>
        /\ IsActive(j) /\ active' = [active EXCEPT ![PoolOf[j]] = @ \ {j}]
        /\ timers' = timers \ {Msg("execution_timeout", j)}
  <2>1. CASE HandleResult(j)
    <3> DEFINE X == {"result", "task_down", "caller_down"}
    <3>1. /\ inbox' = inbox \ {Msg(kind, j) : kind \in X} /\ X \in SUBSET X
          /\ Reply(j, "result") /\ "result" \in Answers /\ Has("result", j)
      BY <2>1 DEF HandleResult, Receive, Answers, Has
    <3> QED
      BY <2>1, <3>1 DEF HandleResult, Free
  <2>2. CASE HandleTaskDown(j)
    <3> DEFINE X == {"task_down", "caller_down"}
    <3>1. /\ inbox' = inbox \ {Msg(kind, j) : kind \in X}
          /\ X \in SUBSET {"result", "task_down", "caller_down"}
          /\ Reply(j, "task_failed") /\ "task_failed" \in Answers /\ Has("task_down", j)
      BY <2>2 DEF HandleTaskDown, Receive, Answers, Has
    <3> QED
      BY <2>2, <3>1 DEF HandleTaskDown, Free
  <2> QED
    BY <2>1, <2>2
<1>2. /\ JobInv(j) /\ answers[j] = <<>> /\ task[j] = "ended" /\ ~IsQueued(j) /\ caller[j] # "idle"
      /\ ~Has("run", j)
  BY <1>1 DEF CallsInv, JobsInv, JobInv, Unstarted
<1>3. /\ answers'[j] = <<a>> /\ answers'[j] # <<>>
      /\ \A k \in Jobs : k # j => answers'[k] = answers[k]
  BY <1>1, <1>2, ReplyIs DEF Typed
<1>4. ~IsActive(j)' /\ \A k \in Jobs : k # j => (IsActive(k)' <=> IsActive(k))
  BY <1>1, WorkerIs DEF Typed
<1>5. \A k \in Jobs : Queue(k)' = Queue(k) /\ (IsQueued(k)' <=> IsQueued(k))
  BY <1>1, QueuesSame
<1>6. \A k, kind : Msg(kind, k) \in inbox' <=> Msg(kind, k) \in inbox /\ ~(k = j /\ kind \in X)
  BY <1>1, MsgSame
<1>7. ASSUME NEW k \in Jobs, k # j
      PROVE  JobInv(k)'
  <2>1. Msg("queue_timeout", k) # Msg("execution_timeout", j)
    BY MsgSame
  <2>2. Same(k)
    BY <1>1, <1>3, <1>4, <1>5, <1>6, <1>7, <2>1 DEF Same, Has
  <2> QED
    BY <2>2, Untouched DEF CallsInv, JobsInv
<1>8. JobInv(j)'
  BY <1>1, <1>2, <1>3, <1>4, <1>5, <1>6 DEF JobInv, Has
<1>9. ParentInv'
  BY <1>1, <1>3, ParentKept DEF CallsInv, Waiting
<1> QED
  BY <1>7, <1>8, <1>9 DEF CallsInv, JobsInv

\* What a kill tells the coordinator: the end of the task, and of the callers in it.
LEMMA KillDownsAre ==
  ASSUME NEW j \in Jobs, NEW k \in Jobs, NEW kind
  PROVE  Msg(kind, k) \in KillDowns(j) <=>
           \/ kind = "task_down" /\ k = j /\ task[j] = "running"
           \/ /\ kind = "caller_down" /\ Parent[k] = j /\ Waiting(k)
              /\ IsActive(k) \/ IsQueued(k)
<1> DEFINE ended == {Msg("task_down", i) : i \in {n \in {j} : task[n] = "running"}}
           dead == {n \in Jobs : Parent[n] = j /\ Waiting(n)}
<1>1. Msg(kind, k) \in ended <=> kind = "task_down" /\ k = j /\ task[j] = "running"
  BY MsgSame
<1>2. Msg(kind, k) \in Downs(dead) <=>
        kind = "caller_down" /\ k \in dead /\ (IsActive(k) \/ IsQueued(k))
  BY DownsAre
<1>3. KillDowns(j) = ended \cup Downs(dead)
  BY DEF KillDowns
<1> HIDE DEF ended
<1>4. k \in dead <=> Parent[k] = j /\ Waiting(k)
  OBVIOUS
<1> HIDE DEF dead
<1> QED
  BY <1>1, <1>2, <1>3, <1>4

\* What a kill does to the tasks and to the callers: who waits in the task is dead.
LEMMA KillIs ==
  ASSUME Typed, CallsInv, NEW j \in Jobs, IsActive(j), Kill(j)
  PROVE  /\ task'[j] = "ended" /\ caller'[j] = caller[j]
         /\ \A k \in Jobs : k # j => task'[k] = task[k]
         /\ \A k \in Jobs : Parent[k] = j /\ Waiting(k) => caller'[k] = "dead"
         /\ \A k \in Jobs : ~(Parent[k] = j /\ Waiting(k)) => caller'[k] = caller[k]
<1>1. Parent[j] # j
  BY PoolConstants
<1>2. CASE task[j] = "running"
  <2>1. /\ task' = [task EXCEPT ![j] = "ended"]
        /\ caller' = [k \in Jobs |-> IF k \in {n \in Jobs : Parent[n] = j /\ Waiting(n)}
                                     THEN "dead" ELSE caller[k]]
    BY <1>2 DEF Kill, Die
  <2>2. task'[j] = "ended" /\ \A k \in Jobs : k # j => task'[k] = task[k]
    BY <2>1 DEF Typed, MessagesTypeOK
  <2> QED
    BY <1>1, <2>1, <2>2
<1>3. CASE task[j] # "running"
  <2>1. task' = task /\ caller' = caller
    BY <1>3 DEF Kill
  <2>2. task[j] = "ended"
    BY <1>3 DEF CallsInv, JobsInv, JobInv
  <2>3. \A k \in Jobs : Parent[k] = j => ~Waiting(k)
    BY <1>3, PoolConstants DEF CallsInv, ParentInv
  <2> QED
    BY <2>1, <2>2, <2>3
<1> QED
  BY <1>2, <1>3

\* A running job is killed and gives its worker back, with an answer or without a caller.
LEMMA KillCalls ==
  ASSUME Typed, CallsInv, NEW j \in Jobs, Kill(j), Free(j), queues' = queues,
         NEW X, X \subseteq {"execution_timeout", "caller_down"},
         inbox' = (inbox \ {Msg(kind, j) : kind \in X}) \cup KillDowns(j),
         \A k \in Jobs : k # j => answers'[k] = answers[k],
         \/ \E a \in Answers : answers'[j] = <<a>>
         \/ answers'[j] = answers[j] /\ caller[j] = "dead"
  PROVE  CallsInv'
<1>1. /\ IsActive(j) /\ active' = [active EXCEPT ![PoolOf[j]] = @ \ {j}]
      /\ timers' = timers \ {Msg("execution_timeout", j)}
  BY DEF Free
<1>2. /\ task'[j] = "ended" /\ caller'[j] = caller[j]
      /\ \A k \in Jobs : k # j => task'[k] = task[k]
      /\ \A k \in Jobs : Parent[k] = j /\ Waiting(k) => caller'[k] = "dead"
      /\ \A k \in Jobs : ~(Parent[k] = j /\ Waiting(k)) => caller'[k] = caller[k]
  BY <1>1, KillIs
<1>3. ~IsActive(j)' /\ \A k \in Jobs : k # j => (IsActive(k)' <=> IsActive(k))
  BY <1>1, WorkerIs DEF Typed
<1>4. \A k \in Jobs : Queue(k)' = Queue(k) /\ (IsQueued(k)' <=> IsQueued(k))
  BY QueuesSame
<1>5. \A k \in Jobs : \A kind : Msg(kind, k) \in inbox' <=>
        \/ Msg(kind, k) \in inbox /\ ~(k = j /\ kind \in X)
        \/ kind = "task_down" /\ k = j /\ task[j] = "running"
        \/ /\ kind = "caller_down" /\ Parent[k] = j /\ Waiting(k)
           /\ IsActive(k) \/ IsQueued(k)
  BY MsgSame, KillDownsAre
<1>6. ASSUME NEW k \in Jobs, k # j
      PROVE  JobInv(k)'
  <2>1. JobInv(k)
    BY DEF CallsInv, JobsInv
  <2>2. \A kind : kind # "caller_down" => (Msg(kind, k) \in inbox' <=> Msg(kind, k) \in inbox)
    BY <1>5, <1>6
  <2>3. Msg("queue_timeout", k) \in timers \cup inbox =>
          Msg("queue_timeout", k) \in timers' \cup inbox'
    BY <1>1, <2>2, MsgSame
  <2>4. answers'[k] = answers[k] /\ task'[k] = task[k]
    BY <1>2, <1>6
  <2>5. /\ IsActive(k)' <=> IsActive(k)
        /\ Queue(k)' = Queue(k) /\ (IsQueued(k)' <=> IsQueued(k))
    BY <1>3, <1>4, <1>6
  <2>6. CASE Parent[k] = j /\ Waiting(k)
    <3>1. caller'[k] = "dead" /\ caller[k] = "waiting"
      BY <1>2, <2>6 DEF Waiting
    <3>2. /\ Has("run", k)' <=> Has("run", k)
          /\ Has("result", k)' <=> Has("result", k)
          /\ Has("task_down", k)' <=> Has("task_down", k)
      BY <2>2 DEF Has
    <3>3. Unstarted(k)' <=> Unstarted(k)
      BY <2>4, <2>5 DEF Unstarted
    <3> QED
      BY <2>1, <2>3, <2>4, <2>5, <3>1, <3>2, <3>3 DEF JobInv
  <2>7. CASE ~(Parent[k] = j /\ Waiting(k))
    <3>1. \A kind : Has(kind, k)' <=> Has(kind, k)
      BY <1>5, <1>6, <2>7 DEF Has
    <3>2. caller'[k] = caller[k]
      BY <1>2, <2>7
    <3>3. Same(k)
      BY <2>3, <2>4, <2>5, <3>1, <3>2 DEF Same
    <3> QED
      BY <2>1, <3>3, Untouched
  <2> QED
    BY <2>6, <2>7
<1>7. JobInv(j)'
  <2>1. /\ JobInv(j) /\ answers[j] = <<>> /\ ~IsQueued(j) /\ ~Has("run", j) /\ caller[j] # "idle"
    BY <1>1 DEF CallsInv, JobsInv, JobInv, Unstarted
  <2>2. Parent[j] # j
    BY PoolConstants
  <2>3. /\ ~Has("run", j)'
        /\ Has("caller_down", j)' => Has("caller_down", j)
    BY <1>5, <2>1, <2>2 DEF Has
  <2>4. Has("caller_down", j)' => caller'[j] = "dead"
    BY <1>2, <2>1, <2>3 DEF JobInv
  <2>5. /\ answers'[j] = <<>> \/ \E a \in Answers : answers'[j] = <<a>>
        /\ caller[j] = "waiting" => answers'[j] # <<>>
    BY <2>1
  <2>6. Once(Queue(j), j)' /\ ~IsQueued(j)'
    BY <1>4, <2>1 DEF JobInv
  <2> QED
    BY <1>2, <1>3, <2>1, <2>3, <2>4, <2>5, <2>6 DEF JobInv
<1>8. ParentInv'
  <2> SUFFICES ASSUME NEW k \in Jobs, Parent[k] # NoJob, Waiting(k)'
               PROVE  task'[Parent[k]] = "running"
    BY DEF ParentInv
  <2>1. answers[k] = <<>>
    <3>1. answers[j] = <<>>
      BY <1>1 DEF CallsInv, JobsInv, JobInv
    <3>2. answers'[k] = <<>>
      BY DEF Waiting
    <3> QED
      BY <3>1, <3>2
  <2>2. caller'[k] = "waiting" /\ caller'[k] # "dead"
    BY DEF Waiting
  <2>3. ~(Parent[k] = j /\ Waiting(k)) /\ caller[k] = "waiting"
    BY <1>2, <2>2
  <2>4. Waiting(k) /\ Parent[k] # j
    BY <2>1, <2>3 DEF Waiting
  <2>5. task[Parent[k]] = "running" /\ Parent[k] \in Jobs
    BY <2>4, PoolConstants DEF CallsInv, ParentInv
  <2> QED
    BY <1>2, <2>4, <2>5
<1> QED
  BY <1>6, <1>7, <1>8 DEF CallsInv, JobsInv

\* execution_timeout: a task that runs too long is killed, with an answer.
LEMMA ExecutionTimeoutCalls ==
  ASSUME Typed, CallsInv, NEW j \in Jobs, HandleExecutionTimeout(j)
  PROVE  CallsInv'
<1> DEFINE X == {"execution_timeout", "caller_down"}
<1>1. /\ inbox' = (inbox \ {Msg(kind, j) : kind \in X}) \cup KillDowns(j)
      /\ Kill(j) /\ Free(j) /\ Reply(j, "execution_timeout") /\ queues' = queues /\ IsActive(j)
  BY DEF HandleExecutionTimeout, Free
<1>2. answers[j] = <<>>
  BY <1>1 DEF CallsInv, JobsInv, JobInv
<1>3. /\ "execution_timeout" \in Answers /\ answers'[j] = <<"execution_timeout">>
      /\ \A k \in Jobs : k # j => answers'[k] = answers[k]
  BY <1>1, <1>2, ReplyIs DEF Typed, Answers
<1>4. X \subseteq {"execution_timeout", "caller_down"}
  OBVIOUS
<1> HIDE DEF X
<1> QED
  BY <1>1, <1>3, <1>4, KillCalls

\* The DOWN of a caller: its job leaves the queue, or is killed.
LEMMA CallerDownCalls ==
  ASSUME Typed, CallsInv, NEW j \in Jobs, HandleCallerDown(j)
  PROVE  CallsInv'
<1>1. JobInv(j) /\ caller[j] = "dead" /\ answers' = answers
  BY DEF HandleCallerDown, CallsInv, JobsInv, JobInv, Has
<1>2. CASE /\ RemoveJob(j) /\ timers' = timers \ {Msg("queue_timeout", j)}
           /\ inbox' = inbox \ {Msg("caller_down", j)} /\ UNCHANGED <<active, caller, task>>
  <2>1. /\ IsQueued(j) /\ ~IsQueued(j)' /\ Once(Queue(j)', j)
        /\ \A k \in Jobs : k # j => /\ IsQueued(k)' <=> IsQueued(k)
                                    /\ Once(Queue(k), k) => Once(Queue(k)', k)
    BY <1>2, LeftQueue DEF Typed, CallsInv
  <2>2. \A k \in Jobs : IsActive(k)' <=> IsActive(k)
    BY <1>2 DEF IsActive
  <2>3. \A k, kind : Msg(kind, k) \in inbox' <=>
          Msg(kind, k) \in inbox /\ ~(k = j /\ kind = "caller_down")
    BY <1>2, MsgSame
  <2>4. ASSUME NEW k \in Jobs, k # j
        PROVE  JobInv(k)'
    <3>1. Msg("queue_timeout", k) # Msg("queue_timeout", j)
      BY <2>4, MsgSame
    <3>2. Msg("queue_timeout", k) \in timers \cup inbox =>
            Msg("queue_timeout", k) \in timers' \cup inbox'
      BY <1>2, <2>3, <2>4, <3>1
    <3>3. Same(k)
      BY <1>1, <1>2, <2>1, <2>2, <2>3, <2>4, <3>2 DEF Same, Has
    <3> QED
      BY <3>3, Untouched DEF CallsInv, JobsInv
  <2>5. JobInv(j)'
    BY <1>1, <1>2, <2>1, <2>2, <2>3 DEF JobInv, Has, Unstarted
  <2>6. ParentInv'
    BY <1>1, <1>2, ParentKept DEF CallsInv, Waiting
  <2> QED
    BY <2>4, <2>5, <2>6 DEF CallsInv, JobsInv
<1>3. CASE /\ Kill(j) /\ Free(j) /\ queues' = queues
           /\ inbox' = (inbox \ {Msg("caller_down", j)}) \cup KillDowns(j)
  <2> DEFINE X == {"caller_down"}
  <2>1. inbox' = (inbox \ {Msg(kind, j) : kind \in X}) \cup KillDowns(j)
    BY <1>3
  <2>2. X \subseteq {"execution_timeout", "caller_down"}
    OBVIOUS
  <2> HIDE DEF X
  <2> QED
    BY <1>1, <1>3, <2>1, <2>2, KillCalls
<1> QED
  BY <1>2, <1>3, Zenon DEF HandleCallerDown

\* maybe_start_next: the first job of a queue starts.
LEMMA StartNextCalls ==
  ASSUME Typed, CallsInv, NEW j \in Jobs, StartNext(j)
  PROVE  CallsInv'
<1>1. /\ IsFirst(j) /\ queues' = [queues EXCEPT ![PoolOf[j]][PriorityOf[j]] = Tail(@)]
      /\ StartJob(j) /\ UNCHANGED <<inbox, caller, answers>>
  BY DEF StartNext
<1>2. /\ IsQueued(j) /\ ~IsQueued(j)' /\ Once(Queue(j)', j)
      /\ \A k \in Jobs : k # j => /\ IsQueued(k)' <=> IsQueued(k)
                                  /\ Once(Queue(k), k) => Once(Queue(k)', k)
  BY <1>1, LeftQueue DEF Typed, CallsInv
<1>3. Unstarted(j) /\ caller[j] # "idle" /\ ~Has("run", j)
  BY <1>2 DEF CallsInv, JobsInv, JobInv
<1> DEFINE X == {Msg("run", j)} \ {Msg("run", j)}
<1>4. /\ inbox' = (inbox \ X) \cup X /\ X \subseteq {Msg("run", j)} /\ ~Has("run", j)'
      /\ \A m \in X : m = Msg("caller_down", j) /\ caller[j] = "dead"
  BY <1>1, <1>3 DEF Has
<1>5. \A k \in Jobs : k # j => /\ IsQueued(k)' <=> IsQueued(k)
                               /\ Once(Queue(k), k) => Once(Queue(k)', k)
  BY <1>2
<1> HIDE DEF X
<1> QED
  BY <1>1, <1>2, <1>3, <1>4, <1>5, StartCalls

\* A step that no job sees: the last turn of maybe_start_next, or a stuttering step.
LEMMA NoneCalls ==
  ASSUME CallsInv, UNCHANGED <<active, queues, inbox, timers, caller, answers, task>>
  PROVE  CallsInv'
<1>1. \A k \in Jobs : Queue(k)' = Queue(k) /\ (IsQueued(k)' <=> IsQueued(k))
  BY QueuesSame
<1>2. \A k \in Jobs : Same(k)
  BY <1>1 DEF Same, Has, IsActive
<1>3. ParentInv'
  BY ParentKept DEF CallsInv, Waiting
<1> QED
  BY <1>2, <1>3, Untouched DEF CallsInv, JobsInv

\* Nothing has been called.
LEMMA InitCalls == Init => CallsInv
<1> SUFFICES ASSUME Init
             PROVE  CallsInv
  OBVIOUS
<1>1. /\ \A j \in Jobs : /\ ~IsActive(j) /\ Queue(j) = <<>> /\ answers[j] = <<>>
                         /\ caller[j] = "idle" /\ task[j] = "none"
      /\ inbox = {}
  BY PoolConstants DEF Init, IsActive, Queue
<1>2. ASSUME NEW j \in Jobs
      PROVE  JobInv(j)
  <2>1. DOMAIN Queue(j) = {}
    BY <1>1
  <2>2. ~IsQueued(j) /\ Once(Queue(j), j)
    BY <2>1 DEF IsQueued, Once
  <2> QED
    BY <1>1, <2>2 DEF JobInv, Has, Unstarted
<1> QED
  BY <1>1, <1>2 DEF CallsInv, JobsInv, ParentInv, Waiting

\* Every step keeps the invariant of the calls.
LEMMA NextCalls == Typed /\ CallsInv /\ [Next]_vars => CallsInv'
<1> SUFFICES ASSUME Typed, CallsInv, [Next]_vars
             PROVE  CallsInv'
  OBVIOUS
<1>1. ASSUME NEW j \in Jobs, Call(j) \/ CallerDies(j) \/ TaskStep(j)
      PROVE  CallsInv'
  BY <1>1, CallCalls, CallerDiesCalls, TaskCalls
<1>2. ASSUME NEW m \in timers, Fire(m)
      PROVE  CallsInv'
  BY <1>2, FireCalls
<1>3. ASSUME NEW j \in Jobs,
             \/ HandleRun(j) \/ HandleQueueTimeout(j) \/ HandleResult(j) \/ HandleTaskDown(j)
             \/ HandleExecutionTimeout(j) \/ HandleCallerDown(j) \/ StartNext(j)
      PROVE  CallsInv'
  BY <1>3, RunCalls, QueueTimeoutCalls, EndCalls, ExecutionTimeoutCalls, CallerDownCalls,
     StartNextCalls
<1>4. ASSUME NEW m \in inbox, Ignore(m)
      PROVE  CallsInv'
  BY <1>4, IgnoreCalls
<1>5. CASE Refilled
  BY <1>5, NoneCalls DEF Refilled
<1>6. CASE UNCHANGED vars
  BY <1>6, NoneCalls DEF vars, coordinator
<1> QED
  BY <1>1, <1>2, <1>3, <1>4, <1>5, <1>6, Zenon DEF Next, Serve

\* The types and the invariant of the calls hold in every state.
LEMMA CallsAlways == Spec => [](Typed /\ CallsInv)
<1>1. Init => Typed /\ CallsInv
  BY InitPlaces, InitMessages, InitCalls DEF Typed, PlacesInv
<1>2. PlacesInv => PlacesTypeOK
  BY DEF PlacesInv
<1>3. PlacesTypeOK /\ MessagesTypeOK <=> Typed
  BY DEF Typed
<1> QED
  BY <1>2, <1>3, InitPlaces, NextPlaces, InitMessages, NextMessages, InitCalls, NextCalls, PTL
     DEF Spec

\* Each call that the coordinator takes in is in one place, or has one answer, or has lost
\* its caller, for any jobs, pools and limits: enqueue, dequeue_job, start_job and the
\* replies of pool.ex.
THEOREM EveryCallAnsweredOnce == Spec => []AnsweredOnce
<1>1. Typed /\ CallsInv => AnsweredOnce
  <2> SUFFICES ASSUME Typed, CallsInv, NEW j \in Jobs
               PROVE  LET handled == caller[j] # "idle" /\ Msg("run", j) \notin inbox
                          places == {i \in DOMAIN Queue(j) : Queue(j)[i] = j}
                      IN  /\ Cardinality(places) + (IF IsActive(j) THEN 1 ELSE 0)
                               + Len(answers[j]) <= 1
                          /\ handled /\ caller[j] # "dead" =>
                               IsActive(j) \/ IsQueued(j) \/ answers[j] # <<>>
    BY DEF AnsweredOnce
  <2> DEFINE places == {i \in DOMAIN Queue(j) : Queue(j)[i] = j}
  <2>1. JobInv(j)
    BY DEF CallsInv, JobsInv
  <2>2. \/ places = {} /\ ~IsQueued(j)
        \/ (\E i : places = {i}) /\ IsQueued(j)
    BY <2>1 DEF JobInv, Once, IsQueued
  <2> HIDE DEF places
  <2>3. \/ Cardinality(places) = 0 /\ ~IsQueued(j)
        \/ Cardinality(places) = 1 /\ IsQueued(j)
    BY <2>2, FS_EmptySet, FS_Singleton
  <2>4. \/ answers[j] = <<>> /\ Len(answers[j]) = 0
        \/ Len(answers[j]) = 1 /\ answers[j] # <<>>
    <3>1. CASE answers[j] = <<>>
      BY <3>1
    <3>2. CASE \E a \in Answers : answers[j] = <<a>>
      <4>1. PICK a \in Answers : answers[j] = <<a>>
        BY <3>2
      <4>2. Len(<<a>>) = 1 /\ <<a>> # <<>>
        OBVIOUS
      <4> QED
        BY <4>1, <4>2
    <3> QED
      BY <2>1, <3>1, <3>2 DEF JobInv
  <2>5. /\ IsQueued(j) => ~IsActive(j) /\ answers[j] = <<>>
        /\ IsActive(j) => answers[j] = <<>>
    BY <2>1 DEF JobInv, Unstarted
  <2> DEFINE queued == Cardinality(places)
             held == IF IsActive(j) THEN 1 ELSE 0
             answered == Len(answers[j])
  <2>6. queued + held + answered <= 1
    <3>1. /\ queued \in {0, 1} /\ held \in {0, 1} /\ answered \in {0, 1}
          /\ queued = 1 => held = 0 /\ answered = 0
          /\ held = 1 => answered = 0
      BY <2>3, <2>4, <2>5
    <3> HIDE DEF queued, held, answered
    <3> QED
      BY <3>1
  <2>7. caller[j] \in {"idle", "waiting", "dead"}
    BY DEF Typed, MessagesTypeOK
  <2>8. caller[j] = "waiting" /\ Msg("run", j) \notin inbox =>
          IsActive(j) \/ IsQueued(j) \/ answers[j] # <<>>
    BY <2>1 DEF JobInv, Has
  <2> QED
    BY <2>6, <2>7, <2>8 DEF places
<1> QED
  BY <1>1, CallsAlways, PTL

\* No worker is lost and no queued job is without its timer, for any jobs, pools and limits:
\* what holds a worker runs, or its end is in the mailbox (start_job, finish_job, the DOWN
\* of a task).
THEOREM NoWorkerLost == Spec => []NothingIsStuck
<1>1. CallsInv => NothingIsStuck
  BY DEF CallsInv, JobsInv, JobInv, NothingIsStuck, Has
<1> QED
  BY <1>1, CallsAlways, PTL

-----------------------------------------------------------------------------
(***************************************************************************)
(* The counters.  Each counts the jobs of which one thing has become true; *)
(* a step makes at most one thing true, of one job, and counts it.         *)
(***************************************************************************)
Cancelled(j) ==
    /\ caller[j] = "dead" /\ ~Has("run", j) /\ answers[j] = <<>>
    /\ ~IsActive(j) /\ ~IsQueued(j)

\* The counter that an answer belongs to.
CounterOf(a) ==
    IF a \in {"result", "task_failed"} THEN "completed"
    ELSE IF a = "queue_full" THEN "rejected"
    ELSE IF a = "queue_timeout" THEN "queue_timeouts"
    ELSE "execution_timeouts"

Counts(c, j) ==
    \/ c = "started" /\ task[j] # "none"
    \/ c = "cancelled" /\ Cancelled(j)
    \/ \E a \in Answers : answers[j] = <<a>> /\ CounterOf(a) = c

Tally(p, c) == {j \in Jobs : PoolOf[j] = p /\ Counts(c, j)}
CountInv == \A p \in Pools : \A c \in Counters : count[p][c] = Cardinality(Tally(p, c))

\* CountInv is CountersExact, counter by counter.
LEMMA TalliesAreExact == CountInv => CountersExact
<1> SUFFICES ASSUME CountInv, NEW p \in Pools
             PROVE  LET Ended(as) == {j \in Jobs : PoolOf[j] = p /\ \E a \in as : answers[j] = <<a>>}
                        started == {j \in Jobs : PoolOf[j] = p /\ task[j] # "none"}
                        cancelled == {j \in Jobs : /\ PoolOf[j] = p
                                                   /\ caller[j] = "dead"
                                                   /\ Msg("run", j) \notin inbox
                                                   /\ answers[j] = <<>>
                                                   /\ ~IsActive(j) /\ ~IsQueued(j)}
                    IN  /\ count[p].started = Cardinality(started)
                        /\ count[p].completed = Cardinality(Ended({"result", "task_failed"}))
                        /\ count[p].rejected = Cardinality(Ended({"queue_full"}))
                        /\ count[p].queue_timeouts = Cardinality(Ended({"queue_timeout"}))
                        /\ count[p].execution_timeouts = Cardinality(Ended({"execution_timeout"}))
                        /\ count[p].cancelled = Cardinality(cancelled)
  BY DEF CountersExact
<1> DEFINE Ended(as) == {j \in Jobs : PoolOf[j] = p /\ \E a \in as : answers[j] = <<a>>}
           started == {j \in Jobs : PoolOf[j] = p /\ task[j] # "none"}
           cancelled == {j \in Jobs : /\ PoolOf[j] = p
                                      /\ caller[j] = "dead"
                                      /\ Msg("run", j) \notin inbox
                                      /\ answers[j] = <<>>
                                      /\ ~IsActive(j) /\ ~IsQueued(j)}
<1>1. Tally(p, "started") = started
  BY DEF Tally, Counts, CounterOf
<1>2. Tally(p, "cancelled") = cancelled
  BY DEF Tally, Counts, CounterOf, Cancelled, Has
<1>3. /\ Tally(p, "completed") = Ended({"result", "task_failed"})
      /\ Tally(p, "rejected") = Ended({"queue_full"})
      /\ Tally(p, "queue_timeouts") = Ended({"queue_timeout"})
      /\ Tally(p, "execution_timeouts") = Ended({"execution_timeout"})
  BY DEF Tally, Counts, CounterOf, Answers
<1> HIDE DEF Ended, started, cancelled
<1>4. /\ count[p]["started"] = Cardinality(started)
      /\ count[p]["cancelled"] = Cardinality(cancelled)
      /\ count[p]["completed"] = Cardinality(Ended({"result", "task_failed"}))
      /\ count[p]["rejected"] = Cardinality(Ended({"queue_full"}))
      /\ count[p]["queue_timeouts"] = Cardinality(Ended({"queue_timeout"}))
      /\ count[p]["execution_timeouts"] = Cardinality(Ended({"execution_timeout"}))
  BY <1>1, <1>2, <1>3 DEF CountInv, Counters
<1> QED
  BY <1>4 DEF Ended, started, cancelled

\* Nothing that a counter counts becomes true or untrue of k: who dies waiting is in one of
\* the places until its DOWN is handled.
Unmoved(k) ==
    /\ IsActive(k)' <=> IsActive(k)
    /\ IsQueued(k)' <=> IsQueued(k)
    /\ caller[k] # "idle" => (Has("run", k)' <=> Has("run", k))
    /\ answers'[k] = answers[k]
    /\ task'[k] = "none" <=> task[k] = "none"
    /\ \/ caller'[k] = caller[k]
       \/ caller[k] = "idle" /\ caller'[k] = "waiting"
       \/ caller[k] = "waiting" /\ caller'[k] = "dead"

\* Of such a job, nothing that is counted changes.
LEMMA UnmovedCounts ==
  ASSUME NEW k \in Jobs, JobInv(k), Unmoved(k), NEW c
  PROVE  Counts(c, k)' <=> Counts(c, k)
<1>1. Cancelled(k)' <=> Cancelled(k)
  BY DEF Cancelled, Unmoved, JobInv
<1> QED
  BY <1>1 DEF Counts, Unmoved

\* A step of which no job sees anything that is counted.
LEMMA TalliesSame ==
  ASSUME JobsInv, CountInv, count' = count, \A k \in Jobs : Unmoved(k)
  PROVE  CountInv'
<1> SUFFICES ASSUME NEW p \in Pools, NEW c \in Counters
             PROVE  count'[p][c] = Cardinality(Tally(p, c)')
  BY DEF CountInv
<1>1. Tally(p, c)' = Tally(p, c)
  BY UnmovedCounts DEF Tally, JobsInv
<1> QED
  BY <1>1 DEF CountInv

\* One thing becomes true of j.
Moves(j, c) ==
    /\ ~Counts(c, j) /\ Counts(c, j)'
    /\ \A d \in Counters : d # c => (Counts(d, j)' <=> Counts(d, j))

\* A step that makes one thing true of one job, and counts it.
LEMMA TallyStep ==
  ASSUME Typed, JobsInv, CountInv, NEW j \in Jobs, NEW c \in Counters,
         count' = Counted(PoolOf[j], c), Moves(j, c),
         \A k \in Jobs : k # j => Unmoved(k)
  PROVE  CountInv'
<1> SUFFICES ASSUME NEW p \in Pools, NEW d \in Counters
             PROVE  count'[p][d] = Cardinality(Tally(p, d)')
  BY DEF CountInv
<1>1. PoolOf[j] \in Pools /\ count \in [Pools -> [Counters -> Nat]]
  BY PoolConstants DEF Typed, MessagesTypeOK
<1>2. \A k \in Jobs : k # j => (Counts(d, k)' <=> Counts(d, k))
  BY UnmovedCounts DEF JobsInv
<1>3. CASE p = PoolOf[j] /\ d = c
  <2>1. count'[p][d] = count[p][d] + 1
    BY <1>1, <1>3 DEF Counted
  <2>2. Tally(p, d)' = Tally(p, d) \cup {j} /\ j \notin Tally(p, d)
    BY <1>2, <1>3 DEF Tally, Moves
  <2>3. IsFiniteSet(Tally(p, d)) /\ Cardinality(Tally(p, d)) \in Nat
    <3>1. Tally(p, d) \in SUBSET Jobs
      BY DEF Tally
    <3> QED
      BY <3>1, ActiveIsFinite
  <2>4. Cardinality(Tally(p, d) \cup {j}) = Cardinality(Tally(p, d)) + 1
    BY <2>2, <2>3, FS_AddElement
  <2> QED
    BY <2>1, <2>2, <2>4 DEF CountInv
<1>4. CASE ~(p = PoolOf[j] /\ d = c)
  <2>1. count'[p][d] = count[p][d]
    BY <1>1, <1>4 DEF Counted
  <2>2. Tally(p, d)' = Tally(p, d)
    BY <1>2, <1>4 DEF Tally, Moves
  <2> QED
    BY <2>1, <2>2 DEF CountInv
<1> QED
  BY <1>3, <1>4

\* A job that is somewhere gets its answer.
LEMMA AnswerMoves ==
  ASSUME NEW j \in Jobs, NEW a \in Answers, answers[j] = <<>>, answers'[j] = <<a>>,
         IsActive(j) \/ IsQueued(j) \/ Has("run", j), task'[j] = "none" <=> task[j] = "none"
  PROVE  CounterOf(a) \in Counters /\ Moves(j, CounterOf(a))
<1>1. \A b : <<b>> # <<>> /\ (<<b>> = <<a>> => b = a)
  OBVIOUS
<1>2. ~Cancelled(j) /\ ~Cancelled(j)'
  BY <1>1 DEF Cancelled
<1>3. \A b \in Answers : answers[j] # <<b>>
  BY <1>1
<1>4. CounterOf(a) \in Counters /\ CounterOf(a) # "started" /\ CounterOf(a) # "cancelled"
  BY DEF CounterOf, Counters, Answers
<1>5. ~Counts(CounterOf(a), j) /\ Counts(CounterOf(a), j)'
  BY <1>3, <1>4 DEF Counts
<1>6. ASSUME NEW d \in Counters, d # CounterOf(a)
      PROVE  Counts(d, j)' <=> Counts(d, j)
  BY <1>1, <1>2, <1>3, <1>6 DEF Counts
<1> QED
  BY <1>4, <1>5, <1>6 DEF Moves

\* A job starts.
LEMMA StartMoves ==
  ASSUME NEW j \in Jobs, Unstarted(j), task'[j] = "running", IsActive(j)',
         IsQueued(j) \/ Has("run", j), answers'[j] = answers[j]
  PROVE  Moves(j, "started")
<1>1. \A b : <<b>> # <<>>
  OBVIOUS
<1>2. ~Cancelled(j) /\ ~Cancelled(j)'
  BY DEF Cancelled
<1>3. task[j] = "none" /\ \A b \in Answers : answers[j] # <<b>>
  BY <1>1 DEF Unstarted
<1> QED
  BY <1>2, <1>3 DEF Moves, Counts

-----------------------------------------------------------------------------
(* What each step counts.                                                    *)

\* The queues and workers stay.
LEMMA PlacesSame ==
  ASSUME queues' = queues, active' = active
  PROVE  \A k \in Jobs : (IsQueued(k)' <=> IsQueued(k)) /\ (IsActive(k)' <=> IsActive(k))
BY QueuesSame DEF IsActive

\* A call is not counted.
LEMMA CallCounts ==
  ASSUME Typed, NEW j \in Jobs, Call(j)
  PROVE  \A k \in Jobs : Unmoved(k)
<1>1. /\ caller[j] = "idle" /\ caller' = [caller EXCEPT ![j] = "waiting"]
      /\ inbox' = inbox \cup {Msg("run", j)}
      /\ UNCHANGED <<active, queues, answers, task>>
  BY DEF Call, coordinator
<1>2. \A k \in Jobs : Has("run", k)' <=> Has("run", k) \/ k = j
  BY <1>1, MsgSame DEF Has
<1>3. caller'[j] = "waiting" /\ \A k \in Jobs : k # j => caller'[k] = caller[k]
  BY <1>1 DEF Typed, MessagesTypeOK
<1> QED
  BY <1>1, <1>2, <1>3, PlacesSame DEF Unmoved

\* A caller that ends is not counted before the coordinator has heard of it.
LEMMA CallerDiesCounts ==
  ASSUME Typed, NEW j \in Jobs, CallerDies(j)
  PROVE  \A k \in Jobs : Unmoved(k)
<1>1. /\ caller[j] = "waiting"
      /\ caller' = [k \in Jobs |-> IF k \in {j} THEN "dead" ELSE caller[k]]
      /\ inbox' = inbox \cup Downs({j})
      /\ UNCHANGED <<active, queues, answers, task>>
  BY DEF CallerDies, Die, Waiting, coordinator
<1>2. \A k \in Jobs : Has("run", k)' <=> Has("run", k)
  BY <1>1, DownsAre DEF Has
<1>3. caller'[j] = "dead" /\ \A k \in Jobs : k # j => caller'[k] = caller[k]
  BY <1>1
<1> QED
  BY <1>1, <1>2, <1>3, PlacesSame DEF Unmoved

\* The end of a task is not counted.
LEMMA TaskCounts ==
  ASSUME Typed, NEW j \in Jobs, TaskStep(j)
  PROVE  \A k \in Jobs : Unmoved(k)
<1>1. PICK msgs \in {{Msg("result", j), Msg("task_down", j)}, {Msg("task_down", j)}} :
        TaskEnds(j, msgs)
  BY DEF TaskStep, TaskReturns, TaskCrashes
<1>2. /\ task[j] = "running" /\ task' = [task EXCEPT ![j] = "ended"]
      /\ inbox' = inbox \cup msgs
      /\ UNCHANGED <<active, queues, answers, caller>>
  BY <1>1 DEF TaskEnds, coordinator
<1>3. \A k \in Jobs : Has("run", k)' <=> Has("run", k)
  BY <1>2, MsgSame DEF Has
<1>4. task'[j] = "ended" /\ \A k \in Jobs : k # j => task'[k] = task[k]
  BY <1>2 DEF Typed, MessagesTypeOK
<1> QED
  BY <1>2, <1>3, <1>4, PlacesSame DEF Unmoved

\* A timer that fires and a message that comes late are not counted.
LEMMA MessageCounts ==
  ASSUME Typed, NEW m \in Messages, Fire(m) \/ Ignore(m)
  PROVE  \A k \in Jobs : Unmoved(k)
<1>1. UNCHANGED <<active, queues, answers, caller, task>>
  BY DEF Fire, Ignore, coordinator
<1>2. \A k \in Jobs : Has("run", k)' <=> Has("run", k)
  <2>1. CASE Fire(m)
    <3>1. m.kind \in TimerKinds /\ inbox' = inbox \cup {m}
      BY <2>1 DEF Fire, Typed, MessagesTypeOK, Timers
    <3>2. \A k : Msg("run", k) # m
      BY <3>1 DEF Msg, TimerKinds
    <3> QED
      BY <3>1, <3>2 DEF Has
  <2>2. CASE Ignore(m)
    <3>1. /\ inbox' = inbox \ ({m} \cup IF m.kind = "result" THEN {Msg("task_down", m.job)} ELSE {})
          /\ m.kind # "run"
      BY <2>2 DEF Ignore, Receive
    <3>2. \A k : Msg("run", k) # m /\ Msg("run", k) # Msg("task_down", m.job)
      BY <3>1, MsgSame DEF Msg
    <3> QED
      BY <3>1, <3>2 DEF Has
  <2> QED
    BY <2>1, <2>2
<1> QED
  BY <1>1, <1>2, PlacesSame DEF Unmoved

\* Steps of callers, tasks and timers, late messages, and the last turn of maybe_start_next,
\* are not counted.
LEMMA QuietCounts ==
  ASSUME Typed, CallsInv, CountInv,
         \/ \E j \in Jobs : Call(j) \/ CallerDies(j) \/ TaskStep(j)
         \/ \E m \in timers : Fire(m)
         \/ \E m \in inbox : Ignore(m)
         \/ Refilled
         \/ UNCHANGED vars
  PROVE  CountInv'
<1>1. count' = count
  BY DEF Call, CallerDies, TaskStep, TaskReturns, TaskCrashes, TaskEnds, Fire, Ignore, Refilled,
         vars, coordinator
<1>2. ASSUME Refilled \/ UNCHANGED vars
      PROVE  \A k \in Jobs : Unmoved(k)
  <2>1. UNCHANGED <<active, queues, inbox, answers, caller, task>>
    BY <1>2 DEF Refilled, vars
  <2> QED
    BY <2>1, PlacesSame DEF Unmoved, Has
<1>3. timers \subseteq Messages /\ inbox \subseteq Messages
  BY DEF Typed, MessagesTypeOK, Messages
<1>4. \A k \in Jobs : Unmoved(k)
  BY <1>2, <1>3, CallCounts, CallerDiesCounts, TaskCounts, MessageCounts
<1> QED
  BY <1>1, <1>4, TalliesSame DEF CallsInv

\* handle_call: the job starts, waits, or is turned away.
LEMMA RunCounts ==
  ASSUME Typed, CallsInv, CountInv, NEW j \in Jobs, HandleRun(j)
  PROVE  CountInv'
<1> DEFINE run == Msg("run", j)
           downs == {Msg("caller_down", k) : k \in {i \in {j} : caller[i] = "dead"}}
<1>1. JobInv(j) /\ Has("run", j) /\ Unstarted(j) /\ ~IsQueued(j) /\ caller' = caller
  BY DEF HandleRun, Has, JobInv, CallsInv, JobsInv
<1>2. \A k \in Jobs : k # j => (Has("run", k)' <=> Has("run", k))
  <2>1. inbox' = (inbox \ {run}) \cup downs \/ inbox' = inbox \ {run}
    BY DEF HandleRun
  <2>2. \A k \in Jobs : k # j => Msg("run", k) # run
    BY MsgSame
  <2>3. \A k \in Jobs : Msg("run", k) \notin downs
    BY MsgSame
  <2> QED
    BY <2>1, <2>2, <2>3 DEF Has
<1>3. CASE StartJob(j) /\ UNCHANGED <<queues, answers>>
  <2>1. /\ active' = [active EXCEPT ![PoolOf[j]] = @ \cup {j}]
        /\ count' = Counted(PoolOf[j], "started") /\ task' = [task EXCEPT ![j] = "running"]
    BY <1>3 DEF StartJob
  <2>2. task'[j] = "running" /\ \A k \in Jobs : k # j => task'[k] = task[k]
    BY <2>1 DEF Typed, MessagesTypeOK
  <2>3. IsActive(j)' /\ \A k \in Jobs : k # j => (IsActive(k)' <=> IsActive(k))
    BY <2>1, WorkerIs DEF Typed
  <2>4. Moves(j, "started")
    BY <1>1, <1>3, <2>2, <2>3, StartMoves
  <2>5. \A k \in Jobs : k # j => Unmoved(k)
    BY <1>1, <1>2, <1>3, <2>2, <2>3, QueuesSame DEF Unmoved
  <2> QED
    BY <2>1, <2>4, <2>5, TallyStep DEF CallsInv, Counters
<1>4. CASE Enqueue(j) /\ UNCHANGED <<active, count, answers, task>>
  <2> DEFINE s == Append(Queue(j), j)
  <2>1. queues' = Changed(PoolOf[j], PriorityOf[j], s)
    BY <1>4, Zenon DEF Enqueue, Join, Changed, Queue
  <2>2. Queue(j) \in Seq(Jobs)
    BY PoolConstants DEF Queue, Typed, PlacesTypeOK
  <2>3. In(s, j) /\ \A k \in Jobs : k # j => (In(s, k) <=> In(Queue(j), k))
    BY <2>2, JoinIs
  <2> HIDE DEF s
  <2>4. \A k \in Jobs : (Queue(k) = Queue(j) /\ Queue(k)' = s) \/ (Queue(k)' = Queue(k) /\ k # j)
    BY <2>1, QueueIs DEF Typed
  <2>5. \A k \in Jobs : (IsQueued(k) <=> In(Queue(k), k)) /\ (IsQueued(k)' <=> In(Queue(k)', k))
    BY DEF IsQueued, In
  <2>6. IsQueued(j)' /\ \A k \in Jobs : k # j => (IsQueued(k)' <=> IsQueued(k))
    BY <2>3, <2>4, <2>5
  <2>7. \A k \in Jobs : IsActive(k)' <=> IsActive(k)
    BY <1>4 DEF IsActive
  <2>8. \A k \in Jobs : k # j => Unmoved(k)
    BY <1>1, <1>2, <1>4, <2>6, <2>7 DEF Unmoved
  <2>9. \A c : Counts(c, j)' <=> Counts(c, j)
    <3>1. ~Cancelled(j) /\ ~Cancelled(j)'
      BY <1>1, <2>6 DEF Cancelled
    <3> QED
      BY <1>4, <3>1 DEF Counts
  <2>10. ASSUME NEW p \in Pools, NEW c \in Counters
         PROVE  Tally(p, c)' = Tally(p, c)
    BY <2>8, <2>9, UnmovedCounts DEF Tally, CallsInv, JobsInv
  <2> QED
    BY <1>4, <2>10 DEF CountInv
<1>5. CASE /\ Reply(j, "queue_full") /\ count' = Counted(PoolOf[j], "rejected")
           /\ UNCHANGED <<active, queues, task>>
  <2>1. /\ answers'[j] = <<"queue_full">> /\ "queue_full" \in Answers
        /\ \A k \in Jobs : k # j => answers'[k] = answers[k]
    BY <1>1, <1>5, ReplyIs DEF Typed, Answers, Unstarted
  <2>2. answers[j] = <<>> /\ CounterOf("queue_full") = "rejected"
    BY <1>1 DEF Unstarted, CounterOf
  <2>3. Moves(j, "rejected") /\ "rejected" \in Counters
    BY <1>1, <1>5, <2>1, <2>2, AnswerMoves
  <2>4. \A k \in Jobs : k # j => Unmoved(k)
    BY <1>1, <1>2, <1>5, <2>1, PlacesSame DEF Unmoved
  <2> QED
    BY <1>5, <2>3, <2>4, TallyStep DEF CallsInv
<1> QED
  BY <1>3, <1>4, <1>5, Zenon DEF HandleRun

\* queue_timeout: a job leaves its queue, with an answer.
LEMMA QueueTimeoutCounts ==
  ASSUME Typed, CallsInv, CountInv, NEW j \in Jobs, HandleQueueTimeout(j)
  PROVE  CountInv'
<1>1. /\ inbox' = inbox \ {Msg("queue_timeout", j), Msg("caller_down", j)}
      /\ RemoveJob(j) /\ Reply(j, "queue_timeout") /\ UNCHANGED <<active, caller, task>>
      /\ count' = Counted(PoolOf[j], "queue_timeouts")
  BY DEF HandleQueueTimeout, Receive
<1>2. IsQueued(j) /\ \A k \in Jobs : k # j => (IsQueued(k)' <=> IsQueued(k))
  BY <1>1, LeftQueue DEF Typed, CallsInv
<1>3. answers[j] = <<>> /\ CounterOf("queue_timeout") = "queue_timeouts"
  BY <1>2 DEF CallsInv, JobsInv, JobInv, Unstarted, CounterOf
<1>4. /\ answers'[j] = <<"queue_timeout">> /\ "queue_timeout" \in Answers
      /\ \A k \in Jobs : k # j => answers'[k] = answers[k]
  BY <1>1, <1>3, ReplyIs DEF Typed, Answers
<1>5. Moves(j, "queue_timeouts") /\ "queue_timeouts" \in Counters
  BY <1>1, <1>2, <1>3, <1>4, AnswerMoves
<1>6. \A k \in Jobs : Has("run", k)' <=> Has("run", k)
  BY <1>1, MsgSame DEF Has
<1>7. \A k \in Jobs : k # j => Unmoved(k)
  BY <1>1, <1>2, <1>4, <1>6 DEF Unmoved, IsActive
<1> QED
  BY <1>1, <1>5, <1>7, TallyStep DEF CallsInv

\* A worker is given back, with an answer.
LEMMA EndCounts ==
  ASSUME Typed, CallsInv, CountInv, NEW j \in Jobs, NEW a \in Answers,
         Reply(j, a), count' = Counted(PoolOf[j], CounterOf(a)),
         Free(j), queues' = queues, \A k \in Jobs : Has("run", k)' <=> Has("run", k),
         Kill(j) \/ UNCHANGED <<caller, task>>
  PROVE  CountInv'
<1>1. IsActive(j) /\ answers[j] = <<>> /\ task[j] # "none"
  BY DEF Free, CallsInv, JobsInv, JobInv
<1>2. answers'[j] = <<a>> /\ \A k \in Jobs : k # j => answers'[k] = answers[k]
  BY <1>1, ReplyIs DEF Typed
<1>3. \A k \in Jobs : k # j => (IsActive(k)' <=> IsActive(k))
  BY WorkerIs DEF Typed, Free
<1>4. /\ task'[j] # "none" /\ \A k \in Jobs : k # j => task'[k] = task[k]
      /\ \A k \in Jobs : caller'[k] = caller[k] \/ (caller[k] = "waiting" /\ caller'[k] = "dead")
  BY <1>1, KillIs DEF Waiting
<1>5. CounterOf(a) \in Counters /\ Moves(j, CounterOf(a))
  BY <1>1, <1>2, <1>4, AnswerMoves
<1>6. \A k \in Jobs : k # j => Unmoved(k)
  BY <1>2, <1>3, <1>4, QueuesSame DEF Unmoved
<1> QED
  BY <1>5, <1>6, TallyStep DEF CallsInv

\* The three ways to that.
LEMMA AnswerCounts ==
  ASSUME Typed, CallsInv, CountInv, NEW j \in Jobs,
         HandleResult(j) \/ HandleTaskDown(j) \/ HandleExecutionTimeout(j)
  PROVE  CountInv'
<1>1. PICK a \in {"result", "task_failed", "execution_timeout"} :
        /\ Reply(j, a) /\ count' = Counted(PoolOf[j], CounterOf(a))
        /\ Free(j) /\ queues' = queues /\ (Kill(j) \/ UNCHANGED <<caller, task>>)
  <2>1. /\ CounterOf("result") = "completed" /\ CounterOf("task_failed") = "completed"
        /\ CounterOf("execution_timeout") = "execution_timeouts"
    BY DEF CounterOf
  <2> QED
    BY <2>1 DEF HandleResult, HandleTaskDown, HandleExecutionTimeout
<1>2. a \in Answers
  BY DEF Answers
<1>3. \A k \in Jobs : Has("run", k)' <=> Has("run", k)
  <2>1. CASE HandleResult(j) \/ HandleTaskDown(j)
    <3>1. PICK X \in {{Msg("result", j), Msg("task_down", j), Msg("caller_down", j)},
                      {Msg("task_down", j), Msg("caller_down", j)}} : inbox' = inbox \ X
      BY <2>1 DEF HandleResult, HandleTaskDown, Receive
    <3> QED
      BY <3>1, MsgSame DEF Has
  <2>2. CASE HandleExecutionTimeout(j)
    <3>1. inbox' = (inbox \ {Msg("execution_timeout", j), Msg("caller_down", j)}) \cup KillDowns(j)
      BY <2>2 DEF HandleExecutionTimeout
    <3> QED
      BY <3>1, MsgSame, KillDownsAre DEF Has
  <2> QED
    BY <2>1, <2>2
<1> QED
  BY <1>1, <1>2, <1>3, EndCounts

\* The DOWN of a caller: its job is cancelled where it is.
LEMMA CallerDownCounts ==
  ASSUME Typed, CallsInv, CountInv, NEW j \in Jobs, HandleCallerDown(j)
  PROVE  CountInv'
<1>1. /\ JobInv(j) /\ caller[j] = "dead" /\ answers' = answers
      /\ count' = Counted(PoolOf[j], "cancelled")
  BY DEF HandleCallerDown, CallsInv, JobsInv, JobInv, Has
<1>2. \A k \in Jobs : Has("run", k)' <=> Has("run", k)
  <2>1. \/ inbox' = inbox \ {Msg("caller_down", j)}
        \/ inbox' = (inbox \ {Msg("caller_down", j)}) \cup KillDowns(j)
    BY DEF HandleCallerDown
  <2> QED
    BY <2>1, MsgSame, KillDownsAre DEF Has
<1>3. ASSUME answers[j] = <<>>, ~Has("run", j), IsActive(j) \/ IsQueued(j),
             ~IsActive(j)', ~IsQueued(j)', caller'[j] = "dead",
             task'[j] = "none" <=> task[j] = "none",
             \A k \in Jobs : k # j => Unmoved(k)
      PROVE  CountInv'
  <2>1. ~Cancelled(j) /\ Cancelled(j)'
    BY <1>1, <1>2, <1>3 DEF Cancelled
  <2>2. \A a \in Answers : CounterOf(a) # "cancelled"
    BY DEF CounterOf
  <2>3. Moves(j, "cancelled")
    BY <1>1, <1>3, <2>1, <2>2 DEF Moves, Counts
  <2> QED
    BY <1>1, <1>3, <2>3, TallyStep DEF CallsInv, Counters
<1>4. CASE RemoveJob(j) /\ UNCHANGED <<active, caller, task>>
  <2>1. /\ IsQueued(j) /\ ~IsQueued(j)'
        /\ \A k \in Jobs : k # j => (IsQueued(k)' <=> IsQueued(k))
    BY <1>4, LeftQueue DEF Typed, CallsInv
  <2>2. \A k \in Jobs : IsActive(k)' <=> IsActive(k)
    BY <1>4 DEF IsActive
  <2>3. answers[j] = <<>> /\ ~Has("run", j) /\ ~IsActive(j)
    BY <1>1, <2>1 DEF JobInv, Unstarted
  <2>4. \A k \in Jobs : k # j => Unmoved(k)
    BY <1>1, <1>2, <1>4, <2>1, <2>2 DEF Unmoved
  <2> QED
    BY <1>1, <1>3, <1>4, <2>1, <2>2, <2>3, <2>4
<1>5. CASE Kill(j) /\ Free(j) /\ queues' = queues
  <2>1. IsActive(j) /\ answers[j] = <<>> /\ ~IsQueued(j) /\ ~Has("run", j) /\ task[j] # "none"
    BY <1>1, <1>5 DEF Free, JobInv, Unstarted
  <2>2. ~IsActive(j)' /\ \A k \in Jobs : k # j => (IsActive(k)' <=> IsActive(k))
    BY <1>5, WorkerIs DEF Typed, Free
  <2>3. \A k \in Jobs : IsQueued(k)' <=> IsQueued(k)
    BY <1>5, QueuesSame
  <2>4. /\ task'[j] = "ended" /\ caller'[j] = caller[j]
        /\ \A k \in Jobs : k # j => task'[k] = task[k]
        /\ \A k \in Jobs : caller'[k] = caller[k] \/ (caller[k] = "waiting" /\ caller'[k] = "dead")
    BY <1>5, <2>1, KillIs DEF Waiting
  <2>5. \A k \in Jobs : k # j => Unmoved(k)
    BY <1>1, <1>2, <2>2, <2>3, <2>4 DEF Unmoved
  <2> QED
    BY <1>1, <1>3, <2>1, <2>2, <2>3, <2>4, <2>5
<1> QED
  BY <1>4, <1>5, Zenon DEF HandleCallerDown

\* maybe_start_next: the first job of a queue starts.
LEMMA StartNextCounts ==
  ASSUME Typed, CallsInv, CountInv, NEW j \in Jobs, StartNext(j)
  PROVE  CountInv'
<1>1. /\ IsFirst(j) /\ queues' = [queues EXCEPT ![PoolOf[j]][PriorityOf[j]] = Tail(@)]
      /\ active' = [active EXCEPT ![PoolOf[j]] = @ \cup {j}]
      /\ count' = Counted(PoolOf[j], "started") /\ task' = [task EXCEPT ![j] = "running"]
      /\ UNCHANGED <<inbox, caller, answers>>
  BY DEF StartNext, StartJob
<1>2. IsQueued(j) /\ \A k \in Jobs : k # j => (IsQueued(k)' <=> IsQueued(k))
  BY <1>1, LeftQueue DEF Typed, CallsInv
<1>3. task'[j] = "running" /\ \A k \in Jobs : k # j => task'[k] = task[k]
  BY <1>1 DEF Typed, MessagesTypeOK
<1>4. IsActive(j)' /\ \A k \in Jobs : k # j => (IsActive(k)' <=> IsActive(k))
  BY <1>1, WorkerIs DEF Typed
<1>5. Unstarted(j)
  BY <1>2 DEF CallsInv, JobsInv, JobInv
<1>6. Moves(j, "started")
  BY <1>1, <1>2, <1>3, <1>4, <1>5, StartMoves
<1>7. \A k \in Jobs : k # j => Unmoved(k)
  BY <1>1, <1>2, <1>3, <1>4 DEF Unmoved, Has
<1> QED
  BY <1>1, <1>6, <1>7, TallyStep DEF CallsInv, Counters

\* Nothing has been counted.
LEMMA InitCounts == Init => CountInv
<1> SUFFICES ASSUME Init, NEW p \in Pools, NEW c \in Counters
             PROVE  count[p][c] = Cardinality(Tally(p, c))
  BY DEF CountInv
<1>1. \A b : <<b>> # <<>>
  OBVIOUS
<1>2. Tally(p, c) = {}
  BY <1>1 DEF Init, Tally, Counts, Cancelled
<1>3. count[p][c] = 0
  BY DEF Init
<1> QED
  BY <1>2, <1>3, FS_EmptySet

\* Every step keeps the tallies.
LEMMA NextCounts == Typed /\ CallsInv /\ CountInv /\ [Next]_vars => CountInv'
<1> SUFFICES ASSUME Typed, CallsInv, CountInv, [Next]_vars
             PROVE  CountInv'
  OBVIOUS
<1>1. CASE \/ \E j \in Jobs : Call(j) \/ CallerDies(j) \/ TaskStep(j)
           \/ \E m \in timers : Fire(m)
           \/ \E m \in inbox : Ignore(m)
           \/ Refilled
           \/ UNCHANGED vars
  BY <1>1, QuietCounts
<1>2. ASSUME NEW j \in Jobs,
             \/ HandleRun(j) \/ HandleQueueTimeout(j) \/ HandleResult(j) \/ HandleTaskDown(j)
             \/ HandleExecutionTimeout(j) \/ HandleCallerDown(j) \/ StartNext(j)
      PROVE  CountInv'
  BY <1>2, RunCounts, QueueTimeoutCounts, AnswerCounts, CallerDownCounts, StartNextCounts
<1> QED
  BY <1>1, <1>2, Zenon DEF Next, Serve

\* configuration.md's "exact" counters: for any jobs, pools and limits, each counter of a
\* pool is the number of the calls of which it says something, whatever crashed, timed out
\* or was cancelled in whatever order.
THEOREM CountersAreExact == Spec => []CountersExact
<1>1. Typed /\ CallsInv /\ CountInv => CountersExact
  BY TalliesAreExact
<1> QED
  BY <1>1, InitCounts, NextCounts, CallsAlways, PTL DEF Spec

-----------------------------------------------------------------------------
(* The order of the jobs that wait.                                          *)

\* a is somewhere in front of b in q.
Ahead(q, a, b) == \E i, n \in DOMAIN q : i < n /\ q[i] = a /\ q[n] = b

\* What NoOvertaking says of j and k.
Respects(j, k) ==
    PoolOf[j] = PoolOf[k] /\ j # k /\ IsQueued(k) /\ IsQueued(k)' =>
      /\ ~IsQueued(j) /\ IsQueued(j)' => Rank(j) < Rank(k) \/ Before(k, j)'
      /\ IsQueued(j) /\ IsQueued(j)' /\ Before(k, j) => Before(k, j)'
      /\ ~IsActive(j) /\ IsActive(j)' => IsQueued(j) /\ Before(j, k)

\* Who comes last is behind all that were there, and they stay in their order.
LEMMA JoinOrder ==
  ASSUME NEW q \in Seq(Jobs), NEW j \in Jobs, NEW a \in Jobs, NEW b \in Jobs
  PROVE  /\ Ahead(q, a, b) => Ahead(Append(q, j), a, b)
         /\ In(q, a) => Ahead(Append(q, j), a, j)
<1> DEFINE w == Append(q, j)
<1>1. /\ Len(q) \in Nat /\ DOMAIN q = 1 .. Len(q) /\ DOMAIN w = 1 .. Len(q) + 1
      /\ w[Len(q) + 1] = j /\ \A i \in 1 .. Len(q) : w[i] = q[i]
  BY AppendProperties, LenProperties
<1> HIDE DEF w
<1>2. ASSUME NEW i \in DOMAIN q, NEW n \in DOMAIN q, i < n, q[i] = a, q[n] = b
      PROVE  Ahead(w, a, b)
  <2>1. i \in DOMAIN w /\ n \in DOMAIN w /\ w[i] = a /\ w[n] = b
    BY <1>1, <1>2
  <2> QED
    BY <1>2, <2>1 DEF Ahead
<1>3. ASSUME NEW i \in DOMAIN q, q[i] = a
      PROVE  Ahead(w, a, j)
  <2>1. i \in DOMAIN w /\ Len(q) + 1 \in DOMAIN w /\ i < Len(q) + 1 /\ w[i] = a
    BY <1>1, <1>3
  <2> QED
    BY <1>1, <2>1 DEF Ahead
<1> QED
  BY <1>2, <1>3 DEF Ahead, In, w

\* Who is left when j has gone is in the order of before.
LEMMA LeaveOrder ==
  ASSUME NEW q \in Seq(Jobs), NEW w \in Seq(Jobs), NEW i \in DOMAIN q, NEW j \in Jobs, q[i] = j,
         Len(w) = Len(q) - 1,
         \A n \in 1 .. Len(w) : w[n] = IF n < i THEN q[n] ELSE q[n + 1],
         NEW a \in Jobs, NEW b \in Jobs, a # j, b # j, Ahead(q, a, b)
  PROVE  Ahead(w, a, b)
<1>1. /\ Len(q) \in Nat /\ DOMAIN q = 1 .. Len(q) /\ i \in 1 .. Len(q)
      /\ Len(w) \in Nat /\ DOMAIN w = 1 .. Len(w) /\ Len(w) = Len(q) - 1
  BY LenProperties
<1> DEFINE to(n) == IF n < i THEN n ELSE n - 1
<1>2. \A n \in 1 .. Len(q) : n # i => to(n) \in 1 .. Len(w) /\ w[to(n)] = q[n]
  BY <1>1
<1>3. \A m, n \in 1 .. Len(q) : m < n /\ m # i /\ n # i => to(m) < to(n)
  BY <1>1
<1> HIDE DEF to
<1>4. PICK m \in 1 .. Len(q), n \in 1 .. Len(q) : m < n /\ q[m] = a /\ q[n] = b
  BY <1>1 DEF Ahead
<1>5. m # i /\ n # i
  BY <1>4
<1> QED
  BY <1>1, <1>2, <1>3, <1>4, <1>5 DEF Ahead

\* Jobs of one pool have one rank if they wait in one queue.
LEMMA RankIs ==
  ASSUME NEW j \in Jobs, NEW k \in Jobs, PoolOf[j] = PoolOf[k]
  PROVE  /\ Rank(j) \in 1 .. 3 /\ Rank(k) \in 1 .. 3
         /\ Rank(j) = Rank(k) <=> PriorityOf[j] = PriorityOf[k]
         /\ Rank(j) = Rank(k) => Queue(j) = Queue(k) /\ Queue(j)' = Queue(k)'
<1>1. PriorityOf[j] \in {"high", "normal", "low"} /\ PriorityOf[k] \in {"high", "normal", "low"}
  BY PoolConstants DEF Priorities
<1>2. Rank(j) \in 1 .. 3 /\ Rank(k) \in 1 .. 3 /\ (Rank(j) = Rank(k) <=> PriorityOf[j] = PriorityOf[k])
  BY <1>1 DEF Rank
<1> QED
  BY <1>2 DEF Queue

\* Before, by ranks and places.
LEMMA BeforeIs ==
  ASSUME NEW j \in Jobs, NEW k \in Jobs
  PROVE  /\ Before(j, k) <=> Rank(j) < Rank(k) \/ (Rank(j) = Rank(k) /\ Ahead(Queue(j), j, k))
         /\ Before(j, k)' <=> Rank(j) < Rank(k) \/ (Rank(j) = Rank(k) /\ Ahead(Queue(j)', j, k))
BY Zenon DEF Before, Ahead, Rank

\* Places that stay, in queues and at workers but for those that are given back.
LEMMA PlacesStay ==
  ASSUME queues' = queues, \A k \in Jobs : IsActive(k)' => IsActive(k)
  PROVE  \A j, k \in Jobs : Respects(j, k)
<1>1. \A k \in Jobs : Queue(k)' = Queue(k) /\ (IsQueued(k)' <=> IsQueued(k))
  BY QueuesSame
<1> QED
  BY <1>1, BeforeIs DEF Respects

\* A job that waits has every worker of its pool busy, unless maybe_start_next is at it.
LEMMA WaitsForWorker ==
  ASSUME PlacesInv, NEW k \in Jobs, IsQueued(k), refilling # PoolOf[k]
  PROVE  ~HasWorker(PoolOf[k])
<1> DEFINE p == PoolOf[k]
<1>1. p \in Pools /\ PoolFits(p) /\ queues[p] \in [Priorities -> Seq(Jobs)]
  BY PoolConstants, LimitsByPool DEF PlacesInv, PlacesTypeOK
<1>2. Len(queues[p]["high"]) \in Nat /\ Len(queues[p]["normal"]) \in Nat /\ Len(queues[p]["low"]) \in Nat
  BY <1>1, LenProperties DEF Priorities
<1>3. Queue(k) \in Seq(Jobs) /\ Len(Queue(k)) \in Nat /\ Len(Queue(k)) > 0
  <2>1. Queue(k) \in Seq(Jobs)
    BY <1>1, PoolConstants DEF Queue
  <2> QED
    BY <2>1, LenProperties DEF IsQueued
<1>4. PriorityOf[k] \in {"high", "normal", "low"}
  BY PoolConstants DEF Priorities
<1>5. Lengths(queues[p]) > 0
  <2>1. \/ Len(queues[p]["high"]) > 0
        \/ Len(queues[p]["normal"]) > 0
        \/ Len(queues[p]["low"]) > 0
    BY <1>3, <1>4 DEF Queue
  <2> DEFINE a == Len(queues[p]["high"])
             b == Len(queues[p]["normal"])
             c == Len(queues[p]["low"])
  <2>2. a \in Nat /\ b \in Nat /\ c \in Nat /\ (a > 0 \/ b > 0 \/ c > 0)
    BY <1>2, <2>1
  <2>3. Lengths(queues[p]) = a + b + c
    BY DEF Lengths
  <2> HIDE DEF a, b, c
  <2> QED
    BY <2>2, <2>3
<1>6. Cardinality(active[p]) = Size[p] /\ Size[p] \in Nat
  BY <1>1, <1>5, PoolConstants DEF PoolFits
<1> QED
  BY <1>6 DEF HasWorker

\* handle_call starts a job only where nobody waits.
LEMMA StartRespects ==
  ASSUME Typed, PlacesInv, NEW m \in Jobs, refilling = NoPool, HasWorker(PoolOf[m]), StartJob(m),
         queues' = queues
  PROVE  \A j, k \in Jobs : Respects(j, k)
<1>1. \A k \in Jobs : k # m => (IsActive(k)' <=> IsActive(k))
  BY WorkerIs DEF StartJob, Typed
<1>2. \A k \in Jobs : Queue(k)' = Queue(k) /\ (IsQueued(k)' <=> IsQueued(k))
  BY QueuesSame
<1>3. \A k \in Jobs : PoolOf[k] = PoolOf[m] => ~IsQueued(k)
  BY WaitsForWorker, PoolConstants
<1>4. \A j, k \in Jobs : PoolOf[j] = PoolOf[k] /\ IsQueued(k) => j # m
  BY <1>3
<1> QED
  BY <1>1, <1>2, <1>4, BeforeIs DEF Respects

\* enqueue puts a job behind all that wait in its queue.
LEMMA EnqueueRespects ==
  ASSUME Typed, NEW m \in Jobs, Enqueue(m), active' = active
  PROVE  \A j, k \in Jobs : Respects(j, k)
<1> DEFINE q == Queue(m)
           w == Append(q, m)
<1>1. q \in Seq(Jobs)
  BY PoolConstants DEF Queue, PlacesTypeOK, Typed
<1>2. queues' = Changed(PoolOf[m], PriorityOf[m], w)
  BY Zenon DEF Enqueue, Join, Queue, Changed
<1>3. \A k \in Jobs : (Queue(k) = q /\ Queue(k)' = w) \/ (Queue(k)' = Queue(k) /\ k # m)
  BY <1>2, QueueIs DEF Typed
<1>4. \A k \in Jobs : /\ IsQueued(k) <=> In(Queue(k), k)
                      /\ IsQueued(k)' <=> In(Queue(k)', k)
                      /\ IsActive(k)' <=> IsActive(k)
  BY DEF IsQueued, In, IsActive
<1> HIDE DEF q
<1>5. /\ \A k \in Jobs : k # m => (In(w, k) <=> In(q, k))
      /\ \A a, b \in Jobs : /\ Ahead(q, a, b) => Ahead(w, a, b)
                            /\ In(q, a) => Ahead(w, a, m)
  BY <1>1, JoinIs, JoinOrder
<1> HIDE DEF w
<1> SUFFICES ASSUME NEW j \in Jobs, NEW k \in Jobs, PoolOf[j] = PoolOf[k], j # k, IsQueued(k),
                    IsQueued(k)'
             PROVE  /\ ~IsQueued(j) /\ IsQueued(j)' => Rank(j) < Rank(k) \/ Before(k, j)'
                    /\ IsQueued(j) /\ IsQueued(j)' /\ Before(k, j) => Before(k, j)'
  BY <1>4 DEF Respects
<1>6. /\ Rank(j) \in 1 .. 3 /\ Rank(k) \in 1 .. 3
      /\ Rank(j) = Rank(k) => Queue(j) = Queue(k) /\ Queue(j)' = Queue(k)'
  BY RankIs
<1>7. ASSUME ~IsQueued(j), IsQueued(j)'
      PROVE  Rank(j) < Rank(k) \/ Before(k, j)'
  <2>1. Queue(j) = q /\ Queue(j)' = w /\ j = m
    BY <1>3, <1>4, <1>5, <1>7
  <2>2. ASSUME Rank(j) = Rank(k)
        PROVE  Ahead(Queue(k)', k, j)
    BY <1>4, <1>5, <1>6, <2>1, <2>2
  <2>3. Rank(j) < Rank(k) \/ Rank(k) < Rank(j) \/ Rank(j) = Rank(k)
    BY <1>6
  <2> QED
    BY <2>2, <2>3, BeforeIs
<1>8. ASSUME Before(k, j)
      PROVE  Before(k, j)'
  <2>1. Ahead(Queue(k), k, j) => Ahead(Queue(k)', k, j)
    BY <1>3, <1>5
  <2> QED
    BY <1>8, <2>1, BeforeIs
<1> QED
  BY <1>7, <1>8

\* A job leaves its queue, and nobody else comes or goes.
LEMMA LeaveRespects ==
  ASSUME Typed, JobsInv, NEW m \in Jobs, RemoveJob(m) \/ (IsFirst(m) /\ queues' =
           [queues EXCEPT ![PoolOf[m]][PriorityOf[m]] = Tail(@)])
  PROVE  \A j, k \in Jobs :
           /\ IsQueued(j)' => IsQueued(j) /\ j # m
           /\ IsQueued(j)' /\ IsQueued(k)' /\ Before(k, j) => Before(k, j)'
<1> DEFINE q == Queue(m)
<1>1. PICK w \in Seq(Jobs), i \in DOMAIN q :
        /\ q[i] = m /\ Len(w) = Len(q) - 1
        /\ \A n \in 1 .. Len(w) : w[n] = IF n < i THEN q[n] ELSE q[n + 1]
        /\ queues' = Changed(PoolOf[m], PriorityOf[m], w)
  BY LeaveShape, Zenon DEF Typed
<1>2. q \in Seq(Jobs)
  BY PoolConstants DEF Queue, PlacesTypeOK, Typed
<1>3. \A k \in Jobs : (Queue(k) = q /\ Queue(k)' = w) \/ (Queue(k)' = Queue(k) /\ k # m)
  BY <1>1, QueueIs DEF Typed
<1> HIDE DEF q
<1>4. \A a, b \in Jobs : a # m /\ b # m /\ Ahead(q, a, b) => Ahead(w, a, b)
  BY <1>1, <1>2, LeaveOrder, Zenon
<1>5. \A j \in Jobs : IsQueued(j)' => IsQueued(j) /\ j # m
  BY LeftQueue DEF Typed
<1>6. ASSUME NEW j \in Jobs, NEW k \in Jobs, IsQueued(j)', IsQueued(k)', Before(k, j)
      PROVE  Before(k, j)'
  <2>1. Ahead(Queue(k), k, j) => Ahead(Queue(k)', k, j)
    BY <1>3, <1>4, <1>5, <1>6
  <2> QED
    BY <1>6, <2>1, BeforeIs
<1> QED
  BY <1>5, <1>6

\* dequeue_job starts nobody.
LEMMA RemoveRespects ==
  ASSUME Typed, JobsInv, NEW m \in Jobs, RemoveJob(m), active' = active
  PROVE  \A j, k \in Jobs : Respects(j, k)
<1>1. \A j \in Jobs : IsActive(j)' <=> IsActive(j)
  BY DEF IsActive
<1> QED
  BY <1>1, LeaveRespects DEF Respects

\* pop_next starts the first of the best queue that has one.
LEMMA NextRespects ==
  ASSUME Typed, JobsInv, NEW m \in Jobs, StartNext(m)
  PROVE  \A j, k \in Jobs : Respects(j, k)
<1>1. IsFirst(m) /\ queues' = [queues EXCEPT ![PoolOf[m]][PriorityOf[m]] = Tail(@)]
  BY DEF StartNext
<1>2. \A k \in Jobs : k # m => (IsActive(k)' <=> IsActive(k))
  BY WorkerIs DEF StartNext, StartJob, Typed
<1>3. Queue(m) \in Seq(Jobs) /\ DOMAIN Queue(m) = 1 .. Len(Queue(m)) /\ Len(Queue(m)) \in Nat
  BY PoolConstants, LenProperties DEF Queue, PlacesTypeOK, Typed
<1>4. Queue(m) # <<>> /\ 1 \in DOMAIN Queue(m) /\ Queue(m)[1] = m
  BY <1>1, <1>3 DEF IsFirst
<1>5. IsQueued(m)
  BY <1>4 DEF IsQueued
<1>6. ASSUME NEW k \in Jobs, PoolOf[m] = PoolOf[k], m # k, IsQueued(k)
      PROVE  Before(m, k)
  <2>1. /\ Rank(m) \in 1 .. 3 /\ Rank(k) \in 1 .. 3
        /\ Rank(m) = Rank(k) => Queue(m) = Queue(k)
    BY <1>6, RankIs
  <2>2. Queue(k) # <<>>
    BY <1>6 DEF IsQueued
  <2>3. ~(Rank(k) < Rank(m))
    <3>1. PriorityOf[m] \in {"high", "normal", "low"} /\ PriorityOf[k] \in {"high", "normal", "low"}
      BY PoolConstants DEF Priorities
    <3>2. /\ PriorityOf[m] # "high" => PriorityOf[k] # "high"
          /\ PriorityOf[m] = "low" => PriorityOf[k] # "normal"
      BY <1>1, <1>6, <2>2 DEF IsFirst, Queue
    <3> QED
      BY <3>1, <3>2 DEF Rank
  <2>4. ASSUME Rank(m) = Rank(k)
        PROVE  Ahead(Queue(m), m, k)
    <3>1. PICK n \in DOMAIN Queue(m) : Queue(m)[n] = k
      BY <1>6, <2>1, <2>4 DEF IsQueued
    <3>2. 1 < n
      BY <1>3, <1>4, <1>6, <3>1
    <3> QED
      BY <1>4, <3>1, <3>2 DEF Ahead
  <2> QED
    BY <2>1, <2>3, <2>4, BeforeIs
<1> QED
  BY <1>1, <1>2, <1>5, <1>6, LeaveRespects DEF Respects

\* Every step respects the order.
LEMMA StepRespects ==
  ASSUME Typed, PlacesInv, JobsInv, Next
  PROVE  \A j, k \in Jobs : Respects(j, k)
<1>1. ASSUME queues' = queues, active' = active
      PROVE  \A j, k \in Jobs : Respects(j, k)
  BY <1>1, PlacesStay DEF IsActive
<1>2. ASSUME NEW m \in Jobs, Free(m), queues' = queues
      PROVE  \A j, k \in Jobs : Respects(j, k)
  <2>1. \A k \in Jobs : IsActive(k)' => IsActive(k)
    BY <1>2, WorkerIs DEF Free, Typed
  <2> QED
    BY <1>2, <2>1, PlacesStay
<1>3. ASSUME NEW m \in Jobs, Call(m) \/ CallerDies(m) \/ TaskStep(m)
      PROVE  \A j, k \in Jobs : Respects(j, k)
  BY <1>1, <1>3 DEF Call, CallerDies, TaskStep, TaskReturns, TaskCrashes, TaskEnds, coordinator
<1>4. ASSUME NEW m \in timers, Fire(m)
      PROVE  \A j, k \in Jobs : Respects(j, k)
  BY <1>1, <1>4 DEF Fire, coordinator
<1>5. ASSUME NEW m \in inbox, Ignore(m)
      PROVE  \A j, k \in Jobs : Respects(j, k)
  BY <1>1, <1>5 DEF Ignore, coordinator
<1>6. ASSUME Refilled
      PROVE  \A j, k \in Jobs : Respects(j, k)
  BY <1>1, <1>6 DEF Refilled
<1>7. ASSUME NEW m \in Jobs, HandleRun(m)
      PROVE  \A j, k \in Jobs : Respects(j, k)
  <2>1. CASE HasWorker(PoolOf[m]) /\ StartJob(m) /\ UNCHANGED <<queues, depth, answers>>
    BY <1>7, <2>1, StartRespects DEF HandleRun
  <2>2. CASE Enqueue(m) /\ UNCHANGED <<active, count, answers, task>>
    BY <2>2, EnqueueRespects
  <2>3. CASE UNCHANGED <<active, queues, depth, timers, task>>
    BY <1>1, <2>3
  <2> QED
    BY <1>7, <2>1, <2>2, <2>3 DEF HandleRun
<1>8. ASSUME NEW m \in Jobs, HandleQueueTimeout(m)
      PROVE  \A j, k \in Jobs : Respects(j, k)
  BY <1>8, RemoveRespects DEF HandleQueueTimeout
<1>9. ASSUME NEW m \in Jobs, HandleResult(m) \/ HandleTaskDown(m) \/ HandleExecutionTimeout(m)
      PROVE  \A j, k \in Jobs : Respects(j, k)
  BY <1>2, <1>9 DEF HandleResult, HandleTaskDown, HandleExecutionTimeout
<1>10. ASSUME NEW m \in Jobs, HandleCallerDown(m)
       PROVE  \A j, k \in Jobs : Respects(j, k)
  BY <1>2, <1>10, RemoveRespects DEF HandleCallerDown
<1>11. ASSUME NEW m \in Jobs, StartNext(m)
       PROVE  \A j, k \in Jobs : Respects(j, k)
  BY <1>11, NextRespects
<1> QED
  BY <1>3, <1>4, <1>5, <1>6, <1>7, <1>8, <1>9, <1>10, <1>11, Zenon DEF Next, Serve

\* The order of the queues (pop_next, take_from_queue, handle_call), for any jobs, pools
\* and limits: while a job waits, who comes later gets behind it unless its priority is
\* higher, who is behind it stays there, and who is started was before it.
THEOREM NobodyOvertakes == Spec => NoOvertaking
<1>1. Typed /\ PlacesInv /\ CallsInv /\ [Next]_vars => [\A j, k \in Jobs : Respects(j, k)]_vars
  BY StepRespects DEF CallsInv
<1> QED
  BY <1>1, CallsAlways, InitPlaces, NextPlaces, PTL DEF Spec, NoOvertaking, Respects
=============================================================================
