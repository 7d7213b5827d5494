------------------------ MODULE RepositoryCacheProofs ------------------------
(***************************************************************************)
(* What TLAPS proves of RepositoryCache for every number of processes,     *)
(* keys, entries and calls: two living processes never load one key at the *)
(* same time, whoever is killed with the lock and whoever takes it over;   *)
(* an entry is stale only if its load raced with the invalidation; and the *)
(* table is bounded, whatever evictions and invalidations run together.    *)
(***************************************************************************)
EXTENDS RepositoryCache, FiniteSetTheorems, FunctionTheorems, SequenceTheorems, TLAPS

-----------------------------------------------------------------------------
(* What the lock relies on.                                                  *)

\* The fields of a call that the lock depends on.
HasFields(c) == {"pc", "key", "at", "gone"} \subseteq DOMAIN c

ShapeOK ==
    /\ calls = [p \in Procs |-> calls[p]]
    /\ \A p \in Procs : HasFields(calls[p])
    /\ locks = [k \in Keys |-> locks[k]]
    /\ alive \subseteq Procs

\* p is inside get_or_load.
Reading(p) == Loading(p) \/ calls[p].pc \in {"lookup", "expire", "try", "owner", "steal"}

\* The lock of a key names the living process that loads it, a waiter takes the lock from
\* a dead process only, and who asks for the owner, or is idle, is not within the lock.
LockInv ==
    /\ ShapeOK
    /\ \A p \in Procs : Reading(p) => Key(p) \in Keys
    /\ \A p \in alive : Loading(p) => locks[Key(p)] = p
    /\ \A p \in Procs : calls[p].pc = "steal" => calls[p].gone \notin alive
    /\ \A p \in Procs : calls[p].pc \in {"owner", "idle"} => calls[p].at # "recheck"

\* Processes other than p stay where they are, as far as the lock is concerned.
OthersStay(p) ==
    \A q \in Procs \ {p} :
        /\ calls'[q].pc = calls[q].pc
        /\ calls'[q].key = calls[q].key
        /\ calls'[q].at = calls[q].at
        /\ calls'[q].gone = calls[q].gone
        /\ HasFields(calls'[q])

\* A step that touches no lock, and does not enter one.
LEMMA Moves ==
  ASSUME LockInv, NEW p \in Procs,
         locks' = locks, alive' = alive,
         calls' = [q \in Procs |-> calls'[q]],
         HasFields(calls'[p]), OthersStay(p),
         Reading(p)' => calls'[p].key \in Keys,
         Loading(p)' => Loading(p) /\ calls'[p].key = calls[p].key,
         calls'[p].pc = "steal" => calls'[p].gone \notin alive,
         calls'[p].pc \in {"owner", "idle"} => calls'[p].at # "recheck"
  PROVE  LockInv'
<1>1. ShapeOK'
  BY DEF LockInv, ShapeOK, OthersStay
<1>2. \A q \in Procs \ {p} : /\ Loading(q)' <=> Loading(q)
                             /\ Reading(q)' <=> Reading(q)
                             /\ Key(q)' = Key(q)
  BY DEF OthersStay, Loading, Reading, Key
<1>3. \A q \in Procs : Reading(q)' => Key(q)' \in Keys
  BY <1>2 DEF LockInv, Key
<1>4. \A q \in alive' : Loading(q)' => locks'[Key(q)'] = q
  BY <1>2 DEF LockInv, ShapeOK, Key
<1>5. \A q \in Procs : calls'[q].pc = "steal" => calls'[q].gone \notin alive'
  BY DEF LockInv, OthersStay
<1>6. \A q \in Procs : calls'[q].pc \in {"owner", "idle"} => calls'[q].at # "recheck"
  BY DEF LockInv, OthersStay
<1> QED
  BY <1>1, <1>3, <1>4, <1>5, <1>6 DEF LockInv

\* Nobody holds a lock at first.
LEMMA InitLock == Init => LockInv
BY DEF Init, Idle, LockInv, ShapeOK, HasFields, Reading, Loading, Key

\* A call that ends is outside get_or_load.
LEMMA Returns ==
  ASSUME LockInv, NEW p \in Procs, Return(p), locks' = locks, alive' = alive
  PROVE  LockInv'
<1> DEFINE c == [Idle EXCEPT !.made = calls[p].made + 1]
<1>1. c.pc = "idle" /\ c.at = "first" /\ HasFields(c)
  BY DEF Idle, HasFields
<1>2. calls' = [calls EXCEPT ![p] = c]
  BY DEF Return
<1> HIDE DEF c
<1>3. calls' = [q \in Procs |-> calls'[q]] /\ calls'[p] = c /\ OthersStay(p)
  BY <1>2 DEF LockInv, ShapeOK, OthersStay
<1>4. ~Reading(p)' /\ ~Loading(p)' /\ calls'[p].pc \notin {"steal", "owner"}
      /\ calls'[p].at # "recheck"
  BY <1>1, <1>3 DEF Reading, Loading
<1> QED
  BY <1>1, <1>3, <1>4, Moves

\* A call that goes on at another place outside the lock, or stays inside it.
LEMMA GoesTo ==
  ASSUME LockInv, NEW p \in Procs, NEW pc, GoTo(p, pc), locks' = locks, alive' = alive,
         Reading(p), pc # "steal",
         pc \in {"owner", "idle"} => calls[p].at # "recheck",
         pc \in {"load", "put", "count", "select", "evict", "release"} => Loading(p),
         pc \in {"lookup", "expire"} /\ calls[p].at = "recheck" => Loading(p)
  PROVE  LockInv'
<1>1. /\ calls' = [q \in Procs |-> calls'[q]] /\ OthersStay(p) /\ HasFields(calls'[p])
      /\ calls'[p].pc = pc /\ calls'[p].key = calls[p].key /\ calls'[p].at = calls[p].at
  BY DEF GoTo, LockInv, ShapeOK, OthersStay, HasFields
<1>2. Loading(p)' => Loading(p)
  BY <1>1 DEF Loading
<1>3. calls'[p].key \in Keys
  BY <1>1 DEF LockInv, Key
<1> QED
  BY <1>1, <1>2, <1>3, Moves

\* A call that goes on inside the lock.
LEMMA Proceeds ==
  ASSUME LockInv, NEW p \in Procs, Loading(p), locks' = locks, alive' = alive,
         calls' = [q \in Procs |-> calls'[q]], OthersStay(p), HasFields(calls'[p]),
         calls'[p].pc \in {"put", "count", "select", "evict", "release"},
         calls'[p].key = calls[p].key
  PROVE  LockInv'
<1>1. calls[p].key \in Keys
  BY DEF LockInv, Reading, Key
<1> QED
  BY <1>1, Moves

\* A step of get_or_load between taking the lock and giving it back, or outside it.
LEMMA MoveSteps ==
  ASSUME LockInv, NEW p \in Procs,
         \/ Hit(p) \/ FindNothing(p) \/ FindExpired(p) \/ DeleteExpired(p)
         \/ LookAtOwner(p) \/ Load(p) \/ LoadFails(p)
         \/ Put(p) \/ EvictCount(p) \/ EvictSelect(p) \/ EvictOne(p)
  PROVE  LockInv'
<1>1. CASE Hit(p)
  BY <1>1, Returns, GoesTo DEF Hit, At, Reading, Loading
<1>2. CASE FindNothing(p)
  BY <1>2, Returns, GoesTo DEF FindNothing, Miss, At, Reading, Loading
<1>3. CASE FindExpired(p)
  BY <1>3, GoesTo DEF FindExpired, At, Reading, Loading
<1>4. CASE DeleteExpired(p)
  BY <1>4, Returns, GoesTo DEF DeleteExpired, Miss, At, Reading, Loading
<1>5. CASE LookAtOwner(p)
  <2>1. Reading(p) /\ calls[p].at # "recheck" /\ calls[p].pc = "owner"
    BY <1>5 DEF LookAtOwner, At, Reading, LockInv
  <2>2. CASE GoTo(p, "try") \/ GoTo(p, "lookup")
    BY <1>5, <2>1, <2>2, GoesTo DEF LookAtOwner
  <2>3. ASSUME NEW owner, owner \notin alive,
               calls' = [calls EXCEPT ![p].pc = "steal", ![p].gone = owner]
        PROVE  LockInv'
    <3>1. /\ calls' = [q \in Procs |-> calls'[q]] /\ OthersStay(p) /\ HasFields(calls'[p])
          /\ calls'[p].pc = "steal" /\ calls'[p].key = calls[p].key
          /\ calls'[p].gone = owner
      BY <2>3 DEF LockInv, ShapeOK, OthersStay, HasFields
    <3>2. calls[p].key \in Keys
      BY <2>1 DEF LockInv, Key
    <3>3. ~Loading(p)'
      BY <3>1 DEF Loading
    <3>4. locks' = locks /\ alive' = alive
      BY <1>5 DEF LookAtOwner
    <3> QED
      BY <2>3, <3>1, <3>2, <3>3, <3>4, Moves
  <2> DEFINE owner == locks[Key(p)]
  <2>4. CASE owner \in alive \/ owner = NoProc
    BY <1>5, <2>2, <2>4 DEF LookAtOwner
  <2>5. CASE ~(owner \in alive \/ owner = NoProc)
    <3>1. calls' = [calls EXCEPT ![p].pc = "steal", ![p].gone = owner]
      BY <1>5, <2>5 DEF LookAtOwner
    <3> QED
      BY <2>3, <2>5, <3>1
  <2> QED
    BY <2>4, <2>5
<1>6. CASE Load(p)
  <2>1. Loading(p) /\ locks' = locks /\ alive' = alive
    BY <1>6 DEF Load, At, Loading
  <2>2. /\ calls' = [q \in Procs |-> calls'[q]] /\ OthersStay(p) /\ HasFields(calls'[p])
        /\ calls'[p].pc \in {"put", "count", "select", "evict", "release"}
        /\ calls'[p].key = calls[p].key
    BY <1>6 DEF Load, LockInv, ShapeOK, OthersStay, HasFields
  <2> QED
    BY <2>1, <2>2, Proceeds
<1>7. CASE LoadFails(p)
  <2>1. Loading(p) /\ locks' = locks /\ alive' = alive
    BY <1>7 DEF LoadFails, At, Loading
  <2>2. /\ calls' = [q \in Procs |-> calls'[q]] /\ OthersStay(p) /\ HasFields(calls'[p])
        /\ calls'[p].pc \in {"put", "count", "select", "evict", "release"}
        /\ calls'[p].key = calls[p].key
    BY <1>7 DEF LoadFails, LockInv, ShapeOK, OthersStay, HasFields, GoTo
  <2> QED
    BY <2>1, <2>2, Proceeds
<1>8. CASE Put(p)
  <2>1. Loading(p) /\ locks' = locks /\ alive' = alive
    BY <1>8 DEF Put, At, Loading
  <2>2. /\ calls' = [q \in Procs |-> calls'[q]] /\ OthersStay(p) /\ HasFields(calls'[p])
        /\ calls'[p].pc \in {"put", "count", "select", "evict", "release"}
        /\ calls'[p].key = calls[p].key
    BY <1>8 DEF Put, LockInv, ShapeOK, OthersStay, HasFields
  <2> QED
    BY <2>1, <2>2, Proceeds
<1>9. CASE EvictCount(p)
  <2>1. Loading(p) /\ locks' = locks /\ alive' = alive
    BY <1>9 DEF EvictCount, At, Loading
  <2>2. /\ calls' = [q \in Procs |-> calls'[q]] /\ OthersStay(p) /\ HasFields(calls'[p])
        /\ calls'[p].pc \in {"put", "count", "select", "evict", "release"}
        /\ calls'[p].key = calls[p].key
    BY <1>9 DEF EvictCount, LockInv, ShapeOK, OthersStay, HasFields, GoTo
  <2> QED
    BY <2>1, <2>2, Proceeds
<1>10. CASE EvictSelect(p)
  <2> DEFINE victims == Oldest(calls[p].excess)
             pc == IF victims = <<>> THEN "release" ELSE "evict"
  <2>1. calls' = [calls EXCEPT ![p].pc = pc, ![p].victims = victims, ![p].excess = 0]
    BY <1>10 DEF EvictSelect
  <2>2. pc \in {"release", "evict"}
    OBVIOUS
  <2> HIDE DEF victims, pc
  <2>3. /\ calls' = [q \in Procs |-> calls'[q]] /\ OthersStay(p) /\ HasFields(calls'[p])
        /\ calls'[p].pc = pc /\ calls'[p].key = calls[p].key
    BY <2>1 DEF LockInv, ShapeOK, OthersStay, HasFields
  <2>4. Loading(p) /\ locks' = locks /\ alive' = alive
    BY <1>10 DEF EvictSelect, At, Loading
  <2> QED
    BY <2>2, <2>3, <2>4, Proceeds
<1>11. CASE EvictOne(p)
  <2> DEFINE rest == Tail(calls[p].victims)
             pc == IF Len(calls[p].victims) = 1 THEN "release" ELSE "evict"
  <2>1. calls' = [calls EXCEPT ![p].victims = rest, ![p].pc = pc]
    BY <1>11 DEF EvictOne
  <2>2. pc \in {"release", "evict"}
    OBVIOUS
  <2> HIDE DEF rest, pc
  <2>3. /\ calls' = [q \in Procs |-> calls'[q]] /\ OthersStay(p) /\ HasFields(calls'[p])
        /\ calls'[p].pc = pc /\ calls'[p].key = calls[p].key
    BY <2>1 DEF LockInv, ShapeOK, OthersStay, HasFields
  <2>4. Loading(p) /\ locks' = locks /\ alive' = alive
    BY <1>11 DEF EvictOne, At, Loading
  <2> QED
    BY <2>2, <2>3, <2>4, Proceeds
<1> QED
  BY <1>1, <1>2, <1>3, <1>4, <1>5, <1>6, <1>7, <1>8, <1>9, <1>10, <1>11

\* insert_new takes a lock that nobody holds.
LEMMA TryStep ==
  ASSUME LockInv, NEW p \in Procs, TryLock(p)
  PROVE  LockInv'
<1>1. Key(p) \in Keys /\ calls[p].pc = "try" /\ alive' = alive /\ p \in alive
  BY DEF TryLock, LockInv, Reading, At
<1>2. /\ calls' = [q \in Procs |-> calls'[q]] /\ OthersStay(p) /\ HasFields(calls'[p])
      /\ calls'[p].pc = "lookup" /\ calls'[p].key = Key(p)
      /\ calls'[p].at \in {"recheck", "await"}
      /\ calls'[p].at = "recheck" =>
           locks[Key(p)] = NoProc /\ locks' = [locks EXCEPT ![Key(p)] = p]
      /\ calls'[p].at = "await" => locks' = locks
  <2>1. CASE locks[Key(p)] = NoProc
    <3>1. /\ calls' = [calls EXCEPT ![p].pc = "lookup", ![p].at = "recheck"]
          /\ locks' = [locks EXCEPT ![Key(p)] = p]
      BY <2>1 DEF TryLock
    <3> QED
      BY <2>1, <3>1 DEF LockInv, ShapeOK, OthersStay, HasFields, Key
  <2>2. CASE locks[Key(p)] # NoProc
    <3>1. /\ calls' = [calls EXCEPT ![p].pc = "lookup", ![p].at = "await", ![p].late = FALSE]
          /\ locks' = locks
      BY <2>2 DEF TryLock
    <3> QED
      BY <3>1 DEF LockInv, ShapeOK, OthersStay, HasFields, Key
  <2> QED
    BY <2>1, <2>2
<1>3. CASE calls'[p].at = "await"
  BY <1>1, <1>2, <1>3, Moves DEF Loading
<1>4. CASE calls'[p].at = "recheck"
  <2>1. locks[Key(p)] = NoProc /\ locks' = [locks EXCEPT ![Key(p)] = p]
    BY <1>2, <1>4
  <2>2. \A q \in Procs \ {p} : /\ Loading(q)' <=> Loading(q)
                               /\ Reading(q)' <=> Reading(q)
                               /\ Key(q)' = Key(q)
    BY <1>2 DEF OthersStay, Loading, Reading, Key
  <2>3. ShapeOK'
    BY <1>1, <1>2, <2>1 DEF LockInv, ShapeOK, OthersStay
  <2>4. \A q \in Procs : Reading(q)' => Key(q)' \in Keys
    BY <1>1, <1>2, <2>2 DEF LockInv, Key
  <2>5. \A q \in alive' : Loading(q)' => locks'[Key(q)'] = q
    <3> SUFFICES ASSUME NEW q \in alive, Loading(q)' PROVE locks'[Key(q)'] = q
      BY <1>1
    <3>1. CASE q = p
      BY <1>1, <1>2, <2>1, <3>1 DEF Key, LockInv, ShapeOK
    <3>2. CASE q # p
      <4>1. q \in Procs /\ Loading(q) /\ Key(q)' = Key(q) /\ locks[Key(q)] = q
        BY <2>2, <3>2 DEF LockInv, ShapeOK
      <4>2. q # NoProc /\ Key(q) # Key(p)
        BY <2>1, <4>1, CacheConstants
      <4>3. Key(q) \in Keys
        BY <4>1 DEF LockInv, Reading
      <4> QED
        BY <1>1, <2>1, <4>1, <4>2, <4>3 DEF LockInv, ShapeOK
    <3> QED
      BY <3>1, <3>2
  <2>6. \A q \in Procs : calls'[q].pc = "steal" => calls'[q].gone \notin alive'
    BY <1>1, <1>2 DEF LockInv, OthersStay
  <2>7. \A q \in Procs : calls'[q].pc \in {"owner", "idle"} => calls'[q].at # "recheck"
    BY <1>2 DEF LockInv, OthersStay
  <2> QED
    BY <2>3, <2>4, <2>5, <2>6, <2>7 DEF LockInv
<1> QED
  BY <1>2, <1>3, <1>4

\* A process that is outside the lock clears the lock of key k, if a dead process or
\* itself is named in it.
LEMMA ClearStep ==
  ASSUME LockInv, NEW p \in Procs, NEW k \in Keys,
         locks[k] \notin alive \/ locks[k] = p,
         locks' = [locks EXCEPT ![k] = NoProc], alive' = alive,
         calls' = [q \in Procs |-> calls'[q]],
         HasFields(calls'[p]), OthersStay(p),
         Reading(p)' => calls'[p].key \in Keys,
         ~Loading(p)', calls'[p].pc \notin {"steal", "owner"},
         calls'[p].pc = "idle" => calls'[p].at # "recheck"
  PROVE  LockInv'
<1>1. \A q \in Procs \ {p} : /\ Loading(q)' <=> Loading(q)
                             /\ Reading(q)' <=> Reading(q)
                             /\ Key(q)' = Key(q)
  BY DEF OthersStay, Loading, Reading, Key
<1>2. ShapeOK'
  BY DEF LockInv, ShapeOK, OthersStay
<1>3. \A q \in Procs : Reading(q)' => Key(q)' \in Keys
  BY <1>1 DEF LockInv, Key
<1>4. \A q \in alive' : Loading(q)' => locks'[Key(q)'] = q
  <2> SUFFICES ASSUME NEW q \in alive, Loading(q)' PROVE locks'[Key(q)'] = q
    OBVIOUS
  <2>1. q \in Procs /\ q # p
    BY DEF LockInv, ShapeOK
  <2>2. Loading(q) /\ Key(q)' = Key(q) /\ locks[Key(q)] = q /\ Key(q) \in Keys
    BY <1>1, <2>1 DEF LockInv, Reading
  <2>3. Key(q) # k
    BY <2>1, <2>2
  <2> QED
    BY <2>2, <2>3 DEF LockInv, ShapeOK
<1>5. \A q \in Procs : calls'[q].pc = "steal" => calls'[q].gone \notin alive'
  BY DEF LockInv, OthersStay
<1>6. \A q \in Procs : calls'[q].pc \in {"owner", "idle"} => calls'[q].at # "recheck"
  BY DEF LockInv, OthersStay
<1> QED
  BY <1>2, <1>3, <1>4, <1>5, <1>6 DEF LockInv

\* delete_object takes a lock from a dead process or from nobody.
LEMMA StealStep ==
  ASSUME LockInv, NEW p \in Procs, Steal(p)
  PROVE  LockInv'
<1>1. Key(p) \in Keys /\ calls[p].gone \notin alive /\ alive' = alive
  BY DEF Steal, LockInv, Reading, At
<1>2. /\ calls' = [q \in Procs |-> calls'[q]] /\ OthersStay(p) /\ HasFields(calls'[p])
      /\ calls'[p].pc = "try" /\ calls'[p].key = Key(p)
  BY DEF Steal, LockInv, ShapeOK, OthersStay, HasFields, Key
<1>3. ~Loading(p)'
  BY <1>2 DEF Loading
<1>4. CASE locks[Key(p)] = calls[p].gone
  <2>1. locks' = [locks EXCEPT ![Key(p)] = NoProc]
    BY <1>4 DEF Steal
  <2> QED
    BY <1>1, <1>2, <1>3, <1>4, <2>1, ClearStep
<1>5. CASE locks[Key(p)] # calls[p].gone
  <2>1. locks' = locks
    BY <1>1, <1>5 DEF Steal, LockInv, ShapeOK
  <2> QED
    BY <1>1, <1>2, <1>3, <2>1, Moves
<1> QED
  BY <1>4, <1>5

\* The after of load_once deletes the lock of its own process.
LEMMA ReleaseStep ==
  ASSUME LockInv, NEW p \in Procs, Release(p)
  PROVE  LockInv'
<1> DEFINE c == [Idle EXCEPT !.made = calls[p].made + 1]
<1>1. c.pc = "idle" /\ c.at = "first" /\ HasFields(c)
  BY DEF Idle, HasFields
<1>2. calls' = [calls EXCEPT ![p] = c]
  BY DEF Release, Return
<1> HIDE DEF c
<1>3. calls' = [q \in Procs |-> calls'[q]] /\ calls'[p] = c /\ OthersStay(p)
  BY <1>2 DEF LockInv, ShapeOK, OthersStay
<1>4. ~Reading(p)' /\ ~Loading(p)' /\ calls'[p].pc \notin {"steal", "owner"}
      /\ calls'[p].at # "recheck"
  BY <1>1, <1>3 DEF Reading, Loading
<1>5. Loading(p) /\ p \in alive
  BY DEF Release, At, Loading
<1>6. Key(p) \in Keys /\ locks[Key(p)] = p
  BY <1>5 DEF LockInv, Reading
<1>7. locks' = [locks EXCEPT ![Key(p)] = NoProc] /\ alive' = alive
  BY DEF Release
<1> QED
  BY <1>1, <1>3, <1>4, <1>6, <1>7, ClearStep

\* An invalidation touches no call of get_or_load but its history.
LEMMA SeenStep ==
  ASSUME LockInv, NEW p \in Procs, NEW c, Seen(p, c), HasFields(c),
         c.pc \in {"idle", "delete"}, c.pc = "idle" => c.at # "recheck", locks' = locks, alive' = alive
  PROVE  LockInv'
<1>1. calls' = [q \in Procs |-> calls'[q]] /\ calls'[p] = c
  BY DEF Seen
<1>2. OthersStay(p)
  BY DEF Seen, OthersStay, LockInv, ShapeOK, HasFields
<1>3. ~Reading(p)' /\ ~Loading(p)'
  BY <1>1 DEF Reading, Loading
<1> QED
  BY <1>1, <1>2, <1>3, Moves

\* The steps of writers.
LEMMA InvalidateStep ==
  ASSUME LockInv, NEW p \in Procs, Invalidate(p)
  PROVE  LockInv'
<1>1. Done(p).pc = "idle" /\ Done(p).at = "first" /\ HasFields(Done(p))
  BY DEF Done, Idle, HasFields
<1>2. CASE ListKeys(p)
  <2> DEFINE c == [calls[p] EXCEPT !.pc = "delete", !.victims = Listed]
  <2>1. c.pc = "delete" /\ HasFields(c)
    BY DEF LockInv, ShapeOK, HasFields
  <2>2. Seen(p, Done(p)) \/ Seen(p, c)
    BY <1>2 DEF ListKeys
  <2> HIDE DEF c
  <2> QED
    BY <1>1, <1>2, <2>1, <2>2, SeenStep DEF ListKeys
<1>3. CASE Reset(p)
  BY <1>1, <1>3, SeenStep DEF Reset
<1>4. CASE DeleteListed(p)
  <2>1. locks' = locks /\ alive' = alive /\ calls[p].pc = "delete"
    BY <1>4 DEF DeleteListed, At
  <2>2. CASE Return(p)
    BY <2>1, <2>2, Returns
  <2>3. CASE calls' = [calls EXCEPT ![p].victims = Tail(calls[p].victims)]
    <3>1. /\ calls' = [q \in Procs |-> calls'[q]] /\ OthersStay(p)
          /\ HasFields(calls'[p]) /\ calls'[p].pc = "delete"
      BY <2>1, <2>3 DEF LockInv, ShapeOK, OthersStay, HasFields
    <3>2. ~Reading(p)' /\ ~Loading(p)'
      BY <3>1 DEF Reading, Loading
    <3> QED
      BY <2>1, <3>1, <3>2, Moves
  <2>4. CASE Len(calls[p].victims) = 1
    BY <1>4, <2>2, <2>4 DEF DeleteListed
  <2>5. CASE Len(calls[p].victims) # 1
    BY <1>4, <2>3, <2>5 DEF DeleteListed
  <2> QED
    BY <2>4, <2>5
<1> QED
  BY <1>2, <1>3, <1>4 DEF Invalidate

\* Every step keeps the lock.
LEMMA NextLock == LockInv /\ [Next]_vars => LockInv'
<1> SUFFICES ASSUME LockInv, [Next]_vars PROVE LockInv'
  OBVIOUS
<1>1. ASSUME NEW p \in Procs, NEW k \in Keys, Get(p, k)
      PROVE  LockInv'
  <2>1. /\ calls' = [q \in Procs |-> calls'[q]] /\ OthersStay(p) /\ HasFields(calls'[p])
        /\ calls'[p].pc = "lookup" /\ calls'[p].key = k /\ calls'[p].at = calls[p].at
        /\ calls[p].pc = "idle" /\ locks' = locks /\ alive' = alive
    BY <1>1 DEF Get, At, LockInv, ShapeOK, OthersStay, HasFields
  <2> QED
    BY <2>1, Moves DEF Loading, LockInv
<1>2. ASSUME NEW p \in Procs, Change(p)
      PROVE  LockInv'
  <2>1. /\ calls' = [q \in Procs |-> calls'[q]] /\ OthersStay(p) /\ HasFields(calls'[p])
        /\ calls'[p].pc = "list" /\ locks' = locks /\ alive' = alive
    BY <1>2 DEF Change, LockInv, ShapeOK, OthersStay, HasFields
  <2> QED
    BY <2>1, Moves DEF Loading, Reading
<1>3. ASSUME NEW p \in Procs, Step(p)
      PROVE  LockInv'
  BY <1>3, MoveSteps, TryStep, StealStep, ReleaseStep DEF Step
<1>4. ASSUME NEW p \in Procs, Invalidate(p)
      PROVE  LockInv'
  BY <1>4, InvalidateStep
<1>5. ASSUME NEW p \in Procs, Deadline(p)
      PROVE  LockInv'
  <2>1. /\ calls' = [q \in Procs |-> calls'[q]] /\ OthersStay(p) /\ HasFields(calls'[p])
        /\ calls'[p].pc = "lookup" /\ calls'[p].key = calls[p].key
        /\ calls'[p].at = calls[p].at /\ calls[p].at = "await"
        /\ calls[p].pc = "lookup" /\ locks' = locks /\ alive' = alive
    BY <1>5 DEF Deadline, At, LockInv, ShapeOK, OthersStay, HasFields
  <2>2. ~Loading(p)' /\ calls[p].key \in Keys
    BY <2>1 DEF Loading, Reading, LockInv, Key
  <2> QED
    BY <2>1, <2>2, Moves
<1>6. ASSUME NEW p \in Procs, Killed(p)
      PROVE  LockInv'
  BY <1>6 DEF Killed, LockInv, ShapeOK, Reading, Loading, Key
<1>7. CASE Expire
  BY <1>7 DEF Expire, LockInv, ShapeOK, Reading, Loading, Key
<1>8. CASE UNCHANGED vars
  BY <1>8 DEF vars, LockInv, ShapeOK, Reading, Loading, Key
<1> QED
  BY <1>1, <1>2, <1>3, <1>4, <1>5, <1>6, <1>7, <1>8, Zenon DEF Next

\* One load of a key at a time: for every number of processes and keys, whichever of them
\* are killed and whenever (load_once, await_load).
THEOREM OneLoadAtATime == Spec => []SingleFlight
<1>1. LockInv => SingleFlight
  BY DEF LockInv, ShapeOK, SingleFlight
<1> QED
  BY <1>1, InitLock, NextLock, PTL DEF Spec

-----------------------------------------------------------------------------
(***************************************************************************)
(* The rows of the table.                                                  *)
(***************************************************************************)

\* A table of type set.
Unique(t) == \A i, j \in DOMAIN t : t[i].key = t[j].key => i = j

\* Each row of w is a row of t, in the order of t, and none is of k.
Stem(w, t, k, from) ==
    /\ from \in [DOMAIN w -> DOMAIN t]
    /\ \A n \in DOMAIN w : n <= from[n] /\ w[n] = t[from[n]] /\ w[n].key # k
    /\ \A m, n \in DOMAIN w : from[m] = from[n] => m = n

\* A table without the rows of k.
LEMMA WithoutIs ==
  ASSUME NEW t \in Seq(Entries), Unique(t), NEW k
  PROVE  /\ Without(t, k) \in Seq(Entries)
         /\ \E from : Stem(Without(t, k), t, k, from)
<1> DEFINE w == Without(t, k)
<1>1. Len(t) \in Nat /\ DOMAIN t = 1 .. Len(t)
  BY LenProperties
<1>2. CASE \E i \in DOMAIN t : t[i].key = k
  <2> DEFINE i == CHOOSE i \in DOMAIN t : t[i].key = k
             a == SubSeq(t, 1, i - 1)
             b == SubSeq(t, i + 1, Len(t))
             from == [n \in DOMAIN w |-> IF n < i THEN n ELSE n + 1]
  <2>1. i \in 1 .. Len(t) /\ t[i].key = k
    BY <1>1, <1>2
  <2>2. w = a \o b
    BY <1>2 DEF Without
  <2> HIDE DEF i, w
  <2>3. a \in Seq(Entries) /\ Len(a) = i - 1 /\ \A n \in 1 .. i - 1 : a[n] = t[n]
    BY <1>1, <2>1, SubSeqProperties
  <2>4. b \in Seq(Entries) /\ Len(b) = Len(t) - i /\ \A n \in 1 .. Len(t) - i : b[n] = t[i + n]
    <3> DEFINE l == Len(t)
    <3>1. l \in Nat /\ i \in 1 .. l /\ t \in Seq(Entries)
      BY <1>1, <2>1
    <3>2. i + 1 \in 1 .. l + 1 /\ l \in i .. l
      BY <3>1
    <3>3. /\ b \in Seq(Entries)
          /\ Len(b) = IF i + 1 <= l THEN l - (i + 1) + 1 ELSE 0
          /\ \A n \in 1 .. l - (i + 1) + 1 : b[n] = t[i + 1 + n - 1]
      BY <3>2, SubSeqProperties
    <3> HIDE DEF l
    <3>4. \A n \in 1 .. l - i : i + 1 + n - 1 = i + n
      BY <3>1
    <3>5. l - (i + 1) + 1 = l - i /\ (~(i + 1 <= l) => l - i = 0)
      BY <3>1
    <3> QED
      BY <3>3, <3>4, <3>5 DEF l
  <2> HIDE DEF a, b
  <2>5. /\ w \in Seq(Entries) /\ Len(w) = Len(a) + Len(b)
        /\ \A n \in 1 .. Len(a) + Len(b) : w[n] = IF n <= Len(a) THEN a[n] ELSE b[n - Len(a)]
    <3>1. a \in Seq(Entries) /\ b \in Seq(Entries)
      BY <2>3, <2>4
    <3>2. /\ a \o b \in Seq(Entries) /\ Len(a \o b) = Len(a) + Len(b)
          /\ \A n \in 1 .. Len(a) + Len(b) :
               (a \o b)[n] = IF n <= Len(a) THEN a[n] ELSE b[n - Len(a)]
      BY <3>1, ConcatProperties
    <3> QED
      BY <2>2, <3>2
  <2>6. Len(w) = Len(t) - 1 /\ DOMAIN w = 1 .. Len(w)
    BY <1>1, <2>1, <2>3, <2>4, <2>5, LenProperties
  <2>7. ASSUME NEW n \in DOMAIN w
        PROVE  /\ from[n] \in DOMAIN t /\ from[n] # i /\ n <= from[n]
               /\ w[n] = t[from[n]]
    <3>1. CASE n < i
      BY <1>1, <2>1, <2>3, <2>4, <2>5, <2>6, <3>1
    <3>2. CASE ~(n < i)
      <4>1. n - Len(a) \in 1 .. Len(t) - i /\ i + (n - Len(a)) = n + 1 /\ ~(n <= Len(a))
        BY <1>1, <2>1, <2>3, <2>6, <3>2
      <4>2. w[n] = t[n + 1]
        BY <2>4, <2>5, <2>6, <4>1
      <4> QED
        BY <1>1, <2>1, <2>6, <3>2, <4>2
    <3> QED
      BY <3>1, <3>2
  <2>8. \A n \in DOMAIN w : w[n].key # k
    BY <1>1, <2>1, <2>7 DEF Unique
  <2>9. \A m, n \in DOMAIN w : from[m] = from[n] => m = n
    BY <2>1, <2>6
  <2>10. Stem(w, t, k, from)
    BY <2>7, <2>8, <2>9 DEF Stem
  <2> QED
    BY <2>5, <2>10 DEF w
<1>3. CASE ~ \E i \in DOMAIN t : t[i].key = k
  <2>1. w = t
    BY <1>3 DEF Without
  <2>2. Stem(w, t, k, [n \in DOMAIN t |-> n])
    BY <1>1, <1>3, <2>1 DEF Stem
  <2> QED
    BY <2>1, <2>2
<1> QED
  BY <1>2, <1>3

\* It is still a table of type set, and holds rows of before.
LEMMA WithoutRows ==
  ASSUME NEW t \in Seq(Entries), Unique(t), NEW k
  PROVE  /\ Without(t, k) \in Seq(Entries) /\ Unique(Without(t, k))
         /\ \A n \in DOMAIN Without(t, k) :
              /\ Without(t, k)[n].key # k
              /\ \E m \in DOMAIN t : Without(t, k)[n] = t[m]
<1> DEFINE w == Without(t, k)
<1>1. PICK from : Stem(w, t, k, from)
  BY WithoutIs
<1>2. w \in Seq(Entries)
  BY WithoutIs
<1> HIDE DEF w
<1>3. Unique(w)
  BY <1>1 DEF Unique, Stem
<1>4. \A n \in DOMAIN w : w[n].key # k /\ \E m \in DOMAIN t : w[n] = t[m]
  BY <1>1 DEF Stem
<1> QED
  BY <1>2, <1>3, <1>4 DEF w

\* A row put behind those of other keys.
LEMMA PutRows ==
  ASSUME NEW t \in Seq(Entries), Unique(t), NEW e \in Entries
  PROVE  LET w == Append(Without(t, e.key), e)
         IN  /\ w \in Seq(Entries) /\ Unique(w)
             /\ \A n \in DOMAIN w : w[n] = e \/ \E m \in DOMAIN t : w[n] = t[m]
<1> DEFINE u == Without(t, e.key)
           w == Append(u, e)
<1>1. /\ u \in Seq(Entries) /\ Unique(u)
      /\ \A n \in DOMAIN u : u[n].key # e.key /\ \E m \in DOMAIN t : u[n] = t[m]
  BY WithoutRows
<1> HIDE DEF u
<1>2. /\ w \in Seq(Entries) /\ Len(w) = Len(u) + 1 /\ DOMAIN w = 1 .. Len(u) + 1
      /\ w[Len(u) + 1] = e /\ \A n \in 1 .. Len(u) : w[n] = u[n]
      /\ Len(u) \in Nat /\ DOMAIN u = 1 .. Len(u)
  BY <1>1, AppendProperties, LenProperties
<1> HIDE DEF w
<1>3. DOMAIN w = DOMAIN u \cup {Len(u) + 1}
  BY <1>2
<1>4. Unique(w)
  BY <1>1, <1>2, <1>3 DEF Unique
<1> QED
  BY <1>1, <1>2, <1>3, <1>4 DEF w, u

-----------------------------------------------------------------------------
(* Types.                                                                    *)

CallType == [pc : Pcs, key : Keys \cup {NoProc}, at : {"first", "recheck", "await"},
             late : BOOLEAN, gone : Procs \cup {NoProc}, version : Nat, raced : BOOLEAN,
             excess : Nat, victims : Seq(Keys), made : Nat]

\* Whoever deletes has something to delete, and a key has one row.
TableInv ==
    /\ Unique(table)
    /\ \A p \in Procs : calls[p].pc \in {"evict", "delete"} => calls[p].victims # <<>>

\* A call that waits has the type of a call.
LEMMA DoneType ==
  ASSUME TypeOK, NEW p \in Procs
  PROVE  Done(p) \in CallType /\ Idle \in CallType
<1>1. Idle \in CallType
  <2>1. <<>> \in Seq(Keys)
    BY EmptySeq
  <2> QED
    BY <2>1 DEF Idle, CallType, Pcs
<1>2. calls[p] \in CallType
  BY DEF TypeOK, CallType
<1>3. calls[p].made \in Nat
  BY <1>2 DEF CallType
<1>4. [Idle EXCEPT !.made = calls[p].made + 1] \in CallType
  <2>1. calls[p].made + 1 \in Nat
    BY <1>3
  <2> DEFINE n == calls[p].made + 1
  <2> HIDE DEF n
  <2>2. n \in Nat => [Idle EXCEPT !.made = n] \in CallType
    BY <1>1 DEF CallType
  <2> QED
    BY <2>1, <2>2 DEF n
<1> QED
  BY <1>1, <1>4 DEF Done

\* The keys of the table are keys.
LEMMA TableKeysType ==
  ASSUME TypeOK
  PROVE  /\ TableKeys \in Seq(Keys) /\ Len(TableKeys) = Len(table) /\ Len(table) \in Nat
         /\ DOMAIN table = 1 .. Len(table) /\ DOMAIN TableKeys = 1 .. Len(table)
         /\ \A i \in DOMAIN table : TableKeys[i] = table[i].key /\ table[i] \in Entries
         /\ TableKeys = <<>> <=> table = <<>>
<1>1. table \in Seq(Entries)
  BY DEF TypeOK
<1>2. Len(table) \in Nat /\ DOMAIN table = 1 .. Len(table)
  BY <1>1, LenProperties
<1>3. \A i \in DOMAIN table : table[i] \in Entries
  BY <1>1, <1>2
<1>4. \A i \in DOMAIN table : table[i].key \in Keys
  BY <1>3 DEF Entries
<1>5. /\ DOMAIN TableKeys = 1 .. Len(table)
      /\ \A i \in DOMAIN table : TableKeys[i] = table[i].key
      /\ TableKeys = [i \in 1 .. Len(table) |-> table[i].key]
  BY <1>2 DEF TableKeys
<1>6. TableKeys \in Seq(Keys)
  <2> DEFINE ks == [i \in 1 .. Len(table) |-> table[i].key]
  <2>1. ks \in [1 .. Len(table) -> Keys]
    BY <1>2, <1>4
  <2>2. ks \in Seq(Keys)
    BY <1>2, <2>1, SeqDef
  <2> QED
    BY <1>5, <2>2
<1>7. Len(TableKeys) = Len(table)
  <2>1. Len(TableKeys) \in Nat /\ DOMAIN TableKeys = 1 .. Len(TableKeys)
    BY <1>6, LenProperties
  <2> QED
    BY <1>2, <1>5, <2>1
<1>8. TableKeys = <<>> <=> table = <<>>
  BY <1>1, <1>2, <1>6, <1>7, EmptySeq
<1> QED
  BY <1>2, <1>3, <1>5, <1>6, <1>7, <1>8

\* A call becomes another one.
LEMMA CallBecomes ==
  ASSUME TypeOK, TableInv, NEW p \in Procs, NEW c \in CallType, calls' = [calls EXCEPT ![p] = c],
         c.pc \in {"evict", "delete"} => c.victims # <<>>,
         table' \in Seq(Entries), Unique(table'), source' \in Nat, invalidated' \in Nat,
         locks' \in [Keys -> Procs \cup {NoProc}], alive' \subseteq Procs
  PROVE  TypeOK' /\ TableInv'
<1>1. calls \in [Procs -> CallType]
  BY DEF TypeOK, CallType
<1>2. calls' \in [Procs -> CallType]
  BY <1>1
<1>3. \A q \in Procs : calls'[q] = IF q = p THEN c ELSE calls[q]
  BY <1>1
<1>4. TypeOK'
  BY <1>2 DEF TypeOK, CallType, Entries, Pcs
<1> QED
  BY <1>3, <1>4 DEF TableInv

\* The keys of the oldest rows.
LEMMA OldestIs ==
  ASSUME TypeOK, NEW n \in Nat
  PROVE  /\ Oldest(n) \in Seq(Keys)
         /\ Oldest(n) = <<>> => n = 0 \/ table = <<>>
         /\ \A i \in DOMAIN table : i <= n => \E m \in DOMAIN Oldest(n) : Oldest(n)[m] = table[i].key
<1> DEFINE l == Len(table)
           m == IF n < l THEN n ELSE l
           v == SubSeq(TableKeys, 1, m)
<1>1. /\ TableKeys \in Seq(Keys) /\ l \in Nat /\ m \in 0 .. l /\ Len(TableKeys) = l
      /\ DOMAIN TableKeys = 1 .. l /\ DOMAIN table = 1 .. l /\ m \in Int
      /\ \A i \in 1 .. l : TableKeys[i] = table[i].key /\ TableKeys[i] \in Keys
      /\ table = <<>> <=> l = 0
  BY TableKeysType, EmptySeq DEF TypeOK
<1> HIDE DEF l
<1>2. Oldest(n) = v
  BY DEF Oldest, l
<1> HIDE DEF m
<1>3. \A i \in 1 .. m : TableKeys[i] \in Keys
  BY <1>1
<1>4. /\ v \in Seq(Keys) /\ Len(v) = IF 1 <= m THEN m - 1 + 1 ELSE 0
      /\ \A i \in 1 .. m - 1 + 1 : v[i] = TableKeys[1 + i - 1]
  BY <1>1, <1>3, SubSeqProperties
<1> HIDE DEF v
<1>5. Len(v) = m /\ DOMAIN v = 1 .. m /\ \A i \in 1 .. m : v[i] = TableKeys[i]
  <2>1. m - 1 + 1 = m /\ \A i \in 1 .. m : 1 + i - 1 = i
    BY <1>1
  <2> QED
    BY <1>1, <1>4, <2>1, LenProperties
<1>6. v = <<>> => n = 0 \/ l = 0
  BY <1>1, <1>4, <1>5, EmptySeq DEF m
<1>7. \A i \in 1 .. l : i <= n => i \in 1 .. m
  BY <1>1 DEF m
<1> QED
  BY <1>1, <1>2, <1>4, <1>5, <1>6, <1>7

\* A step of one call that does not write the table.
LEMMA QuietTypes ==
  ASSUME TypeOK, TableInv, LockInv, NEW p \in Procs,
         \/ Hit(p) \/ FindNothing(p) \/ FindExpired(p) \/ TryLock(p) \/ LookAtOwner(p) \/ Steal(p)
         \/ Load(p) \/ LoadFails(p) \/ EvictCount(p) \/ EvictSelect(p) \/ Release(p)
         \/ Deadline(p) \/ Change(p) \/ \E k \in Keys : Get(p, k)
  PROVE  TypeOK' /\ TableInv'
<1> DEFINE c == calls[p]
           Into(d) == /\ d \in CallType /\ calls' = [calls EXCEPT ![p] = d]
                      /\ d.pc \in {"evict", "delete"} => d.victims # <<>>
<1>1. /\ c \in CallType /\ calls \in [Procs -> CallType] /\ Done(p) \in CallType
      /\ DOMAIN calls = Procs
  BY DoneType DEF TypeOK, CallType
<1>2. table' = table /\ invalidated' = invalidated /\ alive' = alive
  BY DEF Hit, FindNothing, FindExpired, TryLock, LookAtOwner, Steal, Load, LoadFails, EvictCount,
         EvictSelect, Release, Deadline, Change, Get
<1>3. source' \in Nat
  BY DEF Hit, FindNothing, FindExpired, TryLock, LookAtOwner, Steal, Load, LoadFails, EvictCount,
         EvictSelect, Release, Deadline, Change, Get, TypeOK
<1>4. locks' \in [Keys -> Procs \cup {NoProc}]
  BY DEF Hit, FindNothing, FindExpired, TryLock, LookAtOwner, Steal, Load, LoadFails, EvictCount,
         EvictSelect, Release, Deadline, Change, Get, TypeOK
<1>5. ASSUME NEW d, Into(d)
      PROVE  TypeOK' /\ TableInv'
  BY <1>2, <1>3, <1>4, <1>5, CallBecomes DEF TypeOK, TableInv
<1>6. ASSUME NEW s \in Pcs \ {"evict", "delete"}, GoTo(p, s)
      PROVE  TypeOK' /\ TableInv'
  <2>1. Into([c EXCEPT !.pc = s])
    BY <1>1, <1>6 DEF GoTo, CallType
  <2> QED
    BY <1>5, <2>1
<1>7. ASSUME Return(p)
      PROVE  TypeOK' /\ TableInv'
  <2>1. Into(Done(p))
    BY <1>1, <1>7 DEF Return, Done, Idle
  <2> QED
    BY <1>5, <2>1
<1>8. ASSUME Miss(p)
      PROVE  TypeOK' /\ TableInv'
  BY <1>6, <1>7, <1>8 DEF Miss, Pcs
<1>9. CASE Hit(p) \/ FindNothing(p) \/ FindExpired(p) \/ LoadFails(p)
  BY <1>6, <1>7, <1>8, <1>9 DEF Hit, FindNothing, FindExpired, LoadFails, Pcs
<1>10. CASE LookAtOwner(p)
  <2> DEFINE o == locks[Key(p)]
             d == [c EXCEPT !.pc = "steal", !.gone = o]
  <2>1. CASE GoTo(p, "try") \/ GoTo(p, "lookup")
    BY <1>6, <2>1 DEF Pcs
  <2>2. CASE calls' = [calls EXCEPT ![p].pc = "steal", ![p].gone = o]
    <3>1. Key(p) \in Keys
      BY <1>10 DEF LookAtOwner, At, LockInv, Reading
    <3>2. o \in Procs \cup {NoProc}
      BY <3>1 DEF TypeOK
    <3> HIDE DEF o
    <3>3. Into(d)
      BY <1>1, <2>2, <3>2 DEF CallType, Pcs
    <3> QED
      BY <1>5, <3>3
  <2> QED
    BY <1>10, <2>1, <2>2 DEF LookAtOwner
<1>11. CASE Load(p)
  <2> DEFINE d == [c EXCEPT !.pc = "put", !.version = source]
  <2>1. Into(d)
    BY <1>1, <1>11 DEF Load, CallType, Pcs, TypeOK
  <2> QED
    BY <1>5, <2>1
<1>12. CASE EvictCount(p)
  <2> DEFINE d == [c EXCEPT !.pc = "select", !.excess = Len(table) - MaxEntries]
  <2>1. CASE Len(table) > MaxEntries
    <3>1. Len(table) - MaxEntries \in Nat
      BY <2>1, CacheConstants, TableKeysType
    <3>2. Into(d)
      BY <1>1, <1>12, <2>1, <3>1 DEF EvictCount, CallType, Pcs
    <3> QED
      BY <1>5, <3>2
  <2>2. CASE ~(Len(table) > MaxEntries)
    BY <1>6, <1>12, <2>2 DEF EvictCount, Pcs
  <2> QED
    BY <2>1, <2>2
<1>13. CASE EvictSelect(p)
  <2> DEFINE v == Oldest(c.excess)
             d == [c EXCEPT !.pc = IF v = <<>> THEN "release" ELSE "evict",
                            !.victims = v, !.excess = 0]
  <2>1. c.excess \in Nat
    BY <1>1 DEF CallType
  <2>2. v \in Seq(Keys)
    BY <2>1, OldestIs
  <2> HIDE DEF v
  <2>3. calls' = [calls EXCEPT ![p].pc = IF v = <<>> THEN "release" ELSE "evict",
                               ![p].victims = v, ![p].excess = 0]
    BY <1>13 DEF EvictSelect, v
  <2>4. Into(d)
    BY <1>1, <2>2, <2>3 DEF CallType, Pcs
  <2> QED
    BY <1>5, <2>4
<1>14. CASE Deadline(p)
  <2>1. Into([c EXCEPT !.late = TRUE])
    BY <1>1, <1>14 DEF Deadline, At, CallType
  <2> QED
    BY <1>5, <2>1
<1>15. CASE \E k \in Keys : Get(p, k)
  <2>1. PICK k \in Keys : Get(p, k)
    BY <1>15
  <2>2. Into([c EXCEPT !.pc = "lookup", !.key = k])
    BY <1>1, <2>1 DEF Get, CallType, Pcs
  <2> QED
    BY <1>5, <2>2
<1>16. CASE TryLock(p)
  <2>1. \/ Into([c EXCEPT !.pc = "lookup", !.at = "recheck"])
        \/ Into([c EXCEPT !.pc = "lookup", !.at = "await", !.late = FALSE])
    BY <1>1, <1>16 DEF TryLock, CallType, Pcs
  <2> QED
    BY <1>5, <2>1
<1>17. CASE Steal(p)
  <2>1. Into([c EXCEPT !.pc = "try", !.gone = NoProc])
    BY <1>1, <1>17 DEF Steal, CallType, Pcs
  <2> QED
    BY <1>5, <2>1
<1>18. CASE Release(p)
  BY <1>7, <1>18 DEF Release
<1>19. CASE Change(p)
  <2> DEFINE n == source + 1
  <2>1. n \in Nat
    BY DEF TypeOK
  <2>2. calls' = [calls EXCEPT ![p].pc = "list", ![p].version = n]
    BY <1>19 DEF Change
  <2> HIDE DEF n
  <2>3. Into([c EXCEPT !.pc = "list", !.version = n])
    BY <1>1, <2>1, <2>2 DEF CallType, Pcs
  <2> QED
    BY <1>5, <2>3
<1> QED
  BY <1>9, <1>10, <1>11, <1>12, <1>13, <1>14, <1>15, <1>16, <1>17, <1>18, <1>19

\* What is left of a list.
LEMMA TailIs ==
  ASSUME NEW s \in Seq(Keys), s # <<>>
  PROVE  /\ Head(s) \in Keys /\ Tail(s) \in Seq(Keys) /\ Len(s) \in Nat
         /\ Len(s) = 1 <=> Tail(s) = <<>>
         /\ \A n \in DOMAIN s : s[n] = Head(s) \/ \E m \in DOMAIN Tail(s) : Tail(s)[m] = s[n]
<1>1. /\ Len(s) \in Nat /\ Len(s) >= 1 /\ DOMAIN s = 1 .. Len(s)
      /\ Head(s) = s[1] /\ Head(s) \in Keys
      /\ Tail(s) \in Seq(Keys) /\ Len(Tail(s)) = Len(s) - 1
      /\ \A i \in 1 .. Len(s) - 1 : Tail(s)[i] = s[i + 1]
  BY HeadTailProperties, LenProperties, EmptySeq
<1>2. DOMAIN Tail(s) = 1 .. Len(s) - 1 /\ (Tail(s) = <<>> <=> Len(s) - 1 = 0)
  BY <1>1, LenProperties, EmptySeq
<1>3. ASSUME NEW n \in DOMAIN s, n # 1
      PROVE  \E m \in DOMAIN Tail(s) : Tail(s)[m] = s[n]
  <2>1. n - 1 \in DOMAIN Tail(s) /\ (n - 1) + 1 = n /\ n - 1 \in 1 .. Len(s) - 1
    BY <1>1, <1>2, <1>3
  <2> QED
    BY <1>1, <2>1
<1>4. Len(s) = 1 <=> Len(s) - 1 = 0
  BY <1>1
<1> QED
  BY <1>1, <1>2, <1>3, <1>4

\* A step of one call that writes the table.
LEMMA TableTypes ==
  ASSUME TypeOK, TableInv, LockInv, NEW p \in Procs,
         DeleteExpired(p) \/ Put(p) \/ EvictOne(p) \/ DeleteListed(p)
  PROVE  TypeOK' /\ TableInv'
<1> DEFINE c == calls[p]
           Into(d) == /\ d \in CallType /\ calls' = [calls EXCEPT ![p] = d]
                      /\ d.pc \in {"evict", "delete"} => d.victims # <<>>
<1>1. /\ c \in CallType /\ calls \in [Procs -> CallType] /\ Done(p) \in CallType
      /\ DOMAIN calls = Procs
  BY DoneType DEF TypeOK, CallType
<1>2. source' \in Nat /\ invalidated' \in Nat /\ alive' \subseteq Procs
      /\ locks' \in [Keys -> Procs \cup {NoProc}]
  <2>1. c.version \in Nat
    BY <1>1 DEF CallType
  <2> QED
    BY <2>1 DEF DeleteExpired, Put, EvictOne, DeleteListed, Invalidated, TypeOK
<1>3. table \in Seq(Entries) /\ Unique(table)
  BY DEF TypeOK, TableInv
<1>4. ASSUME NEW d, Into(d), table' \in Seq(Entries), Unique(table')
      PROVE  TypeOK' /\ TableInv'
  BY <1>2, <1>4, CallBecomes
<1>5. ASSUME Return(p), table' \in Seq(Entries), Unique(table')
      PROVE  TypeOK' /\ TableInv'
  <2>1. Into(Done(p))
    BY <1>1, <1>5 DEF Return, Done, Idle
  <2> QED
    BY <1>4, <1>5, <2>1
<1>6. CASE DeleteExpired(p)
  <2>1. table' \in Seq(Entries) /\ Unique(table')
    BY <1>3, <1>6, WithoutRows DEF DeleteExpired
  <2>2. ASSUME NEW s \in {"try", "load", "owner"}, GoTo(p, s)
        PROVE  TypeOK' /\ TableInv'
    <3>1. Into([c EXCEPT !.pc = s])
      BY <1>1, <2>2 DEF GoTo, CallType, Pcs
    <3> QED
      BY <1>4, <2>1, <3>1
  <2> QED
    BY <1>5, <1>6, <2>1, <2>2 DEF DeleteExpired, Miss
<1>7. CASE Put(p)
  <2> DEFINE e == [key |-> Key(p), version |-> c.version, expired |-> FALSE, raced |-> c.raced]
  <2>1. Key(p) \in Keys
    BY <1>7 DEF Put, At, LockInv, Reading, Loading
  <2>2. e \in Entries /\ e.key = Key(p)
    BY <1>1, <2>1 DEF CallType, Entries
  <2>3. table' = Append(Without(table, e.key), e)
    BY <1>7 DEF Put
  <2> HIDE DEF e
  <2>4. table' \in Seq(Entries) /\ Unique(table')
    BY <1>3, <2>2, <2>3, PutRows
  <2>5. Into([c EXCEPT !.pc = "count", !.version = 0, !.raced = FALSE])
    BY <1>1, <1>7 DEF Put, CallType, Pcs
  <2> QED
    BY <1>4, <2>4, <2>5
<1>8. ASSUME c.pc \in {"evict", "delete"}
      PROVE  /\ c.victims \in Seq(Keys) /\ Tail(c.victims) \in Seq(Keys)
             /\ Len(c.victims) # 1 => Tail(c.victims) # <<>>
  BY <1>1, <1>8, TailIs DEF CallType, TableInv
<1>9. CASE EvictOne(p)
  <2> DEFINE v == Tail(c.victims)
             s == IF Len(c.victims) = 1 THEN "release" ELSE "evict"
  <2>1. table' \in Seq(Entries) /\ Unique(table')
    BY <1>3, <1>9, WithoutRows DEF EvictOne
  <2>2. v \in Seq(Keys) /\ s \in {"release", "evict"} /\ (s = "evict" => v # <<>>)
    BY <1>8, <1>9 DEF EvictOne, At
  <2>3. calls' = [calls EXCEPT ![p].victims = v, ![p].pc = s]
    BY <1>9 DEF EvictOne
  <2> HIDE DEF v, s
  <2>4. Into([c EXCEPT !.victims = v, !.pc = s])
    BY <1>1, <2>2, <2>3 DEF CallType, Pcs
  <2> QED
    BY <1>4, <2>1, <2>4
<1>10. CASE DeleteListed(p)
  <2> DEFINE v == Tail(c.victims)
  <2>1. table' \in Seq(Entries) /\ Unique(table')
    BY <1>3, <1>10, WithoutRows DEF DeleteListed
  <2>2. CASE Len(c.victims) = 1
    BY <1>5, <1>10, <2>1, <2>2 DEF DeleteListed
  <2>3. CASE Len(c.victims) # 1
    <3>1. v \in Seq(Keys) /\ v # <<>> /\ calls' = [calls EXCEPT ![p].victims = v]
      BY <1>8, <1>10, <2>3 DEF DeleteListed, At
    <3> HIDE DEF v
    <3>2. Into([c EXCEPT !.victims = v])
      BY <1>1, <3>1 DEF CallType
    <3> QED
      BY <1>4, <2>1, <3>2
  <2> QED
    BY <2>2, <2>3
<1> QED
  BY <1>6, <1>7, <1>9, <1>10

\* The steps of a writer that has seen the table.
LEMMA SeenTypes ==
  ASSUME TypeOK, TableInv, NEW p \in Procs, ListKeys(p) \/ Reset(p)
  PROVE  TypeOK' /\ TableInv'
<1> DEFINE c == calls[p]
<1>1. /\ c \in CallType /\ calls \in [Procs -> CallType] /\ Done(p) \in CallType
      /\ Done(p).pc = "idle"
  BY DoneType DEF TypeOK, CallType, Done, Idle
<1>2. /\ source' \in Nat /\ invalidated' \in Nat /\ alive' \subseteq Procs
      /\ locks' \in [Keys -> Procs \cup {NoProc}]
  <2>1. c.version \in Nat
    BY <1>1 DEF CallType
  <2> QED
    BY <2>1 DEF ListKeys, Reset, Invalidated, TypeOK
<1>3. table' \in Seq(Entries) /\ Unique(table')
  <2>1. <<>> \in Seq(Entries) /\ Unique(<<>>)
    BY EmptySeq DEF Unique
  <2>2. table \in Seq(Entries) /\ Unique(table)
    BY DEF TypeOK, TableInv
  <2>3. table' = table \/ table' = <<>>
    BY DEF ListKeys, Reset
  <2> QED
    BY <2>1, <2>2, <2>3
<1>4. ASSUME NEW d \in CallType, Seen(p, d), d.pc \in {"evict", "delete"} => d.victims # <<>>
      PROVE  TypeOK' /\ TableInv'
  <2>1. \A q \in Procs : [calls[q] EXCEPT !.raced = TRUE] \in CallType
    BY <1>1 DEF CallType
  <2>2. calls' \in [Procs -> CallType]
    BY <1>1, <1>4, <2>1 DEF Seen
  <2>3. \A q \in Procs : calls'[q].pc \in {"evict", "delete"} => calls'[q].victims # <<>>
    BY <1>1, <1>4 DEF Seen, CallType, TableInv
  <2>4. TypeOK'
    BY <1>2, <1>3, <2>2 DEF TypeOK, CallType, Entries, Pcs
  <2> QED
    BY <1>3, <2>3, <2>4 DEF TableInv
<1>5. CASE Seen(p, Done(p))
  BY <1>1, <1>4, <1>5
<1>6. CASE ListKeys(p) /\ TableKeys # <<>>
  <2> DEFINE d == [c EXCEPT !.pc = "delete", !.victims = TableKeys]
  <2>1. TableKeys \in Seq(Keys)
    BY TableKeysType
  <2>2. Seen(p, d)
    BY <1>6 DEF ListKeys, Listed
  <2>3. d \in CallType /\ (d.pc \in {"evict", "delete"} => d.victims # <<>>)
    BY <1>1, <1>6, <2>1 DEF CallType, Pcs
  <2> QED
    BY <1>4, <2>2, <2>3
<1> QED
  BY <1>5, <1>6 DEF ListKeys, Reset, Listed

\* The types, and what they need of the lock.
TypedCache == TypeOK /\ TableInv /\ LockInv

\* They hold of an empty cache.
LEMMA InitTyped == Init => TypedCache
<1>1. Init => TypeOK
  <2>1. <<>> \in Seq(Entries) /\ <<>> \in Seq(Keys)
    BY EmptySeq
  <2> QED
    BY <2>1 DEF Init, TypeOK, Idle, Pcs
<1>2. Init => TableInv
  BY DEF Init, TableInv, Unique, Idle
<1> QED
  BY <1>1, <1>2, InitLock DEF TypedCache

\* Every step keeps them.
LEMMA NextTyped == TypedCache /\ [Next]_vars => TypedCache'
<1> SUFFICES ASSUME TypeOK, TableInv, LockInv, [Next]_vars
             PROVE  TypeOK' /\ TableInv'
  BY NextLock DEF TypedCache
<1>1. ASSUME NEW p \in Procs, Step(p)
      PROVE  TypeOK' /\ TableInv'
  BY <1>1, QuietTypes, TableTypes DEF Step
<1>2. ASSUME NEW p \in Procs, Invalidate(p)
      PROVE  TypeOK' /\ TableInv'
  BY <1>2, TableTypes, SeenTypes DEF Invalidate
<1>3. ASSUME NEW p \in Procs, Change(p) \/ Deadline(p) \/ \E k \in Keys : Get(p, k)
      PROVE  TypeOK' /\ TableInv'
  BY <1>3, QuietTypes
<1>4. ASSUME NEW p \in Procs, Killed(p)
      PROVE  TypeOK' /\ TableInv'
  BY <1>4 DEF Killed, TypeOK, TableInv
<1>5. CASE Expire
  <2>1. PICK i \in DOMAIN table : table' = [table EXCEPT ![i].expired = TRUE]
    BY <1>5 DEF Expire
  <2>2. table \in Seq(Entries) /\ DOMAIN table = 1 .. Len(table) /\ table[i] \in Entries
    BY TableKeysType DEF TypeOK
  <2>3. [table[i] EXCEPT !.expired = TRUE] \in Entries
    BY <2>2 DEF Entries
  <2>4. table' \in Seq(Entries)
    BY <2>1, <2>2, <2>3, ExceptSeq
  <2>5. DOMAIN table' = DOMAIN table /\ \A n \in DOMAIN table : table'[n].key = table[n].key
    BY <2>1, <2>2 DEF Entries
  <2>6. Unique(table')
    BY <2>5 DEF Unique, TableInv
  <2> QED
    BY <1>5, <2>4, <2>6 DEF Expire, TypeOK, TableInv
<1>6. CASE UNCHANGED vars
  BY <1>6 DEF vars, TypeOK, TableInv
<1> QED
  BY <1>1, <1>2, <1>3, <1>4, <1>5, <1>6, Zenon DEF Next

-----------------------------------------------------------------------------
(***************************************************************************)
(* Stale entries.  Once an invalidation has listed the table, what is      *)
(* older than its change has been raced, or is on its list.                *)
(***************************************************************************)
KeysIn(s) == {s[n] : n \in DOMAIN s}

\* Of the changes up to v, what the calls cs still put and the table t holds is raced or
\* of keys in ks.
Settled(src, cs, t, v, ks) ==
    /\ v <= src
    /\ \A q \in Procs : cs[q].pc = "put" /\ cs[q].version < v => cs[q].raced
    /\ \A i \in DOMAIN t : t[i].version < v /\ ~t[i].raced => t[i].key \in ks

FreshInv ==
    /\ Settled(source, calls, table, invalidated, {})
    /\ \A w \in Procs :
         /\ calls[w].pc = "list" => calls[w].version <= source
         /\ calls[w].pc = "delete" =>
              Settled(source, calls, table, calls[w].version, KeysIn(calls[w].victims))

\* What is put was put before the step, or has been read now, or is raced.
PutsKept ==
    \A q \in Procs : calls'[q].pc = "put" =>
        \/ /\ calls[q].pc = "put" /\ calls'[q].version = calls[q].version
           /\ calls[q].raced => calls'[q].raced
        \/ calls'[q].version = source
        \/ calls'[q].raced

\* A row was there before the step, or has been put.
RowsKept ==
    \A n \in DOMAIN table' :
        \/ \E m \in DOMAIN table : /\ table'[n].key = table[m].key
                                   /\ table'[n].version = table[m].version
                                   /\ table'[n].raced = table[m].raced
        \/ \E q \in Procs : /\ calls[q].pc = "put"
                            /\ table'[n].version = calls[q].version
                            /\ table'[n].raced = calls[q].raced

\* What is settled stays so.
LEMMA SettledStays ==
  ASSUME TypeOK, PutsKept, RowsKept, source' \in Nat, source <= source', NEW v \in Nat, NEW ks,
         Settled(source, calls, table, v, ks)
  PROVE  Settled(source', calls', table', v, ks)
<1>1. source \in Nat /\ \A q \in Procs : calls[q].version \in Nat
  BY DEF TypeOK
<1>2. v <= source'
  BY <1>1 DEF Settled
<1>3. ASSUME NEW q \in Procs, calls'[q].pc = "put", calls'[q].version < v
      PROVE  calls'[q].raced
  BY <1>1, <1>3 DEF Settled, PutsKept
<1>4. ASSUME NEW n \in DOMAIN table', table'[n].version < v, ~table'[n].raced
      PROVE  table'[n].key \in ks
  BY <1>4, Zenon DEF Settled, RowsKept
<1> QED
  BY <1>2, <1>3, <1>4 DEF Settled

\* A step that neither begins nor ends an invalidation.
LEMMA FreshKept ==
  ASSUME TypeOK, FreshInv, PutsKept, RowsKept, source' \in Nat, source <= source',
         invalidated' = invalidated,
         \A w \in Procs : /\ calls'[w].pc = "list" =>
                               calls'[w].version <= source' \/ calls'[w] = calls[w]
                          /\ calls'[w].pc = "delete" =>
                               /\ calls[w].pc = "delete" /\ calls'[w].version = calls[w].version
                               /\ calls'[w].victims = calls[w].victims
  PROVE  FreshInv'
<1>1. source \in Nat /\ invalidated \in Nat /\ \A q \in Procs : calls[q].version \in Nat
  BY DEF TypeOK
<1>2. Settled(source', calls', table', invalidated', {})
  BY <1>1, SettledStays DEF FreshInv
<1>3. ASSUME NEW w \in Procs, calls'[w].pc = "delete"
      PROVE  Settled(source', calls', table', calls'[w].version, KeysIn(calls'[w].victims))
  BY <1>1, <1>3, SettledStays DEF FreshInv
<1>4. ASSUME NEW w \in Procs, calls'[w].pc = "list"
      PROVE  calls'[w].version <= source'
  BY <1>1, <1>4 DEF FreshInv
<1> QED
  BY <1>2, <1>3, <1>4 DEF FreshInv

\* The rows of a step that does not put.
LEMMA FewerRows ==
  ASSUME TypedCache, table' = table \/ table' = <<>> \/ \E k : table' = Without(table, k)
  PROVE  RowsKept
<1>1. table \in Seq(Entries) /\ Unique(table)
  BY DEF TypedCache, TypeOK, TableInv
<1>2. \A k : \A n \in DOMAIN Without(table, k) : \E m \in DOMAIN table : Without(table, k)[n] = table[m]
  BY <1>1, WithoutRows
<1> QED
  BY <1>2 DEF RowsKept

\* The steps of readers, of time, and of a writer that begins.
LEMMA ReadersFresh ==
  ASSUME TypedCache, FreshInv, NEW p \in Procs,
         Step(p) \/ Change(p) \/ Deadline(p) \/ \E k \in Keys : Get(p, k)
  PROVE  FreshInv'
<1>1. calls \in [Procs -> CallType] /\ source \in Nat /\ TypeOK
  BY DEF TypedCache, TypeOK, CallType
<1>2. invalidated' = invalidated /\ source' \in Nat /\ source <= source'
  BY <1>1 DEF Step, Hit, FindNothing, FindExpired, DeleteExpired, TryLock, LookAtOwner, Steal, Load,
         LoadFails, Put, EvictCount, EvictSelect, EvictOne, Release, Deadline, Change, Get
<1>3. \A q \in Procs : q # p => calls'[q] = calls[q]
  BY <1>1 DEF Step, Hit, FindNothing, FindExpired, DeleteExpired, TryLock, LookAtOwner, Steal, Load,
         LoadFails, Put, EvictCount, EvictSelect, EvictOne, Release, Deadline, Change, Get, Miss,
         GoTo, Return
<1>4. /\ calls'[p].pc = "put" => calls'[p].version = source
      /\ calls'[p].pc # "delete"
      /\ calls'[p].pc = "list" => calls'[p].version = source'
  BY <1>1 DEF Step, Hit, FindNothing, FindExpired, DeleteExpired, TryLock, LookAtOwner, Steal, Load,
         LoadFails, Put, EvictCount, EvictSelect, EvictOne, Release, Deadline, Change, Get, Miss,
         GoTo, Return, Idle, At, CallType
<1>5. PutsKept
  BY <1>3, <1>4 DEF PutsKept
<1>6. RowsKept
  <2>1. CASE Put(p)
    <3> DEFINE e == [key |-> Key(p), version |-> calls[p].version, expired |-> FALSE,
                     raced |-> calls[p].raced]
    <3>1. table \in Seq(Entries) /\ Unique(table)
      BY DEF TypedCache, TypeOK, TableInv
    <3>2. e \in Entries /\ e.key = Key(p)
      BY <1>1, <2>1 DEF Put, At, TypedCache, LockInv, Reading, Loading, Entries, CallType
    <3>3. table' = Append(Without(table, e.key), e) /\ calls[p].pc = "put"
      BY <2>1 DEF Put, At
    <3>4. e.version = calls[p].version /\ e.raced = calls[p].raced
      OBVIOUS
    <3> HIDE DEF e
    <3>5. \A n \in DOMAIN table' : table'[n] = e \/ \E m \in DOMAIN table : table'[n] = table[m]
      BY <3>1, <3>2, <3>3, PutRows
    <3> QED
      BY <3>3, <3>4, <3>5 DEF RowsKept
  <2>2. CASE ~Put(p)
    BY <2>2, FewerRows DEF Step, Hit, FindNothing, FindExpired, DeleteExpired, TryLock, LookAtOwner,
         Steal, Load, LoadFails, EvictCount, EvictSelect, EvictOne, Release, Deadline, Change, Get
  <2> QED
    BY <2>1, <2>2
<1>7. \A w \in Procs : /\ calls'[w].pc = "list" => calls'[w].version <= source' \/ calls'[w] = calls[w]
                       /\ calls'[w].pc = "delete" =>
                            /\ calls[w].pc = "delete" /\ calls'[w].version = calls[w].version
                            /\ calls'[w].victims = calls[w].victims
  BY <1>2, <1>3, <1>4
<1> QED
  BY <1>1, <1>2, <1>5, <1>6, <1>7, FreshKept

\* The calls when an invalidation has seen the table.
LEMMA SeenPuts ==
  ASSUME TypedCache, NEW p \in Procs, NEW c \in CallType, Seen(p, c), c.pc \in {"idle", "delete"}
  PROVE  /\ \A q \in Procs : /\ calls'[q].pc = "put" => calls'[q].raced
                             /\ q # p => /\ calls'[q].pc = calls[q].pc
                                         /\ calls'[q].version = calls[q].version
                                         /\ calls'[q].victims = calls[q].victims
         /\ calls'[p] = c
<1>1. calls \in [Procs -> CallType]
  BY DEF TypedCache, TypeOK, CallType
<1> QED
  BY <1>1 DEF Seen, CallType

\* An invalidation lists the keys, or empties the table.
LEMMA SeenFresh ==
  ASSUME TypedCache, FreshInv, NEW p \in Procs, ListKeys(p) \/ Reset(p)
  PROVE  FreshInv'
<1> DEFINE v == calls[p].version
           d == [calls[p] EXCEPT !.pc = "delete", !.victims = TableKeys]
<1>1. /\ calls \in [Procs -> CallType] /\ source \in Nat /\ TypeOK /\ source' = source
      /\ invalidated \in Nat /\ v \in Nat /\ v <= source
  BY DEF TypedCache, TypeOK, CallType, ListKeys, Reset, At, FreshInv
<1>2. TableKeys \in Seq(Keys) /\ DOMAIN TableKeys = DOMAIN table
      /\ \A i \in DOMAIN table : TableKeys[i] = table[i].key
  BY <1>1, TableKeysType
<1>3. /\ d \in CallType /\ d.pc = "delete" /\ d.version = v /\ d.victims = TableKeys
      /\ Done(p) \in CallType /\ Done(p).pc = "idle"
  BY <1>1, <1>2, DoneType DEF CallType, Pcs, Done, Idle
<1>4. PICK c \in CallType :
        /\ Seen(p, c) /\ c.pc \in {"idle", "delete"}
        /\ \/ c.pc = "idle" /\ Invalidated(p) /\ table' = <<>>
           \/ c = d /\ invalidated' = invalidated /\ table' = table
  <2>1. CASE Reset(p) \/ (ListKeys(p) /\ TableKeys = <<>>)
    BY <1>1, <1>3, <2>1, TableKeysType DEF ListKeys, Reset, Listed
  <2>2. CASE ListKeys(p) /\ TableKeys # <<>>
    BY <1>3, <2>2 DEF ListKeys, Listed
  <2> QED
    BY <2>1, <2>2
<1> HIDE DEF d
<1>5. /\ \A q \in Procs : /\ calls'[q].pc = "put" => calls'[q].raced
                          /\ q # p => /\ calls'[q].pc = calls[q].pc
                                      /\ calls'[q].version = calls[q].version
                                      /\ calls'[q].victims = calls[q].victims
      /\ calls'[p] = c
  BY <1>4, SeenPuts
<1>6. PutsKept /\ RowsKept
  BY <1>4, <1>5, FewerRows DEF PutsKept
<1>7. \A u \in Nat : \A ks : Settled(source, calls, table, u, ks) => Settled(source', calls', table', u, ks)
  BY <1>1, <1>6, SettledStays
<1>8. Settled(source', calls', table', v, KeysIn(TableKeys))
  BY <1>1, <1>2, <1>4, <1>5 DEF Settled, KeysIn
<1>9. Settled(source', calls', table', invalidated', {})
  <2>1. CASE c.pc = "idle" /\ Invalidated(p) /\ table' = <<>>
    <3>1. invalidated' \in {v, invalidated}
      BY <2>1 DEF Invalidated
    <3>2. Settled(source', calls', table', v, {})
      BY <1>8, <2>1 DEF Settled
    <3>3. Settled(source', calls', table', invalidated, {})
      BY <1>1, <1>7 DEF FreshInv
    <3> QED
      BY <3>1, <3>2, <3>3
  <2>2. CASE invalidated' = invalidated
    BY <1>1, <1>7, <2>2 DEF FreshInv
  <2> QED
    BY <1>4, <2>1, <2>2
<1>10. ASSUME NEW w \in Procs
       PROVE  /\ calls'[w].pc = "list" => calls'[w].version <= source'
              /\ calls'[w].pc = "delete" =>
                   Settled(source', calls', table', calls'[w].version, KeysIn(calls'[w].victims))
  <2>1. CASE w = p
    <3>1. c.pc = "delete" => c = d
      BY <1>4
    <3> QED
      BY <1>3, <1>4, <1>5, <1>8, <2>1, <3>1
  <2>2. CASE w # p
    <3>1. calls[w].version \in Nat
      BY <1>1 DEF CallType
    <3>2. /\ calls'[w].pc = calls[w].pc /\ calls'[w].version = calls[w].version
          /\ calls'[w].victims = calls[w].victims
      BY <1>5, <2>2
    <3> QED
      BY <1>1, <1>7, <3>1, <3>2 DEF FreshInv
  <2> QED
    BY <2>1, <2>2
<1> QED
  BY <1>9, <1>10 DEF FreshInv

\* An invalidation deletes a key, perhaps its last.
LEMMA DeleteFresh ==
  ASSUME TypedCache, FreshInv, NEW p \in Procs, DeleteListed(p)
  PROVE  FreshInv'
<1> DEFINE v == calls[p].version
           s == calls[p].victims
<1>1. /\ calls \in [Procs -> CallType] /\ source \in Nat /\ TypeOK /\ source' = source
      /\ invalidated \in Nat /\ v \in Nat /\ s \in Seq(Keys) /\ s # <<>>
      /\ table \in Seq(Entries) /\ Unique(table) /\ calls[p].pc = "delete"
  BY DEF TypedCache, TypeOK, CallType, DeleteListed, At, TableInv
<1>2. table' = Without(table, Head(s))
  BY DEF DeleteListed
<1>3. \A n \in DOMAIN s : s[n] = Head(s) \/ \E m \in DOMAIN Tail(s) : Tail(s)[m] = s[n]
  BY <1>1, TailIs
<1>4. Len(s) = 1 => Tail(s) = <<>>
  BY <1>1, TailIs
<1>5. \A q \in Procs : q # p => calls'[q] = calls[q]
  BY <1>1 DEF DeleteListed, Return
<1>6. /\ calls'[p].pc # "put" /\ calls'[p].pc # "list"
      /\ calls'[p].pc = "delete" =>
           calls'[p].version = v /\ calls'[p].victims = Tail(s) /\ invalidated' = invalidated
  BY <1>1 DEF DeleteListed, Return, Idle, CallType
<1>7. PutsKept /\ RowsKept
  BY <1>2, <1>5, <1>6, FewerRows DEF PutsKept
<1>8. \A u \in Nat : \A ks : Settled(source, calls, table, u, ks) => Settled(source', calls', table', u, ks)
  BY <1>1, <1>7, SettledStays
<1>9. Settled(source', calls', table', v, KeysIn(Tail(s)))
  <2>1. Settled(source', calls', table', v, KeysIn(s))
    BY <1>1, <1>8 DEF FreshInv
  <2>2. \A n \in DOMAIN table' : table'[n].key # Head(s)
    BY <1>1, <1>2, WithoutRows
  <2>3. \A k \in KeysIn(s) : k = Head(s) \/ k \in KeysIn(Tail(s))
    BY <1>3 DEF KeysIn
  <2> QED
    BY <2>1, <2>2, <2>3 DEF Settled
<1>10. Settled(source', calls', table', invalidated', {})
  <2>1. Settled(source', calls', table', invalidated, {})
    BY <1>1, <1>8 DEF FreshInv
  <2>2. CASE Len(s) = 1 /\ Invalidated(p)
    <3>1. KeysIn(Tail(s)) = {}
      BY <1>4, <2>2 DEF KeysIn
    <3>2. invalidated' \in {v, invalidated}
      BY <2>2 DEF Invalidated
    <3> QED
      BY <1>9, <2>1, <3>1, <3>2
  <2>3. CASE invalidated' = invalidated
    BY <2>1, <2>3
  <2> QED
    BY <2>2, <2>3 DEF DeleteListed
<1>11. ASSUME NEW w \in Procs
       PROVE  /\ calls'[w].pc = "list" => calls'[w].version <= source'
              /\ calls'[w].pc = "delete" =>
                   Settled(source', calls', table', calls'[w].version, KeysIn(calls'[w].victims))
  <2>1. CASE w = p
    BY <1>6, <1>9, <2>1
  <2>2. CASE w # p
    <3>1. calls[w].version \in Nat
      BY <1>1 DEF CallType
    <3> QED
      BY <1>1, <1>5, <1>8, <2>2, <3>1 DEF FreshInv
  <2> QED
    BY <2>1, <2>2
<1> QED
  BY <1>10, <1>11 DEF FreshInv

\* Nothing has been changed.
LEMMA InitFresh == Init => FreshInv
BY DEF Init, FreshInv, Settled, Idle

\* Every step keeps what is settled.
LEMMA NextFresh == TypedCache /\ FreshInv /\ [Next]_vars => FreshInv'
<1> SUFFICES ASSUME TypedCache, FreshInv, [Next]_vars
             PROVE  FreshInv'
  OBVIOUS
<1>1. ASSUME NEW p \in Procs, Step(p) \/ Change(p) \/ Deadline(p) \/ \E k \in Keys : Get(p, k)
      PROVE  FreshInv'
  BY <1>1, ReadersFresh
<1>2. ASSUME NEW p \in Procs, Invalidate(p)
      PROVE  FreshInv'
  BY <1>2, SeenFresh, DeleteFresh DEF Invalidate
<1>3. ASSUME NEW p \in Procs, Killed(p)
      PROVE  FreshInv'
  BY <1>3 DEF Killed, FreshInv, Settled
<1>4. CASE Expire
  <2>1. PICK i \in DOMAIN table : table' = [table EXCEPT ![i].expired = TRUE]
    BY <1>4 DEF Expire
  <2>2. /\ \A n \in DOMAIN table : table[n] \in Entries
        /\ UNCHANGED <<source, calls, invalidated>>
    BY <1>4, TableKeysType DEF Expire, TypedCache
  <2>3. /\ DOMAIN table' = DOMAIN table
        /\ \A n \in DOMAIN table : /\ table'[n].key = table[n].key
                                   /\ table'[n].version = table[n].version
                                   /\ table'[n].raced = table[n].raced
    BY <2>1, <2>2 DEF Entries
  <2> QED
    BY <2>2, <2>3 DEF FreshInv, Settled
<1>5. CASE UNCHANGED vars
  BY <1>5 DEF vars, FreshInv, Settled
<1> QED
  BY <1>1, <1>2, <1>3, <1>4, <1>5, Zenon DEF Next

\* Types, for any processes, keys and limits.
THEOREM TypesHold == Spec => []TypeOK
<1>1. TypedCache => TypeOK
  BY DEF TypedCache
<1> QED
  BY <1>1, InitTyped, NextTyped, PTL DEF Spec

\* invalidate_repository and reset! against loads, for any processes and keys: an entry from
\* before a change whose invalidation has returned was raced, an invalidation having seen
\* the table between its load and its put.
THEOREM StaleEntriesRaced == Spec => []StaleOnlyIfRaced
<1>1. FreshInv => StaleOnlyIfRaced
  BY DEF FreshInv, Settled, StaleOnlyIfRaced
<1> QED
  BY <1>1, InitTyped, NextTyped, InitFresh, NextFresh, PTL DEF Spec

-----------------------------------------------------------------------------
(***************************************************************************)
(* The bound of the table.  Who has read the size that is too large will   *)
(* delete the oldest rows, who has listed them will delete their keys: any *)
(* of those who are about to, all together, leave no more rows than fit,   *)
(* and one for each of the others who have put.                            *)
(***************************************************************************)
Selected(cs) == {p \in Procs : cs[p].pc \in {"select", "evict"}}
Putting(cs) == {p \in Procs : cs[p].pc \in {"count", "select", "evict"}}

\* How many rows, and which keys, those in S will delete.
Cuts(cs, S) == {cs[p].excess : p \in {q \in S : cs[q].pc = "select"}}
Doomed(cs, S) == UNION {KeysIn(cs[p].victims) : p \in {q \in S : cs[q].pc = "evict"}}

\* The rows that stay.
Spared(t, ns, ks) == {i \in DOMAIN t : t[i].key \notin ks /\ \A n \in ns : n < i}
Left(cs, t, S) == Spared(t, Cuts(cs, S), Doomed(cs, S))

Bounded(cs, t) ==
    \A S \in SUBSET Selected(cs) :
        Cardinality(Left(cs, t, S)) <= MaxEntries + Cardinality(Putting(cs) \ S)

\* They are as many as a number says.
LEMMA SparedIs ==
  ASSUME NEW t \in Seq(Entries), NEW ns, NEW ks
  PROVE  /\ IsFiniteSet(Spared(t, ns, ks)) /\ Cardinality(Spared(t, ns, ks)) \in Nat
         /\ Cardinality(Spared(t, ns, ks)) <= Len(t)
         /\ \A n \in ns \cap Nat : n <= Len(t) => Cardinality(Spared(t, ns, ks)) <= Len(t) - n
<1>1. Len(t) \in Nat /\ DOMAIN t = 1 .. Len(t)
  BY LenProperties
<1>2. ASSUME NEW n \in Nat, n <= Len(t), Spared(t, ns, ks) \subseteq n + 1 .. Len(t)
      PROVE  /\ IsFiniteSet(Spared(t, ns, ks)) /\ Cardinality(Spared(t, ns, ks)) \in Nat
             /\ Cardinality(Spared(t, ns, ks)) <= Len(t) - n
  <2>1. /\ IsFiniteSet(n + 1 .. Len(t))
        /\ Cardinality(n + 1 .. Len(t)) = IF n + 1 > Len(t) THEN 0 ELSE Len(t) - (n + 1) + 1
    <3>1. n + 1 \in Int /\ Len(t) \in Int
      BY <1>1
    <3> QED
      BY <3>1, FS_Interval
  <2>2. Cardinality(n + 1 .. Len(t)) = Len(t) - n
    BY <1>1, <1>2, <2>1
  <2> QED
    BY <1>2, <2>1, <2>2, FS_Subset, FS_CardinalityType
<1>3. Spared(t, ns, ks) \subseteq 0 + 1 .. Len(t)
  BY <1>1 DEF Spared
<1>4. ASSUME NEW n \in ns \cap Nat
      PROVE  Spared(t, ns, ks) \subseteq n + 1 .. Len(t)
  BY <1>1 DEF Spared
<1>5. /\ IsFiniteSet(Spared(t, ns, ks)) /\ Cardinality(Spared(t, ns, ks)) \in Nat
      /\ Cardinality(Spared(t, ns, ks)) <= Len(t) - 0
  BY <1>1, <1>2, <1>3
<1> QED
  BY <1>1, <1>2, <1>4, <1>5

\* A row less, or one that will be deleted anyway.
LEMMA SparedWithout ==
  ASSUME NEW t \in Seq(Entries), Unique(t), NEW k, NEW ns \in SUBSET Nat, NEW ks
  PROVE  Cardinality(Spared(Without(t, k), ns, ks)) <= Cardinality(Spared(t, ns, ks \cup {k}))
<1> DEFINE w == Without(t, k)
           A == Spared(w, ns, ks)
           B == Spared(t, ns, ks \cup {k})
<1>1. w \in Seq(Entries) /\ \E from : Stem(w, t, k, from)
  BY WithoutIs
<1>2. PICK from : Stem(w, t, k, from)
  BY <1>1
<1>3. IsFiniteSet(B)
  BY SparedIs
<1>4. DOMAIN w \subseteq Nat /\ DOMAIN t \subseteq Nat
  BY <1>1, LenProperties
<1> HIDE DEF w
<1> DEFINE f == [n \in A |-> from[n]]
<1>5. f \in [A -> B]
  <2>1. ASSUME NEW n \in A
        PROVE  from[n] \in B
    <3>1. n \in DOMAIN w /\ w[n].key \notin ks /\ \A m \in ns : m < n
      BY DEF Spared
    <3>2. from[n] \in DOMAIN t /\ n <= from[n] /\ w[n] = t[from[n]] /\ w[n].key # k
      BY <1>2, <3>1 DEF Stem
    <3>3. \A m \in ns : m < from[n]
      BY <1>4, <3>1, <3>2
    <3> QED
      BY <3>1, <3>2, <3>3 DEF Spared
  <2> QED
    BY <2>1
<1>6. \A a, b \in A : f[a] = f[b] => a = b
  BY <1>2 DEF Stem, Spared
<1>7. f \in Injection(A, B)
  BY <1>5, <1>6 DEF Injection, IsInjective
<1> QED
  BY <1>3, <1>7, FS_Injection DEF w

\* A row more.
LEMMA SparedAppend ==
  ASSUME NEW t \in Seq(Entries), NEW e \in Entries, NEW ns \in SUBSET Nat, NEW ks
  PROVE  Cardinality(Spared(Append(t, e), ns, ks)) <= Cardinality(Spared(t, ns, ks)) + 1
<1> DEFINE w == Append(t, e)
           A == Spared(t, ns, ks)
<1>1. /\ Len(t) \in Nat /\ DOMAIN t = 1 .. Len(t) /\ w \in Seq(Entries)
      /\ DOMAIN w = 1 .. Len(t) + 1 /\ \A i \in 1 .. Len(t) : w[i] = t[i]
  BY AppendProperties, LenProperties
<1> HIDE DEF w
<1>2. Spared(w, ns, ks) \subseteq A \cup {Len(t) + 1}
  BY <1>1 DEF Spared
<1>3. IsFiniteSet(A) /\ Cardinality(A) \in Nat
  BY SparedIs
<1> HIDE DEF A
<1>4. /\ IsFiniteSet(A \cup {Len(t) + 1})
      /\ Cardinality(A \cup {Len(t) + 1}) <= Cardinality(A) + 1
  <2>1. /\ IsFiniteSet(A \cup {Len(t) + 1})
        /\ Cardinality(A \cup {Len(t) + 1}) =
             IF Len(t) + 1 \in A THEN Cardinality(A) ELSE Cardinality(A) + 1
    BY <1>3, FS_AddElement
  <2> QED
    BY <1>3, <2>1
<1>5. IsFiniteSet(Spared(w, ns, ks)) /\ Cardinality(Spared(w, ns, ks)) \in Nat
  BY <1>1, SparedIs
<1>6. Cardinality(Spared(w, ns, ks)) <= Cardinality(A \cup {Len(t) + 1})
  BY <1>2, <1>4, FS_Subset
<1>7. Cardinality(A \cup {Len(t) + 1}) \in Nat
  BY <1>4, FS_CardinalityType
<1> QED
  BY <1>3, <1>4, <1>5, <1>6, <1>7 DEF w, A

\* More that is deleted leaves less.
LEMMA SparedLess ==
  ASSUME NEW t \in Seq(Entries), NEW ns, NEW ks, NEW ms, NEW hs,
         Spared(t, ns, ks) \subseteq Spared(t, ms, hs)
  PROVE  Cardinality(Spared(t, ns, ks)) <= Cardinality(Spared(t, ms, hs))
BY SparedIs, FS_Subset

\* Processes are finite in number.
LEMMA ProcsFinite ==
  ASSUME NEW S \in SUBSET Procs
  PROVE  IsFiniteSet(S) /\ Cardinality(S) \in Nat
<1>1. IsFiniteSet(Procs)
  BY CacheConstants, FS_Union DEF Procs
<1> QED
  BY <1>1, FS_Subset, FS_CardinalityType

\* The calls of other processes stay, as far as deletions go.
Elsewhere(p) ==
    \A q \in Procs \ {p} : /\ calls'[q].pc = calls[q].pc
                           /\ calls'[q].excess = calls[q].excess
                           /\ calls'[q].victims = calls[q].victims

\* What others will delete stays.
LEMMA ElsewhereSame ==
  ASSUME NEW p \in Procs, Elsewhere(p)
  PROVE  /\ \A S \in SUBSET Procs : p \notin S => /\ Cuts(calls', S) = Cuts(calls, S)
                                                  /\ Doomed(calls', S) = Doomed(calls, S)
         /\ Selected(calls') \ {p} = Selected(calls) \ {p}
         /\ Putting(calls') \ {p} = Putting(calls) \ {p}
<1>1. ASSUME NEW S \in SUBSET Procs, p \notin S
      PROVE  /\ Cuts(calls', S) = Cuts(calls, S)
             /\ Doomed(calls', S) = Doomed(calls, S)
  <2>1. \A q \in S : /\ calls'[q].pc = calls[q].pc
                     /\ calls'[q].excess = calls[q].excess
                     /\ calls'[q].victims = calls[q].victims
    BY <1>1 DEF Elsewhere
  <2>2. /\ {q \in S : calls'[q].pc = "select"} = {q \in S : calls[q].pc = "select"}
        /\ {q \in S : calls'[q].pc = "evict"} = {q \in S : calls[q].pc = "evict"}
    BY <2>1
  <2>3. Cuts(calls', S) = Cuts(calls, S)
    BY <2>1, <2>2 DEF Cuts
  <2>4. Doomed(calls', S) = Doomed(calls, S)
    BY <2>1, <2>2 DEF Doomed
  <2> QED
    BY <2>3, <2>4
<1>2. Selected(calls') \ {p} = Selected(calls) \ {p}
  BY DEF Elsewhere, Selected
<1>3. Putting(calls') \ {p} = Putting(calls) \ {p}
  BY DEF Elsewhere, Putting
<1> QED
  BY <1>1, <1>2, <1>3

\* The sizes that were read are numbers.
LEMMA CutsType ==
  ASSUME TypedCache, NEW S \in SUBSET Procs
  PROVE  Cuts(calls, S) \in SUBSET Nat
BY DEF TypedCache, TypeOK, Cuts

\* The table of a step that does not put.
TableFewer == table' = table \/ table' = <<>> \/ \E k : table' = Without(table, k)

\* Fewer rows stay of it.
LEMMA FewerSpared ==
  ASSUME TypedCache, TableFewer, NEW ns \in SUBSET Nat, NEW ks
  PROVE  Cardinality(Spared(table', ns, ks)) <= Cardinality(Spared(table, ns, ks))
<1>1. table \in Seq(Entries) /\ Unique(table) /\ <<>> \in Seq(Entries)
  BY EmptySeq DEF TypedCache, TypeOK, TableInv
<1>2. Cardinality(Spared(table, ns, ks)) \in Nat
  BY <1>1, SparedIs
<1>3. CASE table' = table
  BY <1>2, <1>3
<1>4. CASE table' = <<>>
  <2>1. Spared(table', ns, ks) = {}
    BY <1>4 DEF Spared
  <2>2. Cardinality(Spared(table', ns, ks)) = 0
    BY <2>1, FS_EmptySet, Zenon
  <2> QED
    BY <1>2, <2>2
<1>5. ASSUME NEW k, table' = Without(table, k)
      PROVE  Cardinality(Spared(table', ns, ks)) <= Cardinality(Spared(table, ns, ks))
  <2>1. Cardinality(Spared(table', ns, ks)) <= Cardinality(Spared(table, ns, ks \cup {k}))
    BY <1>1, <1>5, SparedWithout
  <2>2. Spared(table, ns, ks \cup {k}) \subseteq Spared(table, ns, ks)
    BY DEF Spared
  <2>3. Cardinality(Spared(table, ns, ks \cup {k})) <= Cardinality(Spared(table, ns, ks))
    BY <1>1, <2>2, SparedLess
  <2>4. /\ Cardinality(Spared(table, ns, ks \cup {k})) \in Nat
        /\ Cardinality(Spared(table', ns, ks)) \in Nat
    BY <1>1, <1>5, SparedIs, WithoutRows
  <2> QED
    BY <1>2, <2>1, <2>3, <2>4
<1> QED
  BY <1>3, <1>4, <1>5 DEF TableFewer

\* Numbers of the two sides of Bounded.
LEMMA SidesType ==
  ASSUME NEW t \in Seq(Entries), NEW cs, NEW S
  PROVE  /\ Cardinality(Left(cs, t, S)) \in Nat
         /\ Cardinality(Putting(cs) \ S) \in Nat /\ IsFiniteSet(Putting(cs) \ S)
         /\ MaxEntries \in Nat
<1>1. Putting(cs) \ S \in SUBSET Procs
  BY DEF Putting
<1> QED
  BY <1>1, SparedIs, ProcsFinite, CacheConstants DEF Left

\* A step of p that has no eviction under way before it nor after it.
LEMMA OutsideBounded ==
  ASSUME TypedCache, TypedCache', Bounded(calls, table), NEW p \in Procs, Elsewhere(p), TableFewer,
         p \notin Putting(calls), p \notin Putting(calls')
  PROVE  Bounded(calls', table')
<1>1. /\ Selected(calls') = Selected(calls) /\ Putting(calls') = Putting(calls)
      /\ p \notin Selected(calls)
  BY ElsewhereSame DEF Selected, Putting
<1> SUFFICES ASSUME NEW S \in SUBSET Selected(calls)
             PROVE  Cardinality(Left(calls', table', S)) <=
                      MaxEntries + Cardinality(Putting(calls) \ S)
  BY <1>1 DEF Bounded
<1>2. S \in SUBSET Procs /\ p \notin S
  BY <1>1 DEF Selected
<1>3. Left(calls', table', S) = Spared(table', Cuts(calls, S), Doomed(calls, S))
  BY <1>2, ElsewhereSame DEF Left
<1>4. Cardinality(Left(calls', table', S)) <= Cardinality(Left(calls, table, S))
  BY <1>2, <1>3, FewerSpared, CutsType DEF Left
<1>5. Cardinality(Left(calls, table, S)) <= MaxEntries + Cardinality(Putting(calls) \ S)
  BY DEF Bounded
<1>6. table \in Seq(Entries) /\ table' \in Seq(Entries)
  BY DEF TypedCache, TypeOK
<1>7. /\ Cardinality(Left(calls, table, S)) \in Nat /\ Cardinality(Left(calls', table', S)) \in Nat
      /\ Cardinality(Putting(calls) \ S) \in Nat /\ MaxEntries \in Nat
  BY <1>6, SidesType
<1> QED
  BY <1>4, <1>5, <1>7

\* put: a row more, and one more who has put.
LEMMA PutBounded ==
  ASSUME TypedCache, TypedCache', Bounded(calls, table), NEW p \in Procs, Put(p)
  PROVE  Bounded(calls', table')
<1>1. calls \in [Procs -> CallType] /\ table \in Seq(Entries) /\ Unique(table) /\ table' \in Seq(Entries)
  BY DEF TypedCache, TypeOK, TableInv, CallType
<1>2. Elsewhere(p) /\ calls[p].pc = "put" /\ calls'[p].pc = "count"
  BY <1>1 DEF Put, At, Elsewhere, CallType
<1>3. /\ Selected(calls') = Selected(calls) /\ p \notin Selected(calls)
      /\ p \notin Putting(calls) /\ Putting(calls') = Putting(calls) \cup {p}
  <2>1. p \in Putting(calls') /\ p \notin Putting(calls)
    BY <1>2 DEF Putting
  <2>2. p \notin Selected(calls') /\ p \notin Selected(calls)
    BY <1>2 DEF Selected
  <2> QED
    BY <1>2, <2>1, <2>2, ElsewhereSame
<1> SUFFICES ASSUME NEW S \in SUBSET Selected(calls)
             PROVE  Cardinality(Left(calls', table', S)) <=
                      MaxEntries + Cardinality(Putting(calls') \ S)
  BY <1>3 DEF Bounded
<1> DEFINE ns == Cuts(calls, S)
           ks == Doomed(calls, S)
           w == Without(table, Key(p))
           e == [key |-> Key(p), version |-> calls[p].version, expired |-> FALSE,
                 raced |-> calls[p].raced]
<1>4. S \in SUBSET Procs /\ p \notin S
  BY <1>3 DEF Selected
<1>5. e \in Entries
  BY <1>1, <1>2 DEF TypedCache, LockInv, Reading, Loading, Entries, CallType
<1>6. table' = Append(w, e)
  BY DEF Put
<1>7. ns \in SUBSET Nat
  BY <1>4, CutsType
<1>8. Left(calls', table', S) = Spared(table', ns, ks)
  BY <1>2, <1>4, ElsewhereSame DEF Left
<1>9. w \in Seq(Entries)
  BY <1>1, WithoutRows
<1>10. Spared(table, ns, ks \cup {Key(p)}) \subseteq Spared(table, ns, ks)
  BY DEF Spared
<1>11. Left(calls, table, S) = Spared(table, ns, ks)
  BY DEF Left
<1> HIDE DEF w, e, ns, ks
<1>12. Cardinality(Spared(table', ns, ks)) <= Cardinality(Spared(w, ns, ks)) + 1
  BY <1>5, <1>6, <1>7, <1>9, SparedAppend
<1>13. Cardinality(Spared(w, ns, ks)) <= Cardinality(Spared(table, ns, ks \cup {Key(p)}))
  BY <1>1, <1>7, SparedWithout DEF w
<1>14. Cardinality(Spared(table, ns, ks \cup {Key(p)})) <= Cardinality(Spared(table, ns, ks))
  BY <1>1, <1>10, SparedLess
<1>15. Cardinality(Left(calls, table, S)) <= MaxEntries + Cardinality(Putting(calls) \ S)
  BY DEF Bounded
<1>16. Cardinality(Putting(calls') \ S) = Cardinality(Putting(calls) \ S) + 1
  <2>1. Putting(calls') \ S = (Putting(calls) \ S) \cup {p} /\ p \notin Putting(calls) \ S
    BY <1>3, <1>4
  <2> QED
    BY <1>1, <2>1, SidesType, FS_AddElement
<1>17. /\ Cardinality(Spared(table', ns, ks)) \in Nat /\ Cardinality(Spared(w, ns, ks)) \in Nat
       /\ Cardinality(Spared(table, ns, ks \cup {Key(p)})) \in Nat
       /\ Cardinality(Spared(table, ns, ks)) \in Nat
       /\ Cardinality(Putting(calls) \ S) \in Nat /\ MaxEntries \in Nat
  BY <1>1, <1>9, SparedIs, SidesType
<1> QED
  BY <1>8, <1>11, <1>12, <1>13, <1>14, <1>15, <1>16, <1>17

\* evict_by_entries reads the size: what is above the limit will be deleted, or nothing is.
LEMMA CountBounded ==
  ASSUME TypedCache, TypedCache', Bounded(calls, table), NEW p \in Procs, EvictCount(p)
  PROVE  Bounded(calls', table')
<1>1. calls \in [Procs -> CallType] /\ table \in Seq(Entries) /\ table' = table
  BY DEF TypedCache, TypeOK, CallType, EvictCount
<1>2. Elsewhere(p) /\ calls[p].pc = "count"
  BY <1>1 DEF EvictCount, GoTo, At, Elsewhere, CallType
<1>3. Len(table) \in Nat /\ MaxEntries \in Nat
  BY <1>1, LenProperties, CacheConstants
<1> SUFFICES ASSUME NEW S \in SUBSET Selected(calls')
             PROVE  Cardinality(Left(calls', table, S)) <=
                      MaxEntries + Cardinality(Putting(calls') \ S)
  BY <1>1 DEF Bounded
<1>4. Cardinality(Left(calls', table, S)) \in Nat /\ Cardinality(Putting(calls') \ S) \in Nat
  BY <1>1, SidesType
<1>5. Cardinality(Left(calls', table, S)) <= Len(table)
  BY <1>1, SparedIs DEF Left
<1>6. CASE Len(table) > MaxEntries
  <2> DEFINE n == Len(table) - MaxEntries
  <2>1. n \in Nat /\ n <= Len(table) /\ Len(table) - n = MaxEntries
    BY <1>3, <1>6
  <2>2. calls'[p].pc = "select" /\ calls'[p].excess = n
    BY <1>1, <1>6 DEF EvictCount, CallType
  <2> HIDE DEF n
  <2>3. CASE p \in S
    <3>1. n \in Cuts(calls', S) \cap Nat
      BY <2>1, <2>2, <2>3 DEF Cuts
    <3>2. Cardinality(Left(calls', table, S)) <= Len(table) - n
      BY <1>1, <2>1, <3>1, SparedIs DEF Left
    <3> QED
      BY <1>3, <1>4, <2>1, <3>2
  <2>4. CASE p \notin S
    <3>1. Putting(calls') = Putting(calls)
      <4>1. p \in Putting(calls') /\ p \in Putting(calls)
        BY <1>2, <2>2 DEF Putting
      <4> QED
        BY <1>2, <4>1, ElsewhereSame
    <3>2. S \in SUBSET Selected(calls) /\ S \in SUBSET Procs
      BY <1>2, <2>4, ElsewhereSame DEF Selected
    <3>3. Left(calls', table, S) = Left(calls, table, S)
      BY <1>2, <2>4, <3>2, ElsewhereSame DEF Left
    <3> QED
      BY <3>1, <3>2, <3>3 DEF Bounded
  <2> QED
    BY <2>3, <2>4
<1>7. CASE ~(Len(table) > MaxEntries)
  BY <1>3, <1>4, <1>5, <1>7
<1> QED
  BY <1>6, <1>7

\* It lists the oldest rows: what it was to delete is what it will delete.
LEMMA SelectBounded ==
  ASSUME TypedCache, TypedCache', Bounded(calls, table), NEW p \in Procs, EvictSelect(p)
  PROVE  Bounded(calls', table')
<1> DEFINE n == calls[p].excess
           v == Oldest(n)
<1>1. /\ calls \in [Procs -> CallType] /\ table \in Seq(Entries) /\ table' = table /\ TypeOK
      /\ n \in Nat /\ DOMAIN table \subseteq Nat \ {0}
  <2>1. table \in Seq(Entries)
    BY DEF TypedCache, TypeOK
  <2>2. DOMAIN table \subseteq Nat \ {0}
    BY <2>1, LenProperties
  <2> QED
    BY <2>1, <2>2 DEF TypedCache, TypeOK, CallType, EvictSelect
<1>2. /\ Elsewhere(p) /\ calls[p].pc = "select"
      /\ calls'[p].pc = IF v = <<>> THEN "release" ELSE "evict"
      /\ calls'[p].victims = v
  BY <1>1 DEF EvictSelect, At, Elsewhere, CallType
<1>3. /\ v = <<>> => n = 0 \/ table = <<>>
      /\ \A i \in DOMAIN table : i <= n => table[i].key \in KeysIn(v)
  BY <1>1, OldestIs DEF KeysIn
<1> HIDE DEF v, n
<1>4. p \in Selected(calls) /\ p \in Putting(calls)
  BY <1>2 DEF Selected, Putting
<1> SUFFICES ASSUME NEW S \in SUBSET Selected(calls')
             PROVE  Cardinality(Left(calls', table, S)) <=
                      MaxEntries + Cardinality(Putting(calls') \ S)
  BY <1>1 DEF Bounded
<1>5. S \in SUBSET Procs
  BY DEF Selected
<1>6. ASSUME NEW T \in SUBSET Selected(calls), Left(calls', table, S) \subseteq Left(calls, table, T),
             Putting(calls') \ S = Putting(calls) \ T
      PROVE  Cardinality(Left(calls', table, S)) <= MaxEntries + Cardinality(Putting(calls') \ S)
  <2>1. Cardinality(Left(calls', table, S)) <= Cardinality(Left(calls, table, T))
    BY <1>1, <1>6, SparedLess DEF Left
  <2>2. Cardinality(Left(calls, table, T)) <= MaxEntries + Cardinality(Putting(calls) \ T)
    BY DEF Bounded
  <2>3. /\ Cardinality(Left(calls, table, T)) \in Nat /\ Cardinality(Left(calls', table, S)) \in Nat
        /\ Cardinality(Putting(calls) \ T) \in Nat /\ MaxEntries \in Nat
    BY <1>1, SidesType
  <2> QED
    BY <1>6, <2>1, <2>2, <2>3
<1>7. CASE v # <<>>
  <2>1. calls'[p].pc = "evict"
    BY <1>2, <1>7
  <2>2. /\ Selected(calls') = Selected(calls) /\ Putting(calls') = Putting(calls)
    <3>1. p \in Selected(calls') /\ p \in Putting(calls')
      BY <2>1 DEF Selected, Putting
    <3>2. /\ Selected(calls') \ {p} = Selected(calls) \ {p}
          /\ Putting(calls') \ {p} = Putting(calls) \ {p}
      BY <1>2, ElsewhereSame
    <3>3. \A A, B : p \in A /\ p \in B /\ A \ {p} = B \ {p} => A = B
      OBVIOUS
    <3> QED
      BY <1>4, <3>1, <3>2, <3>3
  <2>3. ASSUME NEW i \in Left(calls', table, S)
        PROVE  i \in Left(calls, table, S)
    <3>1. /\ i \in DOMAIN table /\ table[i].key \notin Doomed(calls', S)
          /\ \A m \in Cuts(calls', S) : m < i
      BY DEF Left, Spared
    <3>2. ASSUME NEW q \in S, calls[q].pc = "select"
          PROVE  calls[q].excess < i
      <4>1. CASE q = p
        <5>1. KeysIn(v) \subseteq Doomed(calls', S)
          BY <1>2, <2>1, <3>2, <4>1 DEF Doomed
        <5> QED
          BY <1>1, <1>3, <3>1, <4>1, <5>1 DEF n
      <4>2. CASE q # p
        <5>1. calls'[q].pc = "select" /\ calls'[q].excess = calls[q].excess
          BY <1>2, <1>5, <3>2, <4>2 DEF Elsewhere
        <5> QED
          BY <3>1, <3>2, <5>1 DEF Cuts
      <4> QED
        BY <4>1, <4>2
    <3>3. ASSUME NEW q \in S, calls[q].pc = "evict"
          PROVE  table[i].key \notin KeysIn(calls[q].victims)
      <4>1. q # p
        BY <1>2, <3>3
      <4>2. calls'[q].pc = "evict" /\ calls'[q].victims = calls[q].victims
        BY <1>2, <1>5, <3>3, <4>1 DEF Elsewhere
      <4> QED
        BY <3>1, <3>3, <4>2 DEF Doomed
    <3>4. \A m \in Cuts(calls, S) : m < i
      BY <3>2 DEF Cuts
    <3>5. table[i].key \notin Doomed(calls, S)
      BY <3>3 DEF Doomed
    <3> QED
      BY <3>1, <3>4, <3>5 DEF Left, Spared
  <2> QED
    BY <1>6, <2>2, <2>3
<1>8. CASE v = <<>>
  <2> DEFINE T == S \cup {p}
  <2>1. calls'[p].pc = "release"
    BY <1>2, <1>8
  <2>2. p \notin Selected(calls') /\ p \notin Putting(calls')
    BY <2>1 DEF Selected, Putting
  <2>3. p \notin S /\ T \in SUBSET Selected(calls) /\ Putting(calls') \ S = Putting(calls) \ T
    BY <1>2, <1>4, <2>2, ElsewhereSame
  <2>4. Cuts(calls', S) = Cuts(calls, S) /\ Doomed(calls', S) = Doomed(calls, S)
    BY <1>2, <1>5, <2>3, ElsewhereSame
  <2>5. Doomed(calls, T) = Doomed(calls, S)
    <3>1. {q \in T : calls[q].pc = "evict"} = {q \in S : calls[q].pc = "evict"}
      BY <1>2
    <3> QED
      BY <3>1 DEF Doomed
  <2>6. \A m \in Cuts(calls, T) : m \in Cuts(calls, S) \/ m = n
    BY DEF Cuts, n
  <2>7. \A i \in DOMAIN table : n < i
    BY <1>1, <1>3, <1>8
  <2>8. Left(calls', table, S) \subseteq Left(calls, table, T)
    BY <2>4, <2>5, <2>6, <2>7 DEF Left, Spared
  <2> QED
    BY <1>6, <2>3, <2>8
<1> QED
  BY <1>7, <1>8

\* It deletes a key of its list, perhaps the last.
LEMMA EvictBounded ==
  ASSUME TypedCache, TypedCache', Bounded(calls, table), NEW p \in Procs, EvictOne(p)
  PROVE  Bounded(calls', table')
<1> DEFINE s == calls[p].victims
           k == Head(s)
<1>1. /\ calls \in [Procs -> CallType] /\ table \in Seq(Entries) /\ Unique(table)
      /\ table' \in Seq(Entries) /\ s \in Seq(Keys) /\ s # <<>> /\ calls[p].pc = "evict"
  BY DEF TypedCache, TypeOK, CallType, EvictOne, At, TableInv
<1>2. /\ \A n \in DOMAIN s : s[n] = k \/ \E m \in DOMAIN Tail(s) : Tail(s)[m] = s[n]
      /\ Len(s) = 1 => Tail(s) = <<>>
  BY <1>1, TailIs
<1>3. /\ Elsewhere(p) /\ table' = Without(table, k) /\ calls'[p].victims = Tail(s)
      /\ calls'[p].pc = IF Len(s) = 1 THEN "release" ELSE "evict"
  BY <1>1 DEF EvictOne, Elsewhere, CallType
<1>4. \A a \in KeysIn(s) : a = k \/ a \in KeysIn(Tail(s))
  BY <1>2 DEF KeysIn
<1> HIDE DEF s, k
<1>5. p \in Selected(calls) /\ p \in Putting(calls)
  BY <1>1 DEF Selected, Putting
<1> SUFFICES ASSUME NEW S \in SUBSET Selected(calls')
             PROVE  Cardinality(Left(calls', table', S)) <=
                      MaxEntries + Cardinality(Putting(calls') \ S)
  BY DEF Bounded
<1>6. S \in SUBSET Procs
  BY DEF Selected
<1>7. ASSUME NEW T \in SUBSET Selected(calls), Cuts(calls', S) = Cuts(calls, T),
             Doomed(calls, T) \subseteq Doomed(calls', S) \cup {k},
             Putting(calls') \ S = Putting(calls) \ T
      PROVE  Cardinality(Left(calls', table', S)) <= MaxEntries + Cardinality(Putting(calls') \ S)
  <2> DEFINE ns == Cuts(calls, T)
             ks == Doomed(calls', S)
  <2>1. ns \in SUBSET Nat
    BY CutsType DEF Selected
  <2>2. Cardinality(Left(calls', table', S)) <= Cardinality(Spared(table, ns, ks \cup {k}))
    BY <1>1, <1>3, <1>7, <2>1, SparedWithout DEF Left
  <2>3. Spared(table, ns, ks \cup {k}) \subseteq Spared(table, ns, Doomed(calls, T))
    BY <1>7 DEF Spared
  <2>4. Cardinality(Spared(table, ns, ks \cup {k})) <= Cardinality(Left(calls, table, T))
    BY <1>1, <2>3, SparedLess DEF Left
  <2>5. Cardinality(Left(calls, table, T)) <= MaxEntries + Cardinality(Putting(calls) \ T)
    BY DEF Bounded
  <2>6. /\ Cardinality(Left(calls, table, T)) \in Nat /\ Cardinality(Left(calls', table', S)) \in Nat
        /\ Cardinality(Putting(calls) \ T) \in Nat /\ MaxEntries \in Nat
        /\ Cardinality(Spared(table, ns, ks \cup {k})) \in Nat
    BY <1>1, SidesType, SparedIs
  <2>7. Cardinality(Putting(calls') \ S) = Cardinality(Putting(calls) \ T)
    BY <1>7
  <2> HIDE DEF ns, ks
  <2> QED
    BY <2>2, <2>4, <2>5, <2>6, <2>7
<1>8. CASE Len(s) # 1
  <2>1. calls'[p].pc = "evict"
    BY <1>3, <1>8
  <2>2. /\ Selected(calls') = Selected(calls) /\ Putting(calls') = Putting(calls)
    <3>1. p \in Selected(calls') /\ p \in Putting(calls')
      BY <2>1 DEF Selected, Putting
    <3>2. /\ Selected(calls') \ {p} = Selected(calls) \ {p}
          /\ Putting(calls') \ {p} = Putting(calls) \ {p}
      BY <1>3, ElsewhereSame
    <3>3. \A A, B : p \in A /\ p \in B /\ A \ {p} = B \ {p} => A = B
      OBVIOUS
    <3> QED
      BY <1>5, <3>1, <3>2, <3>3
  <2>3. \A q \in S : /\ calls'[q].pc = calls[q].pc
                     /\ calls[q].pc = "select" => calls'[q].excess = calls[q].excess
                     /\ q # p => calls'[q].victims = calls[q].victims
    BY <1>1, <1>3, <1>6, <2>1 DEF Elsewhere
  <2>4. Cuts(calls', S) = Cuts(calls, S)
    <3>1. {q \in S : calls'[q].pc = "select"} = {q \in S : calls[q].pc = "select"}
      BY <2>3
    <3> QED
      BY <2>3, <3>1 DEF Cuts
  <2>5. ASSUME NEW a \in Doomed(calls, S), a # k
        PROVE  a \in Doomed(calls', S)
    <3>1. PICK q \in S : calls[q].pc = "evict" /\ a \in KeysIn(calls[q].victims)
      BY DEF Doomed
    <3>2. calls'[q].pc = "evict" /\ a \in KeysIn(calls'[q].victims)
      BY <1>3, <1>4, <2>3, <2>5, <3>1 DEF s
    <3> QED
      BY <3>2 DEF Doomed
  <2> QED
    BY <1>7, <2>2, <2>4, <2>5
<1>9. CASE Len(s) = 1
  <2> DEFINE T == S \cup {p}
  <2>1. calls'[p].pc = "release"
    BY <1>3, <1>9
  <2>2. p \notin Selected(calls') /\ p \notin Putting(calls')
    BY <2>1 DEF Selected, Putting
  <2>3. p \notin S /\ T \in SUBSET Selected(calls) /\ Putting(calls') \ S = Putting(calls) \ T
    BY <1>3, <1>5, <2>2, ElsewhereSame
  <2>4. Cuts(calls', S) = Cuts(calls, S) /\ Doomed(calls', S) = Doomed(calls, S)
    BY <1>3, <1>6, <2>3, ElsewhereSame
  <2>5. Cuts(calls, T) = Cuts(calls, S)
    <3>1. {q \in T : calls[q].pc = "select"} = {q \in S : calls[q].pc = "select"}
      BY <1>1
    <3> QED
      BY <3>1 DEF Cuts
  <2>6. KeysIn(s) \subseteq {k}
    <3>1. KeysIn(Tail(s)) = {}
      BY <1>2, <1>9 DEF KeysIn
    <3> QED
      BY <1>4, <3>1
  <2>7. Doomed(calls, T) \subseteq Doomed(calls, S) \cup {k}
    BY <2>6 DEF Doomed, s
  <2> QED
    BY <1>7, <2>3, <2>4, <2>5, <2>7
<1> QED
  BY <1>8, <1>9

\* A step of a reader that puts nothing and evicts nothing.
LEMMA ReadersBounded ==
  ASSUME TypedCache, TypedCache', Bounded(calls, table), NEW p \in Procs,
         \/ Hit(p) \/ FindNothing(p) \/ FindExpired(p) \/ DeleteExpired(p) \/ TryLock(p)
         \/ LookAtOwner(p) \/ Steal(p) \/ Load(p) \/ LoadFails(p) \/ Release(p)
         \/ Deadline(p) \/ Change(p) \/ \E k \in Keys : Get(p, k)
  PROVE  Bounded(calls', table')
<1>1. calls \in [Procs -> CallType]
  BY DEF TypedCache, TypeOK, CallType
<1>2. TableFewer
  BY DEF Hit, FindNothing, FindExpired, DeleteExpired, TryLock, LookAtOwner, Steal, Load, LoadFails,
         Release, Deadline, Change, Get, TableFewer
<1>3. \A q \in Procs : q # p => calls'[q] = calls[q]
  BY <1>1 DEF Hit, FindNothing, FindExpired, DeleteExpired, TryLock, LookAtOwner, Steal, Load,
         LoadFails, Release, Deadline, Change, Get, Miss, GoTo, Return
<1>4. /\ calls[p].pc \notin {"count", "select", "evict"}
      /\ calls'[p].pc \notin {"count", "select", "evict"}
  BY <1>1 DEF Hit, FindNothing, FindExpired, DeleteExpired, TryLock, LookAtOwner, Steal, Load,
         LoadFails, Release, Deadline, Change, Get, Miss, GoTo, Return, Idle, At, CallType
<1>5. Elsewhere(p) /\ p \notin Putting(calls) /\ p \notin Putting(calls')
  BY <1>3, <1>4 DEF Elsewhere, Putting
<1> QED
  BY <1>2, <1>5, OutsideBounded

\* Invalidations only delete.
LEMMA InvalidateBounded ==
  ASSUME TypedCache, TypedCache', Bounded(calls, table), NEW p \in Procs, Invalidate(p)
  PROVE  Bounded(calls', table')
<1>1. calls \in [Procs -> CallType] /\ Done(p).pc = "idle"
  BY DEF TypedCache, TypeOK, CallType, Done, Idle
<1>2. TableFewer
  BY DEF Invalidate, ListKeys, DeleteListed, Reset, TableFewer
<1>3. Elsewhere(p) /\ calls[p].pc \in {"list", "delete"} /\ calls'[p].pc \in {"idle", "delete"}
  <2>1. CASE DeleteListed(p)
    BY <1>1, <2>1 DEF DeleteListed, Return, Elsewhere, At, CallType, Idle
  <2>2. ASSUME NEW c, Seen(p, c), c.pc \in {"idle", "delete"}
        PROVE  Elsewhere(p) /\ calls'[p].pc \in {"idle", "delete"}
    BY <1>1, <2>2 DEF Seen, Elsewhere, CallType
  <2>3. CASE ListKeys(p) \/ Reset(p)
    <3> DEFINE d == [calls[p] EXCEPT !.pc = "delete", !.victims = Listed]
    <3>1. d.pc = "delete"
      BY <1>1 DEF CallType
    <3>2. (Seen(p, Done(p)) \/ Seen(p, d)) /\ calls[p].pc = "list"
      BY <2>3 DEF ListKeys, Reset, At
    <3> HIDE DEF d
    <3> QED
      BY <1>1, <2>2, <3>1, <3>2
  <2> QED
    BY <2>1, <2>3 DEF Invalidate
<1>4. p \notin Putting(calls) /\ p \notin Putting(calls')
  BY <1>3 DEF Putting
<1> QED
  BY <1>2, <1>3, <1>4, OutsideBounded

\* An empty table.
LEMMA InitBounded == Init => Bounded(calls, table)
<1> SUFFICES ASSUME Init, NEW S \in SUBSET Selected(calls)
             PROVE  Cardinality(Left(calls, table, S)) <= MaxEntries + Cardinality(Putting(calls) \ S)
  BY DEF Bounded
<1>1. table = <<>> /\ table \in Seq(Entries)
  BY EmptySeq DEF Init
<1>2. Left(calls, table, S) = {}
  BY <1>1 DEF Left, Spared
<1>3. Cardinality(Left(calls, table, S)) = 0
  BY <1>2, FS_EmptySet, Zenon
<1>4. Cardinality(Putting(calls) \ S) \in Nat /\ MaxEntries \in Nat
  BY <1>1, SidesType
<1> QED
  BY <1>3, <1>4

\* Every step keeps the bound.
LEMMA NextBounded == TypedCache /\ Bounded(calls, table) /\ [Next]_vars => Bounded(calls, table)'
<1> SUFFICES ASSUME TypedCache, TypedCache', Bounded(calls, table), [Next]_vars
             PROVE  Bounded(calls', table')
  BY NextTyped
<1>1. ASSUME NEW p \in Procs, Step(p) \/ Change(p) \/ Deadline(p) \/ \E k \in Keys : Get(p, k)
      PROVE  Bounded(calls', table')
  BY <1>1, ReadersBounded, PutBounded, CountBounded, SelectBounded, EvictBounded DEF Step
<1>2. ASSUME NEW p \in Procs, Invalidate(p)
      PROVE  Bounded(calls', table')
  BY <1>2, InvalidateBounded
<1>3. CASE UNCHANGED <<calls, table>>
  BY <1>3
<1>4. CASE Expire
  <2>1. PICK i \in DOMAIN table : table' = [table EXCEPT ![i].expired = TRUE]
    BY <1>4 DEF Expire
  <2>2. calls' = calls /\ \A n \in DOMAIN table : table[n] \in Entries
    BY <1>4, TableKeysType DEF Expire, TypedCache
  <2>3. DOMAIN table' = DOMAIN table /\ \A n \in DOMAIN table : table'[n].key = table[n].key
    BY <2>1, <2>2 DEF Entries
  <2>4. \A ns, ks : Spared(table', ns, ks) = Spared(table, ns, ks)
    BY <2>3 DEF Spared
  <2>5. \A S : Left(calls', table', S) = Left(calls, table, S)
    BY <2>2, <2>4 DEF Left
  <2> QED
    BY <2>2, <2>5 DEF Bounded
<1> QED
  BY <1>1, <1>2, <1>3, <1>4, Zenon DEF Next, Killed, vars

\* evict_by_entries, for any number of processes, keys and entries: evictions that run at
\* the same time, each with a size and a list of its own, and invalidations beside them
\* never leave more entries than the limit and one for each put that is not done evicting.
THEOREM TableBounded == Spec => []BoundedTable
<1>1. TypedCache /\ Bounded(calls, table) => BoundedTable
  <2> SUFFICES ASSUME TypedCache, Bounded(calls, table)
               PROVE  BoundedTable
    OBVIOUS
  <2>1. Cardinality(Left(calls, table, {})) <= MaxEntries + Cardinality(Putting(calls) \ {})
    BY DEF Bounded
  <2>2. Left(calls, table, {}) = DOMAIN table
    BY DEF Left, Spared, Cuts, Doomed
  <2>3. DOMAIN table = 1 .. Len(table) /\ Len(table) \in Nat
    BY TableKeysType DEF TypedCache
  <2>4. Cardinality(1 .. Len(table)) = Len(table)
    <3>1. 1 \in Int /\ Len(table) \in Int
      BY <2>3
    <3>2. Cardinality(1 .. Len(table)) = IF 1 > Len(table) THEN 0 ELSE Len(table) - 1 + 1
      BY <3>1, FS_Interval
    <3> QED
      BY <2>3, <3>2
  <2>5. Putting(calls) \ {} = Unevicted
    BY DEF Putting, Unevicted
  <2> QED
    BY <2>1, <2>2, <2>3, <2>4, <2>5 DEF BoundedTable
<1> QED
  BY <1>1, InitTyped, NextTyped, InitBounded, NextBounded, PTL DEF Spec
=============================================================================
