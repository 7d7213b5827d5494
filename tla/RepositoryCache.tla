--------------------------- MODULE RepositoryCache ---------------------------
(***************************************************************************)
(* The cache of one repository (repository-storage/cache.ex and            *)
(* repository_cache.ex).  Entries live in a public ETS table; the process  *)
(* of a request that misses one loads it under a lock, a row of a second   *)
(* table that names the process, while others that miss it poll.  A change *)
(* of the repository (a commit, a promotion, a fetch, a grant) ends with   *)
(* an invalidation.  One ETS operation is atomic, a function is the        *)
(* sequence of those it makes, and a request can be killed between any two *)
(* of them, lock in hand.                                                  *)
(*                                                                         *)
(* The table is the sequence of its entries in the order they were put,    *)
(* which is the order in which they are evicted: a hit does not write.     *)
(* What a loader reads is the number of changes made so far.               *)
(***************************************************************************)
EXTENDS Integers, Sequences, FiniteSets

CONSTANTS
    Readers,     \* processes that call get_or_load
    Writers,     \* processes that change the repository
    Mortal,      \* processes that may be killed
    Impatient,   \* processes whose deadline may pass
    NoProc,      \* no process
    Keys,
    Wants,       \* the keys each process may ask for
    Perishable,  \* keys whose entry may expire
    MaxEntries,  \* max_entries
    MaxCalls     \* bound on the calls of each process

Procs == Readers \cup Writers

ASSUME CacheConstants ==
    /\ IsFiniteSet(Readers) /\ IsFiniteSet(Writers)
    /\ Readers \cap Writers = {}
    /\ Mortal \subseteq Procs /\ Impatient \subseteq Readers
    /\ NoProc \notin Procs
    /\ Wants \in [Readers -> SUBSET Keys]
    /\ Perishable \subseteq Keys
    /\ MaxEntries \in Nat \ {0}
    /\ MaxCalls \in Nat

VARIABLES
    source,       \* the changes of the repository
    table,        \* the entries
    locks,        \* TreeDx.Cache.Loads: the process that loads each key
    calls,        \* what each process is doing
    alive,        \* processes that have not been killed
    invalidated   \* history: the last change whose invalidation has returned

vars == <<source, table, locks, calls, alive, invalidated>>

-----------------------------------------------------------------------------
Pcs == {"idle", "lookup", "expire", "try", "owner", "steal", "load", "put", "count",
        "select", "evict", "release", "list", "delete"}

\* raced is history: an invalidation listed the keys of the table after this version
\* was loaded and before it was put.
Entries == [key : Keys, version : Nat, expired : BOOLEAN, raced : BOOLEAN]

Idle == [pc |-> "idle", key |-> NoProc, at |-> "first", late |-> FALSE, gone |-> NoProc,
         version |-> 0, raced |-> FALSE, excess |-> 0, victims |-> <<>>, made |-> 0]

Init ==
    /\ source = 0
    /\ table = <<>>
    /\ locks = [k \in Keys |-> NoProc]
    /\ calls = [p \in Procs |-> Idle]
    /\ alive = Procs
    /\ invalidated = 0

At(p, pc) == p \in alive /\ calls[p].pc = pc
Key(p) == calls[p].key
GoTo(p, pc) == calls' = [calls EXCEPT ![p].pc = pc]

\* The call ends.
Return(p) == calls' = [calls EXCEPT ![p] = [Idle EXCEPT !.made = calls[p].made + 1]]

Found(k) == {i \in DOMAIN table : table[i].key = k}

\* The rows but that of k, of which a table of type set holds at most one.
Without(t, k) ==
    IF \E i \in DOMAIN t : t[i].key = k
    THEN LET i == CHOOSE i \in DOMAIN t : t[i].key = k
         IN  SubSeq(t, 1, i - 1) \o SubSeq(t, i + 1, Len(t))
    ELSE t

TableKeys == [i \in DOMAIN table |-> table[i].key]

-----------------------------------------------------------------------------
(***************************************************************************)
(* get_or_load.                                                            *)
(***************************************************************************)
Get(p, k) ==
    /\ p \in Readers /\ k \in Wants[p]
    /\ At(p, "idle")
    /\ calls[p].made < MaxCalls
    /\ calls' = [calls EXCEPT ![p].pc = "lookup", ![p].key = k]
    /\ UNCHANGED <<source, table, locks, alive, invalidated>>

\* lookup finds an entry that has not expired.
Hit(p) ==
    /\ At(p, "lookup")
    /\ \E i \in Found(Key(p)) : ~table[i].expired
    /\ IF calls[p].at = "recheck" THEN GoTo(p, "release") ELSE Return(p)
    /\ UNCHANGED <<source, table, locks, alive, invalidated>>

\* What follows a miss: of get_or_load, of load_once, of await_load.
Miss(p) ==
    CASE calls[p].at = "first" -> GoTo(p, "try")
      [] calls[p].at = "recheck" -> GoTo(p, "load")
      [] OTHER -> IF calls[p].late THEN Return(p) ELSE GoTo(p, "owner")

FindNothing(p) ==
    /\ At(p, "lookup")
    /\ Found(Key(p)) = {}
    /\ Miss(p)
    /\ UNCHANGED <<source, table, locks, alive, invalidated>>

FindExpired(p) ==
    /\ At(p, "lookup")
    /\ \E i \in Found(Key(p)) : table[i].expired
    /\ GoTo(p, "expire")
    /\ UNCHANGED <<source, table, locks, alive, invalidated>>

\* It deletes the key, whatever is there now.
DeleteExpired(p) ==
    /\ At(p, "expire")
    /\ table' = Without(table, Key(p))
    /\ Miss(p)
    /\ UNCHANGED <<source, locks, alive, invalidated>>

\* load_once: insert_new; await_load starts with a deadline of its own.
TryLock(p) ==
    /\ At(p, "try")
    /\ IF locks[Key(p)] = NoProc
       THEN /\ locks' = [locks EXCEPT ![Key(p)] = p]
            /\ calls' = [calls EXCEPT ![p].pc = "lookup", ![p].at = "recheck"]
       ELSE /\ calls' = [calls EXCEPT ![p].pc = "lookup", ![p].at = "await",
                                      ![p].late = FALSE]
            /\ UNCHANGED locks
    /\ UNCHANGED <<source, table, alive, invalidated>>

\* The deadline of await_load passes.
Deadline(p) ==
    /\ p \in Impatient
    /\ At(p, "lookup")
    /\ calls[p].at = "await" /\ ~calls[p].late
    /\ calls' = [calls EXCEPT ![p].late = TRUE]
    /\ UNCHANGED <<source, table, locks, alive, invalidated>>

\* Mutant: whether the owner lives is not asked.
LookAtOwnerTrusting(p) ==
    /\ At(p, "owner")
    /\ GoTo(p, IF locks[Key(p)] = NoProc THEN "try" ELSE "lookup")
    /\ UNCHANGED <<source, table, locks, alive, invalidated>>

\* await_load: who holds the lock, and whether that process lives.
LookAtOwner(p) ==
    /\ At(p, "owner")
    /\ LET owner == locks[Key(p)] IN
         \/ /\ owner = NoProc
            /\ GoTo(p, "try")
         \/ /\ owner \in alive
            /\ GoTo(p, "lookup")
         \/ /\ owner \notin alive /\ owner # NoProc
            /\ calls' = [calls EXCEPT ![p].pc = "steal", ![p].gone = owner]
    /\ UNCHANGED <<source, table, locks, alive, invalidated>>

\* Mutant: the lock is deleted by its key.
StealAny(p) ==
    /\ At(p, "steal")
    /\ locks' = [locks EXCEPT ![Key(p)] = NoProc]
    /\ GoTo(p, "try")
    /\ UNCHANGED <<source, table, alive, invalidated>>

\* delete_object: the lock of that owner, and of no other.
Steal(p) ==
    /\ At(p, "steal")
    /\ locks' = [locks EXCEPT ![Key(p)] = IF @ = calls[p].gone THEN NoProc ELSE @]
    /\ calls' = [calls EXCEPT ![p].pc = "try", ![p].gone = NoProc]
    /\ UNCHANGED <<source, table, alive, invalidated>>

\* The loader reads the repository.
Load(p) ==
    /\ At(p, "load")
    /\ calls' = [calls EXCEPT ![p].pc = "put", ![p].version = source]
    /\ UNCHANGED <<source, table, locks, alive, invalidated>>

\* It returns an error or raises.
LoadFails(p) ==
    /\ At(p, "load")
    /\ GoTo(p, "release")
    /\ UNCHANGED <<source, table, locks, alive, invalidated>>

Put(p) ==
    /\ At(p, "put")
    /\ table' = Append(Without(table, Key(p)),
                       [key |-> Key(p), version |-> calls[p].version,
                        expired |-> FALSE, raced |-> calls[p].raced])
    /\ calls' = [calls EXCEPT ![p].pc = "count", ![p].version = 0, ![p].raced = FALSE]
    /\ UNCHANGED <<source, locks, alive, invalidated>>

\* evict_by_entries reads the size of the table, then its entries, and deletes the
\* oldest ones by their keys.
EvictCount(p) ==
    /\ At(p, "count")
    /\ IF Len(table) > MaxEntries
       THEN calls' = [calls EXCEPT ![p].pc = "select", ![p].excess = Len(table) - MaxEntries]
       ELSE GoTo(p, "release")
    /\ UNCHANGED <<source, table, locks, alive, invalidated>>

\* Mutant: one too few.
OldestButOne(n) == SubSeq(TableKeys, 1, IF n < Len(table) THEN n - 1 ELSE Len(table))

Oldest(n) == SubSeq(TableKeys, 1, IF n < Len(table) THEN n ELSE Len(table))

EvictSelect(p) ==
    /\ At(p, "select")
    /\ LET victims == Oldest(calls[p].excess) IN
         calls' = [calls EXCEPT ![p].pc = IF victims = <<>> THEN "release" ELSE "evict",
                                ![p].victims = victims, ![p].excess = 0]
    /\ UNCHANGED <<source, table, locks, alive, invalidated>>

EvictOne(p) ==
    /\ At(p, "evict")
    /\ LET victims == calls[p].victims IN
         /\ table' = Without(table, Head(victims))
         /\ calls' = [calls EXCEPT ![p].victims = Tail(victims),
                                   ![p].pc = IF Len(victims) = 1 THEN "release" ELSE "evict"]
    /\ UNCHANGED <<source, locks, alive, invalidated>>

\* The after of load_once: the lock is deleted by its key.
Release(p) ==
    /\ At(p, "release")
    /\ locks' = [locks EXCEPT ![Key(p)] = NoProc]
    /\ Return(p)
    /\ UNCHANGED <<source, table, alive, invalidated>>

-----------------------------------------------------------------------------
(***************************************************************************)
(* Changes, time and kills.                                                *)
(***************************************************************************)

\* A commit, a promotion or a grant is done; the invalidation follows.
Change(p) ==
    /\ p \in Writers
    /\ At(p, "idle")
    /\ calls[p].made < MaxCalls
    /\ source' = source + 1
    /\ calls' = [calls EXCEPT ![p].pc = "list", ![p].version = source + 1]
    /\ UNCHANGED <<table, locks, alive, invalidated>>

\* The calls as they are when an invalidation has seen the table, writer p going on as c.
Seen(p, c) ==
    calls' = [q \in Procs |->
                IF q = p THEN c
                ELSE IF calls[q].pc = "put" THEN [calls[q] EXCEPT !.raced = TRUE]
                ELSE calls[q]]

Done(p) == [Idle EXCEPT !.made = calls[p].made + 1]
Invalidated(p) ==
    invalidated' = IF calls[p].version > invalidated THEN calls[p].version ELSE invalidated

\* Mutant: the last key is forgotten.
ListedButLast == SubSeq(TableKeys, 1, Len(table) - 1)

Listed == TableKeys

\* invalidate_repository: the keys of the table, then a delete for each.
ListKeys(p) ==
    /\ At(p, "list")
    /\ IF Listed = <<>>
       THEN Seen(p, Done(p)) /\ Invalidated(p)
       ELSE /\ Seen(p, [calls[p] EXCEPT !.pc = "delete", !.victims = Listed])
            /\ UNCHANGED invalidated
    /\ UNCHANGED <<source, table, locks, alive>>

DeleteListed(p) ==
    /\ At(p, "delete")
    /\ LET victims == calls[p].victims IN
         /\ table' = Without(table, Head(victims))
         /\ IF Len(victims) = 1
            THEN Return(p) /\ Invalidated(p)
            ELSE /\ calls' = [calls EXCEPT ![p].victims = Tail(victims)]
                 /\ UNCHANGED invalidated
    /\ UNCHANGED <<source, locks, alive>>

\* reset!, after a grant was written: all entries at once.
Reset(p) ==
    /\ At(p, "list")
    /\ table' = <<>>
    /\ Seen(p, Done(p))
    /\ Invalidated(p)
    /\ UNCHANGED <<source, locks, alive>>

\* The lifetime of an entry ends.
Expire ==
    /\ \E i \in DOMAIN table :
         /\ table[i].key \in Perishable /\ ~table[i].expired
         /\ table' = [table EXCEPT ![i].expired = TRUE]
    /\ UNCHANGED <<source, locks, calls, alive, invalidated>>

\* The process of a call is killed: its after is not run.
Killed(p) ==
    /\ p \in Mortal \cap alive
    /\ calls[p].pc # "idle"
    /\ alive' = alive \ {p}
    /\ UNCHANGED <<source, table, locks, calls, invalidated>>

-----------------------------------------------------------------------------
Step(p) ==
    \/ Hit(p) \/ FindNothing(p) \/ FindExpired(p) \/ DeleteExpired(p)
    \/ TryLock(p) \/ LookAtOwner(p) \/ Steal(p)
    \/ Load(p) \/ LoadFails(p)
    \/ Put(p) \/ EvictCount(p) \/ EvictSelect(p) \/ EvictOne(p) \/ Release(p)

Invalidate(p) == ListKeys(p) \/ DeleteListed(p) \/ Reset(p)

Next ==
    \/ \E p \in Procs :
         \/ \E k \in Keys : Get(p, k)
         \/ Change(p)
         \/ Step(p)
         \/ Invalidate(p)
         \/ Deadline(p)
         \/ Killed(p)
    \/ Expire

Spec == Init /\ [][Next]_vars

\* Processes that live are scheduled, and a load ends.  No deadline need ever pass.
FairSpec == Spec /\ \A p \in Readers : WF_vars(Step(p))

-----------------------------------------------------------------------------
(***************************************************************************)
(* Properties.                                                             *)
(***************************************************************************)
TypeOK ==
    /\ source \in Nat /\ invalidated \in Nat
    /\ table \in Seq(Entries)
    /\ locks \in [Keys -> Procs \cup {NoProc}]
    /\ calls \in [Procs -> [pc : Pcs, key : Keys \cup {NoProc},
                            at : {"first", "recheck", "await"}, late : BOOLEAN,
                            gone : Procs \cup {NoProc}, version : Nat, raced : BOOLEAN,
                            excess : Nat, victims : Seq(Keys), made : Nat]]
    /\ alive \subseteq Procs

\* p is inside the lock of load_once.
Loading(p) ==
    \/ calls[p].pc \in {"load", "put", "count", "select", "evict", "release"}
    \/ calls[p].pc \in {"lookup", "expire"} /\ calls[p].at = "recheck"

\* cache_test.exs: "coalesces concurrent loaders for the same cache key": however owners
\* of the lock are killed and whoever takes it over from them, no two living processes
\* load one key at the same time (load_once, await_load).
SingleFlight ==
    \A p, q \in alive : Loading(p) /\ Loading(q) /\ Key(p) = Key(q) => p = q

\* Processes that have put an entry and not evicted yet, killed ones included.
Unevicted == {p \in Procs : calls[p].pc \in {"count", "select", "evict"}}

\* The limit of the table holds but for puts whose eviction is not done: evictions that
\* run at the same time, each with a size and a list of its own, and invalidations never
\* leave more (put, evict_by_entries).
BoundedTable == Len(table) <= MaxEntries + Cardinality(Unevicted)

\* invalidate_repository and reset! against loads: an entry from before a change whose
\* invalidation has returned was loaded before the change, and put after the
\* invalidation had seen the table.  No other order leaves a stale entry.
StaleOnlyIfRaced ==
    \A i \in DOMAIN table : table[i].version < invalidated => table[i].raced

\* Every get_or_load of a living process returns without its deadline, also behind an owner that
\* was killed with the lock (await_load, load_once): nobody waits for a dead process.
EveryCallReturns ==
    \A p \in Readers : calls[p].pc # "idle" ~> calls[p].pc = "idle" \/ p \notin alive
=============================================================================
