--------------------------- MODULE StoreCallsProofs ---------------------------
(***************************************************************************)
(* Theorems about StoreCalls: what was answered about snapshots stays, and *)
(* cached scopes follow the grants, whatever else the server does; answers *)
(* about repositories hold, and what refs name is there.                   *)
(***************************************************************************)
EXTENDS StoreCalls, FiniteSetTheorems, FunctionTheorems, SequenceTheorems,
        WellFoundedInduction, TLAPS

-----------------------------------------------------------------------------
(***************************************************************************)
(* Snapshots.                                                              *)
(***************************************************************************)
AllSnapCalls == BuildCalls \cup DownloadCalls

\* A build is on its way to a new manifest, or between its two records.
Before(c) == snap[c].pc \in {"clear", "create", "write", "remove", "rename", "manifest"}
Building(c) == Before(c) \/ snap[c].pc = "artifact"

SnapTypeInv ==
    /\ tmpDir \in [Snapshots -> Int]
    /\ finalDir \in [Snapshots -> Int]
    /\ manifests \in [Snapshots -> Nat]
    /\ artifacts \in [Snapshots -> Nat]
    /\ builds \in Nat
    /\ snap \in [AllSnapCalls -> [pc : {"idle", "done", "clear", "create", "write", "remove",
                                        "rename", "manifest", "artifact", "bytes"},
                                  build : Nat, bytes : Int]]
    /\ promised \in [Snapshots -> Nat]

\* Builds and what they have made so far.
BuildInv ==
    /\ \A c, d \in BuildCalls :
         Building(c) /\ Building(d) /\ SnapshotOf[c] = SnapshotOf[d] => c = d
    /\ \A c \in AllSnapCalls :
         /\ Building(c) => c \in BuildCalls
         /\ Before(c) => manifests[SnapshotOf[c]] = Missing
         /\ snap[c].pc \in {"write", "remove", "rename", "manifest", "artifact"} =>
              snap[c].build # Missing
         /\ snap[c].pc \in {"remove", "rename"} => tmpDir[SnapshotOf[c]] = snap[c].build
         /\ snap[c].pc = "manifest" => finalDir[SnapshotOf[c]] = snap[c].build
         /\ snap[c].pc = "artifact" => manifests[SnapshotOf[c]] = snap[c].build

\* A manifest is never without its artifact, and an answer has its manifest.
ManifestInv ==
    \A s \in Snapshots :
        /\ manifests[s] # Missing => finalDir[s] = manifests[s]
        /\ promised[s] # Missing => manifests[s] = promised[s]

\* What downloads have read.
DownloadInv ==
    \A c \in DownloadCalls :
        /\ snap[c].pc = "idle" => snap[c].bytes = Missing
        /\ snap[c].pc = "bytes" =>
             snap[c].build # Missing /\ manifests[SnapshotOf[c]] = snap[c].build
        /\ snap[c].pc = "done" => snap[c].bytes = snap[c].build

SnapInv == SnapTypeInv /\ BuildInv /\ ManifestInv /\ DownloadInv

-----------------------------------------------------------------------------
\* The first start of the server, with nothing stored.
LEMMA SnapInitInv == SnapshotInit => SnapInv
BY SnapshotConstants
   DEF SnapshotInit, SnapInv, SnapTypeInv, BuildInv, ManifestInv, DownloadInv, AllSnapCalls,
       Building, Before, IdleSnap, Missing

\* A restart: what is on disk stays, and the calls are forgotten.
LEMMA SnapRestartInv == SnapInv /\ SnapshotRestart => SnapInv'
BY SnapshotConstants
   DEF SnapshotRestart, SnapInv, SnapTypeInv, BuildInv, ManifestInv, DownloadInv, AllSnapCalls,
       Building, Before, IdleSnap, Missing

\* Other calls of the store touch nothing of this.
LEMMA SnapStutter == SnapInv /\ UNCHANGED snapshotVars => SnapInv'
BY DEF snapshotVars, SnapInv, SnapTypeInv, BuildInv, ManifestInv, DownloadInv, AllSnapCalls,
       Building, Before

\* Every step of a build or a download.
LEMMA SnapStepInv ==
    ASSUME SnapInv, NEW c \in AllSnapCalls, SnapshotStep(c)
    PROVE  SnapInv'
<1> DEFINE s == SnapshotOf[c]
<1>0. s \in Snapshots
  BY SnapshotConstants DEF AllSnapCalls
<1> USE SnapshotConstants, <1>0
<1> USE DEF SnapInv, SnapTypeInv, BuildInv, ManifestInv, DownloadInv, AllSnapCalls, Building, Before,
            SnapGoto, IdleSnap, Missing, Empty, Torn
<1>1. CASE BeginBuild(c)
  BY <1>1 DEF BeginBuild, OneBuild, Reusable
<1>2. CASE ClearTmp(c)
  BY <1>2 DEF ClearTmp
<1>3. CASE CreateArtifact(c)
  <2>1. SnapTypeInv' /\ ManifestInv' /\ DownloadInv'
    BY <1>3 DEF CreateArtifact
  <2>2. BuildInv'
    BY <1>3 DEF CreateArtifact
  <2> QED BY <2>1, <2>2
<1>4. CASE WriteArtifact(c)
  BY <1>4 DEF WriteArtifact
<1>5. CASE RemoveFinal(c)
  BY <1>5 DEF RemoveFinal
<1>6. CASE RenameTmp(c)
  BY <1>6 DEF RenameTmp
<1>7. CASE PutManifest(c)
  BY <1>7 DEF PutManifest
<1>8. CASE PutArtifact(c)
  BY <1>8 DEF PutArtifact
<1>9. CASE ReadManifest(c)
  <2>1. SnapTypeInv' /\ BuildInv' /\ ManifestInv'
    BY <1>9 DEF ReadManifest
  <2>2. DownloadInv'
    BY <1>9 DEF ReadManifest
  <2> QED BY <2>1, <2>2
<1>10. CASE ReadBytes(c)
  <2>1. finalDir[s] = snap[c].build
    BY <1>10 DEF ReadBytes
  <2>2. SnapTypeInv' /\ ManifestInv'
    BY <1>10 DEF ReadBytes
  <2>3. BuildInv'
    BY <1>10 DEF ReadBytes
  <2>4. DownloadInv'
    BY <1>10, <2>1 DEF ReadBytes
  <2> QED BY <2>2, <2>3, <2>4
<1> QED
  BY <1>1, <1>2, <1>3, <1>4, <1>5, <1>6, <1>7, <1>8, <1>9, <1>10 DEF SnapshotStep

-----------------------------------------------------------------------------
(***************************************************************************)
(* Grants.                                                                 *)
(***************************************************************************)
GrantRecords == [repos : SUBSET Repos, expires : Nat, revoked : BOOLEAN]
Logs == [Envelopes -> GrantRecords \cup {NoGrant}]
ScopeKeys == Repos \cup {Global}
Scopes == {Scope(x[1], x[2], x[3]) : x \in Logs \X Nat \X ScopeKeys} \cup {NoScope}
AccessRecords ==
    [pc : {"idle", "done", "load", "put", "write", "reset"}, scope : Scopes, raced : BOOLEAN,
     id : Envelopes \cup {NoGrant}, record : GrantRecords \cup {NoGrant}, version : Int]

GrantTypeInv ==
    /\ grants \in Logs
    /\ scopes \in [ScopeKeys -> [scope : Scopes, at : Nat, raced : BOOLEAN]]
    /\ access \in [PolicyCalls -> AccessRecords]
    /\ now \in Nat

\* The history ends with the grants as they are, and is cut at answered changes only.
HistoryInv ==
    /\ policies \in Seq(Logs)
    /\ policies # <<>>
    /\ policies[Len(policies)] = grants
    /\ \A p \in PolicyCalls : access[p].pc = "reset" => access[p].version <= Len(policies)

\* A scope that followed from the grants of the history at some time.
Derived(scope, r) ==
    \E i \in 1 .. Len(policies), t \in Nat :
        t <= now /\ scope = Scope(policies[i], t, r)

\* Scopes that were read after the last answered change, cached or about to be.
ScopeInv ==
    /\ \A p \in PolicyCalls :
         /\ access[p].pc = "put" => /\ p \in Checks
                                    /\ access[p].scope # NoScope
                                    /\ ~access[p].raced => Derived(access[p].scope, RepoFor[p])
         /\ access[p].pc = "write" => access[p].id \in Envelopes /\ access[p].record \in GrantRecords
    /\ \A r \in ScopeKeys :
         scopes[r] # NoEntry =>
            /\ scopes[r].scope # NoScope
            /\ ~scopes[r].raced => Derived(scopes[r].scope, r)

GrantInv == GrantTypeInv /\ HistoryInv /\ ScopeInv

-----------------------------------------------------------------------------
\* The order of times, of which a set has a first one.
Sooner == {ss \in Nat \X Nat : ss[1] < ss[2]}

LEMMA SoonerWellFounded == IsWellFoundedOn(Sooner, Nat)
BY NatLessThanWellFounded DEF OpToRel, Sooner

\* `min` over the expiries of grants.
LEMMA EarliestIs ==
    ASSUME NEW T, T \subseteq Nat, T # {}
    PROVE  Earliest(T) \in T /\ \A u \in T : Earliest(T) <= u
<1>1. PICK t \in T : \A u \in T : <<u, t>> \notin Sooner
  BY SoonerWellFounded, WFMin
<1>2. \A u \in T : t <= u
  <2> TAKE u \in T
  <2>1. t \in Nat /\ u \in Nat
    OBVIOUS
  <2>2. ~(<<u, t>>[1] < <<u, t>>[2])
    BY <1>1, <2>1 DEF Sooner
  <2> QED BY <2>1, <2>2
<1> QED BY <1>1, <1>2 DEF Earliest

\* A scope stays what it is until the first of its grants expires.
LEMMA ScopeStays ==
    ASSUME NEW log \in Logs, NEW r, NEW t \in Nat, NEW u \in Nat, t <= u,
           Scope(log, t, r) # NoScope, u < Scope(log, t, r).expires
    PROVE  Scope(log, u, r) = Scope(log, t, r)
<1> DEFINE times == {log[e].expires : e \in Live(log, t, r)}
<1>1. Live(log, t, r) # {}
  BY DEF Scope
<1>2. Scope(log, t, r).expires = Earliest(times)
  BY <1>1 DEF Scope
<1>3. \A e \in Live(log, t, r) : log[e].expires \in Nat
  BY DEF Live, Logs, GrantRecords
<1>4. times \subseteq Nat /\ times # {}
  BY <1>1, <1>3
<1>5. Earliest(times) \in Nat /\ \A v \in times : Earliest(times) <= v
  <2> HIDE DEF times
  <2> QED BY <1>4, EarliestIs
<1>6. \A e \in Live(log, t, r) : log[e].expires > u
  <2> TAKE e \in Live(log, t, r)
  <2>1. log[e].expires \in times /\ log[e].expires \in Nat
    BY <1>3
  <2>2. Earliest(times) <= log[e].expires /\ u < Earliest(times)
    BY <2>1, <1>2, <1>5
  <2> HIDE DEF times
  <2> QED BY <2>1, <2>2, <1>5
<1>7. Live(log, u, r) \subseteq Live(log, t, r)
  <2> SUFFICES ASSUME NEW e \in Live(log, u, r) PROVE e \in Live(log, t, r)
    OBVIOUS
  <2>1. e \in Envelopes /\ log[e] # NoGrant /\ log[e].expires > u
    BY DEF Live
  <2>2. log[e].expires \in Nat
    BY <2>1 DEF Logs, GrantRecords
  <2> QED BY <2>1, <2>2 DEF Live
<1>8. Live(log, t, r) \subseteq Live(log, u, r)
  BY <1>6 DEF Live
<1> QED BY <1>7, <1>8 DEF Scope

\* Seeding keeps a log a log.
LEMMA SeededLog == ASSUME NEW log \in Logs PROVE Seeded(log) \in Logs
<1> SUFFICES ASSUME NEW e \in Envelopes, NEW g \in Seeds PROVE Record(g) \in GrantRecords
  BY DEF Seeded, Logs
<1> QED BY GrantConstants DEF Record, Grants, GrantRecords

\* A call that has not begun, and the ways a call's record is changed.
LEMMA IdleIsRecord ==
    /\ NoScope \in Scopes /\ IdleAccess \in AccessRecords
    /\ \A a \in AccessRecords, pc \in {"idle", "done", "load", "put", "write", "reset"} :
         [a EXCEPT !.pc = pc] \in AccessRecords
BY DEF IdleAccess, AccessRecords, Scopes

LEMMA FoundIsRecord ==
    ASSUME NEW id \in Envelopes \cup {NoGrant}, NEW record \in GrantRecords \cup {NoGrant}
    PROVE  [IdleAccess EXCEPT !.pc = "write", !.id = id, !.record = record] \in AccessRecords
<1> DEFINE found == [IdleAccess EXCEPT !.pc = "write", !.id = id, !.record = record]
<1>1. /\ DOMAIN found = {"pc", "scope", "raced", "id", "record", "version"}
      /\ found = [x \in DOMAIN found |-> found[x]]
  BY DEF IdleAccess
<1>2. /\ found.pc = "write" /\ found.scope = NoScope /\ found.raced = FALSE
      /\ found.id = id /\ found.record = record /\ found.version = 0
  BY DEF IdleAccess
<1>3. NoScope \in Scopes
  BY IdleIsRecord
<1> HIDE DEF found
<1>4. found = [pc |-> "write", scope |-> NoScope, raced |-> FALSE, id |-> id,
               record |-> record, version |-> 0]
  BY <1>1, <1>2
<1>5. found \in AccessRecords
  BY <1>3, <1>4 DEF AccessRecords
<1> QED BY <1>5 DEF found

\* The first start, over an empty log, and the next ones.
LEMMA GrantInitInv == GrantsInit => GrantInv
<1> SUFFICES ASSUME GrantsInit PROVE GrantInv
  OBVIOUS
<1>1. [e \in Envelopes |-> NoGrant] \in Logs
  BY DEF Logs
<1>2. grants \in Logs
  BY <1>1, SeededLog DEF GrantsInit
<1>3. NoEntry \in [scope : Scopes, at : Nat, raced : BOOLEAN]
  BY DEF NoEntry, Scopes
<1>4. GrantTypeInv
  BY <1>2, <1>3, IdleIsRecord DEF GrantsInit, GrantTypeInv, ScopeKeys
<1>5. HistoryInv
  BY <1>2 DEF GrantsInit, HistoryInv, IdleAccess
<1>6. ScopeInv
  BY DEF GrantsInit, ScopeInv, IdleAccess, ScopeKeys
<1> QED BY <1>4, <1>5, <1>6 DEF GrantInv

LEMMA GrantRestartInv == GrantInv /\ GrantsRestart => GrantInv'
<1> SUFFICES ASSUME GrantInv, GrantsRestart PROVE GrantInv'
  OBVIOUS
<1>2. grants' \in Logs
  BY SeededLog DEF GrantInv, GrantTypeInv, GrantsRestart
<1>3. NoEntry \in [scope : Scopes, at : Nat, raced : BOOLEAN]
  BY DEF NoEntry, Scopes
<1>4. GrantTypeInv'
  BY <1>2, <1>3, IdleIsRecord DEF GrantInv, GrantsRestart, GrantTypeInv, ScopeKeys
<1>5. HistoryInv'
  BY <1>2 DEF GrantsRestart, HistoryInv, IdleAccess
<1>6. ScopeInv'
  BY DEF GrantsRestart, ScopeInv, IdleAccess, ScopeKeys
<1> QED BY <1>4, <1>5, <1>6 DEF GrantInv

\* Other calls of the store.
LEMMA GrantStutter == GrantInv /\ UNCHANGED grantVars => GrantInv'
BY DEF GrantInv, GrantTypeInv, HistoryInv, ScopeInv, Derived, grantVars

\* A history that grows, at a later time, derives what it derived.
LEMMA DerivedStays ==
    ASSUME policies \in Seq(Logs), policies' \in Seq(Logs), now \in Nat, now' \in Nat,
           now <= now', Len(policies) <= Len(policies'),
           \A i \in 1 .. Len(policies) : policies'[i] = policies[i],
           NEW scope, NEW r, Derived(scope, r)
    PROVE  Derived(scope, r)'
<1>1. PICK i \in 1 .. Len(policies), t \in Nat :
        t <= now /\ scope = Scope(policies[i], t, r)
  BY DEF Derived
<1>2. i \in 1 .. Len(policies') /\ t <= now'
  BY <1>1
<1> QED BY <1>1, <1>2 DEF Derived

\* The history is what it was, and time has passed or not.
LEMMA DerivedUnchanged ==
    ASSUME HistoryInv, policies' = policies, now \in Nat, now' \in Nat, now <= now',
           NEW scope, NEW r, Derived(scope, r)
    PROVE  Derived(scope, r)'
BY DerivedStays DEF HistoryInv

\* A grant was written: the call goes on to reset the cache.
LEMMA PolicyGrows ==
    ASSUME GrantInv, NEW p \in PolicyCalls, NEW log \in Logs, grants' = log,
           policies' = Append(policies, log),
           access' = [access EXCEPT ![p] = [IdleAccess EXCEPT !.pc = "reset",
                                                             !.version = Len(policies')]],
           scopes' = scopes, now' = now
    PROVE  GrantInv'
<1>1. /\ policies \in Seq(Logs) /\ now \in Nat
      /\ Len(policies) \in Nat
  BY DEF GrantInv, GrantTypeInv, HistoryInv
<1>2. /\ policies' \in Seq(Logs) /\ Len(policies') = Len(policies) + 1
      /\ policies'[Len(policies')] = log
      /\ \A i \in 1 .. Len(policies) : policies'[i] = policies[i]
  BY <1>1
<1>3. /\ access'[p].pc = "reset" /\ access'[p].version = Len(policies')
      /\ \A q \in PolicyCalls \ {p} : access'[q] = access[q]
  BY DEF GrantInv, GrantTypeInv, IdleAccess
<1>4. GrantTypeInv'
  <2>1. [IdleAccess EXCEPT !.pc = "reset", !.version = Len(policies')] \in AccessRecords
    <3>1. Len(policies') \in Int /\ NoScope \in Scopes
      BY <1>1, <1>2, IdleIsRecord
    <3> QED BY <3>1 DEF IdleAccess, AccessRecords
  <2> QED BY <2>1 DEF GrantInv, GrantTypeInv
<1>5. HistoryInv'
  <2>1. \A q \in PolicyCalls : access[q].pc = "reset" => /\ access[q].version \in Int
                                                       /\ access[q].version <= Len(policies)
    BY DEF GrantInv, GrantTypeInv, HistoryInv, AccessRecords
  <2>2. \A q \in PolicyCalls : access'[q].pc = "reset" => access'[q].version <= Len(policies')
    BY <1>1, <1>2, <1>3, <2>1
  <2> QED BY <1>1, <1>2, <2>2 DEF HistoryInv
<1>6. \A scope, r : Derived(scope, r) => Derived(scope, r)'
  BY <1>1, <1>2, DerivedStays DEF GrantInv, GrantTypeInv
<1>7. ScopeInv'
  BY <1>3, <1>6 DEF GrantInv, ScopeInv
<1> QED BY <1>4, <1>5, <1>7 DEF GrantInv

\* Each step of a request and of a change of grants, and the time that passes.
LEMMA AskStep ==
    ASSUME GrantInv, NEW p \in PolicyCalls, AskScope(p)
    PROVE  GrantInv'
<1>1. GrantTypeInv'
  <2>1. access[p] \in AccessRecords
    BY DEF GrantInv, GrantTypeInv
  <2>2. [access[p] EXCEPT !.pc = "load"] \in AccessRecords
    BY <2>1, IdleIsRecord
  <2> QED BY <2>2 DEF AskScope, GrantInv, GrantTypeInv
<1>2. HistoryInv'
  BY DEF AskScope, GrantInv, GrantTypeInv, HistoryInv, AccessRecords
<1>3. \A scope, r : Derived(scope, r) => Derived(scope, r)'
  BY DerivedUnchanged DEF AskScope, GrantInv, GrantTypeInv
<1>4. ScopeInv'
  BY <1>3 DEF AskScope, GrantInv, GrantTypeInv, ScopeInv, AccessRecords
<1> QED BY <1>1, <1>2, <1>4 DEF GrantInv

LEMMA ResolveStep ==
    ASSUME GrantInv, NEW p \in PolicyCalls, ResolveScope(p)
    PROVE  GrantInv'
<1> DEFINE scope == Scope(grants, now, RepoFor[p])
<1>1. p \in Checks /\ RepoFor[p] \in ScopeKeys
  BY GrantConstants DEF ResolveScope, ScopeKeys
<1>2. grants \in Logs /\ now \in Nat /\ access[p] \in AccessRecords
  BY DEF GrantInv, GrantTypeInv
<1>3. scope \in Scopes
  <2>1. <<grants, now, RepoFor[p]>> \in Logs \X Nat \X ScopeKeys
    BY <1>1, <1>2
  <2>2. Scope(<<grants, now, RepoFor[p]>>[1], <<grants, now, RepoFor[p]>>[2],
              <<grants, now, RepoFor[p]>>[3]) \in Scopes
    BY <2>1 DEF Scopes
  <2> QED BY <2>2
<1>4. Derived(scope, RepoFor[p])
  BY <1>2 DEF Derived, GrantInv, HistoryInv
<1> HIDE DEF scope
<1>5. access' = [access EXCEPT ![p] = IF scope = NoScope THEN IdleAccess
                                      ELSE [@ EXCEPT !.pc = "put", !.scope = scope]]
  BY DEF ResolveScope, scope
<1>6. UNCHANGED <<grants, scopes, now, policies>>
  BY DEF ResolveScope
<1>7. GrantTypeInv'
  <2>1. [access[p] EXCEPT !.pc = "put", !.scope = scope] \in AccessRecords
    BY <1>2, <1>3 DEF AccessRecords
  <2> QED BY <1>5, <1>6, <2>1, IdleIsRecord DEF GrantInv, GrantTypeInv
<1>8. HistoryInv'
  BY <1>2, <1>5, <1>6 DEF GrantInv, GrantTypeInv, HistoryInv, IdleAccess, AccessRecords
<1>9. \A s, r : Derived(s, r) => Derived(s, r)'
  BY <1>2, <1>6, DerivedUnchanged DEF GrantInv
<1>10. ScopeInv'
  BY <1>1, <1>2, <1>4, <1>5, <1>6, <1>9
     DEF GrantInv, GrantTypeInv, ScopeInv, IdleAccess, AccessRecords
<1> QED BY <1>7, <1>8, <1>10 DEF GrantInv

LEMMA CacheStep ==
    ASSUME GrantInv, NEW p \in PolicyCalls, CacheScope(p)
    PROVE  GrantInv'
<1>1. p \in Checks /\ RepoFor[p] \in ScopeKeys /\ now \in Nat
  BY GrantConstants DEF CacheScope, ScopeKeys, GrantInv, GrantTypeInv
<1>2. GrantTypeInv'
  <2>1. [scope |-> access[p].scope, at |-> now, raced |-> access[p].raced]
          \in [scope : Scopes, at : Nat, raced : BOOLEAN]
    BY <1>1 DEF GrantInv, GrantTypeInv, AccessRecords
  <2>2. grants' \in Logs /\ now' \in Nat /\ access' \in [PolicyCalls -> AccessRecords]
    BY <1>1, IdleIsRecord DEF CacheScope, GrantInv, GrantTypeInv
  <2> QED BY <2>1, <2>2 DEF CacheScope, GrantInv, GrantTypeInv
<1>3. HistoryInv'
  BY DEF CacheScope, GrantInv, GrantTypeInv, HistoryInv, IdleAccess
<1>4. \A scope, r : Derived(scope, r) => Derived(scope, r)'
  BY <1>1, DerivedUnchanged DEF CacheScope, GrantInv
<1>5. ScopeInv'
  BY <1>1, <1>4 DEF CacheScope, GrantInv, GrantTypeInv, ScopeInv, IdleAccess
<1> QED BY <1>2, <1>3, <1>5 DEF GrantInv

LEMMA PutStep ==
    ASSUME GrantInv, NEW p \in PolicyCalls, PutGrant(p)
    PROVE  GrantInv'
<1>1. PICK g \in Inputs : grants' = [grants EXCEPT ![GrantId(g)] = Record(g)]
  BY DEF PutGrant
<1>2. Record(g) \in GrantRecords
  BY GrantConstants DEF Record, Grants, GrantRecords
<1>3. grants' \in Logs
  BY <1>1, <1>2 DEF Logs, GrantInv, GrantTypeInv
<1> QED BY <1>3, PolicyGrows DEF PutGrant

LEMMA RevokeStep ==
    ASSUME GrantInv, NEW p \in PolicyCalls, WriteRevoked(p)
    PROVE  GrantInv'
<1>1. access[p].record \in GrantRecords
  BY DEF WriteRevoked, GrantInv, ScopeInv
<1>2. [access[p].record EXCEPT !.revoked = TRUE] \in GrantRecords
  BY <1>1 DEF GrantRecords
<1>3. grants' \in Logs
  BY <1>2 DEF WriteRevoked, Logs, GrantInv, GrantTypeInv
<1> QED BY <1>3, PolicyGrows DEF WriteRevoked

LEMMA FindStep ==
    ASSUME GrantInv, NEW p \in PolicyCalls, FindGrant(p)
    PROVE  GrantInv'
<1>1. PICK e \in Envelopes :
        access' = [access EXCEPT ![p] =
           IF grants[e] = NoGrant THEN [IdleAccess EXCEPT !.pc = "done"]
           ELSE [IdleAccess EXCEPT !.pc = "write", !.id = e, !.record = grants[e]]]
  BY DEF FindGrant
<1>2. grants[e] \in GrantRecords \cup {NoGrant} /\ now \in Nat
  BY DEF GrantInv, GrantTypeInv, Logs
<1>3. UNCHANGED <<grants, scopes, now, policies>>
  BY DEF FindGrant
<1>4. GrantTypeInv'
  <2>1. [IdleAccess EXCEPT !.pc = "done"] \in AccessRecords
    BY IdleIsRecord
  <2>2. [IdleAccess EXCEPT !.pc = "write", !.id = e, !.record = grants[e]] \in AccessRecords
    BY <1>2, FoundIsRecord
  <2> QED BY <1>1, <1>3, <2>1, <2>2 DEF GrantInv, GrantTypeInv
<1>5. HistoryInv'
  BY <1>1, <1>3 DEF GrantInv, GrantTypeInv, HistoryInv, IdleAccess
<1>6. \A scope, r : Derived(scope, r) => Derived(scope, r)'
  BY <1>2, <1>3, DerivedUnchanged DEF GrantInv
<1>7. ScopeInv'
  BY <1>1, <1>2, <1>3, <1>6 DEF GrantInv, GrantTypeInv, ScopeInv, IdleAccess
<1> QED BY <1>4, <1>5, <1>7 DEF GrantInv

\* The answer of a change: nothing is cached, and what is about to be has raced.
LEMMA ResetStep ==
    ASSUME GrantInv, NEW p \in PolicyCalls, ResetScopes(p)
    PROVE  GrantInv'
<1> DEFINE old == IF access[p].version > 1 THEN access[p].version - 1 ELSE 0
<1>1. /\ access[p].version \in Int /\ access[p].version <= Len(policies)
      /\ policies \in Seq(Logs) /\ Len(policies) \in Nat /\ Len(policies) > 0
      /\ policies[Len(policies)] = grants
  BY DEF ResetScopes, GrantInv, GrantTypeInv, HistoryInv, AccessRecords
<1>2. old \in Nat /\ old < Len(policies)
  BY <1>1
<1>3. /\ policies' = SubSeq(policies, old + 1, Len(policies))
      /\ UNCHANGED <<grants, now>> /\ scopes' = [r \in ScopeKeys |-> NoEntry]
  BY DEF ResetScopes, Cleared, ScopeKeys
<1>4. access' = [q \in PolicyCalls |->
                    CASE q = p -> [IdleAccess EXCEPT !.pc = "done"]
                      [] q # p /\ access[q].pc = "put" -> [access[q] EXCEPT !.raced = TRUE]
                      [] q # p /\ access[q].pc = "reset" -> [access[q] EXCEPT !.version = @ - old]
                      [] OTHER -> access[q]]
  BY DEF ResetScopes
<1> HIDE DEF old
<1>5. /\ policies' \in Seq(Logs) /\ Len(policies') = Len(policies) - old
      /\ policies'[Len(policies')] = grants
  <2>1. Len(policies') = Len(policies) - old
    BY <1>1, <1>2, <1>3
  <2>2. \A i \in 1 .. Len(policies) - old : policies'[i] = policies[old + i]
    BY <1>1, <1>2, <1>3
  <2>3. policies' \in Seq(Logs)
    BY <1>1, <1>2, <1>3
  <2> QED BY <1>1, <1>2, <2>1, <2>2, <2>3
<1>6. /\ access'[p] = [IdleAccess EXCEPT !.pc = "done"]
      /\ \A q \in PolicyCalls \ {p} :
           /\ access[q].pc = "put" => access'[q] = [access[q] EXCEPT !.raced = TRUE]
           /\ access[q].pc = "reset" =>
                access'[q] = [access[q] EXCEPT !.version = access[q].version - old]
           /\ access[q].pc \notin {"put", "reset"} => access'[q] = access[q]
  BY <1>4
<1>7. \A q \in PolicyCalls :
        /\ access'[q] \in AccessRecords
        /\ access'[q].pc = "put" => access[q].pc = "put" /\ access'[q].raced
        /\ access'[q].pc = "reset" =>
             access[q].pc = "reset" /\ access'[q].version = access[q].version - old
        /\ access'[q].pc \in {"put", "write"} =>
             /\ access'[q].scope = access[q].scope /\ access'[q].id = access[q].id
             /\ access'[q].record = access[q].record /\ access[q].pc = access'[q].pc
  <2> TAKE q \in PolicyCalls
  <2>1. access[q] \in AccessRecords
    BY DEF GrantInv, GrantTypeInv
  <2>2. CASE q = p
    BY <2>2, <1>6, IdleIsRecord DEF IdleAccess
  <2>3. CASE q # p /\ access[q].pc = "put"
    <3>1. [access[q] EXCEPT !.raced = TRUE] \in AccessRecords
      BY <2>1 DEF AccessRecords
    <3>2. access'[q] = [access[q] EXCEPT !.raced = TRUE]
      BY <2>3, <1>6
    <3> QED BY <2>1, <2>3, <3>1, <3>2 DEF AccessRecords
  <2>4. CASE q # p /\ access[q].pc = "reset"
    <3>1. access[q].version - old \in Int
      BY <2>1, <1>2 DEF AccessRecords
    <3>2. [access[q] EXCEPT !.version = access[q].version - old] \in AccessRecords
      BY <2>1, <3>1 DEF AccessRecords
    <3>3. access'[q] = [access[q] EXCEPT !.version = access[q].version - old]
      BY <2>4, <1>6
    <3> QED BY <2>1, <2>4, <3>2, <3>3 DEF AccessRecords
  <2>5. CASE q # p /\ access[q].pc \notin {"put", "reset"}
    BY <2>1, <2>5, <1>6
  <2> QED BY <2>2, <2>3, <2>4, <2>5
<1>8. NoEntry \in [scope : Scopes, at : Nat, raced : BOOLEAN]
  BY DEF NoEntry, Scopes
<1>9. GrantTypeInv'
  <2>1. access' = [q \in PolicyCalls |-> access'[q]]
    BY <1>4
  <2> QED BY <1>3, <1>7, <1>8, <2>1 DEF GrantInv, GrantTypeInv
<1>10. HistoryInv'
  <2>1. \A q \in PolicyCalls : access[q].pc = "reset" => /\ access[q].version \in Int
                                                       /\ access[q].version <= Len(policies)
    BY DEF GrantInv, GrantTypeInv, HistoryInv, AccessRecords
  <2>2. \A q \in PolicyCalls : access'[q].pc = "reset" => access'[q].version <= Len(policies')
    BY <1>1, <1>2, <1>5, <1>7, <2>1
  <2>3. policies' # <<>>
    BY <1>1, <1>2, <1>5
  <2> QED BY <1>3, <1>5, <2>2, <2>3 DEF HistoryInv
<1>11. ScopeInv'
  <2>1. \A r \in ScopeKeys : scopes'[r] = NoEntry
    BY <1>3
  <2> QED BY <1>7, <2>1 DEF GrantInv, ScopeInv
<1> QED BY <1>9, <1>10, <1>11 DEF GrantInv

LEMMA TickStep == GrantInv /\ Tick => GrantInv'
<1> SUFFICES ASSUME GrantInv, Tick PROVE GrantInv'
  OBVIOUS
<1>1. now \in Nat /\ now' \in Nat /\ now <= now' /\ policies' = policies
  BY DEF Tick, GrantInv, GrantTypeInv
<1>2. \A scope, r : Derived(scope, r) => Derived(scope, r)'
  BY <1>1, DerivedUnchanged DEF GrantInv
<1> QED BY <1>1, <1>2 DEF Tick, GrantInv, GrantTypeInv, HistoryInv, ScopeInv

-----------------------------------------------------------------------------
(***************************************************************************)
(* The store.                                                              *)
(***************************************************************************)

\* Every step of the store is one of a snapshot's call, a restart, or nothing to snapshots;
\* and the same for grants.
LEMMA StoreStepParts ==
    ASSUME [StoreNext]_storeVars
    PROVE  /\ \/ \E c \in AllSnapCalls : SnapshotStep(c)
              \/ SnapshotRestart
              \/ UNCHANGED snapshotVars
           /\ \/ \E p \in PolicyCalls : GrantStep(p)
              \/ Tick
              \/ GrantsRestart
              \/ UNCHANGED grantVars
BY DEF StoreNext, CatalogCall, SnapshotCall, PolicyCall, StoreRestart, storeVars, AllSnapCalls

LEMMA SnapInvariant == StoreSpec => []SnapInv
<1>1. StoreInit => SnapInv
  BY SnapInitInv DEF StoreInit
<1>2. SnapInv /\ [StoreNext]_storeVars => SnapInv'
  BY StoreStepParts, SnapStepInv, SnapRestartInv, SnapStutter
<1> QED BY <1>1, <1>2, PTL DEF StoreSpec

LEMMA GrantInvariant == StoreSpec => []GrantInv
<1>1. StoreInit => GrantInv
  BY GrantInitInv DEF StoreInit
<1>2. ASSUME GrantInv, NEW p \in PolicyCalls, GrantStep(p) PROVE GrantInv'
  BY <1>2, AskStep, ResolveStep, CacheStep, PutStep, FindStep, RevokeStep, ResetStep
     DEF GrantStep
<1>3. GrantInv /\ [StoreNext]_storeVars => GrantInv'
  BY StoreStepParts, <1>2, TickStep, GrantRestartInv, GrantStutter
<1> QED BY <1>1, <1>3, PTL DEF StoreSpec

\* What was answered about a snapshot stays, and its downloads have the bytes of their
\* manifest, for every set of snapshots and calls and every number of builds and restarts:
\* build_snapshot_artifact and Snapshots.download.
THEOREM AnsweredSnapshotsStay == StoreSpec => []SnapshotsStay
<1>1. SnapInv => SnapshotsStay
  BY DEF SnapInv, ManifestInv, DownloadInv, SnapshotsStay
<1> QED BY <1>1, SnapInvariant, PTL

\* A cached scope follows from the grants as they are or were since the last answered
\* change, for every set of grants, requests, changes and lifetimes: effective_scope beside
\* put_grant and apply_revocations.
THEOREM CachedScopesFollow == StoreSpec => []ScopeIsCurrent
<1>1. ASSUME GrantInv PROVE ScopeIsCurrent
  <2> SUFFICES ASSUME NEW r \in Repos \cup {Global},
                      scopes[r] # NoEntry, ~scopes[r].raced, now < scopes[r].scope.expires
               PROVE  \E i \in DOMAIN policies : scopes[r].scope = Scope(policies[i], now, r)
    BY DEF ScopeIsCurrent, Fresh
  <2>1. Derived(scopes[r].scope, r) /\ scopes[r].scope # NoScope /\ now \in Nat
    BY <1>1 DEF GrantInv, ScopeInv, ScopeKeys, GrantTypeInv
  <2>2. PICK i \in 1 .. Len(policies), t \in Nat :
          t <= now /\ scopes[r].scope = Scope(policies[i], t, r)
    BY <2>1 DEF Derived
  <2>3. policies[i] \in Logs /\ i \in DOMAIN policies
    BY <1>1, <2>2 DEF GrantInv, HistoryInv
  <2>4. Scope(policies[i], now, r) = Scope(policies[i], t, r)
    BY <2>1, <2>2, <2>3, ScopeStays
  <2> QED BY <2>2, <2>3, <2>4
<1> QED BY <1>1, GrantInvariant, PTL


-----------------------------------------------------------------------------
(***************************************************************************)
(* The invariant of the catalog.                                           *)
(***************************************************************************)
RegisterPcs == {"make", "init", "commit", "record", "name", "placement"}
RetirePcs == {"look", "rename", "unrecord", "unname", "unplace", "clear"}
Answers == {"none", "open", "registered", "retired", "already"}

CatalogTypeInv ==
    /\ records \subseteq Names /\ nameLog \subseteq Names /\ placements \subseteq Names
    /\ catalog \in [CatalogCalls -> RegisterPcs \cup RetirePcs \cup {"idle", "done"}]
    /\ answer \in [Names -> Answers]

\* Each call is where calls of its kind are, and the two kinds are never both at work.
KindInv ==
    \A c \in CatalogCalls :
        /\ catalog[c] \in RegisterPcs => c \in Registers
        /\ catalog[c] \in RetirePcs => c \notin Registers
        /\ \A d \in CatalogCalls :
             AtWork(c) /\ AtWork(d) /\ NameOf[c] = NameOf[d] => (c \in Registers <=> d \in Registers)

\* What a register has made of its name.
RegisterInv ==
    \A c \in CatalogCalls :
        LET n == NameOf[c] IN
        /\ catalog[c] \in RegisterPcs => answer[n] \in {"registered", "open"}
        /\ catalog[c] \in {"commit", "record", "name", "placement"} => IsRepository(dirs[n])
        /\ catalog[c] \in {"name", "placement"} => n \in records
        /\ catalog[c] = "placement" => n \in nameLog

\* What a retire has left of its name.
RetireInv ==
    \A c \in CatalogCalls :
        LET n == NameOf[c] IN
        /\ catalog[c] \in RetirePcs => answer[n] # "registered"
        /\ catalog[c] \in {"unrecord", "unname", "unplace"} => dirs[n] = NoDir
        /\ catalog[c] \in {"unname", "unplace", "clear"} => n \notin records

CatalogInv == CatalogTypeInv /\ KindInv /\ RegisterInv /\ RetireInv /\ AnswersHold

-----------------------------------------------------------------------------
(***************************************************************************)
(* The invariant of pushes and fetches.                                    *)
(***************************************************************************)
Commits == 1 .. Len(needs)
RefMaps == [Refs -> Commits \cup {NoCommit}]
Repository == [heads : RefMaps, tracking : RefMaps, loose : SUBSET Nat, packed : SUBSET Nat]

PushPcs == {"compare", "list", "check", "open", "copy", "write"}

DirsTyped == dirs \in [Names -> Repository \cup {NoDir, BareDir}]

SyncRecords ==
    [pc : PushPcs \cup {"idle", "done", "track"}, targets : Seq(Commits), todo : SUBSET Nat,
     at : Nat \cup {NoCommit}, expected : Commits \cup {NoCommit}, refs : RefMaps]

SyncTypeInv ==
    /\ needs \in Seq(SUBSET Nat)
    /\ DirsTyped
    /\ remote \in [refs : RefMaps, objects : SUBSET Nat, partial : SUBSET Nat]
    /\ sync \in [SyncCalls -> SyncRecords]
    /\ cut \subseteq Nat
    /\ \A p \in SyncCalls : /\ sync[p].pc \in PushPcs => p \in PushCalls
                            /\ sync[p].pc \in {"open", "copy"} => sync[p].at \in Nat

\* What the remote has, will have when the copies under way end, or lost to a restart.
Held == remote.objects \cup Copying \cup cut

\* The objects of a repository.
Objects(n) == dirs[n].loose \cup dirs[n].packed

\* A file that is not whole is being copied or was cut.
CopyInv == Copying \subseteq remote.partial /\ remote.partial \subseteq Copying \cup cut

\* What refs name is there, and what is packed came from the remote.
RepoInv ==
    \A n \in Names :
        IsRepository(dirs[n]) =>
            /\ \A c \in Reachable(dirs[n]) : needs[c] \subseteq Objects(n)
            /\ dirs[n].packed \subseteq Held

RemoteInv == \A c \in Targets(remote.refs) : needs[c] \subseteq Held

\* What a push or a fetch may still rely on.
Progress(p) ==
    LET s == sync[p]
        n == RepoOf[p]
    IN  /\ s.pc \in {"compare", "list"} /\ IsRepository(dirs[n]) =>
             \A i \in 1 .. Len(s.targets) : needs[s.targets[i]] \subseteq Objects(n)
        /\ s.pc \in {"check", "open", "copy"} =>
             \A i \in 1 .. Len(s.targets) : needs[s.targets[i]] \subseteq s.todo \cup Held
        /\ s.pc = "write" =>
             \A i \in 1 .. Len(s.targets) : needs[s.targets[i]] \subseteq Held
        /\ s.pc = "track" /\ IsRepository(dirs[n]) =>
             \A c \in Targets(s.refs) : needs[c] \subseteq Objects(n)

ProgressInv == \A p \in SyncCalls : Progress(p)

\* The repository of a push or a fetch may go away, and then no other takes its place.
NoNewInv ==
    \A p \in SyncCalls, c \in CatalogCalls :
        Syncing(p) /\ ~IsRepository(dirs[RepoOf[p]]) /\ NameOf[c] = RepoOf[p] =>
            catalog[c] \notin RegisterPcs

SyncInv == SyncTypeInv /\ CopyInv /\ RepoInv /\ RemoteInv /\ ProgressInv /\ NoNewInv

StoreInv == CatalogInv /\ SyncInv

-----------------------------------------------------------------------------
(***************************************************************************)
(* Repositories.                                                           *)
(***************************************************************************)

\* A directory is a repository exactly if it is one by type.
LEMMA RepositoryIs ==
    ASSUME needs \in Seq(SUBSET Nat)
    PROVE  /\ \A d \in Repository : IsRepository(d)
           /\ \A d \in Repository \cup {NoDir, BareDir} : IsRepository(d) => d \in Repository
<1>1. RefMaps \subseteq [Refs -> Nat \cup {NoCommit}]
  BY DEF RefMaps, Commits
<1>2. Repository \subseteq Repositories
  BY <1>1 DEF Repository, Repositories
<1>3. NoDir \notin Repositories /\ BareDir \notin Repositories
  BY SyncConstants
<1> QED BY <1>2, <1>3 DEF IsRepository

\* The server makes no directory in this step, and takes none away.
SameDirs ==
    /\ DOMAIN dirs' = DOMAIN dirs
    /\ \A n \in Names : /\ IsRepository(dirs'[n]) <=> IsRepository(dirs[n])
                        /\ dirs'[n] = NoDir <=> dirs[n] = NoDir

-----------------------------------------------------------------------------
(***************************************************************************)
(* Steps of the catalog.                                                   *)
(***************************************************************************)

\* Steps that leave the records and the calls of the catalog alone.
LEMMA CatalogStutter ==
    ASSUME CatalogInv, SameDirs,
           UNCHANGED <<records, nameLog, placements, catalog, answer>>
    PROVE  CatalogInv'
BY CatalogConstants
   DEF CatalogInv, CatalogTypeInv, KindInv, RegisterInv, RetireInv, AnswersHold, SameDirs, AtWork

\* A restart leaves no call, and the answers as they were.
LEMMA CatalogRestartInv == CatalogInv /\ CatalogRestart => CatalogInv'
BY CatalogConstants
   DEF CatalogInv, CatalogTypeInv, KindInv, RegisterInv, RetireInv, AnswersHold, CatalogRestart,
       AtWork, RegisterPcs, RetirePcs

\* A register: it looks, makes what is not there, and writes its records.
LEMMA RegisterSteps ==
    ASSUME CatalogInv, NEW c \in CatalogCalls, dirs \in [Names -> Repository \cup {NoDir, BareDir}],
           \/ CheckPath(c) \/ MakeDirectory(c)
           \/ PutRepository(c) \/ PutName(c) \/ PutPlacement(c)
    PROVE  CatalogInv'
<1> DEFINE n == NameOf[c]
<1>0. n \in Names
  BY CatalogConstants
<1> USE CatalogConstants, <1>0 DEF Goto, Answer, AtWork, RegisterPcs, RetirePcs, Answers,
        CatalogInv, CatalogTypeInv, KindInv, RegisterInv, RetireInv, AnswersHold, IsRepository
<1>1. CASE CheckPath(c)
  <2>1. CatalogTypeInv'
    BY <1>1 DEF CheckPath
  <2>2. KindInv'
    BY <1>1 DEF CheckPath, Separate
  <2>3. RegisterInv'
    BY <1>1 DEF CheckPath, Separate
  <2>4. RetireInv'
    BY <1>1 DEF CheckPath, Separate
  <2>5. AnswersHold'
    BY <1>1 DEF CheckPath
  <2> QED BY <2>1, <2>2, <2>3, <2>4, <2>5
<1>2. CASE MakeDirectory(c)
  <2>1. CatalogTypeInv' /\ KindInv'
    BY <1>2 DEF MakeDirectory
  <2>2. RegisterInv'
    BY <1>2 DEF MakeDirectory
  <2>3. RetireInv'
    BY <1>2 DEF MakeDirectory
  <2>4. AnswersHold'
    BY <1>2 DEF MakeDirectory
  <2> QED BY <2>1, <2>2, <2>3, <2>4
<1>3. CASE PutRepository(c)
  <2>1. CatalogTypeInv' /\ KindInv'
    BY <1>3 DEF PutRepository
  <2>2. RegisterInv' /\ RetireInv'
    BY <1>3 DEF PutRepository
  <2>3. AnswersHold'
    BY <1>3 DEF PutRepository
  <2> QED BY <2>1, <2>2, <2>3
<1>4. CASE PutName(c)
  <2>1. CatalogTypeInv' /\ KindInv'
    BY <1>4 DEF PutName
  <2>2. RegisterInv' /\ RetireInv'
    BY <1>4 DEF PutName
  <2>3. AnswersHold'
    BY <1>4 DEF PutName
  <2> QED BY <2>1, <2>2, <2>3
<1>5. CASE PutPlacement(c)
  <2>1. CatalogTypeInv' /\ KindInv'
    BY <1>5 DEF PutPlacement
  <2>2. RegisterInv' /\ RetireInv'
    BY <1>5 DEF PutPlacement
  <2>3. AnswersHold'
    BY <1>5 DEF PutPlacement
  <2> QED BY <2>1, <2>2, <2>3
<1> QED BY <1>1, <1>2, <1>3, <1>4, <1>5

\* The two git commands of a register put a repository in the place of its directory.
LEMMA GitSteps ==
    ASSUME CatalogInv, NEW c \in CatalogCalls, dirs \in [Names -> Repository \cup {NoDir, BareDir}],
           NEW d, IsRepository(d), InitRepository(c, d) \/ FirstCommit(c, d)
    PROVE  CatalogInv'
<1> DEFINE n == NameOf[c]
<1>0. n \in Names
  BY CatalogConstants
<1> USE CatalogConstants, <1>0 DEF Goto, Answer, AtWork, RegisterPcs, RetirePcs, Answers,
        CatalogInv, CatalogTypeInv, KindInv, RegisterInv, RetireInv, AnswersHold, IsRepository
<1>1. CatalogTypeInv' /\ KindInv'
  BY DEF InitRepository, FirstCommit
<1>2. RegisterInv' /\ RetireInv'
  BY DEF InitRepository, FirstCommit
<1>3. AnswersHold'
  BY DEF InitRepository, FirstCommit
<1> QED BY <1>1, <1>2, <1>3

\* A retire: it looks, moves the directory away, and deletes its records.
LEMMA RetireSteps ==
    ASSUME CatalogInv, NEW c \in CatalogCalls, dirs \in [Names -> Repository \cup {NoDir, BareDir}],
           \/ GetRepository(c) \/ LookForDirectory(c) \/ MoveDirectory(c)
           \/ DeleteRecord(c) \/ DeleteName(c) \/ DeletePlacement(c)
    PROVE  CatalogInv'
<1> DEFINE n == NameOf[c]
<1>0. n \in Names
  BY CatalogConstants
<1> USE CatalogConstants, <1>0 DEF Goto, Answer, AtWork, RegisterPcs, RetirePcs, Answers, Retires,
        CatalogInv, CatalogTypeInv, KindInv, RegisterInv, RetireInv, AnswersHold, IsRepository
<1>1. CASE GetRepository(c)
  <2>1. CatalogTypeInv'
    BY <1>1 DEF GetRepository
  <2>2. KindInv'
    BY <1>1 DEF GetRepository, Separate
  <2>3. RegisterInv'
    BY <1>1 DEF GetRepository, Separate
  <2>4. RetireInv'
    BY <1>1 DEF GetRepository
  <2>5. AnswersHold'
    BY <1>1 DEF GetRepository
  <2> QED BY <2>1, <2>2, <2>3, <2>4, <2>5
<1>2. CASE LookForDirectory(c)
  <2>1. CatalogTypeInv' /\ KindInv'
    BY <1>2 DEF LookForDirectory
  <2>2. RegisterInv' /\ RetireInv' /\ AnswersHold'
    BY <1>2 DEF LookForDirectory
  <2> QED BY <2>1, <2>2
<1>3. CASE MoveDirectory(c)
  <2>1. CatalogTypeInv' /\ KindInv'
    BY <1>3 DEF MoveDirectory
  <2>2. RegisterInv'
    BY <1>3 DEF MoveDirectory
  <2>3. RetireInv'
    BY <1>3 DEF MoveDirectory
  <2>4. AnswersHold'
    BY <1>3 DEF MoveDirectory
  <2> QED BY <2>1, <2>2, <2>3, <2>4
<1>4. CASE DeleteRecord(c)
  <2>1. CatalogTypeInv' /\ KindInv'
    BY <1>4 DEF DeleteRecord
  <2>2. RegisterInv'
    BY <1>4 DEF DeleteRecord
  <2>3. RetireInv' /\ AnswersHold'
    BY <1>4 DEF DeleteRecord
  <2> QED BY <2>1, <2>2, <2>3
<1>5. CASE DeleteName(c)
  <2>1. CatalogTypeInv' /\ KindInv'
    BY <1>5 DEF DeleteName
  <2>2. RegisterInv'
    BY <1>5 DEF DeleteName
  <2>3. RetireInv' /\ AnswersHold'
    BY <1>5 DEF DeleteName
  <2> QED BY <2>1, <2>2, <2>3
<1>6. CASE DeletePlacement(c)
  <2>1. CatalogTypeInv' /\ KindInv'
    BY <1>6 DEF DeletePlacement
  <2>2. RegisterInv'
    BY <1>6 DEF DeletePlacement
  <2>3. RetireInv' /\ AnswersHold'
    BY <1>6 DEF DeletePlacement
  <2> QED BY <2>1, <2>2, <2>3
<1> QED BY <1>1, <1>2, <1>3, <1>4, <1>5, <1>6

-----------------------------------------------------------------------------
(***************************************************************************)
(* What every step keeps: commits stay what they are, the remote loses     *)
(* nothing, and a repository loses nothing as long as it is there.         *)
(***************************************************************************)
Grows ==
    /\ needs' \in Seq(SUBSET Nat)
    /\ Len(needs) <= Len(needs')
    /\ \A c \in Commits : needs'[c] = needs[c]
    /\ Held \subseteq Held'
    /\ \A n \in Names : IsRepository(dirs[n]) /\ IsRepository(dirs'[n]) =>
                          Objects(n) \subseteq Objects(n)'
    /\ \A p \in SyncCalls : Syncing(p) /\ ~IsRepository(dirs[RepoOf[p]]) =>
                              ~IsRepository(dirs'[RepoOf[p]])

RepoOk(n) ==
    IsRepository(dirs[n]) =>
        /\ \A c \in Reachable(dirs[n]) : needs[c] \subseteq Objects(n)
        /\ dirs[n].packed \subseteq Held

\* Whatever is typed by the commits there are stays typed.
LEMMA TypesGrow ==
    ASSUME needs \in Seq(SUBSET Nat), needs' \in Seq(SUBSET Nat), Len(needs) <= Len(needs')
    PROVE  /\ Commits \subseteq Commits' /\ RefMaps \subseteq RefMaps'
           /\ Repository \subseteq Repository' /\ SyncRecords \subseteq SyncRecords'
<1>1. Len(needs) \in Nat /\ Len(needs') \in Nat
  OBVIOUS
<1>2. Commits \subseteq Commits'
  BY <1>1 DEF Commits
<1>3. RefMaps \subseteq RefMaps'
  BY <1>2 DEF RefMaps
<1>4. Repository \subseteq Repository'
  BY <1>3 DEF Repository
<1>5. Seq(Commits) \subseteq Seq(Commits')
  BY <1>2
<1>6. SyncRecords \subseteq SyncRecords'
  BY <1>2, <1>3, <1>5 DEF SyncRecords
<1> QED BY <1>2, <1>3, <1>4, <1>6

\* What refs of a typed map name.
LEMMA TargetsAre ==
    ASSUME NEW refs \in RefMaps
    PROVE  Targets(refs) \subseteq Commits
BY DEF Targets, RefMaps

\* What the refs of a repository name.
LEMMA ReachableIs ==
    ASSUME NEW d \in Repository
    PROVE  Reachable(d) \subseteq Commits
BY DEF Repository, Reachable, Targets, RefMaps

\* A repository that is left alone stays as good as it was.
LEMMA RepoKept ==
    ASSUME SyncTypeInv, Grows, NEW n \in Names, RepoOk(n), dirs'[n] = dirs[n]
    PROVE  RepoOk(n)'
<1> SUFFICES ASSUME IsRepository(dirs[n])
             PROVE  /\ \A c \in Reachable(dirs[n]) : needs'[c] \subseteq Objects(n)
                    /\ dirs[n].packed \subseteq Held'
  BY DEF RepoOk, Objects
<1>1. dirs[n] \in Repository
  BY RepositoryIs DEF SyncTypeInv, DirsTyped
<1>2. \A c \in Reachable(dirs[n]) : needs'[c] = needs[c]
  BY <1>1, ReachableIs DEF Grows
<1> QED BY <1>2 DEF RepoOk, Grows

\* So is a call that does nothing.
LEMMA ProgressKept ==
    ASSUME SyncTypeInv, Grows, NEW p \in SyncCalls, Progress(p), sync'[p] = sync[p]
    PROVE  Progress(p)'
<1> DEFINE s == sync[p]
           n == RepoOf[p]
<1>0. n \in Names /\ s \in SyncRecords
  BY SyncConstants DEF SyncCalls, SyncTypeInv
<1>1. \A i \in 1 .. Len(s.targets) : needs'[s.targets[i]] = needs[s.targets[i]]
  BY <1>0 DEF Grows, SyncRecords
<1>2. \A c \in Targets(s.refs) : needs'[c] = needs[c]
  BY <1>0, TargetsAre DEF Grows, SyncRecords
<1>3. Held \subseteq Held'
  BY DEF Grows
<1>4. Syncing(p) /\ IsRepository(dirs'[n]) =>
        IsRepository(dirs[n]) /\ Objects(n) \subseteq Objects(n)'
  BY <1>0 DEF Grows
<1>5. s.pc \in {"compare", "list", "track"} => Syncing(p)
  BY DEF Syncing
<1>6. s.pc \in {"compare", "list"} /\ IsRepository(dirs'[n]) =>
        \A i \in 1 .. Len(s.targets) : needs'[s.targets[i]] \subseteq Objects(n)'
  BY <1>1, <1>4, <1>5 DEF Progress
<1>7. s.pc \in {"check", "open", "copy"} =>
        \A i \in 1 .. Len(s.targets) : needs'[s.targets[i]] \subseteq s.todo \cup Held'
  BY <1>1, <1>3 DEF Progress
<1>8. s.pc = "write" => \A i \in 1 .. Len(s.targets) : needs'[s.targets[i]] \subseteq Held'
  BY <1>1, <1>3 DEF Progress
<1>9. s.pc = "track" /\ IsRepository(dirs'[n]) =>
        \A c \in Targets(s.refs) : needs'[c] \subseteq Objects(n)'
  BY <1>2, <1>4, <1>5 DEF Progress
<1> QED BY <1>6, <1>7, <1>8, <1>9 DEF Progress

\* And so is the remote, if none of its refs moves.
LEMMA RemoteKept ==
    ASSUME SyncTypeInv, Grows, RemoteInv, remote'.refs = remote.refs
    PROVE  RemoteInv'
<1>1. remote.refs \in RefMaps
  BY DEF SyncTypeInv
<1>2. \A c \in Targets(remote.refs) : needs'[c] = needs[c]
  BY <1>1, TargetsAre DEF Grows
<1> QED BY <1>2 DEF RemoteInv, Grows

\* The invariant after a step of one call, from what is special about the step.
LEMMA CallStep ==
    ASSUME SyncInv, Grows, NEW p \in SyncCalls, NEW x \in SyncRecords',
           sync' = [sync EXCEPT ![p] = x],
           x.pc \in PushPcs => p \in PushCalls, x.pc \in {"open", "copy"} => x.at \in Nat,
           DirsTyped', remote' \in [refs : RefMaps', objects : SUBSET Nat, partial : SUBSET Nat],
           cut' \subseteq Nat, CopyInv', \A n \in Names : RepoOk(n)', RemoteInv', Progress(p)',
           SameDirs, catalog' = catalog,
           x.pc \notin {"idle", "done"} => Syncing(p) \/ IsRepository(dirs[RepoOf[p]])
    PROVE  SyncInv'
<1>1. \A q \in SyncCalls : q # p => sync'[q] = sync[q]
  BY DEF SyncInv, SyncTypeInv
<1>2. sync'[p] = x
  BY DEF SyncInv, SyncTypeInv
<1>3. SyncTypeInv'
  <2>1. SyncRecords \subseteq SyncRecords'
    BY TypesGrow DEF SyncInv, SyncTypeInv, Grows
  <2>2. sync' \in [SyncCalls -> SyncRecords']
    BY <2>1 DEF SyncInv, SyncTypeInv
  <2>3. \A q \in SyncCalls : /\ sync'[q].pc \in PushPcs => q \in PushCalls
                             /\ sync'[q].pc \in {"open", "copy"} => sync'[q].at \in Nat
    BY <1>1, <1>2 DEF SyncInv, SyncTypeInv
  <2> QED BY <2>2, <2>3 DEF SyncTypeInv, Grows
<1>4. RepoInv'
  BY DEF RepoInv, RepoOk
<1>5. ProgressInv'
  <2> SUFFICES ASSUME NEW q \in SyncCalls PROVE Progress(q)'
    BY DEF ProgressInv
  <2>1. CASE q = p
    BY <2>1
  <2>2. CASE q # p
    BY <2>2, <1>1, ProgressKept DEF SyncInv, ProgressInv
  <2> QED BY <2>1, <2>2
<1>6. NoNewInv'
  <2> SUFFICES ASSUME NEW q \in SyncCalls, NEW c \in CatalogCalls,
                      Syncing(q)', ~IsRepository(dirs'[RepoOf[q]]), NameOf[c] = RepoOf[q]
               PROVE  catalog'[c] \notin RegisterPcs
    BY DEF NoNewInv
  <2>1. RepoOf[q] \in Names
    BY SyncConstants DEF SyncCalls
  <2>2. ~IsRepository(dirs[RepoOf[q]])
    BY <2>1 DEF SameDirs
  <2>3. Syncing(q)
    BY <1>1, <1>2, <2>2 DEF Syncing
  <2> QED BY <2>2, <2>3 DEF SyncInv, NoNewInv
<1> QED BY <1>3, <1>4, <1>5, <1>6 DEF SyncInv

\* The same for steps of the catalog, in which pushes and fetches do nothing.
LEMMA CatalogFrame ==
    ASSUME SyncInv, Grows, UNCHANGED <<remote, sync, cut>>, DirsTyped',
           \A n \in Names : RepoOk(n)', NoNewInv'
    PROVE  SyncInv'
<1>1. SyncTypeInv'
  <2>1. SyncRecords \subseteq SyncRecords' /\ RefMaps \subseteq RefMaps'
    BY TypesGrow DEF SyncInv, SyncTypeInv, Grows
  <2>2. sync' \in [SyncCalls -> SyncRecords']
    BY <2>1 DEF SyncInv, SyncTypeInv
  <2>3. remote' \in [refs : RefMaps', objects : SUBSET Nat, partial : SUBSET Nat]
    BY <2>1 DEF SyncInv, SyncTypeInv
  <2> QED BY <2>2, <2>3 DEF SyncInv, SyncTypeInv, Grows
<1>2. CopyInv'
  BY DEF SyncInv, CopyInv, Copying
<1>3. RepoInv'
  BY DEF RepoInv, RepoOk
<1>4. RemoteInv'
  BY RemoteKept DEF SyncInv
<1>5. ProgressInv'
  BY ProgressKept DEF SyncInv, ProgressInv
<1> QED BY <1>1, <1>2, <1>3, <1>4, <1>5 DEF SyncInv

-----------------------------------------------------------------------------
(***************************************************************************)
(* Steps of pushes.                                                        *)
(***************************************************************************)

\* A call that copies nothing before and after.
LEMMA CopyingSame ==
    ASSUME SyncInv, NEW p \in SyncCalls, NEW x, sync' = [sync EXCEPT ![p] = x],
           sync[p].pc # "copy", x.pc # "copy"
    PROVE  Copying' = Copying
<1>1. sync'[p] = x /\ \A q \in SyncCalls : q # p => sync'[q] = sync[q]
  BY DEF SyncInv, SyncTypeInv
<1>2. \A q \in PushCalls : sync'[q].pc = "copy" <=> sync[q].pc = "copy"
  BY <1>1 DEF SyncCalls
<1>3. \A q \in PushCalls : sync[q].pc = "copy" => sync'[q] = sync[q]
  BY <1>1 DEF SyncCalls
<1> QED BY <1>2, <1>3 DEF Copying

\* Steps that only change what the call has read.
LEMMA QuietStep ==
    ASSUME SyncInv, NEW p \in SyncCalls, NEW x \in SyncRecords,
           sync' = [sync EXCEPT ![p] = x], UNCHANGED <<needs, remote, cut, catalogVars>>,
           sync[p].pc # "copy", x.pc # "copy",
           x.pc \in PushPcs => p \in PushCalls, x.pc = "open" => x.at \in Nat, Progress(p)',
           x.pc \notin {"idle", "done"} => Syncing(p) \/ IsRepository(dirs[RepoOf[p]])
    PROVE  SyncInv'
<1>1. UNCHANGED <<needs, remote, cut, dirs, catalog>>
  BY DEF catalogVars
<1>3. Copying' = Copying
  BY CopyingSame
<1>4. Grows
  BY <1>1, <1>3 DEF Grows, Held, Objects, SyncInv, SyncTypeInv
<1>5. SyncRecords = SyncRecords' /\ RefMaps = RefMaps' /\ Repository = Repository'
  BY <1>1 DEF SyncRecords, RefMaps, Repository, Commits
<1>6. CopyInv' /\ DirsTyped' /\ SameDirs /\ RemoteInv'
  BY <1>1, <1>3, <1>4, <1>5, RemoteKept DEF SyncInv, SyncTypeInv, CopyInv, DirsTyped, SameDirs
<1>7. \A n \in Names : RepoOk(n)'
  BY <1>1, <1>4, RepoKept DEF SyncInv, RepoInv, RepoOk
<1> QED
  BY <1>1, <1>4, <1>5, <1>6, <1>7, CallStep DEF SyncInv, SyncTypeInv

\* A call that ends here has nothing to rely on any more.
LEMMA DoneStep ==
    ASSUME SyncInv, NEW p \in SyncCalls, sync[p].pc # "copy", NEW x \in SyncRecords, x.pc = "done",
           sync' = [sync EXCEPT ![p] = x], UNCHANGED <<needs, remote, cut, catalogVars>>
    PROVE  SyncInv'
<1>1. sync'[p] = x
  BY DEF SyncInv, SyncTypeInv
<1>2. Progress(p)'
  BY <1>1 DEF Progress
<1> QED BY <1>2, QuietStep DEF PushPcs

\* The records of calls are typed, wherever a call goes on from one.
LEMMA IdleCallIsRecord ==
    /\ IdleSync \in SyncRecords /\ [IdleSync EXCEPT !.pc = "done"] \in SyncRecords
    /\ \A a \in SyncRecords, pc \in PushPcs \cup {"idle", "done", "track"} :
         [a EXCEPT !.pc = pc] \in SyncRecords
<1>1. NoRefs \in RefMaps
  BY DEF NoRefs, RefMaps
<1>2. <<>> \in Seq(Commits)
  OBVIOUS
<1>3. IdleSync \in SyncRecords
  BY <1>1, <1>2 DEF IdleSync, SyncRecords
<1>4. \A a \in SyncRecords, pc \in PushPcs \cup {"idle", "done", "track"} :
         [a EXCEPT !.pc = pc] \in SyncRecords
  BY DEF SyncRecords
<1> QED BY <1>3, <1>4

\* The sources of a push are heads of its repository.
LEMMA RefsResolveStep ==
    ASSUME SyncInv, NEW p \in SyncCalls, ResolveUpdates(p)
    PROVE  SyncInv'
<1> DEFINE n == RepoOf[p]
           spec == Refspecs[p]
           targets == [i \in DOMAIN spec |-> dirs[n].heads[spec[i][1]]]
           found == /\ IsRepository(dirs[n]) /\ n \in records
                    /\ \A i \in DOMAIN spec : dirs[n].heads[spec[i][1]] # NoCommit
<1>1. /\ p \in PushCalls /\ n \in Names /\ spec \in Seq(Refs \X Refs)
      /\ sync[p].pc = "idle" /\ UNCHANGED <<needs, remote, cut, catalogVars>>
  BY SyncConstants DEF ResolveUpdates, ValidRefspecs
<1>2. PICK e \in (IF p \in Expecting THEN Targets(remote.refs) ELSE {}) \cup {NoCommit} :
        sync' = [sync EXCEPT ![p] =
                   IF found
                   THEN [IdleSync EXCEPT !.pc = "compare", !.expected = e, !.targets = targets]
                   ELSE [IdleSync EXCEPT !.pc = "done"]]
  BY DEF ResolveUpdates
<1>3. CASE ~found
  BY <1>1, <1>2, <1>3, IdleCallIsRecord, DoneStep DEF IdleSync
<1>4. CASE found
  <2>1. dirs[n] \in Repository
    BY <1>1, <1>4, RepositoryIs DEF SyncInv, SyncTypeInv, DirsTyped
  <2>2. \A i \in DOMAIN spec : targets[i] \in Commits /\ targets[i] \in Reachable(dirs[n])
    <3> TAKE i \in DOMAIN spec
    <3>1. spec[i][1] \in Refs
      BY <1>1
    <3>2. dirs[n].heads \in RefMaps /\ dirs[n].heads[spec[i][1]] # NoCommit
      BY <1>4, <2>1 DEF Repository
    <3> QED BY <3>1, <3>2 DEF RefMaps, Reachable, Targets
  <2>3. targets \in Seq(Commits) /\ Len(targets) = Len(spec) /\ DOMAIN spec = 1 .. Len(spec)
    <3>1. DOMAIN spec = 1 .. Len(spec) /\ Len(spec) \in Nat
      BY <1>1
    <3>2. targets \in [1 .. Len(spec) -> Commits]
      BY <2>2, <3>1
    <3> HIDE DEF targets
    <3> QED BY <3>1, <3>2, SeqDef
  <2>4. e \in Commits \cup {NoCommit}
    BY TargetsAre DEF SyncInv, SyncTypeInv
  <2> HIDE DEF targets, found, spec, n
  <2> DEFINE x == [IdleSync EXCEPT !.pc = "compare", !.expected = e, !.targets = targets]
  <2>5. x \in SyncRecords /\ x.pc = "compare" /\ x.targets = targets
    <3>1. IdleSync \in SyncRecords
      BY IdleCallIsRecord
    <3> QED BY <3>1, <2>3, <2>4 DEF SyncRecords, PushPcs, IdleSync
  <2> HIDE DEF x
  <2>6. sync' = [sync EXCEPT ![p] = x] /\ sync'[p] = x
    BY <1>2, <1>4 DEF x, SyncInv, SyncTypeInv
  <2>7. \A i \in 1 .. Len(targets) : needs[targets[i]] \subseteq Objects(n)
    BY <1>1, <1>4, <2>2, <2>3 DEF SyncInv, RepoInv, found
  <2>8. Progress(p)'
    BY <1>1, <2>5, <2>6, <2>7 DEF Progress, catalogVars, Objects, n
  <2>9. IsRepository(dirs[RepoOf[p]])
    BY <1>4 DEF found, n
  <2> QED BY <1>1, <2>5, <2>6, <2>8, <2>9, QuietStep
<1> QED BY <1>3, <1>4

\* Comparing heads reads the remote and changes nothing there.
LEMMA CompareStep ==
    ASSUME SyncInv, NEW p \in SyncCalls, CompareHeads(p)
    PROVE  SyncInv'
<1>1. /\ sync[p].pc = "compare" /\ UNCHANGED <<needs, remote, cut, catalogVars>>
      /\ \/ sync' = [sync EXCEPT ![p] = [sync[p] EXCEPT !.pc = "done"]]
         \/ sync' = [sync EXCEPT ![p] = [sync[p] EXCEPT !.pc = "list"]]
  BY DEF CompareHeads, SyncGoto
<1>2. sync[p] \in SyncRecords /\ p \in PushCalls /\ Syncing(p)
  BY <1>1 DEF SyncInv, SyncTypeInv, PushPcs, Syncing
<1>3. CASE sync' = [sync EXCEPT ![p] = [sync[p] EXCEPT !.pc = "done"]]
  <2>1. [sync[p] EXCEPT !.pc = "done"] \in SyncRecords /\ [sync[p] EXCEPT !.pc = "done"].pc = "done"
    BY <1>2, IdleCallIsRecord DEF SyncRecords
  <2> QED BY <1>1, <1>3, <2>1, DoneStep
<1>4. CASE sync' = [sync EXCEPT ![p] = [sync[p] EXCEPT !.pc = "list"]]
  <2> DEFINE x == [sync[p] EXCEPT !.pc = "list"]
  <2>1. x \in SyncRecords /\ x.pc = "list" /\ x.targets = sync[p].targets
    BY <1>2, IdleCallIsRecord DEF SyncRecords, PushPcs
  <2>2. sync'[p] = x
    BY <1>4 DEF SyncInv, SyncTypeInv
  <2> HIDE DEF x
  <2>3. Progress(p)'
    BY <1>1, <2>1, <2>2 DEF Progress, SyncInv, ProgressInv, catalogVars, Objects
  <2>4. sync' = [sync EXCEPT ![p] = x]
    BY <1>4 DEF x
  <2> QED BY <1>1, <1>2, <2>1, <2>3, <2>4, QuietStep
<1> QED BY <1>1, <1>3, <1>4

\* What is packed is at the remote already, so that the loose objects are enough.
LEMMA ListStep ==
    ASSUME SyncInv, NEW p \in SyncCalls, ListLoose(p)
    PROVE  SyncInv'
<1> DEFINE n == RepoOf[p]
<1>1. /\ sync[p].pc = "list" /\ UNCHANGED <<needs, remote, cut, catalogVars>>
      /\ sync' = [sync EXCEPT ![p] = IF IsRepository(dirs[n])
                                     THEN [sync[p] EXCEPT !.pc = "check", !.todo = dirs[n].loose]
                                     ELSE [sync[p] EXCEPT !.pc = "done"]]
  BY DEF ListLoose
<1>2. sync[p] \in SyncRecords /\ p \in PushCalls /\ Syncing(p) /\ n \in Names
  BY <1>1, SyncConstants DEF SyncInv, SyncTypeInv, PushPcs, Syncing
<1>3. CASE ~IsRepository(dirs[n])
  <2>1. [sync[p] EXCEPT !.pc = "done"] \in SyncRecords /\ [sync[p] EXCEPT !.pc = "done"].pc = "done"
    BY <1>2, IdleCallIsRecord DEF SyncRecords
  <2> QED BY <1>1, <1>3, <2>1, DoneStep
<1>4. CASE IsRepository(dirs[n])
  <2> DEFINE x == [sync[p] EXCEPT !.pc = "check", !.todo = dirs[n].loose]
  <2>1. dirs[n].loose \in SUBSET Nat
    BY <1>2, <1>4, RepositoryIs DEF SyncInv, SyncTypeInv, DirsTyped, Repository
  <2>2. /\ x \in SyncRecords /\ x.pc = "check" /\ x.targets = sync[p].targets
        /\ x.todo = dirs[n].loose
    BY <1>2, <2>1 DEF SyncRecords, PushPcs
  <2>3. sync' = [sync EXCEPT ![p] = x] /\ sync'[p] = x
    BY <1>1, <1>4 DEF SyncInv, SyncTypeInv
  <2> HIDE DEF x
  <2>4. \A i \in 1 .. Len(x.targets) : needs[x.targets[i]] \subseteq x.todo \cup Held
    BY <1>1, <1>2, <1>4, <2>2 DEF SyncInv, RepoInv, ProgressInv, Progress, Objects
  <2>5. Held' = Held
    BY <1>1, <2>2, <2>3, CopyingSame DEF Held
  <2>6. Progress(p)'
    BY <1>1, <2>2, <2>3, <2>4, <2>5 DEF Progress
  <2> QED BY <1>1, <1>2, <2>2, <2>3, <2>6, QuietStep
<1> QED BY <1>3, <1>4

\* An object that is there, whole or not, is passed over; without another one the refs come next.
LEMMA CheckStep ==
    ASSUME SyncInv, NEW p \in SyncCalls, CheckTarget(p)
    PROVE  SyncInv'
<1>1. sync[p].pc = "check" /\ UNCHANGED <<needs, remote, cut, catalogVars>>
  BY DEF CheckTarget
<1>2. sync[p] \in SyncRecords /\ p \in PushCalls /\ Syncing(p)
  BY <1>1 DEF SyncInv, SyncTypeInv, PushPcs, Syncing
<1>3. \A i \in 1 .. Len(sync[p].targets) :
        needs[sync[p].targets[i]] \subseteq sync[p].todo \cup Held
  BY <1>1 DEF SyncInv, ProgressInv, Progress
<1>4. ASSUME NEW c \in sync[p].todo \ Present,
             sync' = [sync EXCEPT ![p] = [sync[p] EXCEPT !.pc = "open", !.at = c]]
      PROVE  SyncInv'
  <2> DEFINE x == [sync[p] EXCEPT !.pc = "open", !.at = c]
  <2>1. c \in Nat
    BY <1>2 DEF SyncRecords
  <2>2. /\ x \in SyncRecords /\ x.pc = "open" /\ x.at = c
        /\ x.targets = sync[p].targets /\ x.todo = sync[p].todo
    BY <1>2, <2>1 DEF SyncRecords, PushPcs
  <2>3. sync' = [sync EXCEPT ![p] = x] /\ sync'[p] = x
    BY <1>4 DEF SyncInv, SyncTypeInv
  <2> HIDE DEF x
  <2>4. Held' = Held
    BY <1>1, <2>2, <2>3, CopyingSame DEF Held
  <2>5. Progress(p)'
    BY <1>1, <1>3, <2>2, <2>3, <2>4 DEF Progress
  <2> QED BY <1>1, <1>2, <2>1, <2>2, <2>3, <2>5, QuietStep
<1>5. ASSUME sync[p].todo \subseteq Present,
             sync' = [sync EXCEPT ![p] = [sync[p] EXCEPT !.pc = "write"]]
      PROVE  SyncInv'
  <2> DEFINE x == [sync[p] EXCEPT !.pc = "write"]
  <2>1. x \in SyncRecords /\ x.pc = "write" /\ x.targets = sync[p].targets
    BY <1>2 DEF SyncRecords, PushPcs
  <2>2. sync' = [sync EXCEPT ![p] = x] /\ sync'[p] = x
    BY <1>5 DEF SyncInv, SyncTypeInv
  <2> HIDE DEF x
  <2>3. Held' = Held
    BY <1>1, <2>1, <2>2, CopyingSame DEF Held
  <2>4. sync[p].todo \subseteq Held
    BY <1>5 DEF Present, Held, SyncInv, CopyInv
  <2>5. Progress(p)'
    BY <1>1, <1>3, <2>1, <2>2, <2>3, <2>4 DEF Progress
  <2> QED BY <1>1, <1>2, <2>1, <2>2, <2>5, QuietStep
<1> QED BY <1>4, <1>5 DEF CheckTarget, SyncGoto

\* Steps of a push that change the remote.
LEMMA RemoteStep ==
    ASSUME SyncInv, NEW p \in PushCalls, NEW x \in SyncRecords, Syncing(p),
           sync' = [sync EXCEPT ![p] = x], UNCHANGED <<needs, cut, catalogVars>>,
           x.pc \in {"open", "copy"} => x.at \in Nat,
           remote' \in [refs : RefMaps, objects : SUBSET Nat, partial : SUBSET Nat],
           CopyInv', Held \subseteq Held', Progress(p)', remote'.refs = remote.refs \/ RemoteInv'
    PROVE  SyncInv'
<1>1. UNCHANGED <<needs, cut, dirs, catalog>> /\ p \in SyncCalls
  BY DEF catalogVars, SyncCalls
<1>2. Grows
  BY <1>1 DEF Grows, Objects, SyncInv, SyncTypeInv
<1>3. SyncRecords = SyncRecords' /\ RefMaps = RefMaps' /\ Repository = Repository'
  BY <1>1 DEF SyncRecords, RefMaps, Repository, Commits
<1>4. DirsTyped' /\ SameDirs /\ RemoteInv'
  BY <1>1, <1>2, <1>3, RemoteKept DEF SyncInv, SyncTypeInv, DirsTyped, SameDirs
<1>5. \A n \in Names : RepoOk(n)'
  BY <1>1, <1>2, RepoKept DEF SyncInv, RepoInv, RepoOk
<1> QED
  BY <1>1, <1>2, <1>3, <1>4, <1>5, CallStep DEF SyncInv, SyncTypeInv

\* fs::copy begins: its object is whole no longer, and will be.
LEMMA OpenStep ==
    ASSUME SyncInv, NEW p \in SyncCalls, OpenTarget(p)
    PROVE  SyncInv'
<1> DEFINE d == dirs[RepoOf[p]]
           c == sync[p].at
<1>1. sync[p].pc = "open" /\ UNCHANGED <<needs, cut, catalogVars>>
  BY DEF OpenTarget
<1>2. /\ sync[p] \in SyncRecords /\ p \in PushCalls /\ Syncing(p) /\ c \in Nat
      /\ remote \in [refs : RefMaps, objects : SUBSET Nat, partial : SUBSET Nat]
      /\ needs \in Seq(SUBSET Nat)
  BY <1>1 DEF SyncInv, SyncTypeInv, PushPcs, Syncing
<1>3. CASE ~(IsRepository(d) /\ c \in d.loose)
  <2>1. [sync[p] EXCEPT !.pc = "done"] \in SyncRecords /\ [sync[p] EXCEPT !.pc = "done"].pc = "done"
    BY <1>2, IdleCallIsRecord DEF SyncRecords
  <2>2. sync' = [sync EXCEPT ![p] = [sync[p] EXCEPT !.pc = "done"]] /\ UNCHANGED remote
    BY <1>3 DEF OpenTarget, SyncGoto
  <2> QED BY <1>1, <2>1, <2>2, DoneStep
<1>4. CASE IsRepository(d) /\ c \in d.loose
  <2> DEFINE x == [sync[p] EXCEPT !.pc = "copy"]
  <2>1. /\ x \in SyncRecords /\ x.pc = "copy" /\ x.at = c
        /\ x.targets = sync[p].targets /\ x.todo = sync[p].todo
    BY <1>2 DEF SyncRecords, PushPcs
  <2>2. sync' = [sync EXCEPT ![p] = x] /\ sync'[p] = x
    BY <1>4 DEF OpenTarget, SyncGoto, SyncInv, SyncTypeInv
  <2>3. remote' = [remote EXCEPT !.objects = remote.objects \ {c},
                                 !.partial = remote.partial \cup {c}]
    BY <1>4 DEF OpenTarget
  <2> HIDE DEF x, d, c
  <2>4. \A q \in SyncCalls : q # p => sync'[q] = sync[q]
    BY <2>2 DEF SyncInv, SyncTypeInv
  <2>5. Copying' = Copying \cup {c}
    <3>1. {q \in PushCalls : sync'[q].pc = "copy"} = {q \in PushCalls : sync[q].pc = "copy"} \cup {p}
      BY <1>2, <2>1, <2>2, <2>4 DEF SyncCalls
    <3>2. \A q \in {r \in PushCalls : sync[r].pc = "copy"} : sync'[q].at = sync[q].at
      BY <1>1, <2>4 DEF SyncCalls
    <3> QED BY <2>1, <2>2, <3>1, <3>2 DEF Copying
  <2>6. /\ remote'.refs = remote.refs /\ remote'.objects = remote.objects \ {c}
        /\ remote'.partial = remote.partial \cup {c}
        /\ remote' \in [refs : RefMaps, objects : SUBSET Nat, partial : SUBSET Nat]
    BY <1>2, <2>3 DEF c
  <2>7. CopyInv'
    BY <1>1, <2>5, <2>6 DEF SyncInv, CopyInv
  <2>8. Held \subseteq Held'
    BY <1>1, <2>5, <2>6 DEF Held
  <2>9. Progress(p)'
    BY <1>1, <2>1, <2>2, <2>8 DEF Progress, SyncInv, ProgressInv
  <2> QED BY <1>1, <1>2, <2>1, <2>2, <2>6, <2>7, <2>8, <2>9, RemoteStep DEF SyncInv, SyncTypeInv, c
<1> QED BY <1>3, <1>4

\* fs::copy ends: the object is whole, unless another push is at it.
LEMMA CopyStep ==
    ASSUME SyncInv, NEW p \in SyncCalls, CopyObject(p)
    PROVE  SyncInv'
<1> DEFINE c == sync[p].at
           others == \E q \in PushCalls \ {p} : sync[q].pc = "copy" /\ sync[q].at = c
           x == [sync[p] EXCEPT !.pc = "check"]
<1>1. sync[p].pc = "copy" /\ UNCHANGED <<needs, cut, catalogVars>>
  BY DEF CopyObject
<1>2. /\ sync[p] \in SyncRecords /\ p \in PushCalls /\ Syncing(p) /\ c \in Nat
      /\ remote \in [refs : RefMaps, objects : SUBSET Nat, partial : SUBSET Nat]
  BY <1>1 DEF SyncInv, SyncTypeInv, PushPcs, Syncing
<1>3. x \in SyncRecords /\ x.pc = "check" /\ x.targets = sync[p].targets /\ x.todo = sync[p].todo
  BY <1>2 DEF SyncRecords, PushPcs
<1>4. sync' = [sync EXCEPT ![p] = x] /\ sync'[p] = x
  BY DEF CopyObject, SyncGoto, SyncInv, SyncTypeInv
<1>5. remote' = IF others THEN remote
                ELSE [remote EXCEPT !.objects = remote.objects \cup {c},
                                    !.partial = remote.partial \ {c}]
  BY DEF CopyObject
<1> HIDE DEF x
<1>6. \A q \in SyncCalls : q # p => sync'[q] = sync[q]
  BY <1>4 DEF SyncInv, SyncTypeInv
<1> DEFINE Rest == {q \in PushCalls \ {p} : sync[q].pc = "copy"}
<1>7. {q \in PushCalls : sync'[q].pc = "copy"} = Rest
  BY <1>3, <1>4, <1>6 DEF SyncCalls
<1>8. {q \in PushCalls : sync[q].pc = "copy"} = Rest \cup {p}
  BY <1>1, <1>2
<1>9. Copying' = {sync[q].at : q \in Rest} /\ Copying = {sync[q].at : q \in Rest} \cup {c}
  <2>1. \A q \in Rest : sync'[q].at = sync[q].at
    BY <1>6 DEF SyncCalls
  <2> HIDE DEF Rest
  <2> QED BY <1>7, <1>8, <2>1 DEF Copying
<1>10. others <=> c \in {sync[q].at : q \in Rest}
  OBVIOUS
<1> HIDE DEF c, others, Rest
<1>11. /\ remote' \in [refs : RefMaps, objects : SUBSET Nat, partial : SUBSET Nat]
       /\ remote'.refs = remote.refs
       /\ others => remote' = remote /\ Copying' = Copying
       /\ ~others => /\ remote'.objects = remote.objects \cup {c}
                     /\ remote'.partial = remote.partial \ {c}
                     /\ Copying = Copying' \cup {c} /\ c \notin Copying'
  BY <1>2, <1>5, <1>9, <1>10
<1>12. CopyInv' /\ Held \subseteq Held'
  BY <1>1, <1>11 DEF SyncInv, CopyInv, Held
<1>13. Progress(p)'
  BY <1>1, <1>3, <1>4, <1>12 DEF Progress, SyncInv, ProgressInv
<1> QED BY <1>1, <1>2, <1>3, <1>4, <1>11, <1>12, <1>13, RemoteStep

\* A ref of the remote moves to a commit whose objects are there.
LEMMA WriteStep ==
    ASSUME SyncInv, NEW p \in SyncCalls, WriteRef(p)
    PROVE  SyncInv'
<1> DEFINE s == sync[p]
           r == Refspecs[p][Len(Refspecs[p]) - Len(s.targets) + 1][2]
<1>1. s.pc = "write" /\ UNCHANGED <<needs, cut, catalogVars>>
  BY DEF WriteRef
<1>2. /\ s \in SyncRecords /\ p \in PushCalls /\ Syncing(p) /\ s.targets \in Seq(Commits)
      /\ remote \in [refs : RefMaps, objects : SUBSET Nat, partial : SUBSET Nat]
      /\ \A i \in 1 .. Len(s.targets) : needs[s.targets[i]] \subseteq Held
  BY <1>1 DEF SyncInv, SyncTypeInv, PushPcs, Syncing, SyncRecords, ProgressInv, Progress
<1>3. CASE s.targets = <<>>
  <2>1. [sync[p] EXCEPT !.pc = "done"] \in SyncRecords /\ [sync[p] EXCEPT !.pc = "done"].pc = "done"
    BY <1>2, IdleCallIsRecord DEF SyncRecords
  <2>2. sync' = [sync EXCEPT ![p] = [sync[p] EXCEPT !.pc = "done"]] /\ UNCHANGED remote
    BY <1>3 DEF WriteRef, SyncGoto
  <2> QED BY <1>1, <2>1, <2>2, DoneStep
<1>4. CASE s.targets # <<>>
  <2> DEFINE x == [s EXCEPT !.targets = Tail(s.targets)]
  <2>1. /\ Head(s.targets) \in Commits /\ needs[Head(s.targets)] \subseteq Held
        /\ Tail(s.targets) \in Seq(Commits) /\ Len(Tail(s.targets)) = Len(s.targets) - 1
        /\ \A i \in 1 .. Len(Tail(s.targets)) : /\ i + 1 \in 1 .. Len(s.targets)
                                                /\ Tail(s.targets)[i] = s.targets[i + 1]
    BY <1>2, <1>4
  <2>2. x \in SyncRecords /\ x.pc = "write" /\ x.targets = Tail(s.targets)
    BY <1>1, <1>2, <2>1 DEF SyncRecords, PushPcs
  <2>3. sync' = [sync EXCEPT ![p] = x] /\ sync'[p] = x
    BY <1>4 DEF WriteRef, SyncInv, SyncTypeInv
  <2>4. remote' = [remote EXCEPT !.refs[r] = Head(s.targets)]
    BY <1>4 DEF WriteRef
  <2> HIDE DEF x, r
  <2>5. /\ remote'.refs = [remote.refs EXCEPT ![r] = Head(s.targets)]
        /\ remote'.objects = remote.objects /\ remote'.partial = remote.partial
        /\ remote' = [refs |-> remote'.refs, objects |-> remote'.objects,
                      partial |-> remote'.partial]
    BY <1>2, <2>4
  <2>6. remote'.refs \in RefMaps
    BY <1>2, <2>1, <2>5 DEF RefMaps
  <2>7. Held' = Held /\ Copying' = Copying
    BY <1>1, <2>2, <2>3, <2>5, CopyingSame DEF Held
  <2>8. CopyInv'
    BY <1>1, <2>5, <2>7 DEF SyncInv, CopyInv
  <2>9. RemoteInv'
    <3>1. Targets(remote'.refs) \subseteq Targets(remote.refs) \cup {Head(s.targets)}
      BY <1>2, <2>5 DEF Targets, RefMaps
    <3> QED BY <1>1, <2>1, <2>7, <3>1 DEF SyncInv, RemoteInv
  <2>10. Progress(p)'
    <3>1. \A i \in 1 .. Len(Tail(s.targets)) : needs[Tail(s.targets)[i]] \subseteq Held
      BY <1>2, <2>1
    <3>2. \A i \in 1 .. Len(sync'[p].targets) : needs'[sync'[p].targets[i]] \subseteq Held'
      BY <1>1, <2>2, <2>3, <2>7, <3>1
    <3> QED BY <2>2, <2>3, <3>2 DEF Progress
  <2>11. remote' \in [refs : RefMaps, objects : SUBSET Nat, partial : SUBSET Nat]
    BY <1>2, <2>5, <2>6
  <2> QED BY <1>1, <1>2, <2>2, <2>3, <2>7, <2>8, <2>9, <2>10, <2>11, RemoteStep
<1> QED BY <1>3, <1>4

-----------------------------------------------------------------------------
(***************************************************************************)
(* Steps of fetches and commits.                                           *)
(***************************************************************************)

\* Steps that change one repository: it keeps its objects, and no directory comes or goes.
LEMMA RepoStep ==
    ASSUME SyncInv, NEW p \in SyncCalls, NEW x \in SyncRecords, NEW d \in Repository',
           sync' = [sync EXCEPT ![p] = x], UNCHANGED <<remote, cut, catalog>>,
           needs' \in Seq(SUBSET Nat), Len(needs) <= Len(needs'),
           \A c \in Commits : needs'[c] = needs[c],
           IsRepository(dirs[RepoOf[p]]), dirs' = [dirs EXCEPT ![RepoOf[p]] = d],
           sync[p].pc # "copy", x.pc \notin PushPcs,
           Objects(RepoOf[p]) \subseteq d.loose \cup d.packed,
           \A c \in Reachable(d) : needs'[c] \subseteq d.loose \cup d.packed,
           d.packed \subseteq Held, Progress(p)'
    PROVE  SyncInv' /\ SameDirs
<1> DEFINE n == RepoOf[p]
<1>0. n \in Names
  BY SyncConstants DEF SyncCalls
<1>1. Copying' = Copying /\ Held' = Held
  BY CopyingSame DEF Held, PushPcs
<1>2. IsRepository(d)
  <2>1. Commits' \subseteq Nat
    BY DEF Commits
  <2>2. RefMaps' \subseteq [Refs -> Nat \cup {NoCommit}]
    BY <2>1 DEF RefMaps
  <2>3. d \in Repositories
    BY <2>2 DEF Repository, Repositories
  <2> QED BY <2>3, SyncConstants DEF IsRepository
<1>3. dirs'[n] = d /\ \A m \in Names : m # n => dirs'[m] = dirs[m]
  BY <1>0 DEF SyncInv, SyncTypeInv, DirsTyped
<1>4. Objects(n)' = d.loose \cup d.packed
  BY <1>3 DEF Objects
<1>5. \A m \in Names : IsRepository(dirs[m]) => Objects(m) \subseteq Objects(m)'
  BY <1>3, <1>4 DEF Objects
<1>6. \A m \in Names : IsRepository(dirs'[m]) <=> IsRepository(dirs[m])
  BY <1>2, <1>3
<1>7. Grows
  BY <1>1, <1>5, <1>6, SyncConstants DEF Grows, SyncCalls
<1>8. Repository \subseteq Repository' /\ RefMaps \subseteq RefMaps' /\ SyncRecords \subseteq SyncRecords'
  BY TypesGrow DEF SyncInv, SyncTypeInv
<1>9. DirsTyped'
  BY <1>3, <1>8 DEF SyncInv, SyncTypeInv, DirsTyped
<1>10. SameDirs
  <2>1. DOMAIN dirs' = DOMAIN dirs
    OBVIOUS
  <2>2. dirs'[n] # NoDir /\ dirs[n] # NoDir
    BY <1>2, <1>3 DEF IsRepository
  <2> QED BY <1>3, <1>6, <2>1, <2>2 DEF SameDirs
<1>11. \A m \in Names : RepoOk(m)'
  <2>1. RepoOk(n)'
    BY <1>1, <1>3, <1>4 DEF RepoOk
  <2>2. ASSUME NEW m \in Names, m # n
        PROVE  RepoOk(m)'
    BY <1>3, <1>7, <2>2, RepoKept DEF SyncInv, RepoInv, RepoOk
  <2> QED BY <2>1, <2>2
<1>12. remote' \in [refs : RefMaps', objects : SUBSET Nat, partial : SUBSET Nat] /\ RemoteInv'
  <2>1. remote \in [refs : RefMaps, objects : SUBSET Nat, partial : SUBSET Nat]
    BY DEF SyncInv, SyncTypeInv
  <2>2. RemoteInv'
    BY <1>7, RemoteKept DEF SyncInv
  <2> QED BY <1>8, <2>1, <2>2
<1>13. CopyInv' /\ cut' \subseteq Nat
  BY <1>1 DEF SyncInv, SyncTypeInv, CopyInv
<1>14. x \in SyncRecords'
  BY <1>8
<1> QED BY <1>7, <1>9, <1>10, <1>11, <1>12, <1>13, <1>14, CallStep DEF PushPcs

\* A fetch that received its pack has all that the refs it was shown need.
LEMMA ReceiveStep ==
    ASSUME SyncInv, NEW p \in SyncCalls, ReceivePack(p)
    PROVE  SyncInv' /\ SameDirs
<1> DEFINE n == RepoOf[p]
           d == dirs[n]
           wanted == AllNeeds(Targets(remote.refs)) \ (d.loose \cup d.packed)
           received == IsRepository(d) /\ n \in records /\ wanted \subseteq remote.objects
<1>1. /\ sync[p].pc = "idle" /\ UNCHANGED <<needs, remote, cut, catalog>>
      /\ UNCHANGED <<records, nameLog, placements, answer>>
      /\ n \in Names /\ sync[p] \in SyncRecords
      /\ remote \in [refs : RefMaps, objects : SUBSET Nat, partial : SUBSET Nat]
  BY SyncConstants DEF ReceivePack, SyncCalls, SyncInv, SyncTypeInv
<1>2. CASE ~received
  <2>1. [sync[p] EXCEPT !.pc = "done"] \in SyncRecords /\ [sync[p] EXCEPT !.pc = "done"].pc = "done"
    BY <1>1, IdleCallIsRecord DEF SyncRecords
  <2>2. sync' = [sync EXCEPT ![p] = [sync[p] EXCEPT !.pc = "done"]] /\ UNCHANGED dirs
    BY <1>2 DEF ReceivePack, SyncGoto
  <2> QED BY <1>1, <2>1, <2>2, DoneStep DEF catalogVars, SameDirs
<1>3. CASE received
  <2> DEFINE e == [d EXCEPT !.packed = d.packed \cup wanted]
             x == [IdleSync EXCEPT !.pc = "track", !.refs = remote.refs]
  <2>1. sync' = [sync EXCEPT ![p] = x] /\ dirs' = [dirs EXCEPT ![n] = e]
    BY <1>3 DEF ReceivePack
  <2>2. d \in Repository
    BY <1>1, <1>3, RepositoryIs DEF SyncInv, SyncTypeInv, DirsTyped
  <2>3. wanted \in SUBSET Nat /\ wanted \subseteq Held
    BY <1>1, <1>3 DEF Held
  <2> HIDE DEF wanted
  <2>4. /\ e \in Repository /\ e.heads = d.heads /\ e.tracking = d.tracking
        /\ e.loose = d.loose /\ e.packed = d.packed \cup wanted
    BY <2>2, <2>3 DEF Repository
  <2>5. x \in SyncRecords /\ x.pc = "track" /\ x.refs = remote.refs
    <3>1. IdleSync \in SyncRecords
      BY IdleCallIsRecord
    <3> QED BY <1>1, <3>1 DEF SyncRecords, IdleSync
  <2>6. Repository = Repository'
    BY <1>1 DEF RefMaps, Repository, Commits
  <2> HIDE DEF x
  <2>7. sync'[p] = x /\ dirs'[n] = e
    BY <1>1, <2>1 DEF SyncInv, SyncTypeInv, DirsTyped
  <2>8. \A c \in Reachable(e) : needs'[c] \subseteq e.loose \cup e.packed
    BY <1>1, <1>3, <2>4 DEF SyncInv, RepoInv, Objects, Reachable
  <2>9. e.packed \subseteq Held
    BY <1>1, <1>3, <2>3, <2>4 DEF SyncInv, RepoInv
  <2>10. Progress(p)'
    <3>1. \A c \in Targets(remote.refs) : needs'[c] \subseteq e.loose \cup e.packed
      BY <1>1, <2>4 DEF wanted, AllNeeds
    <3> QED BY <2>5, <2>7, <3>1 DEF Progress, Objects
  <2>11. Objects(n) \subseteq e.loose \cup e.packed
    BY <2>4 DEF Objects
  <2>12. /\ needs' \in Seq(SUBSET Nat) /\ Len(needs) <= Len(needs')
         /\ \A c \in Commits : needs'[c] = needs[c]
    BY <1>1 DEF SyncInv, SyncTypeInv
  <2> HIDE DEF e
  <2> QED
    BY <1>1, <1>3, <2>1, <2>4, <2>5, <2>6, <2>8, <2>9, <2>10, <2>11, <2>12, RepoStep DEF PushPcs
<1> QED BY <1>2, <1>3

\* Its tracking refs then name what the repository has.
LEMMA TrackStep ==
    ASSUME SyncInv, NEW p \in SyncCalls, MoveTracking(p)
    PROVE  SyncInv' /\ SameDirs
<1> DEFINE n == RepoOf[p]
           d == dirs[n]
           s == sync[p]
           x == [s EXCEPT !.pc = "done"]
<1>1. /\ s.pc = "track" /\ UNCHANGED <<needs, remote, cut, catalog>>
      /\ UNCHANGED <<records, nameLog, placements, answer>>
      /\ n \in Names /\ s \in SyncRecords
      /\ sync' = [sync EXCEPT ![p] = x] /\ sync'[p] = x
  BY SyncConstants DEF MoveTracking, SyncGoto, SyncCalls, SyncInv, SyncTypeInv
<1>2. x \in SyncRecords /\ x.pc = "done"
  BY <1>1, IdleCallIsRecord DEF SyncRecords
<1> HIDE DEF x
<1>3. CASE ~IsRepository(d)
  <2>1. UNCHANGED dirs
    BY <1>3 DEF MoveTracking
  <2> QED BY <1>1, <1>2, <2>1, DoneStep DEF catalogVars, SameDirs
<1>4. CASE IsRepository(d)
  <2> DEFINE tracking == [r \in Refs |-> IF s.refs[r] = NoCommit THEN d.tracking[r] ELSE s.refs[r]]
             e == [d EXCEPT !.tracking = tracking]
  <2>1. dirs' = [dirs EXCEPT ![n] = e]
    BY <1>4 DEF MoveTracking
  <2>2. d \in Repository
    BY <1>1, <1>4, RepositoryIs DEF SyncInv, SyncTypeInv, DirsTyped
  <2>3. tracking \in RefMaps /\ Targets(tracking) \subseteq Targets(d.tracking) \cup Targets(s.refs)
    BY <1>1, <2>2 DEF RefMaps, Targets, Repository, SyncRecords
  <2> HIDE DEF tracking
  <2>4. /\ e \in Repository /\ e.heads = d.heads /\ e.tracking = tracking
        /\ e.loose = d.loose /\ e.packed = d.packed
    BY <2>2, <2>3 DEF Repository
  <2>5. Repository = Repository'
    BY <1>1 DEF RefMaps, Repository, Commits
  <2> HIDE DEF e
  <2>6. \A c \in Reachable(e) : needs[c] \subseteq Objects(n)
    <3>1. Reachable(e) \subseteq Reachable(d) \cup Targets(s.refs)
      BY <2>3, <2>4 DEF Reachable
    <3>2. \A c \in Targets(s.refs) : needs[c] \subseteq Objects(n)
      BY <1>1, <1>4 DEF SyncInv, ProgressInv, Progress
    <3> QED BY <1>1, <1>4, <3>1, <3>2 DEF SyncInv, RepoInv
  <2>7. Objects(n) = e.loose \cup e.packed
    BY <2>4 DEF Objects
  <2>8. e.packed \subseteq Held
    BY <1>1, <1>4, <2>4 DEF SyncInv, RepoInv
  <2>9. Progress(p)'
    BY <1>1, <1>2 DEF Progress
  <2>10. /\ needs' \in Seq(SUBSET Nat) /\ Len(needs) <= Len(needs')
         /\ \A c \in Commits : needs'[c] = needs[c]
    BY <1>1 DEF SyncInv, SyncTypeInv
  <2> QED
    BY <1>1, <1>2, <1>4, <2>1, <2>4, <2>5, <2>6, <2>7, <2>8, <2>9, <2>10, RepoStep DEF PushPcs
<1> QED BY <1>3, <1>4

\* A commit on a branch: what it makes of a repository.
LEMMA CommittedIs ==
    ASSUME needs \in Seq(SUBSET Nat), NEW d \in Repository, NEW r \in Refs,
           NEW objects \in SUBSET Nat, needs' = Append(needs, objects)
    PROVE  /\ needs' \in Seq(SUBSET Nat) /\ Len(needs) <= Len(needs')
           /\ \A c \in Commits : needs'[c] = needs[c]
           /\ needs'[Len(needs) + 1] = objects
           /\ Committed(d, r) \in Repository'
           /\ Committed(d, r).loose = d.loose \cup {Len(needs) + 1}
           /\ Committed(d, r).packed = d.packed
           /\ Reachable(Committed(d, r)) \subseteq Reachable(d) \cup {Len(needs) + 1}
<1> DEFINE k == Len(needs) + 1
           heads == [d.heads EXCEPT ![r] = k]
<1>1. /\ needs' \in Seq(SUBSET Nat) /\ Len(needs') = k /\ Len(needs) \in Nat
      /\ needs'[k] = objects /\ \A c \in 1 .. Len(needs) : needs'[c] = needs[c]
  OBVIOUS
<1>2. Committed(d, r) = [d EXCEPT !.heads = heads, !.loose = d.loose \cup {k}]
  BY DEF Committed, Repository
<1>3. k \in Nat /\ k \in Commits' /\ Commits \subseteq Commits'
  BY <1>1 DEF Commits
<1> HIDE DEF k
<1>4. d.heads \in RefMaps /\ d.tracking \in RefMaps
  BY DEF Repository
<1>5. heads \in RefMaps' /\ d.tracking \in RefMaps'
  BY <1>3, <1>4 DEF RefMaps
<1>6. Targets(heads) \subseteq Targets(d.heads) \cup {k}
  BY <1>4 DEF Targets, RefMaps
<1> HIDE DEF heads
<1>7. /\ Committed(d, r) \in Repository'
      /\ Committed(d, r).heads = heads /\ Committed(d, r).tracking = d.tracking
      /\ Committed(d, r).loose = d.loose \cup {k} /\ Committed(d, r).packed = d.packed
  BY <1>2, <1>3, <1>5 DEF Repository
<1>8. Reachable(Committed(d, r)) \subseteq Reachable(d) \cup {k}
  BY <1>6, <1>7 DEF Reachable
<1> QED BY <1>1, <1>7, <1>8 DEF k, Commits

\* A commit of a workspace adds itself to what its base needs.
LEMMA CommitStep ==
    ASSUME SyncInv, NEW p \in SyncCalls, CommitOnBranch(p)
    PROVE  SyncInv' /\ SameDirs
<1> DEFINE n == RepoOf[p]
           r == BranchOf[p]
           d == dirs[n]
           k == Len(needs) + 1
           x == [sync[p] EXCEPT !.pc = "done"]
<1>1. /\ p \in CommitCalls /\ n \in Names /\ r \in Refs /\ sync[p].pc = "idle"
      /\ IsRepository(d) /\ UNCHANGED <<remote, cut, catalog>> /\ sync[p] \in SyncRecords
      /\ sync' = [sync EXCEPT ![p] = x]
  BY SyncConstants DEF CommitOnBranch, SyncGoto, SyncInv, SyncTypeInv
<1>2. d \in Repository
  BY <1>1, RepositoryIs DEF SyncInv, SyncTypeInv, DirsTyped
<1>3. PICK base \in Reachable(d) :
        /\ needs' = Append(needs, needs[base] \cup {k})
        /\ dirs' = [dirs EXCEPT ![n] = Committed(d, r)]
  <2>1. d.heads[r] # NoCommit => d.heads[r] \in Reachable(d)
    BY <1>1 DEF Reachable, Targets
  <2> QED BY <2>1 DEF CommitOnBranch
<1>4. needs \in Seq(SUBSET Nat) /\ base \in Commits /\ k \in Nat
  BY <1>2, <1>3, ReachableIs DEF SyncInv, SyncTypeInv
<1>5. needs[base] \subseteq Objects(n) /\ needs[base] \in SUBSET Nat
  <2>1. needs[base] \in SUBSET Nat
    BY <1>4 DEF Commits
  <2>2. needs[base] \subseteq Objects(n)
    BY <1>1, <1>3 DEF SyncInv, RepoInv
  <2> QED BY <2>1, <2>2
<1>6. x \in SyncRecords /\ x.pc = "done" /\ sync'[p] = x
  <2>1. x \in SyncRecords /\ x.pc = "done"
    BY <1>1, IdleCallIsRecord DEF SyncRecords
  <2>2. sync'[p] = x
    BY <1>1 DEF SyncInv, SyncTypeInv
  <2> QED BY <2>1, <2>2
<1> DEFINE e == Committed(d, r)
<1>7. /\ needs' \in Seq(SUBSET Nat) /\ Len(needs) <= Len(needs')
      /\ \A c \in Commits : needs'[c] = needs[c]
      /\ needs'[k] = needs[base] \cup {k}
      /\ e \in Repository' /\ e.loose = d.loose \cup {k} /\ e.packed = d.packed
      /\ Reachable(e) \subseteq Reachable(d) \cup {k}
  <2> DEFINE objects == needs[base] \cup {k}
  <2>1. objects \in SUBSET Nat /\ needs' = Append(needs, objects)
    BY <1>3, <1>4, <1>5
  <2>2. d \in Repository /\ r \in Refs /\ needs \in Seq(SUBSET Nat)
    BY <1>1, <1>2, <1>4
  <2> HIDE DEF objects, d, r
  <2>3. /\ needs' \in Seq(SUBSET Nat) /\ Len(needs) <= Len(needs')
        /\ \A c \in Commits : needs'[c] = needs[c]
        /\ needs'[k] = objects
        /\ e \in Repository' /\ e.loose = d.loose \cup {k} /\ e.packed = d.packed
        /\ Reachable(e) \subseteq Reachable(d) \cup {k}
    BY <2>1, <2>2, CommittedIs
  <2> QED BY <2>3 DEF objects
<1> HIDE DEF e, x, k
<1>8. Objects(n) \subseteq e.loose \cup e.packed
  BY <1>7 DEF Objects
<1>9. \A c \in Reachable(d) : needs'[c] \subseteq Objects(n)
  BY <1>1, <1>2, <1>7, ReachableIs DEF SyncInv, RepoInv
<1>10. \A c \in Reachable(e) : needs'[c] \subseteq e.loose \cup e.packed
  BY <1>5, <1>7, <1>8, <1>9
<1>11. e.packed \subseteq Held
  BY <1>1, <1>7 DEF SyncInv, RepoInv
<1>12. Progress(p)'
  BY <1>6 DEF Progress
<1>13. dirs' = [dirs EXCEPT ![n] = e]
  BY <1>3 DEF e
<1> QED
  BY <1>1, <1>6, <1>7, <1>8, <1>10, <1>11, <1>12, <1>13, RepoStep DEF PushPcs

-----------------------------------------------------------------------------
(***************************************************************************)
(* Steps of the catalog, beside pushes and fetches.                        *)
(***************************************************************************)

\* A call of the catalog moves on and makes of its directory a typed one.
LEMMA DirectoryStep ==
    ASSUME CatalogInv, SyncInv, NEW c \in CatalogCalls, SeparateSync(c),
           UNCHANGED <<remote, sync, cut>>,
           needs' \in Seq(SUBSET Nat), Len(needs) <= Len(needs'),
           \A k \in Commits : needs'[k] = needs[k],
           NEW pc, catalog' = [catalog EXCEPT ![c] = pc],
           pc \in RegisterPcs =>
               catalog[c] \in RegisterPcs \/ (c \in Registers /\ catalog[c] = "idle"),
           NEW d \in Repository' \cup {NoDir, BareDir},
           dirs' = [dirs EXCEPT ![NameOf[c]] = d],
           IsRepository(d) =>
               /\ \A k \in Reachable(d) : needs'[k] \subseteq d.loose \cup d.packed
               /\ d.packed \subseteq Held
               /\ IsRepository(dirs[NameOf[c]]) => Objects(NameOf[c]) \subseteq d.loose \cup d.packed
               /\ ~IsRepository(dirs[NameOf[c]]) => catalog[c] \in RegisterPcs,
           IsRepository(dirs[NameOf[c]]) /\ ~IsRepository(d) => catalog[c] \in RetirePcs
    PROVE  SyncInv'
<1> DEFINE n == NameOf[c]
<1>0. n \in Names /\ \A p \in SyncCalls : RepoOf[p] \in Names
  BY CatalogConstants, SyncConstants DEF SyncCalls
<1>1. Held' = Held /\ \A p \in SyncCalls : Syncing(p)' <=> Syncing(p)
  BY DEF Held, Copying, Syncing
<1>2. dirs'[n] = d /\ \A m \in Names : m # n => dirs'[m] = dirs[m]
  BY <1>0 DEF SyncInv, SyncTypeInv, DirsTyped
<1>3. catalog'[c] = pc /\ \A e \in CatalogCalls : e # c => catalog'[e] = catalog[e]
  BY DEF CatalogInv, CatalogTypeInv
<1>4. Grows
  <2>1. \A m \in Names : IsRepository(dirs[m]) /\ IsRepository(dirs'[m]) =>
                           Objects(m) \subseteq Objects(m)'
    BY <1>2 DEF Objects
  <2>2. ASSUME NEW p \in SyncCalls, Syncing(p), ~IsRepository(dirs[RepoOf[p]])
        PROVE  ~IsRepository(dirs'[RepoOf[p]])
    <3>1. RepoOf[p] = n => catalog[c] \notin RegisterPcs
      BY <2>2 DEF SyncInv, NoNewInv
    <3> QED BY <1>0, <1>2, <2>2, <3>1
  <2> QED BY <1>1, <2>1, <2>2 DEF Grows
<1>5. DirsTyped'
  <2>1. Repository \subseteq Repository'
    BY TypesGrow DEF SyncInv, SyncTypeInv
  <2> QED BY <1>2, <2>1 DEF SyncInv, SyncTypeInv, DirsTyped
<1>6. \A m \in Names : RepoOk(m)'
  <2>1. RepoOk(n)'
    BY <1>1, <1>2 DEF RepoOk, Objects
  <2>2. ASSUME NEW m \in Names, m # n
        PROVE  RepoOk(m)'
    BY <1>2, <1>4, <2>2, RepoKept DEF SyncInv, RepoInv, RepoOk
  <2> QED BY <2>1, <2>2
<1>7. NoNewInv'
  <2> SUFFICES ASSUME NEW p \in SyncCalls, NEW e \in CatalogCalls,
                      Syncing(p), ~IsRepository(dirs'[RepoOf[p]]), NameOf[e] = RepoOf[p],
                      catalog'[e] \in RegisterPcs
               PROVE  FALSE
    BY <1>1 DEF NoNewInv
  <2>1. CASE ~IsRepository(dirs[RepoOf[p]])
    <3>1. catalog[e] \notin RegisterPcs
      BY <2>1 DEF SyncInv, NoNewInv
    <3>2. e = c /\ c \in Registers /\ catalog[c] = "idle"
      BY <1>3, <3>1
    <3> QED BY <2>1, <3>2 DEF SeparateSync
  <2>2. CASE IsRepository(dirs[RepoOf[p]])
    <3>1. RepoOf[p] = n /\ catalog[c] \in RetirePcs
      BY <1>0, <1>2, <2>2
    <3>2. c \notin Registers /\ AtWork(c)
      BY <3>1 DEF CatalogInv, KindInv, RetirePcs, AtWork
    <3>3. catalog[e] \notin RegisterPcs
      <4> SUFFICES ASSUME catalog[e] \in RegisterPcs PROVE FALSE
        OBVIOUS
      <4>1. e \in Registers /\ AtWork(e)
        BY DEF CatalogInv, KindInv, RegisterPcs, AtWork
      <4> QED BY <3>1, <3>2, <4>1 DEF CatalogInv, KindInv
    <3> QED BY <1>3, <3>1, <3>2, <3>3 DEF RegisterPcs, RetirePcs
  <2> QED BY <2>1, <2>2
<1> QED BY <1>4, <1>5, <1>6, <1>7, CatalogFrame

\* Steps of the catalog that leave the directories alone.
LEMMA RecordStep ==
    ASSUME CatalogInv, SyncInv, NEW c \in CatalogCalls, SeparateSync(c),
           UNCHANGED <<dirs, needs, remote, sync, cut>>,
           NEW pc, catalog' = [catalog EXCEPT ![c] = pc],
           pc \in RegisterPcs =>
               catalog[c] \in RegisterPcs \/ (c \in Registers /\ catalog[c] = "idle")
    PROVE  SyncInv'
<1> DEFINE n == NameOf[c]
           d == dirs[n]
<1>0. n \in Names
  BY CatalogConstants
<1>1. Repository = Repository' /\ d \in Repository' \cup {NoDir, BareDir}
  BY <1>0 DEF Repository, RefMaps, Commits, SyncInv, SyncTypeInv, DirsTyped
<1>2. dirs' = [dirs EXCEPT ![n] = d]
  BY <1>0 DEF SyncInv, SyncTypeInv, DirsTyped
<1>3. IsRepository(d) =>
        /\ \A k \in Reachable(d) : needs'[k] \subseteq d.loose \cup d.packed
        /\ d.packed \subseteq Held /\ Objects(n) = d.loose \cup d.packed
  BY <1>0 DEF SyncInv, RepoInv, Objects
<1>4. needs' \in Seq(SUBSET Nat) /\ Len(needs) <= Len(needs') /\ \A k \in Commits : needs'[k] = needs[k]
  BY DEF SyncInv, SyncTypeInv
<1> HIDE DEF d
<1> QED BY <1>1, <1>2, <1>3, <1>4, DirectoryStep DEF d

\* Each step of the catalog leaves the invariant of pushes and fetches as it is.
LEMMA CatalogSyncStep ==
    ASSUME CatalogInv, SyncInv, NEW c \in CatalogCalls, SeparateSync(c), CatalogStep(c),
           UNCHANGED <<needs, remote, sync, cut>>
    PROVE  SyncInv'
<1> DEFINE n == NameOf[c]
<1>0. n \in Names /\ DirsTyped /\ needs \in Seq(SUBSET Nat)
  BY CatalogConstants DEF SyncInv, SyncTypeInv
<1>1. needs' \in Seq(SUBSET Nat) /\ Len(needs) <= Len(needs') /\ \A k \in Commits : needs'[k] = needs[k]
  BY <1>0
<1>2. CASE CheckPath(c)
  <2>1. \E pc : catalog' = [catalog EXCEPT ![c] = pc]
    BY <1>2 DEF CheckPath, Goto
  <2> QED BY <1>2, <2>1, RecordStep DEF CheckPath, Goto
<1>3. CASE MakeDirectory(c)
  <2> DEFINE d == IF dirs[n] = NoDir THEN BareDir ELSE dirs[n]
             pc == IF IsRepository(dirs[n]) THEN "record" ELSE "init"
  <2>1. /\ catalog[c] \in RegisterPcs /\ catalog' = [catalog EXCEPT ![c] = pc]
        /\ dirs' = [dirs EXCEPT ![n] = d]
    BY <1>3 DEF MakeDirectory, Goto, RegisterPcs
  <2>2. d \in Repository' \cup {NoDir, BareDir}
    BY <1>0 DEF Repository, RefMaps, Commits, DirsTyped
  <2>3. IsRepository(d) => d = dirs[n]
    BY DEF IsRepository
  <2>4. IsRepository(dirs[n]) => d = dirs[n]
    BY DEF IsRepository
  <2>5. IsRepository(d) =>
          /\ \A k \in Reachable(d) : needs'[k] \subseteq d.loose \cup d.packed
          /\ d.packed \subseteq Held /\ Objects(n) = d.loose \cup d.packed
    BY <1>0, <2>3 DEF SyncInv, RepoInv, Objects
  <2> HIDE DEF d, pc
  <2> QED BY <1>1, <2>1, <2>2, <2>4, <2>5, DirectoryStep
<1>4. CASE MoveDirectory(c)
  <2> DEFINE pc == IF dirs[n] = NoDir THEN "done" ELSE "unrecord"
  <2>1. /\ catalog[c] \in RetirePcs /\ catalog' = [catalog EXCEPT ![c] = pc]
        /\ dirs' = [dirs EXCEPT ![n] = NoDir] /\ pc \notin RegisterPcs
    BY <1>4 DEF MoveDirectory, Goto, RegisterPcs, RetirePcs
  <2>2. ~IsRepository(NoDir)
    BY DEF IsRepository
  <2> HIDE DEF pc
  <2> QED BY <1>1, <2>1, <2>2, DirectoryStep
<1>5. CASE PutRepository(c)
  BY <1>5, RecordStep DEF PutRepository, Goto, RegisterPcs
<1>6. CASE PutName(c)
  BY <1>6, RecordStep DEF PutName, Goto, RegisterPcs
<1>7. CASE PutPlacement(c)
  BY <1>7, RecordStep DEF PutPlacement, Goto, RegisterPcs
<1>8. CASE GetRepository(c)
  BY <1>8, RecordStep DEF GetRepository, Goto, RegisterPcs
<1>9. CASE LookForDirectory(c)
  BY <1>9, RecordStep DEF LookForDirectory, Goto, RegisterPcs
<1>10. CASE DeleteRecord(c)
  BY <1>10, RecordStep DEF DeleteRecord, Goto, RegisterPcs
<1>11. CASE DeleteName(c)
  BY <1>11, RecordStep DEF DeleteName, Goto, RegisterPcs
<1>12. CASE DeletePlacement(c)
  BY <1>12, RecordStep DEF DeletePlacement, Goto, RegisterPcs
<1> QED
  BY <1>2, <1>3, <1>4, <1>5, <1>6, <1>7, <1>8, <1>9, <1>10, <1>11, <1>12 DEF CatalogStep

\* `git init`: a repository without a commit.
LEMMA InitStep ==
    ASSUME CatalogInv, SyncInv, NEW c \in CatalogCalls, SeparateSync(c), InitRepository(c, Unborn),
           UNCHANGED <<needs, remote, sync, cut>>
    PROVE  SyncInv'
<1> DEFINE n == NameOf[c]
           d == IF IsRepository(dirs[n]) THEN dirs[n] ELSE Unborn
<1>0. n \in Names /\ DirsTyped /\ needs \in Seq(SUBSET Nat)
  BY CatalogConstants DEF SyncInv, SyncTypeInv
<1>1. needs' \in Seq(SUBSET Nat) /\ Len(needs) <= Len(needs') /\ \A k \in Commits : needs'[k] = needs[k]
  BY <1>0
<1>2. /\ catalog[c] \in RegisterPcs /\ catalog' = [catalog EXCEPT ![c] = "commit"]
      /\ dirs' = [dirs EXCEPT ![n] = d]
  BY DEF InitRepository, Goto, RegisterPcs
<1>3. Unborn \in Repository /\ Reachable(Unborn) = {} /\ Unborn.packed = {}
  BY DEF Unborn, Repository, NoRefs, RefMaps, Reachable, Targets
<1>4. IsRepository(Unborn)
  BY <1>0, <1>3, RepositoryIs
<1>5. Repository = Repository'
  BY DEF Repository, RefMaps, Commits
<1>6. d \in Repository' \cup {NoDir, BareDir} /\ IsRepository(d)
  BY <1>0, <1>3, <1>4, <1>5 DEF DirsTyped
<1>7. /\ \A k \in Reachable(d) : needs'[k] \subseteq d.loose \cup d.packed
      /\ d.packed \subseteq Held
      /\ IsRepository(dirs[n]) => Objects(n) \subseteq d.loose \cup d.packed
  <2>1. CASE IsRepository(dirs[n])
    BY <1>0, <2>1 DEF SyncInv, RepoInv, Objects
  <2>2. CASE ~IsRepository(dirs[n])
    BY <1>3, <2>2
  <2> QED BY <2>1, <2>2
<1> HIDE DEF d
<1> QED BY <1>1, <1>2, <1>6, <1>7, DirectoryStep

\* `git commit`: the first commit of a repository that has none.
LEMMA FirstCommitStep ==
    ASSUME CatalogInv, SyncInv, NEW c \in CatalogCalls, SeparateSync(c),
           catalog[c] = "commit", SyncFirstCommit(c), UNCHANGED <<remote, sync, cut>>
    PROVE  /\ SyncInv'
           /\ \E d : IsRepository(d) /\ FirstCommit(c, d)
<1> DEFINE n == NameOf[c]
           d == dirs[n]
<1>0. n \in Names /\ DirsTyped /\ needs \in Seq(SUBSET Nat) /\ DefaultRef \in Refs
  BY CatalogConstants, SyncConstants DEF SyncInv, SyncTypeInv
<1>1. IsRepository(d) /\ catalog[c] \in RegisterPcs
  BY DEF CatalogInv, RegisterInv, RegisterPcs
<1>2. d \in Repository
  BY <1>0, <1>1, RepositoryIs DEF DirsTyped
<1>3. /\ \A k \in Reachable(d) : needs[k] \subseteq d.loose \cup d.packed
      /\ d.packed \subseteq Held
  BY <1>0, <1>1 DEF SyncInv, RepoInv, Objects
<1>4. CASE d.heads[DefaultRef] # NoCommit
  <2>1. FirstCommit(c, d) /\ UNCHANGED needs
    BY <1>4 DEF SyncFirstCommit
  <2>2. catalog' = [catalog EXCEPT ![c] = "record"] /\ dirs' = dirs
    BY <1>0, <2>1 DEF FirstCommit, Goto, DirsTyped
  <2> QED BY <1>1, <2>1, <2>2, RecordStep
<1>5. CASE d.heads[DefaultRef] = NoCommit
  <2> DEFINE k == Len(needs) + 1
             e == Committed(d, DefaultRef)
  <2>1. FirstCommit(c, e) /\ needs' = Append(needs, {k})
    BY <1>5 DEF SyncFirstCommit
  <2>2. /\ needs' \in Seq(SUBSET Nat) /\ Len(needs) <= Len(needs')
        /\ \A j \in Commits : needs'[j] = needs[j]
        /\ needs'[k] = {k} /\ e \in Repository' /\ e.loose = d.loose \cup {k} /\ e.packed = d.packed
        /\ Reachable(e) \subseteq Reachable(d) \cup {k}
    <3>1. {k} \in SUBSET Nat
      BY <1>0
    <3> HIDE DEF k
    <3>2. needs' = Append(needs, {k})
      BY <2>1
    <3> QED BY <1>0, <1>2, <3>1, <3>2, CommittedIs DEF k
  <2>3. catalog' = [catalog EXCEPT ![c] = "record"] /\ dirs' = [dirs EXCEPT ![n] = e]
    BY <2>1 DEF FirstCommit, Goto
  <2> HIDE DEF e, k
  <2>4. \A j \in Reachable(d) : needs'[j] \subseteq d.loose \cup d.packed
    BY <1>2, <1>3, <2>2, ReachableIs
  <2>5. \A j \in Reachable(e) : needs'[j] \subseteq e.loose \cup e.packed
    BY <2>2, <2>4
  <2>6. e.packed \subseteq Held /\ Objects(n) \subseteq e.loose \cup e.packed
    BY <1>3, <2>2 DEF Objects
  <2>7. IsRepository(e)
    <3>1. Commits' \subseteq Nat
      BY DEF Commits
    <3>2. RefMaps' \subseteq [Refs -> Nat \cup {NoCommit}]
      BY <3>1 DEF RefMaps
    <3>3. e \in Repositories
      BY <2>2, <3>2 DEF Repository, Repositories
    <3> QED BY <3>3, SyncConstants DEF IsRepository
  <2>8. SyncInv'
    BY <1>1, <2>2, <2>3, <2>5, <2>6, <2>7, DirectoryStep
  <2> QED BY <2>1, <2>7, <2>8
<1> QED BY <1>4, <1>5

-----------------------------------------------------------------------------
(***************************************************************************)
(* Restarts, the initial states and the theorems.                          *)
(***************************************************************************)

\* A restart: what was being copied is cut, and no call is left.
LEMMA RestartStep ==
    ASSUME SyncInv, SyncRestart, CatalogRestart
    PROVE  SyncInv'
<1>1. /\ UNCHANGED <<needs, remote, dirs>> /\ cut' = cut \cup remote.partial
      /\ sync' = [p \in SyncCalls |-> IdleSync]
      /\ catalog' = [c \in CatalogCalls |-> "idle"]
  BY DEF SyncRestart, CatalogRestart
<1>2. \A p \in SyncCalls : sync'[p].pc = "idle"
  BY <1>1 DEF IdleSync
<1>3. SyncTypeInv'
  <2>1. sync' \in [SyncCalls -> SyncRecords]
    BY <1>1, IdleCallIsRecord
  <2>2. SyncRecords = SyncRecords' /\ RefMaps = RefMaps' /\ Repository = Repository'
    BY <1>1 DEF SyncRecords, RefMaps, Repository, Commits
  <2>3. remote.partial \subseteq Nat
    BY DEF SyncInv, SyncTypeInv
  <2> QED BY <1>1, <1>2, <2>1, <2>2, <2>3 DEF SyncInv, SyncTypeInv, DirsTyped, PushPcs
<1>4. Copying' = {}
  BY <1>2 DEF Copying, SyncCalls
<1>5. CopyInv' /\ Held \subseteq Held'
  BY <1>1, <1>4 DEF SyncInv, CopyInv, Held
<1>6. RepoInv'
  BY <1>1, <1>5 DEF SyncInv, RepoInv, Objects
<1>7. RemoteInv'
  BY <1>1, <1>5 DEF SyncInv, RemoteInv
<1>8. ProgressInv'
  BY <1>2 DEF ProgressInv, Progress
<1>9. NoNewInv'
  BY <1>2 DEF NoNewInv, Syncing
<1> QED BY <1>3, <1>5, <1>6, <1>7, <1>8, <1>9 DEF SyncInv

\* Each repository that is there at first has a commit of its own.
LEMMA FirstCommitsAre ==
    ASSUME NEW there \in SUBSET Names
    PROVE  /\ Cardinality(there) \in Nat
           /\ FirstCommits(there) \in [there -> 1 .. Cardinality(there)]
<1> DEFINE k == Cardinality(there)
           Apart(f) == \A m, n \in there : m # n => f[m] # f[n]
<1>1. IsFiniteSet(there)
  BY StoreConstants, FS_Subset
<1>2. k \in Nat /\ \E f \in Bijection(1 .. k, there) : TRUE
  BY <1>1, FS_CardinalityType DEF ExistsBijection
<1>3. PICK f \in Bijection(1 .. k, there) : TRUE
  BY <1>2
<1> DEFINE g == Inverse(f, 1 .. k, there)
<1>4. g \in Bijection(there, 1 .. k)
  BY <1>3, Fun_BijInverse
<1> HIDE DEF g, k
<1>5. g \in [there -> 1 .. k] /\ Apart(g)
  BY <1>4 DEF Bijection, Injection, IsInjective
<1>6. (CHOOSE h \in [there -> 1 .. k] : Apart(h)) \in [there -> 1 .. k]
  BY <1>5
<1> QED BY <1>2, <1>6 DEF FirstCommits, k

\* Repositories that are there at first are whole, with all their records.
LEMMA StoreInitInv == StoreInit => StoreInv
<1> SUFFICES ASSUME StoreInit PROVE StoreInv
  OBVIOUS
<1>1. PICK there \in SUBSET Names :
        /\ records = there /\ nameLog = there /\ placements = there
        /\ answer = [n \in Names |-> IF n \in there THEN "registered" ELSE "none"]
        /\ needs = [i \in 1 .. Cardinality(there) |-> {i}]
        /\ dirs = [n \in Names |->
             IF n \in there
             THEN [Unborn EXCEPT !.heads[DefaultRef] = FirstCommits(there)[n],
                                 !.loose = {FirstCommits(there)[n]}]
             ELSE NoDir]
  BY DEF StoreInit
<1>2. /\ catalog = [c \in CatalogCalls |-> "idle"]
      /\ remote = [refs |-> NoRefs, objects |-> {}, partial |-> {}]
      /\ sync = [p \in SyncCalls |-> IdleSync] /\ cut = {}
  BY DEF StoreInit
<1> DEFINE k == Cardinality(there)
           first == FirstCommits(there)
<1>3. k \in Nat /\ first \in [there -> 1 .. k]
  BY FirstCommitsAre
<1>4. needs = [i \in 1 .. k |-> {i}]
  BY <1>1
<1> HIDE DEF k, first
<1>5. needs \in Seq(SUBSET Nat) /\ Len(needs) = k
  <2>1. needs \in [1 .. k -> SUBSET Nat]
    BY <1>3, <1>4
  <2>2. needs \in Seq(SUBSET Nat)
    BY <1>3, <2>1, SeqDef
  <2> QED BY <1>3, <2>1, <2>2
<1>6. Commits = 1 .. k /\ NoRefs \in RefMaps
  BY <1>5 DEF Commits, NoRefs, RefMaps
<1>7. ASSUME NEW n \in there
      PROVE  /\ dirs[n] \in Repository /\ IsRepository(dirs[n])
             /\ \A c \in Reachable(dirs[n]) : needs[c] \subseteq Objects(n)
             /\ dirs[n].packed = {}
  <2> DEFINE c == first[n]
             heads == [NoRefs EXCEPT ![DefaultRef] = c]
  <2>1. c \in 1 .. k /\ c \in Nat /\ needs[c] = {c}
    BY <1>3, <1>4
  <2>2. dirs[n] = [Unborn EXCEPT !.heads[DefaultRef] = c, !.loose = {c}]
    BY <1>1 DEF first
  <2> HIDE DEF c
  <2>3. dirs[n] = [heads |-> heads, tracking |-> NoRefs, loose |-> {c}, packed |-> {}]
    BY <2>2 DEF Unborn
  <2>4. heads \in RefMaps
    BY <1>6, <2>1 DEF RefMaps
  <2>5. Targets(heads) \subseteq {c} /\ Targets(NoRefs) = {}
    BY DEF Targets, NoRefs
  <2> HIDE DEF heads
  <2>6. dirs[n] \in Repository
    BY <1>6, <2>1, <2>3, <2>4 DEF Repository
  <2>7. Reachable(dirs[n]) \subseteq {c}
    BY <2>3, <2>5 DEF Reachable
  <2>8. \A b \in Reachable(dirs[n]) : needs[b] \subseteq Objects(n)
    BY <2>1, <2>3, <2>7 DEF Objects
  <2>9. dirs[n].packed = {}
    BY <2>3
  <2>10. IsRepository(dirs[n])
    BY <1>5, <2>6, RepositoryIs
  <2> QED BY <2>6, <2>8, <2>9, <2>10
<1>8. ASSUME NEW n \in Names, n \notin there
      PROVE  dirs[n] = NoDir /\ ~IsRepository(dirs[n])
  BY <1>1, <1>8 DEF IsRepository
<1>9. CatalogInv
  <2>1. CatalogTypeInv
    BY <1>1, <1>2 DEF CatalogTypeInv, Answers
  <2>2. KindInv /\ RegisterInv /\ RetireInv
    BY <1>2 DEF KindInv, RegisterInv, RetireInv, AtWork, RegisterPcs, RetirePcs
  <2>3. AnswersHold
    <3>1. \A n \in Names : answer[n] = IF n \in there THEN "registered" ELSE "none"
      BY <1>1
    <3> QED BY <1>1, <1>7, <3>1 DEF AnswersHold
  <2> QED BY <2>1, <2>2, <2>3 DEF CatalogInv
<1>10. SyncTypeInv
  <2>1. dirs \in [Names -> Repository \cup {NoDir, BareDir}]
    <3>1. \A n \in Names : dirs[n] \in Repository \cup {NoDir, BareDir}
      BY <1>7, <1>8
    <3>2. dirs = [n \in Names |-> dirs[n]]
      BY <1>1
    <3> QED BY <3>1, <3>2
  <2>2. remote \in [refs : RefMaps, objects : SUBSET Nat, partial : SUBSET Nat]
    BY <1>2, <1>6
  <2>3. sync \in [SyncCalls -> SyncRecords]
    BY <1>2, IdleCallIsRecord
  <2>4. \A p \in SyncCalls : sync[p].pc = "idle"
    BY <1>2 DEF IdleSync
  <2> QED BY <1>2, <1>5, <2>1, <2>2, <2>3, <2>4 DEF SyncTypeInv, DirsTyped, PushPcs
<1>11. \A p \in SyncCalls : sync[p].pc = "idle"
  BY <1>2 DEF IdleSync
<1>12. CopyInv
  BY <1>2, <1>11 DEF CopyInv, Copying, SyncCalls
<1>13. RepoInv
  BY <1>7, <1>8 DEF RepoInv
<1>14. RemoteInv
  BY <1>2 DEF RemoteInv, Targets, NoRefs
<1>15. ProgressInv /\ NoNewInv
  BY <1>11 DEF ProgressInv, Progress, NoNewInv, Syncing
<1> QED BY <1>9, <1>10, <1>12, <1>13, <1>14, <1>15 DEF StoreInv, SyncInv

\* Every step of the store keeps the invariant.
LEMMA StoreNextInv == StoreInv /\ [StoreNext]_storeVars => StoreInv'
<1> SUFFICES ASSUME StoreInv, [StoreNext]_storeVars PROVE StoreInv'
  OBVIOUS
<1>0. CatalogInv /\ SyncInv /\ dirs \in [Names -> Repository \cup {NoDir, BareDir}]
  BY DEF StoreInv, SyncInv, SyncTypeInv, DirsTyped
<1>1. ASSUME UNCHANGED <<catalogVars, syncVars>>
      PROVE  StoreInv'
  <2>1. CatalogInv'
    BY <1>0, <1>1, CatalogStutter DEF catalogVars, SameDirs
  <2>2. UNCHANGED <<needs, remote, sync, cut, dirs, catalog>> /\ Held' = Held /\ Copying' = Copying
    BY <1>1 DEF catalogVars, syncVars, Held, Copying
  <2>3. SyncTypeInv'
    BY <1>0, <2>2 DEF SyncInv, SyncTypeInv, DirsTyped, Repository, RefMaps, Commits, SyncRecords
  <2>4. CopyInv' /\ RemoteInv'
    BY <1>0, <2>2 DEF SyncInv, CopyInv, RemoteInv
  <2>5. RepoInv'
    BY <1>0, <2>2 DEF SyncInv, RepoInv, Objects
  <2>6. NoNewInv'
    BY <1>0, <2>2 DEF SyncInv, NoNewInv, Syncing
  <2>7. ProgressInv'
    BY <1>0, <2>2 DEF SyncInv, ProgressInv, Progress, Objects
  <2> QED BY <2>1, <2>3, <2>4, <2>5, <2>6, <2>7 DEF StoreInv, SyncInv
<1>2. ASSUME NEW c \in CatalogCalls, CatalogCall(c)
      PROVE  StoreInv'
  <2>1. SeparateSync(c) /\ UNCHANGED <<remote, sync, cut>>
    BY <1>2 DEF CatalogCall
  <2>2. CASE CatalogStep(c) /\ UNCHANGED needs
    <3>1. SyncInv'
      BY <1>0, <2>1, <2>2, CatalogSyncStep
    <3>2. CatalogInv'
      BY <1>0, <2>2, RegisterSteps, RetireSteps DEF CatalogStep
    <3> QED BY <3>1, <3>2 DEF StoreInv
  <2>3. CASE InitRepository(c, Unborn) /\ UNCHANGED needs
    <3>1. SyncInv'
      BY <1>0, <2>1, <2>3, InitStep
    <3>2. IsRepository(Unborn)
      <4>1. Unborn \in Repository
        BY DEF Unborn, Repository, NoRefs, RefMaps
      <4> QED BY <1>0, <4>1, RepositoryIs DEF SyncInv, SyncTypeInv
    <3>3. CatalogInv'
      BY <1>0, <2>3, <3>2, GitSteps
    <3> QED BY <3>1, <3>3 DEF StoreInv
  <2>4. CASE catalog[c] = "commit" /\ SyncFirstCommit(c)
    <3>1. SyncInv' /\ \E d : IsRepository(d) /\ FirstCommit(c, d)
      BY <1>0, <2>1, <2>4, FirstCommitStep
    <3>2. PICK d : IsRepository(d) /\ FirstCommit(c, d)
      BY <3>1
    <3>3. CatalogInv'
      BY <1>0, <3>2, GitSteps
    <3> QED BY <3>1, <3>3 DEF StoreInv
  <2> QED BY <1>2, <2>2, <2>3, <2>4 DEF CatalogCall
<1>3. ASSUME NEW p \in SyncCalls, SyncStep(p)
      PROVE  StoreInv'
  <2>1. SyncInv' /\ SameDirs
    <3>1. CASE ReceivePack(p) \/ MoveTracking(p) \/ CommitOnBranch(p)
      BY <1>0, <3>1, ReceiveStep, TrackStep, CommitStep
    <3>2. CASE \/ ResolveUpdates(p) \/ CompareHeads(p) \/ ListLoose(p) \/ CheckTarget(p)
               \/ OpenTarget(p) \/ CopyObject(p) \/ WriteRef(p)
      <4>1. SyncInv'
        BY <1>0, <3>2, RefsResolveStep, CompareStep, ListStep, CheckStep, OpenStep, CopyStep, WriteStep
      <4>2. UNCHANGED dirs
        BY <3>2 DEF ResolveUpdates, CompareHeads, ListLoose, CheckTarget, OpenTarget, CopyObject,
           WriteRef, catalogVars
      <4> QED BY <4>1, <4>2 DEF SameDirs
    <3> QED BY <1>3, <3>1, <3>2 DEF SyncStep
  <2>2. UNCHANGED <<records, nameLog, placements, catalog, answer>>
    BY <1>3 DEF SyncStep, ResolveUpdates, CompareHeads, ListLoose, CheckTarget, OpenTarget,
       CopyObject, WriteRef, ReceivePack, MoveTracking, CommitOnBranch, catalogVars
  <2> QED BY <1>0, <2>1, <2>2, CatalogStutter DEF StoreInv
<1>4. ASSUME StoreRestart
      PROVE  StoreInv'
  BY <1>0, <1>4, CatalogRestartInv, RestartStep DEF StoreRestart, StoreInv
<1>5. CASE UNCHANGED storeVars
  BY <1>1, <1>5 DEF storeVars
<1> QED
  BY <1>1, <1>2, <1>3, <1>4, <1>5 DEF StoreNext, SnapshotCall, PolicyCall

\* The invariant, in every state of every behaviour.
LEMMA Invariant == StoreSpec => []StoreInv
BY StoreInitInv, StoreNextInv, PTL DEF StoreSpec

\* What register and retire answered holds until somebody changes it, whatever calls of
\* them run side by side and wherever restarts cut them (access/repos.ex).
THEOREM AnswersStayTrue == StoreSpec => []AnswersHold
<1>1. StoreInv => AnswersHold
  BY DEF StoreInv, CatalogInv
<1> QED BY <1>1, Invariant, PTL

\* What refs name is there with all its ancestors, at the remote and in every repository,
\* for every set of repositories, pushes with any refspecs, fetches, commits, registers
\* and retires, and any number of restarts (git/src/sync/mod.rs).
THEOREM RefsAlwaysResolve == StoreSpec => []RefsResolve
<1>1. StoreInv => RefsResolve
  BY DEF StoreInv, SyncInv, RemoteInv, RepoInv, RefsResolve, Resolves, Held, Objects, AllNeeds
<1> QED BY <1>1, Invariant, PTL
=============================================================================
