---------------------------- MODULE AccessGrants ----------------------------
(***************************************************************************)
(* The capability grants of an actor and the scope a request is given      *)
(* (crates/treedx_store/src/policy/mod.rs, runtime/capabilities.ex):       *)
(* grants are put, revoked and expire, every start of the server seeds     *)
(* some anew, and the scope that follows from them is cached.              *)
(*                                                                         *)
(* Grants of other actors do not matter to a scope, and those who change   *)
(* grants are taken to be allowed to.  The cache is here what              *)
(* RepositoryCache shows of it: one load of a key at a time, and reset     *)
(* deletes what is there.                                                  *)
(***************************************************************************)
EXTENDS Integers, Sequences, FiniteSets

CONSTANTS
    Repos,         \* repositories a grant may name, all of them for "*"
    Global,        \* no repository in particular
    Envelopes,     \* capabilities, refs and paths a grant may have
    Capabilities,  \* the capabilities, refs and paths of each, as one set
    Inputs,        \* grants that are put
    Seeds,         \* grants that every start puts, none of an envelope twice
    NoGrant, NoScope,
    Puts, Revokes, \* calls that put a grant or revoke one
    Checks,        \* processes whose requests are given a scope
    RepoFor,       \* the repository of a request
    Never,         \* the expiry of a grant without one, later than any time
    Lifetime,      \* of a cached scope
    MaxTime        \* bound on the time

Grants == [envelope : Envelopes, repos : SUBSET Repos, expires : Nat]

ASSUME GrantConstants ==
    /\ Capabilities \in [Envelopes -> SUBSET UNION {Capabilities[e] : e \in Envelopes}]
    /\ Inputs \subseteq Grants /\ Seeds \subseteq Grants
    /\ \A g, h \in Seeds : g.envelope = h.envelope => g = h
    /\ NoGrant \notin Grants
    /\ Global \notin Repos
    /\ RepoFor \in [Checks -> Repos \cup {Global}]
    /\ MaxTime \in Nat /\ Never \in Nat /\ Never > MaxTime
    /\ Lifetime \in Nat

VARIABLES
    grants,   \* catalog/capability_grants.tdb: the record of each id
    scopes,   \* the cached scope for each repository
    access,   \* where each call is, and what it has read
    now,
    policies  \* history: what grants was at the last reset that was answered, and since

grantVars == <<grants, scopes, access, now, policies>>

-----------------------------------------------------------------------------
GrantCalls == Puts \cup Revokes
PolicyCalls == GrantCalls \cup Checks

\* capability_id: the hash of actor, tenant, capabilities, refs and paths.  The
\* repositories are not part of it, so that a grant replaces one for others.  (A call may
\* also name the id; a revocation does, and names the one it read.)
GrantId(g) == g.envelope

Record(g) == [repos |-> g.repos, expires |-> g.expires, revoked |-> FALSE]

IdleAccess == [pc |-> "idle", scope |-> NoScope, raced |-> FALSE,
               id |-> NoGrant, record |-> NoGrant, version |-> 0]

\* The cache holds nothing for a repository.
NoEntry == [scope |-> NoScope, at |-> 0, raced |-> FALSE]

Earliest(times) == CHOOSE t \in times : \A u \in times : t <= u

-----------------------------------------------------------------------------
(***************************************************************************)
(* resolve_effective_scope.                                                *)
(***************************************************************************)

\* The grants of a log that count for a repository at a time; all of them for none.
Live(log, t, r) ==
    {e \in Envelopes :
       /\ log[e] # NoGrant /\ ~log[e].revoked /\ log[e].expires > t
       /\ r = Global \/ r \in log[e].repos}

\* Their capabilities and repositories together, until the first of them expires.  The
\* policy hash is taken of all this and of the ids and expiries.  No grant, no scope.
Scope(log, t, r) ==
    LET live == Live(log, t, r) IN
    IF live = {} THEN NoScope
    ELSE [capabilities |-> UNION {Capabilities[e] : e \in live},
          repos |-> UNION {log[e].repos : e \in live},
          expires |-> Earliest({log[e].expires : e \in live}),
          hash |-> {<<e, log[e].expires>> : e \in live}]

-----------------------------------------------------------------------------
(***************************************************************************)
(* Requests: effective_scope over RepositoryCache.authorization_scope.     *)
(***************************************************************************)
Loading(r) == \E p \in Checks : access[p].pc \in {"load", "put"} /\ RepoFor[p] = r

Fresh(entry) == entry # NoEntry /\ now - entry.at <= Lifetime

\* A cached scope is the answer, and a hit changes nothing.  Without one the request loads,
\* or waits for the load that is under way.
AskScope(p) ==
    /\ p \in Checks /\ access[p].pc = "idle"
    /\ ~Fresh(scopes[RepoFor[p]]) /\ ~Loading(RepoFor[p])
    /\ access' = [access EXCEPT ![p].pc = "load"]
    /\ UNCHANGED <<grants, scopes, now, policies>>

\* The grants are read; that there is no scope is an error, which is not cached.
ResolveScope(p) ==
    LET scope == Scope(grants, now, RepoFor[p]) IN
    /\ p \in Checks /\ access[p].pc = "load"
    /\ access' = [access EXCEPT ![p] = IF scope = NoScope THEN IdleAccess
                                       ELSE [@ EXCEPT !.pc = "put", !.scope = scope]]
    /\ UNCHANGED <<grants, scopes, now, policies>>

\* The scope is cached from now on, and answered.
CacheScope(p) ==
    /\ p \in Checks /\ access[p].pc = "put"
    /\ scopes' = [scopes EXCEPT ![RepoFor[p]] =
                    [scope |-> access[p].scope, at |-> now, raced |-> access[p].raced]]
    /\ access' = [access EXCEPT ![p] = IdleAccess]
    /\ UNCHANGED <<grants, now, policies>>

-----------------------------------------------------------------------------
(***************************************************************************)
(* Grants: put_grant and apply_revocations.                                *)
(***************************************************************************)

\* put_capability_grant.
PutGrant(p) ==
    /\ p \in Puts /\ access[p].pc = "idle"
    /\ \E g \in Inputs : grants' = [grants EXCEPT ![GrantId(g)] = Record(g)]
    /\ policies' = Append(policies, grants')
    /\ access' = [access EXCEPT ![p] = [IdleAccess EXCEPT !.pc = "reset",
                                                        !.version = Len(policies')]]
    /\ UNCHANGED <<scopes, now>>

\* list_grants: the record that is to be revoked, if there is one.
FindGrant(p) ==
    /\ p \in Revokes /\ access[p].pc = "idle"
    /\ \E e \in Envelopes :
         access' = [access EXCEPT ![p] =
           IF grants[e] = NoGrant THEN [IdleAccess EXCEPT !.pc = "done"]
           ELSE [IdleAccess EXCEPT !.pc = "write", !.id = e, !.record = grants[e]]]
    /\ UNCHANGED <<grants, scopes, now, policies>>

\* The record that was found goes back with revokedAt, whatever is there by now.
WriteRevoked(p) ==
    /\ p \in Revokes /\ access[p].pc = "write"
    /\ grants' = [grants EXCEPT ![access[p].id] = [access[p].record EXCEPT !.revoked = TRUE]]
    /\ policies' = Append(policies, grants')
    /\ access' = [access EXCEPT ![p] = [IdleAccess EXCEPT !.pc = "reset",
                                                        !.version = Len(policies')]]
    /\ UNCHANGED <<scopes, now>>

\* Mutant: the scope for no repository in particular is forgotten.
ClearedNamed(cached) == [r \in Repos \cup {Global} |-> IF r = Global THEN cached[r] ELSE NoEntry]

\* RepositoryCache.reset!
Cleared(cached) == [r \in Repos \cup {Global} |-> NoEntry]

\* The cache is reset, and the call answered.  A scope that was read and is not cached yet
\* is cached behind it.
ResetScopes(p) ==
    LET old == IF access[p].version > 1 THEN access[p].version - 1 ELSE 0 IN
    /\ p \in GrantCalls /\ access[p].pc = "reset"
    /\ scopes' = Cleared(scopes)
    /\ policies' = SubSeq(policies, old + 1, Len(policies))
    /\ access' = [q \in PolicyCalls |->
                    CASE q = p -> [IdleAccess EXCEPT !.pc = "done"]
                      [] q # p /\ access[q].pc = "put" -> [access[q] EXCEPT !.raced = TRUE]
                      [] q # p /\ access[q].pc = "reset" -> [access[q] EXCEPT !.version = @ - old]
                      [] OTHER -> access[q]]
    /\ UNCHANGED <<grants, now>>

GrantStep(p) ==
    \/ AskScope(p) \/ ResolveScope(p) \/ CacheScope(p)
    \/ PutGrant(p) \/ FindGrant(p) \/ WriteRevoked(p) \/ ResetScopes(p)

Tick ==
    /\ now < MaxTime
    /\ now' = now + 1
    /\ UNCHANGED <<grants, scopes, access, policies>>

-----------------------------------------------------------------------------
(***************************************************************************)
(* Starts.                                                                 *)
(***************************************************************************)

\* seed_dev_records, or the grant of the configured actor: put again at every start,
\* revoked or not.
Seeded(log) ==
    [e \in Envelopes |->
       IF \E g \in Seeds : GrantId(g) = e
       THEN Record(CHOOSE g \in Seeds : GrantId(g) = e)
       ELSE log[e]]

\* The first start, over an empty log.
GrantsInit ==
    /\ grants = Seeded([e \in Envelopes |-> NoGrant])
    /\ scopes = [r \in Repos \cup {Global} |-> NoEntry]
    /\ access = [p \in PolicyCalls |-> IdleAccess]
    /\ now = 0
    /\ policies = <<grants>>

\* The log stays, the cache does not, and the seeds are put before the first request.
GrantsRestart ==
    /\ grants' = Seeded(grants)
    /\ policies' = <<grants'>>
    /\ scopes' = [r \in Repos \cup {Global} |-> NoEntry]
    /\ access' = [p \in PolicyCalls |-> IdleAccess]
    /\ UNCHANGED now

-----------------------------------------------------------------------------
(***************************************************************************)
(* Properties.                                                             *)
(***************************************************************************)

\* effective_scope against put_grant and apply_revocations: a scope that the cache would
\* answer with is, until the time it says it expires at, the scope of the grants as they are
\* or were since the last change that was answered: no request that begins after the answer
\* of a revocation misses it.  Only a scope that was read before a change and cached behind
\* its reset may be from before it.
ScopeIsCurrent ==
    \A r \in Repos \cup {Global} :
        LET entry == scopes[r] IN
        Fresh(entry) /\ ~entry.raced /\ now < entry.scope.expires =>
            \E i \in DOMAIN policies : entry.scope = Scope(policies[i], now, r)
=============================================================================
