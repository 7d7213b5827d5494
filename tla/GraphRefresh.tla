---------------------------- MODULE GraphRefresh ----------------------------
(***************************************************************************)
(* Refreshing and reading the graph of one ref: the refresh of             *)
(* knowledge/graph.ex, the coordinator that lets one of several equal      *)
(* refreshes run (graph/refresh_coordinator.ex), and the segment files     *)
(* they write and read (crates/treedx_graph/src/segment/mod.rs).           *)
(*                                                                         *)
(* A version has a directory with one file per kind of record; every file  *)
(* is written beside its place and renamed, a step of its own.  A process  *)
(* that is killed inside the native writer leaves the writer running, but  *)
(* will not tell the coordinator.  A waiter that gives up runs without     *)
(* being registered, so that a version may have several writers.           *)
(* A restart stops everything at once.                                     *)
(***************************************************************************)
EXTENDS Integers, Sequences, FiniteSets

CONSTANTS
    Callers,      \* refreshes and queries, one call each
    Queries,      \* those that only read
    Versions,     \* graph versions of the ref
    Files,        \* the number of files of a version (4: manifest, documents, nodes, edges)
    NoVersion,    \* no manifest
    Keys,         \* keys of the coordinator
    VersionOf,    \* the version a refresh computes
    KeyOf,        \* the key it has at the coordinator
    Reusing,      \* full refreshes that ask for no rebuild
    MaxKilled,    \* bound on the callers killed
    MaxRestarts   \* bound on restarts

ASSUME RefreshConstants ==
    /\ Queries \subseteq Callers
    /\ NoVersion \notin Versions
    /\ Files \in Nat \ {0}
    /\ VersionOf \in [Callers -> Versions]
    /\ KeyOf \in [Callers -> Keys]
    /\ MaxRestarts \in Nat

VARIABLES
    dirs,       \* for each version the files in its directory, or Absent
    tmp,        \* the callers whose temporary file is in the directory of their version
    latest,     \* the version in the latest manifest of the ref
    inflight,   \* the keys the coordinator has in flight
    calls,      \* what each call is doing
    killed,     \* callers that were killed
    contested,  \* history: versions a writer found half written by another that was at work
    restarts    \* history: restarts so far

refreshVars == <<dirs, tmp, latest, inflight, calls, killed, contested, restarts>>

-----------------------------------------------------------------------------
Kinds == 1 .. Files
Absent == {0}
Complete == Kinds

Idle == [pc |-> "idle", previous |-> NoVersion, at |-> 1, alone |-> FALSE, result |-> "none"]

Writing == {"remove", "open", "rename", "latest"}
Pcs == Writing \cup {"idle", "start", "waiting", "build", "check", "finish", "read", "done"}

\* The callers that have checked a version and have not yet written all of it.
Writers(v) == {p \in Callers : VersionOf[p] = v /\ calls[p].pc \in Writing}

Goto(p, pc) == calls' = [calls EXCEPT ![p].pc = pc]

\* fun.() returns: only a registered caller has to tell the coordinator.
Return(p, result) ==
    calls' = [calls EXCEPT ![p].pc = IF calls[p].alone THEN "done" ELSE "finish",
                           ![p].result = result]

RefreshInit ==
    /\ dirs = [v \in Versions |-> Absent]
    /\ tmp = {}
    /\ latest = NoVersion
    /\ inflight = {}
    /\ calls = [p \in Callers |-> Idle]
    /\ killed = {}
    /\ contested = {}
    /\ restarts = 0

-----------------------------------------------------------------------------
\* read_latest_graph_manifest, first in a refresh and in a query.
ReadLatest(p) ==
    /\ calls[p].pc = "idle" /\ p \notin killed
    /\ calls' = [calls EXCEPT ![p].previous = latest,
                              ![p].pc = IF p \notin Queries THEN "start"
                                        ELSE IF latest = NoVersion THEN "done" ELSE "read"]
    /\ UNCHANGED <<dirs, tmp, latest, inflight, killed, contested, restarts>>

\* reusable_manifest?: the manifest is of this commit.
Reusable(p) == p \in Reusing /\ calls[p].previous = VersionOf[p]

\* RefreshCoordinator.run and handle_call({:start, key}).
Start(p) ==
    /\ calls[p].pc = "start" /\ p \notin killed
    /\ IF Reusable(p)
       THEN Goto(p, "read") /\ UNCHANGED inflight
       ELSE IF KeyOf[p] \in inflight
            THEN Goto(p, "waiting") /\ UNCHANGED inflight
            ELSE Goto(p, "build") /\ inflight' = inflight \cup {KeyOf[p]}
    /\ UNCHANGED <<dirs, tmp, latest, killed, contested, restarts>>

\* Mutant: a waiter that gives up reports its result like a registered caller.
GiveUpRegistered(p) ==
    /\ calls[p].pc = "waiting" /\ p \notin killed
    /\ Goto(p, IF calls[p].previous = NoVersion THEN "build" ELSE "read")
    /\ UNCHANGED <<dirs, tmp, latest, inflight, killed, contested, restarts>>

\* Mutant: a waiter whose ref has no manifest yet waits on.
GiveUpStale(p) ==
    /\ calls[p].pc = "waiting" /\ p \notin killed
    /\ calls[p].previous # NoVersion
    /\ Goto(p, "read")
    /\ UNCHANGED <<dirs, tmp, latest, inflight, killed, contested, restarts>>

\* `after timeout`: fall back on the previous manifest, or run without being registered.
GiveUp(p) ==
    /\ calls[p].pc = "waiting" /\ p \notin killed
    /\ calls' = [calls EXCEPT ![p].pc = IF calls[p].previous = NoVersion THEN "build" ELSE "read",
                              ![p].alone = (calls[p].previous = NoVersion)]
    /\ UNCHANGED <<dirs, tmp, latest, inflight, killed, contested, restarts>>

\* handle_cast({:finish, key, result}): every waiter gets the result.
Finish(p) ==
    /\ calls[p].pc = "finish" /\ p \notin killed
    /\ calls' = [q \in Callers |->
                   IF q = p \/ (calls[q].pc = "waiting" /\ KeyOf[q] = KeyOf[p])
                   THEN [calls[q] EXCEPT !.pc = "done", !.result = calls[p].result]
                   ELSE calls[q]]
    /\ inflight' = inflight \ {KeyOf[p]}
    /\ UNCHANGED <<dirs, tmp, latest, killed, contested, restarts>>

\* build_refresh up to the native writer: it reads and builds the index, or fails.
Build(p) ==
    /\ calls[p].pc = "build" /\ p \notin killed
    /\ Goto(p, "check") \/ Return(p, "error")
    /\ UNCHANGED <<dirs, tmp, latest, inflight, killed, contested, restarts>>

-----------------------------------------------------------------------------
(***************************************************************************)
(* write_graph_segments.                                                   *)
(***************************************************************************)

\* Mutant: a directory that is there counts as written.
CheckExists(p) ==
    /\ calls[p].pc = "check"
    /\ Goto(p, IF dirs[VersionOf[p]] = Absent THEN "open" ELSE "latest")
    /\ UNCHANGED <<dirs, tmp, latest, inflight, killed, contested, restarts>>

\* Mutant: a directory that is there is removed without being read.
CheckRemoves(p) ==
    /\ calls[p].pc = "check"
    /\ Goto(p, IF dirs[VersionOf[p]] = Absent THEN "open" ELSE "remove")
    /\ UNCHANGED <<dirs, tmp, latest, inflight, killed, contested, restarts>>

\* root.exists() and read_graph_segments(..).is_ok().
Check(p) ==
    /\ calls[p].pc = "check"
    /\ Goto(p, CASE dirs[VersionOf[p]] = Absent   -> "open"
                 [] dirs[VersionOf[p]] = Complete -> "latest"
                 [] OTHER                         -> "remove")
    /\ contested' = IF dirs[VersionOf[p]] \notin {Absent, Complete} /\ Writers(VersionOf[p]) # {}
                    THEN contested \cup {VersionOf[p]}
                    ELSE contested
    /\ UNCHANGED <<dirs, tmp, latest, inflight, killed, restarts>>

\* remove_dir_all: the files one by one, then the directory.
Remove(p) ==
    LET v == VersionOf[p] IN
    /\ calls[p].pc = "remove"
    /\ \/ /\ \E k \in dirs[v] \ Absent : dirs' = [dirs EXCEPT ![v] = @ \ {k}]
          /\ UNCHANGED <<tmp, calls>>
       \/ /\ dirs[v] \subseteq Absent
          /\ dirs' = [dirs EXCEPT ![v] = Absent]
          /\ tmp' = {q \in tmp : VersionOf[q] # v}
          /\ Goto(p, "open")
    /\ UNCHANGED <<latest, inflight, killed, contested, restarts>>

\* write_records up to its rename: create_dir_all, open the temporary file, write, sync.
OpenTmp(p) ==
    /\ calls[p].pc = "open"
    /\ dirs' = [dirs EXCEPT ![VersionOf[p]] = @ \ Absent]
    /\ tmp' = tmp \cup {p}
    /\ Goto(p, "rename")
    /\ UNCHANGED <<latest, inflight, killed, contested, restarts>>

\* The rename, for which the temporary file must still be there.
Rename(p) ==
    /\ calls[p].pc = "rename" /\ p \in tmp
    /\ dirs' = [dirs EXCEPT ![VersionOf[p]] = @ \cup {calls[p].at}]
    /\ calls' = [calls EXCEPT ![p].at = IF @ = Files THEN 1 ELSE @ + 1,
                              ![p].pc = IF calls[p].at = Files THEN "latest" ELSE "open"]
    /\ tmp' = tmp \ {p}
    /\ UNCHANGED <<latest, inflight, killed, contested, restarts>>

\* An error of the file system in any of these, as when another writer has removed the
\* temporary file, or put a file into the directory that is being removed.
Fail(p) ==
    /\ calls[p].pc \in Writing
    /\ Return(p, "error")
    /\ tmp' = tmp \ {p}
    /\ UNCHANGED <<dirs, latest, inflight, killed, contested, restarts>>

\* write_latest_manifest: written beside and renamed, in a directory nobody removes.
WriteLatest(p) ==
    /\ calls[p].pc = "latest"
    /\ latest' = VersionOf[p]
    /\ Return(p, "ok")
    /\ UNCHANGED <<dirs, tmp, inflight, killed, contested, restarts>>

\* read_graph_segments of the manifest read before, a file at a time.
Read(p) ==
    LET c == calls[p] IN
    /\ c.pc = "read" /\ p \notin killed
    /\ calls' = [calls EXCEPT ![p] =
         IF c.at \notin dirs[c.previous] THEN [c EXCEPT !.pc = "done", !.result = "unreadable"]
         ELSE IF c.at = Files THEN [c EXCEPT !.pc = "done", !.result = "ok"]
         ELSE [c EXCEPT !.at = c.at + 1]]
    /\ UNCHANGED <<dirs, tmp, latest, inflight, killed, contested, restarts>>

-----------------------------------------------------------------------------
\* The pool kills the task of a call.
Kill(p) ==
    /\ Cardinality(killed) < MaxKilled
    /\ p \notin killed
    /\ killed' = killed \cup {p}
    /\ UNCHANGED <<dirs, tmp, latest, inflight, calls, contested, restarts>>

\* The server stops and starts again: what is on disk stays.
Restart ==
    /\ restarts < MaxRestarts
    /\ restarts' = restarts + 1
    /\ tmp' = {}
    /\ inflight' = {}
    /\ calls' = [p \in Callers |-> Idle]
    /\ UNCHANGED <<dirs, latest, killed, contested>>

Step(p) ==
    \/ ReadLatest(p) \/ Start(p) \/ GiveUp(p) \/ Build(p) \/ Finish(p) \/ Read(p)
    \/ Check(p) \/ Remove(p) \/ OpenTmp(p) \/ Rename(p) \/ WriteLatest(p) \/ Fail(p)

RefreshNext ==
    \/ \E p \in Callers : Step(p)
    \/ \E p \in Callers : Kill(p)
    \/ Restart

RefreshSpec == RefreshInit /\ [][RefreshNext]_refreshVars

\* Processes and native threads run, and `after timeout` fires.  A call that has not
\* begun need not begin.
FairRefreshSpec ==
    RefreshSpec /\ \A p \in Callers : WF_refreshVars(Step(p) /\ calls[p].pc # "idle")

-----------------------------------------------------------------------------
(***************************************************************************)
(* Properties.                                                             *)
(***************************************************************************)
Results == {"none", "ok", "error", "unreadable"}

Call == [pc : Pcs, previous : Versions \cup {NoVersion}, at : Kinds,
         alone : BOOLEAN, result : Results]

RefreshTypeOK ==
    /\ dirs \in [Versions -> SUBSET (Kinds \cup Absent)]
    /\ tmp \subseteq Callers
    /\ latest \in Versions \cup {NoVersion}
    /\ inflight \subseteq Keys
    /\ calls \in [Callers -> Call]
    /\ killed \subseteq Callers
    /\ contested \subseteq Versions
    /\ restarts \in 0 .. MaxRestarts

\* What readers are promised, with the versions whose files are all there as readable.
Publication == INSTANCE GraphPublication
    WITH readable <- {v \in Versions : dirs[v] = Complete}

\* write_graph_segments and write_latest_manifest implement the promise: a version that
\* can be read is never removed or rewritten, and latest only ever names one that can,
\* through kills in the middle of a write, restarts, rebuilds of what they left and several
\* writers of one version.  The exception is a version that one writer found half written
\* while another was writing it: its remove_dir_all may meet the finished version.
ReadableForEver == Publication!PublicationSpec

\* load_authorized_index, and a refresh that falls back on the previous manifest: having
\* read the latest manifest, a call finds all its segments, however late it reads them,
\* unless writers of that version met as above.
ReadsSucceed ==
    \A p \in Callers : calls[p].result = "unreadable" => calls[p].previous \in contested

\* Called by the coordinator to run: at work, or answered by it.
Runs(p) == ~calls[p].alone /\ calls[p].pc \in Writing \cup {"build", "check", "finish"}

\* RefreshCoordinator: of several refreshes with one key that overlap one runs, and another
\* begins only after the first has told the coordinator: whoever gives up runs unregistered,
\* and neither answers the waiters nor frees the key of the caller that still runs.
OneRunPerKey ==
    \A p, q \in Callers : Runs(p) /\ Runs(q) /\ KeyOf[p] = KeyOf[q] => p = q

\* RefreshCoordinator.run: a refresh is answered although the caller that runs for it may
\* be killed and its key stays in flight, unless it is killed itself or the server stops.
EveryRefreshAnswered ==
    \A p \in Callers :
        calls[p].pc \notin {"idle", "done"} ~>
            (calls[p].pc \in {"idle", "done"} \/ p \in killed)
=============================================================================
