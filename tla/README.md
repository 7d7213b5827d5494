# TreeDX: verification project

TLA+ models of TreeDX, a server that keeps git repositories, gives agents
isolated workspaces on them, and records everything in append-only logs. The
modules here are translated from the Rust crates (`crates/`) and the Elixir API
(`apps/api/lib/`); TLC checks them on small instances, and TLAPS proves the most
important theorems for every value of their constants. Paths below are relative to
the repository.

## The system

The API is an Elixir application. Every HTTP request runs in its own process,
most heavy work through a worker pool, and calls the Rust crates as native
functions that the VM schedules on dirty I/O threads: two requests run at the same
time in the crates as well. Nothing serializes them but one mutex per log file
and the atomicity of single file system and git operations. That is the theme of
the models: each function is the sequence of atomic reads and writes it makes,
other requests come in between, and the process may stop between any two of them.

| part | state | operations | what is hard |
|---|---|---|---|
| Append-only logs, `treedx_store/src/log` | one file per kind of record; an index in memory | append, delete, batch, replay | torn lines and headers, a stale index, restarts |
| Compaction, `treedx_store/src/recovery` | rewrites a log through a temporary file | compact | takes no lock; reorders lines |
| Sessions and leases, `treedx_store/src/workspace`, `access/workspaces.ex` | sessions and leases in two logs, a directory for each workspace | create, renew, update policy, commit mark, close, abandon, quarantine, expire, clean up | read, decide, write over two records; leases found by branch; expiry |
| Workspace files, `objects/files.ex`, `treedx_store/src/workspace_files` | overlay records in a log, contents in the directory | write, delete, read, commit | the session is checked once, at the start; git and the log are two stores |
| Managed branches, `access/git.ex`, `treedx_git/src/commit` | git refs and preservation refs | commit, promote, retire, discard | which calls compare and swap, and which do not |
| Worker pools, `runtime/pool.ex` | one coordinator: active jobs, three queues for each pool | run, timeouts, results, DOWN messages | messages in every order; a job waits for a job of another pool |
| Repository catalog, `access/repos.ex`, `treedx_store/src/catalog` | a directory, and records in three logs | register, retire | one decision in four places, a restart in between, the retry of what was half done |
| Policies, `treedx_store/src/policy`, `runtime/capabilities.ex` | grants in a log, scopes in the cache | put, revoke, seed, resolve a scope | a revocation beside scopes that are cached or about to be; seeds at every start |
| Audit, `treedx_store/src/audit`, `audit/writer.ex` | a queue in memory, a log | record, flush, list | overflow, failed and lost batches |
| Push and fetch, `access/pushes.ex`, `treedx_git/src/sync` | refs and objects of the remote, tracking refs | push, fetch | objects are copied file by file, then refs are written; the repository may be retired meanwhile |
| Mirrors, placement, migration, `repository-storage/mirrors.ex`, `migrations.ex` | records in logs | sync, promote, migrate | two records for one decision |
| Snapshots and artifacts, `treedx_store/src/snapshots` | artifacts on disk, manifests and artifacts in two logs | build, reuse, download | rename, then two records; a download reads manifest and bytes apart |
| Uploads and blobs, `objects/uploads.ex`, `objects/blobs.ex` | parts on disk | begin, part, complete | parts beside completion |
| Repository cache, `repository-storage/cache.ex` | ETS tables | single-flight load, invalidate, evict | a load in flight while its key is invalidated |
| Graph refresh, `graph/refresh_coordinator.ex`, `treedx_graph/src/segment` | keys in flight, a directory of files for each version, the latest manifest | refresh, read | a runner that dies, a version written half, readers of what is being replaced |
| Federation, `federation/` | nodes, routes, mirrors | route, proxy, merge | stale records |
| Graph engine, `treedx_graph/src/index`, `query`, `context` | an index; none that outlives the call otherwise | build, query, pack | cycles of groups, skipped levels of headings, links to what another document hides, seeds in another order, limits |
| Queries, text search | none that outlives the call | pure functions | data, not order |

`PROJECT.json` names every part, modelled or not, and every hazard at its line.

## Modules

| module | models | how its state corresponds to the code |
|---|---|---|
| `TdbLog` | one `.tdb` log: `append_record(s)`, `append_delete`, `ensure_index`, replay, `compact_one`, restarts | `file` and `tail` are the bytes of the file, as lines and the state of its end; `index` is the entry of `LOG_INDEXES`; `writer` is the append that holds the mutex, split where a crash or a compaction can come in; `acked` is history |
| `TdbLogProofs` | theorems about `TdbLog` | |
| `WorkspaceLease` | the sessions and leases of `workspace/mod.rs` as `workspaces.ex` calls them | `sessions` and `leases` are the two logs (one record read or write is one step, by `TdbLog`), `dirs` the workspace directories; `calls[p]` is what the function process `p` runs has read and has still to write; an expiry time is the time left until it |
| `WorkspaceCommit` | `files.ex` and `workspace_files/mod.rs`, EXTENDS `WorkspaceLease` | `overlay` is `workspaces/files.tdb`, `blobs` the contents under the directory, `heads` and `made` the git side; `requests[p]` is what `do_write`, `do_delete` or `do_commit` has seen and has still to do |
| `WorkspaceProofs` | theorems about `WorkspaceLease` and `WorkspaceCommit` | |
| `ManagedRefs` | commits, promotions, retirement and discarding of refs in `access/git.ex` and `treedx_git` | `refs` and `parents` are git; `preserved` are the `refs/treedx/commits/*` refs; `requests` as above |
| `ManagedRefsProofs` | theorems about `ManagedRefs` | |
| `RuntimePool` | the coordinator of `runtime/pool.ex`, its callers, tasks and timers | `active`, `queues`, `depth`, `count` are the fields of a pool; `inbox` is the mailbox as a set, since messages of different senders arrive in any order; `refilling` is the loop `maybe_start_next` |
| `RuntimePoolProofs` | theorems about `RuntimePool` | |
| `RepositoryCache` | `Cache.get_or_load`, its locks and waiters, eviction by entries, `invalidate_repository` and `reset` | `table` is the ETS table in the order of its timestamps, `locks` the table `TreeDx.Cache.Loads`; `calls[p]` is where in these functions process `p` is, between two ETS operations; `source` counts the changes of the repository, so that a loaded value is the number of changes it has seen |
| `RepositoryCacheProofs` | theorems about `RepositoryCache` | |
| `GroupClosure` | `apply_group_hierarchy` of the graph index: which groups a file's groups lead to | `parents` is the map of propagating relations; `origin`, `queue`, `visited` are the loop over one group; `closure` and `cyclic` what it has produced |
| `GraphIndex` | `build_graph_index` of parsed documents: nodes, sections, links, edges, diagnostics, the delta to the previous manifest; EXTENDS `GroupClosure`, whose searches run inside the build | `input` is the arguments, `phase` how far the build is, `index` the `GraphIndex` returned; ids are the tuples the code hashes |
| `GraphQuery` | `query_graph`, `related_nodes`, `subgraph` and `build_context_pack` on an index; EXTENDS `GraphIndex` | `seeds`, `queue2`, `seen`, `scores` are the locals of the expansion, `answer` and `pack` the results |
| `GraphProofs` | theorems about `GroupClosure`, `GraphIndex` and `GraphQuery` | |
| `GraphPublication` | what stored graphs promise their readers | abstract: the versions that can be read and the latest of them |
| `GraphRefresh` | the refresh of `knowledge/graph.ex`, `refresh_coordinator.ex` and the segment files of `segment/mod.rs`; implements `GraphPublication` | `dirs` and `tmp` are the files of a version and the temporary ones, `latest` the latest manifest, `inflight` the state of the coordinator; `calls[p]` is where process `p` is, between two file operations |
| `GraphRefreshProofs` | theorems about `GraphRefresh` | |
| `RepositoryCatalog` | register and retire in `access/repos.ex` and `catalog/mod.rs` | `dirs` are the directories, `records`, `nameLog`, `placements` the three logs; `answer` is history |
| `RemoteSync` | `push_remote` and `fetch_remote` of `sync/mod.rs` and the commits they meet; EXTENDS `RepositoryCatalog` | a repository in `dirs` has heads, tracking refs, loose and packed objects; `remote` is the other repository, object by object; `sync[p]` what a call has read |
| `SnapshotStore` | build, reuse and download of `snapshots/mod.rs` | `tmpDir` and `finalDir` are the two places of an artifact, `manifests` and `artifacts` the logs; a build is a number, as its bytes are its own |
| `AccessGrants` | grants of `policy/mod.rs`, scopes of `capabilities.ex`, seeding at the start | `grants` is the log by id, `scopes` the cached ones, `access[p]` what a call has read; `policies` is history |
| `StoreCalls` | the four modules above on one data directory, with restarts that cut all of them | `made` are the calls of a behaviour |
| `StoreCallsProofs` | theorems about `StoreCalls`: snapshots and grants, repositories and the remote | |
| `MC*` | instances for TLC | |

How they compose. `WorkspaceCommit` extends `WorkspaceLease`: its own actions
call the store's functions, whose steps then interleave with everything else.
`StoreCalls` runs the calls of `RepositoryCatalog`, `RemoteSync`, `SnapshotStore` and `AccessGrants`
side by side: they meet in the directories, in the records of repositories and in the restart.
`GraphQuery` extends `GraphIndex` extends `GroupClosure`: a query runs on the index that a build has
made from its input, and a build runs the searches. What `GraphIndex` builds is what `GraphRefresh`
stores; for the latter it is one version, a value. `GraphRefresh` implements `GraphPublication` under
the mapping that a version is readable when all of its files are there.
`WorkspaceLease`, `WorkspaceCommit`, `ManagedRefs` and the modules of `StoreCalls` take from `TdbLog`
that one record is read and written atomically and durably; `AccessGrants` takes from
`RepositoryCache` that one load of a key runs at a time; `GraphRefresh` takes from `RuntimePool`
that the task of a call may be killed at any time while its native function goes on.

Definitions marked "Mutant" are broken variants of the definition below them, named
in `PROJECT.json` with the property that notices them; no specification uses them.

## Runs

Runs that pass:

| run | question | bounds |
|---|---|---|
| `TdbLog_quiescent` | do acknowledged records survive torn writes, restarts and compactions that run alone, and does the cached index serve them? | 2 ids, 2 values, batches of 2, two crashes; a torn write needs one crash, its repair by the next append a second |
| `TdbLog_audit` | are the events of the audit log numbered in order, with batches that leave the index out of date? | two crashes, no compaction, as in the code |
| `WorkspaceCommit_serial` | one writer for each branch, leases and sessions agreeing, a commit mark that stays; does a commit hold what was acknowledged, and drop nobody's work? | 2 workspaces that compete for a branch, 2 contents, 2 commits; lifetimes of 1 and 2 ticks, so that one can expire while another is live; one restart between any two writes |
| `ManagedRefs_forward` | does the default branch only move forward, is only merged work retired, does a reported commit stay reachable, when does a commit overwrite another one's? | 3 concurrent requests, a work branch and the default one, 3 commits: two workspaces of one branch, opened in any order and with any lease lost at any time, and a promotion or retirement between whose check and swap a commit comes |
| `RuntimePool_limits` | limits, order, one answer for each call, no worker lost, exact counters | 4 jobs of 3 priorities, one worker, a queue of 2: one runs, two wait, one is refused; two callers may die, one job has an execution timeout, every task may crash |
| `RuntimePool_nested` | is every call answered when jobs of one pool wait for another pool, and does nobody queue for good? | 2 pools of one worker and one place; a job that waits for a nested one and may be killed, one with an execution timeout, one whose function hangs |
| `RepositoryCache_flight` | one load of a key at a time, a bounded table, no stale entry without a race, an answer for everybody | 3 readers, one of them killed anywhere and one with a deadline; 2 keys for 1 place; one change with its invalidation |
| `Graph_index` | does a build find the groups, sections and links that are there, and do queries and packs answer by distance, within scope and limits? | four families of documents: all relations of three groups to each other (3 statements, not propagating ones too); all sequences of up to 3 headings of 3 levels and 2 names, and of 4 of one name; links of every kind over sets of paths after every previous manifest, with a path that is stripped to another document's; and one index with every type of edge, of which queries with seeds in both orders, filters with small limits and packs with budgets from nothing to enough are asked |
| `GraphRefresh_readers` | does one caller run for a key, is every refresh answered, do readers find what the latest manifest names, is the promise of `GraphPublication` kept? | 3 refreshes with one key, so that two may wait for one that is killed or slow and write beside it and each other; 2 files for a version, the first of which may be there without the second; one killed caller and one restart, at any step |
| `StoreCalls_restarts` | do answers about repositories, snapshots and grants stay true, and do the remote's refs resolve? | nine mixes of four or five calls that meet: registers and retires of one name; these beside pushes; commits beside pushes; pushes and a fetch beside a commit or a retire; snapshot builds and a download beside registers and retires, and beside a push; a grant put and one revoked beside three requests. 2 repositories, one remote of 2 branches, 5 commits; 2 restarts, at any step: one cuts a call, the other its retry |

Runs that show a disagreement between the code and what the repository says of it
(each is listed under "findings" with the sentence it contradicts):

| run | what happens |
|---|---|
| `TdbLog_race` | an append that completes between the read and the rename of a compaction is lost |
| `WorkspaceLease_foreign` | ending a workspace releases the lease another one has taken over meanwhile |

### What is kept out of the passing runs

The properties of a passing run hold under bounds that are named in the modules. Outside them
the code does what follows; each is listed as a hazard with a note.

- Logs. A compaction writes records in id order, so sequence numbers repeat and go backwards
  after it; a header torn by a crash swallows the first record appended after it.
- Workspaces. `WorkspaceCommit_serial` takes one request at a time: of two concurrent ones, two creations
  both read a free lease and both become writable; a policy update writes back the session it
  read and undoes a commit (against README.md:734); a write that has checked the session before
  a commit is acknowledged after it and is in no commit. It moreover assumes that nobody ends
  a workspace whose lease has been taken over (`ForeignRelease = FALSE`). A restart between the
  session's record and the lease's leaves the two logs apart until the lease expires: the
  properties that relate them (`ExclusiveUntilRestart`, `LeaseMatchesSession`, `HeadIsRecorded`,
  `CommitOnTop`) say "until the first restart", the others (`CommittedIsFinal`,
  `CommitHasAckedWrites`, `OverlayReadable`) hold across it. A closed id that is opened again
  has overlay records without contents.
- Branches. `ManagedRefs_forward` assumes that workspaces are opened on branches other than the
  default branch: a workspace on the default branch is committed with `PreviousValue::Any` and
  may rewind it. The branch is checked long before the lease is taken, a lease may be lost at any
  time, and neither is looked at again by the commit, so that a commit may drop another one from its
  branch: `CommitDropsNothing` names the only ways (`overtaken`), in which one of two workspaces did not
  hold the lease while the other one committed.
- Pools and caches. A job killed inside a native call frees its worker, not the work; a load that
  was in flight during an invalidation puts the old value back (`StaleOnlyIfRaced` says that this
  is the only way to a stale entry); a waiter of the cache that keeps losing the lock restarts its
  deadline each time.
- Links. `strip_extension` makes of `a.md.txt` the path `a.md`, so that a link to `a.md` leads to whichever of
  the two documents comes later in the tree. `LinksLeadHome` says when a document at exactly the path is
  passed over, and that nothing else is.
- Queries. The search keeps its best `limit` nodes before paths and filters are looked at, so that nodes that
  are filtered afterwards crowd out others. `AnswerIsBestInScope` counts for a node what it scored by
  expansion, and by the search only if fewer than `limit` nodes rival it there.
- Graph refreshes. Refreshes of one commit with different changed paths or modes have different keys, and a
  waiter that times out without a previous manifest runs unregistered: a version may have several
  writers. That is harmless as long as each finds the version absent or complete. One that finds it
  half written while another is at work removes it, and its `remove_dir_all` may meet the finished
  version: the promise is broken for these versions only (`contested`). A caller that is killed leaves its
  key in flight until the next restart, and every later refresh of it waits for the timeout.
- Repositories. `Separate`: no register runs beside a retire of its name; a retire that read the old
  record would delete the new one. `SeparateSync`: a retired name is not registered anew while a
  push or fetch of the old repository runs. An object whose copy a restart cut short stays torn at
  the remote, because every later push passes over a file that exists (`cut`); objects that are
  packed are not copied at all.
- Snapshots. `OneBuild`: two builds of one id share their temporary directory. The id of a snapshot holds
  neither the graph version nor the files handed in, so that a build may be answered with one
  made of others; after a restart between its two records the log of artifacts lacks an entry
  for good.
- Grants. A scope that was read before a change and cached behind the reset is served for five minutes
  (`raced`), and so is one whose first grant has expired meanwhile; a restart puts seeded grants
  again that were revoked; the id of a grant does not hold its repositories, so that a grant for
  others replaces it.

`CHECK_DEADLOCK FALSE` stands in the configurations where everything may be done: the jobs of a
pool all answered, the calls all returned, the request answered.

Every property has a broken variant of a definition ("mutants" in `PROJECT.json`) under which its
run fails: a dropped guard, a lock deleted by its key, a timer that is not set.

### Fairness

Three modules state fairness, for liveness only.

`RuntimePool`: the coordinator is a process the scheduler runs as long as its mailbox is not
empty, and a timer that is set expires (`Process.send_after`): weak fairness of `Serve` as a
whole is enough, since a job sends a bounded number of messages. Functions handed to a pool end,
by returning or by crashing, except those of the jobs in `Hanging`: `EveryCallAnswered` is about jobs
whose function ends or has an execution timeout, `NeverQueuedForGood` about all. Nothing is assumed of
callers: they call if and when they like, and die or not.

`RepositoryCache`: weak fairness of each reader's own steps; a killed process takes none. No
deadline has to pass: `EveryCallReturns` must not rest on the timeout. A waiter may lose the lock
again and again, so the property needs that each process makes a bounded number of calls
(`MaxCalls`).

`GraphRefresh`: weak fairness of the steps of each call that has begun. Processes and native threads are
scheduled, and `after timeout` of a waiter fires: `EveryRefreshAnswered` rests on that timeout, for the
caller a waiter waits for may have been killed before it tells the coordinator. A killed process takes
no step of its own, while the native function it called runs to its end; nobody has to begin.

## Proofs

`TdbLogProofs` proves, for every set of ids and values, every batch size and every number
of lines and crashes, as long as no compaction runs beside an append:

- `TypeCorrect`;
- `AckedSurvivesCrashes`: replaying an undamaged log returns exactly what was
  acknowledged;
- `IndexServesAcked`: an index that is accepted holds the acknowledged values;
- `CompactionIsTransparent`: a compaction changes no replay;
- `SeqsIncrease` (`SeqIncreasing`), for a log that is never compacted, as the audit log: the sequence
  numbers of its lines increase.

None of these is inductive. The invariant behind them has six parts: the types; what
the file looks like at each step of an append (`WriterInv`); a glued header line only as
first line (`SkippedInv`); replay equals `acked` up to the batch being written (`AckedInv`);
an index that is current equals replay, and a stale one is recognised by the length of the
file (`IndexInv`); and what a compaction has read is still what the file holds
(`CompactInv`), which is the part that needs the assumption. "Replay" is defined by the last
line of an id, which is what the loop of the code keeps in its map, so that no induction is
needed. The sequence numbers have an invariant of their own, `SeqInv`: the next number, whether it is taken
from the cached index or from the last line of the file, is above every number of an undamaged file;
the lines an open writer holds increase and begin above the file; and once they are being written,
the part of them that is in the file is what the writer expects there.

`WorkspaceProofs` proves for every set of workspaces and branches, every number of commits,
restarts and ticks:

- `TypesHold` and `FilesReadable` (`OverlayReadable`), for any number of requests at once;
- `CommitIsFinal` (`CommittedIsFinal`), `WritesCommitted` (`CommitHasAckedWrites`) and `HeadsRecorded`
  (`HeadIsRecorded`), if requests come one at a time (`OneRequest`);
- `LeasesMatch` (`LeaseMatchesSession`), `OneWriter` (`ExclusiveUntilRestart`) and `CommitsOnTop`
  (`CommitOnTop`), if moreover nobody releases a lease that another workspace has taken over
  (`ForeignRelease = FALSE`).

`OneRequest` is what the run assumes as well, and for the same reason: with two requests at once TLC
finds each of the last six violated, by the schedules that are listed under the hazards. Even
of one request each function remains several reads and writes, a restart may come between any two of
them, and time passes at every step: these are what the proofs are about. Only the
properties that say "until the first restart" stop there.

The parts of the invariant speak of a call of the store as a list of items, each a workspace and the
record to be written. `ShapeInv` says which steps a call of which workspace may be at. `LeaseInv` relates
the two logs by time: how long a session may be written to (`WriteTime`) is how long its lease runs
(`LeaseTime`), but for the workspace that a call has half written (`MatchInv`), and what a call has
read is still so when it writes (`CallInv`): a lease it has found free still is, a session it will end
has no claim anymore. Exclusiveness follows without counting writers, because a lease has one owner.
`FinalInv`: what a call will write over a committed session is committed or closed, with the
same commit. `FileInv`: the content a request is about to record is in the directory, unless the directory
has been removed, after which nobody opens the workspace again. `RequestInv`: a request at work has its
workspace to itself, what it read of the overlay is in the overlay, and the commit it has made is the
head. From it follow `AckedInv` (overlay and recorded commits hold what was acknowledged), `HeadInv` (a head
is recorded, or will be by the request that runs) and, with `LeaseInv`, `TopInv`: who may write goes
on from the head of the branch.

`ManagedRefsProofs` proves for every set of branches and requests and every number of commits:

- `RefsTypeCorrect` and `ReportedIsKept`, whatever branches workspaces are opened on and promoted to;
- `DefaultOnlyForward`, `RetiredWasMerged` and `NoCommitDropped` (`CommitDropsNothing`), if no workspace is
  opened on the default branch or on a branch that others are promoted to (`Separated`, as in the run).

The invariant is `RefInv`. Its parts say what a request may still rely on between its reads and
the git call that writes: a promotion goes forward from the value it will compare (`PromoteInv`);
what a retirement found merged into the default branch stays merged (`RetireInv`), because that
branch only moves forward and ancestors of ancestors are ancestors; of the workspaces of a branch one
holds its lease at a time (`LeaseInv`), and a workspace that was not overtaken finds the branch where it
was checked, or where an earlier attempt of its own left it, or gone (`WorkInv`). The two steps that could
break the last one are a commit of another workspace, which by `LeaseInv` marks this one as overtaken, and
a promotion, which `Separated` keeps off. Ancestors are defined by the
histories that contain them, not by recursion, so that reflexivity, transitivity and the
indifference to new commits (`NewCommit`) need no induction.

`RuntimePoolProofs` proves for every set of jobs and pools, every number of workers and
places in the queue:

- `TypeCorrect`, with the counter of a queue never below zero;
- `LimitsHold`: `active` within size, `queue_depth` within `queue_max` and equal to the jobs in
  the three queues, and no idle worker while a job waits;
- `EveryCallAnsweredOnce`: a call that was taken in is in one place, or has one answer, or its
  caller is gone;
- `NoWorkerLost`: what holds a worker runs or its end is in the mailbox, and a queued job has its
  timer;
- `CountersAreExact` (`CountersExact`): each of the six counters of a pool is the number of the calls it
  speaks of;
- `NobodyOvertakes` (`NoOvertaking`, an action property): the order of the queues.

The invariant of the limits is `PlacesInv`, the four limits and the types of the places together: with
`queue_depth` equal to the length of the queues, taking a job out cannot make it negative;
with every worker busy while anybody waits, a call that finds a free worker (`handle_call`)
overtakes nobody; and while `maybe_start_next` runs, the pool it works on is exempt from the
last limit until its loop ends. The other actions touch no place (`StillFits`).

The invariant of the calls is `CallsInv`. `JobInv` says of one job what the coordinator relies on
when it handles a message about it: the job is once in its queue, or active, or answered, never two
of them; an end of a task is in the mailbox only when the task is over, a DOWN of a caller only
when the caller is gone, so neither can free a worker that still runs or leave a live caller
without an answer. `ParentInv` says that whoever waits inside a task waits in one that runs: a kill
ends those callers too, and no other step does. A step about one job leaves what `JobInv` reads of
every other job alone (`Same`, `Untouched`), but for a kill (`KillCalls`).

The counters add `CountInv`: counter `c` of a pool is the size of the set of its jobs of which `c` has
become true (`Tally`). A step makes at most one of the six things true, of one job, and counts that one
(`Moves`, `TallyStep`), and `CallsInv` says that it was not true of that job before, since a job that is still in
its queue or active has no answer and is not cancelled: that is why "exact" needs the calls to be answered once.
The order of the queues needs no invariant more: `CallsInv` has a job at most once in its queue, so that
one that leaves takes nobody else's place (`LeaveOrder`), and by `PlacesInv` nobody waits where `handle_call`
finds a free worker (`WaitsForWorker`).

`RepositoryCacheProofs` proves for every set of processes and keys:

- `TypesHold`;
- `OneLoadAtATime` (`SingleFlight`): two living processes are never both between taking and giving back
  the lock of one key;
- `StaleEntriesRaced` (`StaleOnlyIfRaced`): an entry is older than a finished invalidation only if it was
  put after an invalidation that its load did not see;
- `TableBounded` (`BoundedTable`): no more entries than the limit and one for each put that has not evicted.

The invariant of the lock is `LockInv`: the lock of a key names the living process that is inside it; whoever
is about to take a lock over has seen its owner dead, and the dead stay dead; and a process that
asks for the owner, or is idle, is not inside. Without the second part a late `delete_object`
could free the lock of the successor. Most steps touch no lock and enter none (`Moves`); the
three that do are `TryStep`, `StealStep` and `ReleaseStep`.

`FreshInv` says of every change up to one whose invalidation has returned, or has listed the table:
whoever still puts an older version is marked as raced, and an older row that is not is on the list of the
invalidation (`Settled`). A list is worked off by its head, and a key has one row at most (`Unique`),
so that what leaves the list has left the table.

The bound itself is not inductive: an eviction that ends leaves a table that fits only if nobody else
is about to evict less than he has put. `Bounded` therefore speaks of every set `S` of processes that
have read an excessive size or hold a list: if all of them were to delete what they are about to, the
rows left (`Left`) would fit, but for one of each process that has put and is not in `S`. A put
adds one to both sides; reading the size makes the left side fit for every `S` with the reader in it; listing
the oldest rows deletes what the size stood for; a deletion by anybody only moves later rows forward, which
`Stem` and the injections of `SparedWithout` say; and who ends is put into `S` before he leaves.

`GraphProofs` proves for every set of groups and every relation on them:

- `InheritedGroupsExact` (`ClosureIsReachable`): a search that has ended has found exactly the groups
  that membership propagates to;
- `CycleWarningsExact` (`CyclesAreWarned`): it has warned of its origin exactly if that lies on a cycle;

and for every set of documents, previous manifests and requests:

- `GroupsOfIndexExact`: both again, for the searches inside a build;
- `SectionsNestInIndex` (`SectionsNest`) and `LinksLeadHomeInIndex` (`LinksLeadHome`) about the index;
- `ScoresAreDistancesInIndex` (`ScoresAreDistances`), `AnswersBestInScope` (`AnswerIsBestInScope`) and
  `PacksWithinBudget` (`PackWithinBudget`) about queries and packs.

They rest on two assumptions about the constants. `IndexInputs` says that a tree holds a path once, that
what the parser finds is finite, and that the group ids it finds are among `Groups`. `QueryRequests` says that the
numbers in a request are integers or left out, and that every word has a length.

The invariant of the searches is `GroupInv`: what was visited is reachable, holds the
origin, and is closed but for the queue; a warning has been given exactly if a group that has left
the queue leads back. `Reachable` is defined as the intersection of all closed sets that hold the
group, so that the invariant's closedness gives one inclusion and minimality the other, without
induction.

`FlowInv` says of everything else that, once the build has ended, the index is `BuiltIndex` of
the input and of complete closures, and that seeds and requests are what a query was given. The rest
follows from what the operators of `BuiltIndex` compute. The loops of the code are recursive
functions on an interval of numbers; for each of them one lemma (`...IsDefined`) shows that the function exists, and
`SetInduction`, which is induction stated of a set of numbers, what it computes:

- sections: `LoopRight` says that after `n` headings the stack holds the headings that are still open, with
  levels that rise, and the sections made so far have ids of their own. The parent is then the last
  heading before that is above, and `section_ranges`, which does not look at the stack, ends every range
  between where the same comparison of levels does;
- links: what a path leads to was registered last under it, by its document or by one that is stripped
  to it, and everything registered under a path or its stripped form is near it (`ExactTarget`, `NearTarget`);
- scores: `ScoreInv` speaks of each seed by itself. While a seed is expanded, `Level` and `ExpandOK` say that the queue
  holds two neighbouring levels of the ball around it, the nearer first, and that everything nearer
  has its neighbours seen; what earlier seeds have scored is left alone (`ScoresOK`);
- answers: `Listed` lists a finite set once and by falling key, so that its first entries are the best
  ones (`BestOf`), and a hit that fewer than `limit` others rival is among those the search keeps
  (`SearchFinds`). A list needs a finite set, and that the nodes of an index are finite needs that its
  documents are;
- packs: `PackOK` says that after `n` entries the pack holds the usable ones among them in their order, or
  has reached a limit, and that a limit once reached stays reached.

`GraphRefreshProofs` proves for every set of callers, versions and keys, every number of files,
kills and restarts, with any number of writers of a version:

- `RefreshSafe`: the invariant below;
- `OneRunAtATime` (`OneRunPerKey`): the coordinator lets one caller run for a key;
- `EveryReadSucceeds` (`ReadsSucceed`): a call that has read the latest manifest finds every file of it, unless
  the version is contested;
- `PublicationImplemented` (`ReadableForEver`): `RefreshSpec` implements `GraphPublication`.

`RefreshInv` has these parts: the types; a registered caller has its key in flight, and of one key
only one is at work (`FlightInv`); what the directory holds at each step of its writers, and that
whoever removes a version that is not contested is its only writer (`WriterInv`): a writer that finds
a version half written by another one marks it, and nobody else removes; and that a manifest that was
read, or is the latest, names a complete or contested version (`ReaderInv`). The last two need each other:
readers are safe because nobody removes a complete version, and nobody does because the only writer
has looked first.

`StoreCallsProofs` proves about `StoreSpec`, for every set of repositories, branches,
 snapshots, grants and calls, every mix of calls, and every number of commits, builds and
restarts:

- `AnsweredSnapshotsStay` (`SnapshotsStay`), with one build of an id at a time (`OneBuild`);
- `CachedScopesFollow` (`ScopeIsCurrent`), for every lifetime of grants and cached scopes;
- `AnswersStayTrue` (`AnswersHold`), with registers and retires of one name apart (`Separate`);
- `RefsAlwaysResolve` (`RefsResolve`), under `SeparateSync` as well. Fetches are those of the default
  refspec, and pushes have any refspecs.

Each of the four parts of the store touches few variables of the others, so each has an invariant of
its own. Of snapshots it is `SnapInv`: of an id under `OneBuild` only one build is at work, and
before its manifest is put no manifest names what it writes (`BuildInv`); a manifest names what the
final directory holds (`ManifestInv`); a download has read a manifest that still is the one
(`DownloadInv`). Of grants it is `GrantInv`: the history of grants ends with the current ones
(`HistoryInv`), and a scope that did not race a change is what some entry of the history, which an
answered change cuts, gave at an earlier moment (`ScopeInv`). The lemma `ScopeStays` says why such a
scope may be served later: it changes only when its first grant expires, and the earliest expiry of
a set of grants exists because time is well-founded.

Of the catalog it is `CatalogInv`: what the steps of a register have made of a name (`RegisterInv`),
what those of a retire have left (`RetireInv`), and that the two never work on one name together
(`KindInv`). `AnswersHold` is not inductive without them, because an answer is given at the end of
four to six steps. Of pushes and fetches it is `SyncInv`, about `Held`, which is what the remote
has, is being copied or was cut by a restart, and never shrinks. An object that is packed came from
the remote, so that the loose ones are all that a push has to copy (`RepoInv`); what the targets of
a push need is in its repository, then in its list or held, then held (`Progress`), whatever other
pushes truncate meanwhile; what a fetch was shown is in its repository before the tracking refs
move; and a repository that was retired under a push or a fetch is not made anew (`NoNewInv`). Each
step then is one of three kinds: `QuietStep` changes nothing but the call, `RemoteStep` the remote,
`RepoStep` one repository; `DirectoryStep` is the one for the catalog. That repositories start with
commits of their own needs a bijection between them and the first numbers, hence the assumption that
`Names` is finite.

Only model-checked: liveness, about whose fairness TLAPS does not reason. These are `EveryCallAnswered` and
`NeverQueuedForGood` of the pools, `EveryCallReturns` of the cache and `EveryRefreshAnswered` of graph
refreshes. Every invariant and every action property that a passing run checks is stated by a
theorem, under the assumptions given with it. The two runs that expect a violation show why some of
those are needed: `TdbLog_race` has compactions beside appends, `WorkspaceLease_foreign` a
workspace that ends after another one has taken its branch.

## Not modelled

Parts marked `not_modelled` in `PROJECT.json` are pure functions of data (text search,
ranking of text, text patches, frontmatter), formatting and configuration,
clients, or are in the plan below. Within the modelled parts: contents of records beyond
the fields the decisions depend on, sizes and hashes, metrics and the snapshot table of
the pools (written in the same step as the state they copy), a restart of the pool
coordinator, eviction of the cache by bytes, the tar archives of backups, the reading of
Markdown and YAML before the graph is built, the query language in front of `GraphQuery`, weights of several
search words, transport of a push or fetch over a network, the narrowing of a scope by the claims
of a token, and the matching of patterns for refs and paths. `GraphIndex` models the delta of two
manifests, and no property is stated of it.

## Plan

Modules, in this order, and what each is for:

1. `AuditWriter`: order, overflow and loss of audit batches.
2. `Placement`: mirrors, migration and promotion (`mirrors.ex`, `migrations.ex`) over their records,
   composed with `RepositoryCatalog`, whose placements they move.
3. `Uploads` and `Changeset`: parts and completion; expected shas.
4. `FederationRouting`: route choice by freshness and trust.
5. An abstract keyed store that `TdbLog` implements, and that the modules above take as their
   log.

Theorems: the refinement of the keyed store.
