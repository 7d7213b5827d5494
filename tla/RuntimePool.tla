---------------------------- MODULE RuntimePool ----------------------------
(***************************************************************************)
(* The worker pools of the API (apps/api/lib/treedx/runtime/pool.ex): one  *)
(* GenServer, the coordinator, admits the jobs of every pool, runs up to   *)
(* size of them as tasks, queues up to queue_max more and answers each     *)
(* caller once.  Callers, tasks and timers talk to it through its mailbox. *)
(*                                                                         *)
(* A job is one call of Pool.run.  Its caller is the process of a request, *)
(* or the task of another job: a graph or workspace job that loads the     *)
(* repository through RepositoryCache.bounded_load waits for a             *)
(* repository_query job.  A call from a task to its own pool runs inline   *)
(* (run_nested) and is part of that task.                                  *)
(*                                                                         *)
(* The mailbox is a set: messages of different senders arrive in any       *)
(* order.  A task's result precedes the DOWN of that task, and handling    *)
(* the one flushes the other.  A task that is killed is gone at once; the native *)
(* call it may be inside of, which runs on until it returns, is not part   *)
(* of this model.                                                          *)
(***************************************************************************)
EXTENDS Integers, Sequences, FiniteSets

CONSTANTS
    Jobs,         \* calls of Pool.run
    NoJob,        \* no job: the caller is the process of a request
    Pools,
    NoPool,
    Size,         \* workers of each pool
    QueueMax,     \* queue_max of each pool
    PoolOf,       \* the pool each job asks for
    PriorityOf,   \* "high", "normal" or "low"
    Parent,       \* the job whose task makes the call, or NoJob
    Limited,      \* jobs with an execution timeout (there is none by default)
    Mortal,       \* jobs whose caller may end before it is answered
    Hanging       \* jobs whose function need not end

Priorities == {"high", "normal", "low"}

ASSUME PoolConstants ==
    /\ NoJob \notin Jobs
    /\ NoPool \notin Pools
    /\ IsFiniteSet(Jobs)
    /\ Size \in [Pools -> Nat \ {0}]
    /\ QueueMax \in [Pools -> Nat \ {0}]
    /\ PoolOf \in [Jobs -> Pools]
    /\ PriorityOf \in [Jobs -> Priorities]
    /\ Parent \in [Jobs -> Jobs \cup {NoJob}]
    /\ \A j \in Jobs : Parent[j] # NoJob => PoolOf[Parent[j]] # PoolOf[j]
    /\ Limited \subseteq Jobs /\ Mortal \subseteq Jobs /\ Hanging \subseteq Jobs

VARIABLES
    active,    \* active: jobs that hold a worker of each pool
    queues,    \* queues: the waiting jobs of each pool, by priority
    depth,     \* queue_depth
    count,     \* the counters of each pool
    refilling, \* the pool the coordinator is in maybe_start_next for
    inbox,     \* messages the coordinator has not handled
    timers,    \* messages the timers that are set will send
    caller,    \* what the caller of each job is doing
    answers,   \* the replies sent to it
    task       \* the task process of each job

coordinator == <<active, queues, depth, count, refilling>>
vars == <<active, queues, depth, count, refilling, inbox, timers, caller, answers,
          task>>

-----------------------------------------------------------------------------
Kinds == {"run", "result", "task_down", "caller_down"}
TimerKinds == {"queue_timeout", "execution_timeout"}
Timers == [kind : TimerKinds, job : Jobs]
Messages == [kind : Kinds, job : Jobs] \cup Timers
Answers == {"result", "task_failed", "queue_full", "queue_timeout", "execution_timeout"}
Counters == {"started", "completed", "rejected", "queue_timeouts",
             "execution_timeouts", "cancelled"}

Msg(kind, j) == [kind |-> kind, job |-> j]

Init ==
    /\ active = [p \in Pools |-> {}]
    /\ queues = [p \in Pools |-> [r \in Priorities |-> <<>>]]
    /\ depth = [p \in Pools |-> 0]
    /\ count = [p \in Pools |-> [c \in Counters |-> 0]]
    /\ refilling = NoPool
    /\ inbox = {}
    /\ timers = {}
    /\ caller = [j \in Jobs |-> "idle"]
    /\ answers = [j \in Jobs |-> <<>>]
    /\ task = [j \in Jobs |-> "none"]

IsActive(j) == j \in active[PoolOf[j]]
Queue(j) == queues[PoolOf[j]][PriorityOf[j]]
IsQueued(j) == \E i \in DOMAIN Queue(j) : Queue(j)[i] = j
Waiting(j) == caller[j] = "waiting" /\ answers[j] = <<>>

\* The coordinator takes m out of its mailbox and flushes others.
Receive(m, others) ==
    /\ refilling = NoPool
    /\ m \in inbox
    /\ inbox' = inbox \ ({m} \cup others)

Reply(j, a) == answers' = [answers EXCEPT ![j] = Append(@, a)]

\* Mutant: the counter is set.
CountedOnce(p, c) == [count EXCEPT ![p][c] = 1]
Counted(p, c) == [count EXCEPT ![p][c] = @ + 1]

-----------------------------------------------------------------------------
(***************************************************************************)
(* Callers, tasks and timers.                                              *)
(***************************************************************************)

\* A request, or the task of the parent, calls run.
Call(j) ==
    /\ caller[j] = "idle"
    /\ Parent[j] # NoJob => task[Parent[j]] = "running"
    /\ \A k \in Jobs : Parent[j] # NoJob /\ Parent[k] = Parent[j] => ~Waiting(k)
    /\ caller' = [caller EXCEPT ![j] = "waiting"]
    /\ inbox' = inbox \cup {Msg("run", j)}
    /\ UNCHANGED <<coordinator, timers, answers, task>>

\* The calls that die with the processes that wait for them, and what their monitors
\* tell the coordinator.
Die(dead) == caller' = [j \in Jobs |-> IF j \in dead THEN "dead" ELSE caller[j]]
Downs(dead) == {Msg("caller_down", j) : j \in {k \in dead : IsActive(k) \/ IsQueued(k)}}

\* The process of a request ends before it has its answer.
CallerDies(j) ==
    /\ j \in Mortal
    /\ Parent[j] = NoJob
    /\ Waiting(j)
    /\ Die({j})
    /\ inbox' = inbox \cup Downs({j})
    /\ UNCHANGED <<coordinator, timers, answers, task>>

\* The task has run the job's function: it sends the result, if there is one, and exits.
TaskEnds(j, msgs) ==
    /\ task[j] = "running"
    /\ \A k \in Jobs : Parent[k] = j => ~Waiting(k)
    /\ task' = [task EXCEPT ![j] = "ended"]
    /\ inbox' = inbox \cup msgs
    /\ UNCHANGED <<coordinator, timers, caller, answers>>

TaskReturns(j) == TaskEnds(j, {Msg("result", j), Msg("task_down", j)})
TaskCrashes(j) == TaskEnds(j, {Msg("task_down", j)})

Fire(m) ==
    /\ m \in timers
    /\ timers' = timers \ {m}
    /\ inbox' = inbox \cup {m}
    /\ UNCHANGED <<coordinator, caller, answers, task>>

-----------------------------------------------------------------------------
(***************************************************************************)
(* The coordinator.                                                        *)
(***************************************************************************)

\* start_job: without its queue timer, in a task of its own, which takes a worker.
StartJob(j) ==
    /\ active' = [active EXCEPT ![PoolOf[j]] = @ \cup {j}]
    /\ timers' = (timers \ {Msg("queue_timeout", j)})
                   \cup {Msg("execution_timeout", k) : k \in {j} \cap Limited}
    /\ count' = Counted(PoolOf[j], "started")
    /\ task' = [task EXCEPT ![j] = "running"]

HasWorker(p) == Cardinality(active[p]) < Size[p]

\* Mutant: off by one.
HasRoomForOneMore(p) == depth[p] <= QueueMax[p]
HasRoom(p) == depth[p] < QueueMax[p]

\* Mutant: the newest job is in front.
JoinInFront(q, j) == <<j>> \o q
Join(q, j) == Append(q, j)

\* Mutant: a job in the queue has no timer.
NoQueueTimer(j) == {}
QueueTimer(j) == {Msg("queue_timeout", j)}

OneFewer(p) == [depth EXCEPT ![p] = @ - 1]

Enqueue(j) ==
    /\ HasRoom(PoolOf[j])
    /\ queues' = [queues EXCEPT ![PoolOf[j]][PriorityOf[j]] = Join(@, j)]
    /\ depth' = [depth EXCEPT ![PoolOf[j]] = @ + 1]
    /\ timers' = timers \cup QueueTimer(j)

\* handle_call: new_job monitors the caller, and hears at once of one that is gone.
HandleRun(j) ==
    LET p == PoolOf[j]
        run == Msg("run", j)
        downs == {Msg("caller_down", k) : k \in {i \in {j} : caller[i] = "dead"}}
    IN  /\ refilling = NoPool
        /\ run \in inbox
        /\ \/ /\ HasWorker(p)
              /\ StartJob(j)
              /\ inbox' = (inbox \ {run}) \cup downs
              /\ UNCHANGED <<queues, depth, answers>>
           \/ /\ ~HasWorker(p)
              /\ Enqueue(j)
              /\ inbox' = (inbox \ {run}) \cup downs
              /\ UNCHANGED <<active, count, answers, task>>
           \/ /\ ~HasWorker(p)
              /\ ~HasRoom(p)
              /\ Reply(j, "queue_full")
              /\ count' = Counted(p, "rejected")
              /\ inbox' = inbox \ {run}
              /\ UNCHANGED <<active, queues, depth, timers, task>>
        /\ UNCHANGED <<refilling, caller>>

\* Mutant: the job stays in the queue.
RemoveNothing(j) == IsQueued(j) /\ UNCHANGED <<queues, depth>>

\* dequeue_job: j leaves its queue, the others keep their order.
RemoveJob(j) ==
    \E i \in DOMAIN Queue(j) :
        /\ Queue(j)[i] = j
        /\ queues' = [queues EXCEPT ![PoolOf[j]][PriorityOf[j]] =
                        SubSeq(@, 1, i - 1) \o SubSeq(@, i + 1, Len(@))]
        /\ depth' = OneFewer(PoolOf[j])

HandleQueueTimeout(j) ==
    /\ Receive(Msg("queue_timeout", j), {Msg("caller_down", j)})
    /\ RemoveJob(j)
    /\ Reply(j, "queue_timeout")
    /\ count' = Counted(PoolOf[j], "queue_timeouts")
    /\ UNCHANGED <<active, refilling, timers, caller, task>>

\* A job gives its worker back, and the coordinator goes on with maybe_start_next.
Free(j) ==
    /\ IsActive(j)
    /\ active' = [active EXCEPT ![PoolOf[j]] = @ \ {j}]
    /\ timers' = timers \ {Msg("execution_timeout", j)}
    /\ refilling' = PoolOf[j]

HandleResult(j) ==
    /\ Receive(Msg("result", j), {Msg("task_down", j), Msg("caller_down", j)})
    /\ Free(j)
    /\ Reply(j, "result")
    /\ count' = Counted(PoolOf[j], "completed")
    /\ UNCHANGED <<queues, depth, caller, task>>

\* Mutant: the DOWN of a task means nothing.
HandleTaskDownIgnored(j) ==
    /\ Receive(Msg("task_down", j), {})
    /\ UNCHANGED <<coordinator, timers, caller, answers, task>>

\* The DOWN of a task that left no result.
HandleTaskDown(j) ==
    /\ Msg("result", j) \notin inbox
    /\ Receive(Msg("task_down", j), {Msg("caller_down", j)})
    /\ Free(j)
    /\ Reply(j, "task_failed")
    /\ count' = Counted(PoolOf[j], "completed")
    /\ UNCHANGED <<queues, depth, caller, task>>

\* Mutant: the task is left to itself.
KillNothing(j) == UNCHANGED <<task, caller>>

\* terminate_child, if the task has not ended by itself: the jobs it waits for lose
\* their caller.
Kill(j) ==
    IF task[j] = "running"
    THEN /\ task' = [task EXCEPT ![j] = "ended"]
         /\ Die({k \in Jobs : Parent[k] = j /\ Waiting(k)})
    ELSE UNCHANGED <<task, caller>>

\* What the coordinator hears of it.
KillDowns(j) ==
    {Msg("task_down", k) : k \in {i \in {j} : task[i] = "running"}}
      \cup Downs({k \in Jobs : Parent[k] = j /\ Waiting(k)})

HandleExecutionTimeout(j) ==
    LET m == Msg("execution_timeout", j)
    IN  /\ refilling = NoPool
        /\ m \in inbox
        /\ inbox' = (inbox \ {m, Msg("caller_down", j)}) \cup KillDowns(j)
        /\ Kill(j)
        /\ Free(j)
        /\ Reply(j, "execution_timeout")
        /\ count' = Counted(PoolOf[j], "execution_timeouts")
        /\ UNCHANGED <<queues, depth>>

\* The DOWN of the caller of a queued job, or of a running one, which is killed.
HandleCallerDown(j) ==
    LET m == Msg("caller_down", j)
    IN  /\ refilling = NoPool
        /\ m \in inbox
        /\ count' = Counted(PoolOf[j], "cancelled")
        /\ \/ /\ RemoveJob(j)
              /\ timers' = timers \ {Msg("queue_timeout", j)}
              /\ inbox' = inbox \ {m}
              /\ UNCHANGED <<active, refilling, caller, task>>
           \/ /\ Kill(j)
              /\ Free(j)
              /\ inbox' = (inbox \ {m}) \cup KillDowns(j)
              /\ UNCHANGED <<queues, depth>>
        /\ UNCHANGED answers

\* A message about a job that has left the queue, or the worker, since it was sent.
Ignore(m) ==
    /\ \/ m.kind \in {"result", "task_down", "execution_timeout"} /\ ~IsActive(m.job)
       \/ m.kind = "queue_timeout" /\ ~IsQueued(m.job)
    /\ Receive(m, IF m.kind = "result" THEN {Msg("task_down", m.job)} ELSE {})
    /\ UNCHANGED <<coordinator, timers, caller, answers, task>>

\* pop_next: the first job of the first queue that has one.
IsFirst(j) ==
    LET q == queues[PoolOf[j]]
    IN  /\ Queue(j) # <<>> /\ Head(Queue(j)) = j
        /\ PriorityOf[j] # "high" => q["high"] = <<>>
        /\ PriorityOf[j] = "low" => q["normal"] = <<>>

\* maybe_start_next, one turn.
StartNext(j) ==
    /\ refilling = PoolOf[j]
    /\ HasWorker(PoolOf[j]) /\ depth[PoolOf[j]] > 0
    /\ IsFirst(j)
    /\ queues' = [queues EXCEPT ![PoolOf[j]][PriorityOf[j]] = Tail(@)]
    /\ depth' = OneFewer(PoolOf[j])
    /\ StartJob(j)
    /\ UNCHANGED <<refilling, inbox, caller, answers>>

\* Its last turn.
Refilled ==
    /\ refilling # NoPool
    /\ \/ ~HasWorker(refilling)
       \/ depth[refilling] = 0
       \/ \A r \in Priorities : queues[refilling][r] = <<>>
    /\ refilling' = NoPool
    /\ UNCHANGED <<active, queues, depth, count, inbox, timers, caller, answers, task>>

-----------------------------------------------------------------------------
TaskStep(j) == TaskReturns(j) \/ TaskCrashes(j)

Serve ==
    \/ \E j \in Jobs :
         \/ HandleRun(j)
         \/ HandleQueueTimeout(j)
         \/ HandleResult(j)
         \/ HandleTaskDown(j)
         \/ HandleExecutionTimeout(j)
         \/ HandleCallerDown(j)
         \/ StartNext(j)
    \/ \E m \in inbox : Ignore(m)
    \/ Refilled

Next ==
    \/ \E j \in Jobs :
         \/ Call(j)
         \/ CallerDies(j)
         \/ TaskStep(j)
    \/ \E m \in timers : Fire(m)
    \/ Serve

Spec == Init /\ [][Next]_vars

\* The coordinator is scheduled, timers expire, and functions end but for those that
\* hang.
FairSpec ==
    /\ Spec
    /\ WF_vars(Serve)
    /\ \A m \in Timers : WF_vars(Fire(m))
    /\ \A j \in Jobs \ Hanging : WF_vars(TaskStep(j))

-----------------------------------------------------------------------------
(***************************************************************************)
(* Properties.                                                             *)
(***************************************************************************)
TypeOK ==
    /\ active \in [Pools -> SUBSET Jobs]
    /\ queues \in [Pools -> [Priorities -> Seq(Jobs)]]
    /\ depth \in [Pools -> Nat]
    /\ count \in [Pools -> [Counters -> Nat]]
    /\ refilling \in Pools \cup {NoPool}
    /\ inbox \subseteq Messages
    /\ timers \subseteq Timers
    /\ caller \in [Jobs -> {"idle", "waiting", "dead"}]
    /\ answers \in [Jobs -> Seq(Answers)]
    /\ task \in [Jobs -> {"none", "running", "ended"}]

\* The limits of a pool, and no worker of it idle while a job waits (handle_call,
\* maybe_start_next, enqueue, dequeue_job): queue_depth, which all of them go by, is the
\* number of jobs in the three queues.
WithinLimits ==
    \A p \in Pools :
        /\ Cardinality(active[p]) <= Size[p]
        /\ depth[p] <= QueueMax[p]
        /\ depth[p] = Len(queues[p]["high"]) + Len(queues[p]["normal"])
                        + Len(queues[p]["low"])
        /\ depth[p] > 0 /\ refilling # p => Cardinality(active[p]) = Size[p]

\* A call is never lost and never answered twice, whichever of its result, its two
\* timeouts, the end of its task and the end of its caller come first: a call that was
\* taken in has one answer, or it is in exactly one place, or its caller is gone.
AnsweredOnce ==
    \A j \in Jobs :
        LET handled == caller[j] # "idle" /\ Msg("run", j) \notin inbox
            places == {i \in DOMAIN Queue(j) : Queue(j)[i] = j}
        IN  /\ Cardinality(places) + (IF IsActive(j) THEN 1 ELSE 0) + Len(answers[j]) <= 1
            /\ handled /\ caller[j] # "dead" =>
                 IsActive(j) \/ IsQueued(j) \/ answers[j] # <<>>

\* A worker is never lost: what holds it runs, or its end is on its way to the
\* coordinator; what does not hold one does not run; a job that waits has a timer.
NothingIsStuck ==
    \A j \in Jobs :
        /\ task[j] = "running" => IsActive(j)
        /\ IsActive(j) => task[j] = "running" \/ Msg("task_down", j) \in inbox
        /\ IsQueued(j) => Msg("queue_timeout", j) \in timers \cup inbox

\* configuration.md: "completion counters, timeout counters, and latency histograms
\* remain event-driven and exact": they say what became of every call that was taken in.
CountersExact ==
    \A p \in Pools :
        LET Ended(as) == {j \in Jobs : PoolOf[j] = p /\ \E a \in as : answers[j] = <<a>>}
            started == {j \in Jobs : PoolOf[j] = p /\ task[j] # "none"}
            cancelled == {j \in Jobs : /\ PoolOf[j] = p
                                       /\ caller[j] = "dead"
                                       /\ Msg("run", j) \notin inbox
                                       /\ answers[j] = <<>>
                                       /\ ~IsActive(j) /\ ~IsQueued(j)}
        IN  /\ count[p].started = Cardinality(started)
            /\ count[p].completed = Cardinality(Ended({"result", "task_failed"}))
            /\ count[p].rejected = Cardinality(Ended({"queue_full"}))
            /\ count[p].queue_timeouts = Cardinality(Ended({"queue_timeout"}))
            /\ count[p].execution_timeouts = Cardinality(Ended({"execution_timeout"}))
            /\ count[p].cancelled = Cardinality(cancelled)

Rank(j) == CASE PriorityOf[j] = "high" -> 1 [] PriorityOf[j] = "normal" -> 2 [] OTHER -> 3

Before(j, k) ==
    \/ Rank(j) < Rank(k)
    \/ /\ Rank(j) = Rank(k)
       /\ \E i, n \in DOMAIN Queue(j) : i < n /\ Queue(j)[i] = j /\ Queue(j)[n] = k

\* Nobody overtakes a job k that waits and goes on waiting: who comes later gets behind
\* it unless its priority is higher, who is behind it stays there (pop_next,
\* take_from_queue), and who is started was before it, so nobody who comes in is started
\* at once (handle_call).
NoOvertaking ==
    [][\A j, k \in Jobs :
         PoolOf[j] = PoolOf[k] /\ j # k /\ IsQueued(k) /\ IsQueued(k)' =>
           /\ ~IsQueued(j) /\ IsQueued(j)' => Rank(j) < Rank(k) \/ Before(k, j)'
           /\ IsQueued(j) /\ IsQueued(j)' /\ Before(k, j) => Before(k, j)'
           /\ ~IsActive(j) /\ IsActive(j)' => IsQueued(j) /\ Before(j, k)]_vars

\* A request is never queued for good, not even when every worker hangs: configuration.md,
\* `server_busy` "when a queue is full, a queued request waits past its timeout".
NeverQueuedForGood == \A j \in Jobs : IsQueued(j) ~> ~IsQueued(j)

\* The function of j ends, and those of the jobs it waits for.
Ends(j) == \A k \in Hanging : k # j /\ Parent[k] # j

\* Every caller whose own function ends has its answer in the end, when it holds a worker
\* of one pool while it waits for another (bounded_load within a job) and when others
\* hang on the workers it needs, too.
EveryCallAnswered == \A j \in Jobs : Ends(j) => (Waiting(j) ~> ~Waiting(j))
=============================================================================
