# SOY: a TLA+ model of the mission service

SOY takes a *mission* (an issue, a description) through planning, approval,
execution by AI agents, review and merge.  It is a FastAPI program over one
SQL database, with a worker on thread pools, an in-memory event bus and
WebSocket subscribers.  This directory holds TLA+ modules of its core logic,
the TLC configurations that check them and the proofs TLAPS checks.

Paths below are relative to the root of the repository; `PROJECT.json` gives
the lines each definition was written from.

## 1. Inventory

| Part | State it keeps | Operations | What makes it hard |
|---|---|---|---|
| State machine (`state_machine.py`) | none | `can_transition`, `should_escalate` | consulted by some writers of the status and not by others |
| Mission endpoints (`api/v1/missions.py`) | `missions` row (status, branch, metadata blob), `approvals` | create, transition, reject, approve, update, delete | read, decide, write at commit; counters and gate flags live in one JSON blob that is written whole |
| Webhook and creation (`api/v1/webhooks.py`, `create_mission_from_ingestion`) | two unique indexes | idempotent insertion | concurrent deliveries; which of two violated indexes is reported |
| Control dashboard (`api/v1/control.py`) | the same row | refine, research, verify, review-plan, start-execution, auto-run, branch, commit, merge | never locks the row; waits for agents between reading and writing |
| Worker, attempts (`services/praisonai_worker.py`) | `tasks`, `executions`, mission status | `execute_task` | three sessions per attempt, persisted budget and loop index, crash, overlapping calls, events around commits |
| Worker, mission run (same file) | two thread pools | `execute_mission_tasks` | dependency graphs, nested pools, timeouts that cannot interrupt |
| Event bus, WebSocket (`ws/events.py`, `api/v1/websocket.py`) | registry, one bounded queue per subscriber | register, publish, enqueue, drain, cleanup | worker threads beside the event loop; eviction; disconnects while idle |
| Agent construction (`_build_praisonai_agent`, `services/model_resolver.py`) | the process environment | resolve, save, set, construct, restore | several threads at once; a constructor that raises; planning reads the same variable |
| Request handling (`db.py`, `main.py`, every endpoint) | the event loop, the connection pool, row locks, one session per request | begin, connect, lock, commit, refresh, close | plain functions run in threads, the webhook and the WebSocket handshake hold the loop while they wait for the database; sessions are closed by the loop; the worker opens sessions beside that of its request |
| Git services (`services/git_service.py`, `git_backend.py`) | per mission a clone with its one HEAD and index, and one worktree | clone, branch, commit, merge, worktree | two systems changed one after the other; git commands of several requests in one directory, without a lock |
| Dispatcher, planning trigger, Mission Control sync, DeerFlow | none | a subprocess or an HTTP call with a time limit | outcome only |
| Agents, executions, logs endpoints; configuration, authentication, logging, migrations | rows created once | create, list | no protocol |
| Web dashboard (`web/`) | browser state | poll, show | the server does not rely on it |

Interactions.  All endpoints and the worker share the `missions` row; the
mission endpoints take its lock with `SELECT ... FOR UPDATE`, the others do
not.  The worker publishes on the bus, which hands events to the event loop.
The worker escalates missions.  Control and the webhook run git commands in the
mission's clone, the worker's coding tasks in its worktree.  Endpoints and worker
draw on one connection pool; the sessions of requests are closed by the event
loop.

The hazards, each at its line and with the properties aimed at it, are in
`PROJECT.json`.

## 2. Modules

```
StateMachine <- MissionRow <- Missions <- Control        (one mission row)
StateMachine <- MissionLifecycle   abstract; Missions implements it
TaskRetry                          one task
TaskLife                           abstract; TaskRetry implements it
TaskGraph                          the tasks of one mission, two pools
EventBus                           publishers, loop, subscribers
EventStream                        abstract; EventBus implements it, once for each subscriber
Ingestion                          the missions table and its indexes
GitWork                            one mission's clone, worktree and git columns
Server                             event loop, connection pool, row lock
AgentEnv                           the API key in the environment
```

Theorems and proofs are in modules of their own, one per system: `Missions_proofs`
(of `Missions` and `Control`), `TaskRetry_proofs`, `TaskGraph_proofs`,
`EventBus_proofs`, `Ingestion_proofs`, `GitWork_proofs`, `Server_proofs` and
`AgentEnv_proofs`, each extending the module it is about.

The `MC*` modules hold the constants and symmetry sets of the runs.  Definitions
commented "Faulty variant" belong to no specification; each is a slip the
code might have made and is used to show that a property notices it.

### One mission row: StateMachine, MissionRow, Missions, Control

`row` is the committed row: existence, status, whether a branch is set, and the
three keys of the metadata blob that guards read (`planning_complete`,
`review_passed`, `rejection_count`).  The rest of the blob (histories, git
details, `audit_passed`, which refuses nothing) matters only in that it is
written together with them.  `approvals` is the set of gates approved, `lock`
the holder of the row lock, and `call[p]`, `read[p]` what request `p` was asked
and the row as its session loaded it.

A handler is an opening step and a deciding step.  `OpenLocked` waits for the
lock and reads; `OpenUnlocked` only reads.  The deciding step evaluates the
guards on `read[p]` and commits with `Flush`, which does what SQLAlchemy's unit
of work does: only columns whose value differs from the one loaded are
written, and the metadata column as a whole when it was replaced.  Stale
columns are therefore *not* written back, and a stale blob is.  `MayWrite`
makes an UPDATE or DELETE wait for a lock held by another session.  `Abort` is
every way a session is rolled back: a failed commit, a git command that
raised, a lost connection.  `RowLocks = FALSE` is SQLite.

`Missions` has the locked endpoints, with both hops of reject in one write and
the 4th rejection.  `Control` adds the writers that do not lock: every writing
endpoint of `control.py`, the git records of the worker and the webhook, and the
worker's escalation.  What an agent or git does is a choice of outcomes.  The
autonomous run keeps one session over three commits, so its copy goes stale
while it works.  `Serves[p]` says which operations a run gives to request `p`.

`rejections` is a history variable: reject calls answered with success.

### One task: TaskRetry

`pc[r]` follows run `r` of `execute_task` through its sessions: guard on the
loaded row, count and commit, work, a second session that loads the row again
and decides, and its commit.  `seen[r]` is the row the current session loaded;
as above, only columns whose assigned value differs are written.  Two budgets
are there as in the code: the loop index `attempt[r]` and the persisted
`task.count`.  Events are appended where the code publishes: escalations
before the commit, completions after it.  `Crash` kills every active run and
nothing resumes them; `Raise` is an exception that ends one run wherever it
stands (a session that fails, a workflow that cannot be built); both count as
`faults`.  `DeleteMission` takes the task away while runs are under way, and
`MissTask` is what each session then meets.  `Overlapping` says whether two calls
of `/execute` for one task may overlap; nothing in the code prevents it, and the
run with `FALSE` shows what holds for clients that wait.  `AgentsVanish` enables
the branch for a missing agent row, which the worker defends against although
no endpoint deletes agents.

`TaskLife` is what all this comes to for a reader who does not know of runs,
sessions and loop indices: a task is open until it is completed, escalated or
deleted, and that is final; its attempts follow each other and each is on record
with its outcome or is lost; recorded and lost attempts spend one budget; what
is announced is an outcome that is, or is about to be, recorded.  `Outcome`,
`Phase`, `Record`, `Lost` and `Told` in `TaskRetry` are the mapping.  A crash or an
exception is seen only by the attempt it loses, a new run not at all.

### The tasks of a mission: TaskGraph

The layering loop, the dependency gate of each layer, and the states of a
task between the fan-out pool and the workflow pool.  A timeout counts from the
submission, cancels a workflow that has not started, and otherwise leaves its
thread occupied (`leaked`).  `Raise` is an exception out of `execute_task`: the
call catches it from a future, and ends with it when it is not `parallel`.
`AnyGraph` also admits cycles and unknown dependencies, which the API refuses
and the worker handles all the same.

### Events: EventBus

`Publish` takes the snapshot under the registry's lock; `HandOff` is one
`call_soon_threadsafe`; `Enqueue` runs on the loop and evicts from a full queue;
`Connect`, `Hello`, `Drain`, `Wake`, `Send`, `Fail`, `Cancel` and `Cleanup` are the
coroutine of a subscriber, between two awaits at a time; `Receive` is its
background receive task.  `sent` and `lost` are histories.

`EventStream` is the same to one subscriber: a bounded stream in which the
events it asked for wait in order, and from which only the oldest is dropped and
only when more than a queueful wait.  The mapping (`Stream(c)`) appends the events
handed to the loop and not yet enqueued to those in the queue, so `HandOff` is the
abstract step and `Enqueue` is a drop or nothing.

### Creation: Ingestion

`Find`, `Insert` and `Again` are the lookup, the insertion and the lookup after a
unique violation; `Violated` is the pair of unique indexes, and the database
may report either of those violated.  `Delete` and `Move` (a PUT that changes
`repo_url` or `branch_prefix`) interleave.  The webhook is a coroutine that never
awaits between its lookup and its answer, so deliveries exclude each other
(`LoopIsFree`); POST /missions runs in threads and is excluded by nothing.

### Git: GitWork

`branches`, `head`, `commits`, `staged` and `dirty` are the mission's clone,
`tree` its worktree with the branch it was made for, and `row` the three facts the
row keeps of them: the name the branch is to have (`branch_prefix`, or the default
made of the issue), the branch on record, and whether it is merged.  A piece of
work is named for the request or the task that made it, so `commits[b]` says
whose work a branch contains.  Each git command is an action, and so is the
commit of the row that follows it: `Clone`, `SwitchBranch`, `CommitSpec` for the
webhook; `CreateBranch`, `CommitAll`, `CheckoutTarget`, `MergeBranch` for the
dashboard; `CreateWorktree` and `CommitAndPush` for tasks; `RecordBranch` and
`RecordMerge` for the row.  What git decides is in the guards: no branch twice,
no empty commit, one place per branch.  `GitRefuses` is any command that fails
for another reason, `MergeConflicts` one that leaves work in the index, `Crash`
the end of the process between two commands.  `ParallelTasks` says whether coding
tasks of the mission may be in one layer.

The name of the branch changes: by a PUT at any time (`PutName`), and by an
autonomous run, which writes the name it was sent before anything else (`Begin`
with `Rename`) and reads the row again (`LoadName`).  A request goes on with the
name it read, `name[p]`, whatever the row says since, while `head` is what the
clone has checked out, by whomever.  A name may also be `main`.

A delivery of the webhook holds the event loop through its git commands, so that
deliveries follow each other (`LoopIsFree`); all other requests begin and go on in
their threads.

The clone is the one below the configured directory, which all these callers
use; an autonomous run on a mission whose `repo_url` is a local path works in that
path instead and is not modelled.  There may be a clone at the start, left by a
webhook that got no further.

### What requests wait for: Server

`pc[r]` follows the handler of request `r` from its first statement to the end of
`get_db`, `thread[r][t]` the worker's threads on its behalf.  `own` is the set of
requests whose own session has a connection; `Open` counts those and the
worker's.  The loop is free only between handlers that are coroutines:
`Begin` and `CloseRequest` are steps of the loop, and `webhook` and `socket`
occupy it through their database calls (`kind` says which endpoint a request
is for).  Commits give connection and lock back, a refusal keeps both until
`CloseRequest`; most handlers refresh after their commit and queue for a
connection again.  Writers wait for the row lock, which has no time limit;
the pool gives up after thirty seconds (`PoolTimeout`, `ThreadTimeout`).  One
mission's lock is enough for one circle of waits; what the handlers decide is in
the other modules.  `Ready(r)` writes out when some step of `r` other than a
timeout is possible, so that waiting can be reasoned about without `ENABLED`.  A write waits at a point of its own
(`SendWrite`, then `Write`): once it is sent there is no way back to having nothing
to write.

### The environment: AgentEnv

One thread per construction: `Resolve`, `Snapshot`, `Export`, `Construct`,
`Restore`, each reading or writing `OPENAI_API_KEY`, and `Raise` between the last
two, which skips the restoration.  `TriggerPlanning` stores whether a key is set.
`overlapped` and `disturbed` are histories: which constructions met another, and
whether any ever met or raised.  `Empty` and `Unset` differ, since the code
puts an empty key back as it was and removes one that was not set.

## 3. Runs that pass

| Run | Question | Bounds |
|---|---|---|
| `missions_locked` | Do row locks make the mission endpoints atomic? None of their rejections is lost, the fourth escalates, merged is gated, and `MissionLifecycle` holds as the abstract specification, with its gates of execution and of merged and its edges. Clients set and delete `planning_complete` at will. | 3 requests, 6 rejections |
| `control` | What survives beside writers that do not lock? The holder of the lock still reads the current row (`LockedReadIsCurrent`), its own write is still legal and gated (`LockedChangeIsLegal`), rejections can be lost but not invented (`NeverOverCounted`), and nothing is merged without a branch on record or an approved merge (`MergedForCause`). `LockingAndUnlocked`: `p1` is a request of an endpoint that locks (or a DELETE) or dispatches an agent, `p2` one of any endpoint that does not lock. | 2 requests at a time, any number in sequence, 2 rejections |
| `retry_crash` | Do task, execution rows, events and mission agree in every state, whatever crashes or raises, also when the mission is deleted under the run, and do they come to the abstract `TaskLife`? Attempt numbers start again, and the budget is exceeded, only by faults; every run ends, and an outcome is announced unless a fault or the deletion comes between. | 3 runs in sequence, 2 faults |
| `event_bus` | Order, accounting and bound (in `TypeOK`); is the bus an `EventStream` to each subscriber, eviction included; are subscribers released and events delivered? | 2 publishers of 2 events, queue of 2 |
| `graph_layers` | Dependencies first, skips with cause, and the call returns, for every graph, parallel and not; and no workflow waits for a timeout to get a thread. | 3 tasks, 1 attempt, pools of 2 |
| `ingest_races` | One mission per key in every race (`OneMissionPerKey`), and no delivery is refused because of another delivery (`RedeliveriesAreSafe`). | 2 deliveries, 2 POSTs, 2 branches |
| `git_work` | Whose work ends up where? What a failed attempt leaves in the shared worktree stays out of every branch (`FailedWorkStaysOut`); two autonomous runs are never at work for one branch, although nothing locks the clone (`OneRunPerBranch`); the branch on record, and the one a task or a merge goes on to use, exists whoever changes the name (`RecordedBranchExists`); and while all requests are about one branch, what an autonomous run reports as merged is in main (`AutoRunWorkIsMerged`). | 2 requests, 2 tasks in sequence, 3 names, one of them `main` |
| `server` | Who waits for whom? The holder of the row lock never needs the pool (`LockHolderNeedsNoPool`); when nothing can go on without a timeout it is for one of three named causes (`NoOtherCircle`); every request is answered, except in the one deadlock `LoopLocked` (`RequestsAreAnswered`). | 3 requests at a time, 2 threads, pool of 2 |
| `agent_env` | What can constructions that overlap, or raise, disturb? A key the operator set as `OPENAI_API_KEY` never changes and every agent and planning get it; without one, only overlap or an exception leaves something behind (`EnvironmentKept`, `KeysAreTrue`); a construction that met no other finds its own key (`ConstructorSeesItsKey`). | 3 threads, any number of constructions |

Why the bounds are enough.  A race on the row needs two sessions; the third in
`missions_locked` waits while another holds the lock.  Six rejections go past the
threshold of four and past the states it leads to; `control` asks whether one is
lost or invented, not when the threshold is met, and needs a second one to be
counted on top of the first.  Two publishers of two events fill a queue of two and evict
twice, and order is about two events of one publisher.  Three tasks make chains,
forks, joins and cycles, and three runnable tasks exceed the pools of two.
Three runs of a task with two faults reach a count beyond `MAX_ATTEMPTS`.
Three requests are one that holds the row, one that holds the loop and one that
fills the pool of two, which, like the code's pool of fifteen, has room for one
session beside the worker's or none.  Two threads overlap in the environment; the
third finds what two that overlapped left there.  In the
clone, one request may move HEAD, take the name or commit between two commands of
another, and two names are one that a request read and one that the row has since;
two tasks are one that leaves work behind and one that commits.  A third request
would bring a webhook or a commit beside two others, which takes longer than a run
may here; the theorems are for any number of requests, tasks and names.
`MaxRejections`, `MaxFaults` and `MaxEvents` are the only counters cut off; each is
a guard on an input, never on a reaction of the program.  In `control` two
requests that do not lock meet when one of them dispatches an agent and does
nothing else; two that both change the status or the branch do not.  The
theorems of that run are for any requests.

Deadlock is checked in `agent_env`.  Elsewhere it is not: `Server` has the deadlock
`LoopLocked`, which its properties name, and the other systems stop when their
bounded inputs are used up; that nobody waits for ever is stated by the
liveness properties.

## 4. Runs that show a disagreement

Each checks one statement of the documentation or a comment, and TLC finds it
violated by what the code does.  `PROJECT.json` quotes the line.

| Run | Statement | What happens |
|---|---|---|
| `refine_loses_rejection` | the 4th rejection escalates | an agent endpoint writes its old blob back |
| `overlap_reopens_task` | a finished task is never re-run or reset | an overlapping run resets it |
| `worktree_refused` | a coding task gets a worktree of the mission's branch | the branch is checked out in the clone by whoever made it, and git checks a branch out in one place |

`FourthRejectionEscalates` holds in `missions_locked` and fails here in the
presence of writers that do not lock.  `FinishedIsFinal` is proved for calls of
`/execute` that follow each other (`FinishedTasksStay`; it is also part of
`TaskLife`, which `retry_crash` checks) and fails here because they overlap.

Further disagreements between the code and its words, readable from the
definitions named and not run:

- `webhooks.py:76-78` calls the git step of the webhook best-effort and never
  failing the response.  In `LoopLocked` it never returns, and the whole server
  with it: the webhook, on the event loop, waits for the row lock at
  `git_service.py:167`; the holder is a request that was refused, whose session
  only the loop can close (`main.py:147` has the liveness probe say that the
  service is up; it runs on the same loop).  `RequestsAreAnswered` excepts this
  state and no other, and `NoOtherCircle` names it.
- `praisonai_worker.py:702-706` and `729-730` restore the environment "so concurrent
  threads never see a stale / cross-pollinated endpoint".  With `OPENAI_API_KEY`
  unset they do: one that resolves its key between another's `Export` and
  `Restore` takes the other's, and one that takes its snapshot there puts it back
  for good (`disturbed`).  A constructor that raises leaves it set.
- `model_resolver.py:112-116` never gives a cloud model the placeholder; found in
  the environment of an overlapping construction it does (`KeysAreTrue` says
  when).
- `missions.py:191-207` recovers from the index on the key; POST /missions beside a
  delivery of the same issue may violate the index on the branch first, and one of
  the two is answered 409 (the antecedent of `RedeliveriesAreSafe`).  Deliveries
  alone are safe, as `README.md:142-143` says.
- A request may be answered 500 although it has committed: the refresh after the
  commit asks the pool for a connection again (`PoolTimeout` at `reread`).
- `missions.py:87-90` calls locking on SQLite identical; there `OpenLocked` locks
  nothing (`RowLocks = FALSE`) and a stale blob overwrites the rejection counter.
- `missions.py:431-433` says the counter survives updates; a PUT may delete the key
  (`Merged`, with `rejection_count` among `ClientKeys`).
- `README.md:135` gates merged on an approval and `README.md:90-91` has every
  transition validated; `MergeBranch`, `AutoRunMerge` and `StartExecution` write the
  status without asking the state machine.
- `control.py:549-550` says start-execution sets `planning_complete`; from approved
  `StartExecution` does not.
- `README.md:239` gates execution on the review; `TransitionAllowed` asks for no review.
- `missions.py:566-571` describes an audit gate on merged; the code has none.
- `README.md:177-185` skips straight from created to execution; there is no edge.
- `state_machine.py:57-58` calls merged terminal; `Escalate` decides on its own copy,
  which may be older than the merge.
- After overlapping runs a task may stay pending with its budget used up, although
  `README.md:200-202` has it escalated after three failures.
- `models/execution.py:8-9` has attempt numbers increase and
  `praisonai_worker.py:1120-1124` has resumed runs honour the budget; after a crash
  numbers start again and a fourth attempt may start (`AttemptsRestartByFault`
  and `BudgetHonoured` say exactly how far).
- `README.md:97-99` puts events after every state change; escalations are published
  before their commit (`Fail`), `mission.escalated` also of a merged mission.
- `README.md:135` and `README.md:274-275` have the pull request squash-merged;
  `open_pr` runs `gh` in the directory named after the branch, clones are named
  after missions, so no pull request is opened and none recorded
  (`RecordSuccess`).
- `praisonai_worker.py:1280` says of a failed commit that "the work was done";
  the next attempt removes the worktree with it (`CommitRaises`, then
  `CreateWorktree`).
- `control.py:608` has an autonomous run make the branch; after the webhook's git
  step the branch of that name exists, and a run whose request carries no other
  name in `branch_prefix` ends there (`CreateBranch`).
- Two autonomous runs that are sent different names (`control.py:631-633`) both make
  a branch, and their agents work in one clone.  One that reports a merge may not
  have its work in main: a webhook leaves a commit on the branch; a run makes fA,
  which has that commit, and its agent works; a second run makes fB, and HEAD moves
  there; the first commits, to fB, then checks main out and merges fA, which brings
  the webhook's commit only, and answers merged (`CommitAll`, `MergeBranch`).
  `OneRunPerBranch` says what the creation of the branch does exclude, and
  `AutoRunWorkIsMerged` assumes `OneName`; without it TLC finds runs that do this.
- `POST .../merge` with strategy merge says merged when a webhook moved HEAD to
  the feature branch between its two commands (`MergeBranch`), and a commit
  after a failed merge goes to main (`CommitAll`).  `AutoRunWorkIsMerged` is about
  autonomous runs for this reason.
- Coding tasks of one layer share a worktree; one that starts removes what the
  other is writing (`ParallelTasks = TRUE`).  The docstring promises isolation
  from the clone alone, so no run contradicts it; `FailedWorkStaysOut` holds for
  coding tasks that follow each other.
- `tasks.py:297-298` says execute-all waits for terminal statuses; a skipped task
  stays pending (`SkippedForCause`).

## 5. Proofs

Every invariant and every action property of a passing run is also a theorem,
for any number of requests, tasks, runs, subscribers, events, connections and
threads and any value of the bounds.  The
assumptions beside the `ASSUME`s of the modules are:

| Assumption | Needed for | Why it is there |
|---|---|---|
| `RowLocks` | what depends on the row lock in `Missions` and `Control` | the database is PostgreSQL; on SQLite the properties fail (section 4) |
| `"rejection_count" \notin ClientKeys` | the counter in `Missions`, and so the refinement | a PUT may set or delete the key, and then the counter is what the client says |
| `~Overlapping` | `TaskRetry`, but its types; so also `LifeIsImplemented` | two calls of `/execute` for one task do not overlap; with `Overlapping = TRUE` TLC refutes the properties (`overlap_reopens_task` is one of them) |
| `~ParallelTasks` | `FailedWorkStaysOut` | coding tasks of a mission depend on each other; when they run at once they share the worktree, and with `TRUE` TLC refutes it |
| `~GitEnabled` | `NoLoopLockWithoutGit`, and nothing else | the setting as it ships; with git enabled `LoopLocked` happens |

The `ASSUME`s say what kind of thing each constant is and keep the model's
markers (`NoRequest`, `None`, `Duplicate`, `Wildcard`) apart from its data; a pool,
a queue and a budget have room for one.  TLC evaluates all of them.

An invariant is seldom inductive alone.  What had to be added says why the code
works, and is the part worth reading:

- **The mission row** (`MissionInv`).  A deciding step writes what it made of
  `read[p]`, so one must know that `read[p]` is the row: every open session holds
  the lock, hence there is at most one, and its copy is the row, since everyone
  else who could write waits.  With that `Flush` of a locked copy is the new row
  (`FlushOfCurrentCopy`), each endpoint has an effect lemma, and the data
  invariants follow from the effects.  `FourthRejectionEscalates` needs
  `RejectionsCounted`, and that no edge leaves escalated.  `Refinement` reuses the
  effects: every deciding step is one step of `MissionLifecycle`, opening and
  refusing are stutters.
- **Beside writers that do not lock** (`CountInv`, `LockInv`).  `NeverOverCounted`
  needs no lock at all: neither the row *nor any session's copy* counts more
  rejections than were answered, so whoever writes an old blob back writes one
  that is too small.  `LockedReadsStayCurrent` and `LockedChangesAreLegal` rest on
  the lock being held by exactly the open sessions that asked for it, which is
  how "holds the lock" replaces "is open" of the argument above.
- **Merged for a cause** (`CauseInv`).  That a merge looked at a branch in a copy
  of the row says something of the row only because no writer ever takes a
  branch away: a copy that has one implies that the row has one, for as long as
  the session lives.  An autonomous run that goes on after its first commit has
  made the branch and carries it in its copy (`RunGoingOn`).  No lock is needed,
  so `MergesHaveACause` also holds on SQLite.
- **Attempts of a task** (`RetryInv`).  At most one run is active, and the row is
  what its stage says (`RowFollowsRun`), so the commit of the outcome writes over
  what it has read.  The loop index never is ahead of the persisted count
  (`CountFollowsRun`), which bounds the attempts by the count and the count by
  budget and faults.  For the restarts of the numbering, every place where the
  numbers of consecutive rows do not grow was paid for by a fault, and unless one
  more fault is in hand a run is about to record a larger number (`Restarts`).
  `TypeCorrect` has a smaller invariant of its own and covers overlapping runs.
  `LifeIsImplemented` maps every step of a run to one of `TaskLife` or to nothing:
  `RowFollowsRun` gives the phase, and that the count is the attempts on record,
  the lost ones and the present one is what makes the mapped guard of the budget
  the one the code evaluates.
- **The mission run** (`GraphInv`).  Layers are disjoint and with `remaining` make
  up the tasks (`LayersPartition`); a layer depends on earlier ones only, or is
  the cyclic rest of which every task waits for another of the rest; the layers
  before the current one are settled (`LayersInOrder`).  Of `CallReturns` two
  halves can be proved without fairness.  `CallsAreNeverStuck`: until the call has
  returned, the guard of one of its own steps, of a timeout or of an agent's
  answer holds, so there is no deadlock between the layers, the fan-out and the
  workflow pool.  `NoStepGoesRound`: no step takes a task back in a rank that is
  bounded by the retries, and every step takes a task or the call forward or is
  the return of a timed-out agent.
- **Events** (`BusInv`).  Of each publisher what a subscriber was sent, has taken,
  in its queue and is being handed, in this order, was published in this order
  (`Behind`), and what was evicted was published before what is waiting.
  `NoSilentLoss` needs that the numbers given to a subscriber have no gap up to the
  last one handed over (`NoGap`), which is the publisher's count or, for those it
  still has to serve (`Publishing`), one less.  `StreamsAreImplemented` needs
  `Aimed`: a publisher still has to serve only subscribers that asked for its
  event.  `Enqueue` then maps to a drop when the queue is full, for the oldest of
  the queue is the oldest of all that wait.
- **Creation** (`IngestionInv`).  The indexes hold, ids are 1 to the number given
  out, and whoever was answered a mission had sent its key.  `RefusedForCause` is
  an action property: while a delivery is between lookup and insertion, a mission
  with its key can only be the work of a POST.
- **Git** (`GitInv`, `TaskInv`).  Only branches that exist have work, each but main
  was named by a request, and row, worktree, tasks and merges name such branches
  (`KnownNames`): what is recorded is the name that was read, and branches are
  never deleted.  That is `RecordedBranchExists`.  An autonomous run past the
  creation of its branch is the only one of that name (`OneHasCreated`).  While all
  requests are about one branch (`OneName`), the index has only what is on that
  branch (`IndexFromBranch`), so that a squash of the branch into itself is refused;
  once a run has committed, its work is not dirty any more, and once it has merged,
  its work is in main or was on no branch and not in the index
  (`RunLeavesNothing`).  For tasks: the worktree has work of the task at work only,
  and a task whose work is in a commit stands after the commit.
- **The pool** (`ServerInv`, `Placed`).  The three sets `Open` counts are finite and
  together never larger than the pool; whoever asks for the lock or has it has a
  connection.  `NoOtherCircle` needs in addition where each handler may be
  without or with its connection (`Seated`); then, if nobody is ready, a holder
  of the lock has returned and waits for the loop, and a full pool is full of
  sessions that wait for the lock, the loop or a second connection.
  `OnlyLoopLockedLasts` is the half of `RequestsAreAnswered` that needs no fairness:
  outside `LoopLocked`, whenever a request is under way, one can go on or may
  time out.  `NoLoopLockWithoutGit` says when `LoopLocked` is impossible: the only
  handler that asks for the row lock on the loop is the webhook's git step, which
  is skipped unless `SOY_GIT_ENABLED` is set, and it is not by default.
- **The environment** (`AgentInv`).  The key in the environment is one the
  environment could have got (`OnlyPossible`); as long as nothing overlapped or
  raised there is one construction at most, and its stage says what the
  environment and its snapshot are (`Stages`).

Nine theorems state what no passing run repeats.  The types of `Missions`,
`TaskGraph` and `GitWork` hold in every state their invariants are checked in;
`FinishedTasksStay` and `NewestAreKept` (what was evicted is older than all that
waits) are parts of refinements that are run; `CallsAreNeverStuck`, `NoStepGoesRound`, `OnlyLoopLockedLasts` and
`NoLoopLockWithoutGit` are formulas about the shape of a state or a step that
liveness properties of the runs rest on.

What stays with TLC, for good: the liveness properties (`EveryRunEnds`,
`EveryOutcomeIsAnnounced`, `SubscribersAreReleased`, `EventsArrive`, `CallReturns`,
`WorkflowsGetThreads`, `RequestsAreAnswered`), since the installed provers handle
neither fairness nor `ENABLED`; and of course the three runs that show a violation.

## 6. Fairness

- `Server!FairSpec`: for each request, strong fairness of its next step or its
  time limit, taken together.  A handler whose statement can go on does; strong,
  because connections and the row lock are taken and released again and again
  while one waits, and the pool, the database and the loop serve their waiters in
  turn.  Agents and git commands, whose time limits end them, are not told apart
  from other steps.  Clients are under no obligation to call.
- `TaskRetry!FairSpec`: weak fairness of each run's next step; an attempt ends by
  its timeout at the latest.  Nothing is said of faults, deletions or new calls, and
  a run that a fault cuts short is owed nothing.
- `TaskGraph!FairSpec`: weak fairness of the steps the call and its fan-out threads
  take by themselves: layering, opening a layer, taking a task up, submitting
  its workflow.  What it owes to others is an antecedent of the property.
  `CallReturns` assumes that timeouts fire (`TimeoutsFire`), not that agents
  return.  `WorkflowsGetThreads` assumes that agents, and timed-out agents,
  return and that the pool serves its queue first in, first out
  (`AgentsReturn`), and no timeout, so that a deadlock between the pools would
  not be hidden by one.
- `EventBus!FairSpec`: threads and the event loop run, and a send completes or
  raises.  Nothing is said of connecting, publishing or disconnecting.

## 7. Not modelled

- The contents of what agents write; pull requests and pushes, for the reasons in
  sections 2 and 4.
- The base URL in the environment, which is only ever set to what it resolves to
  already; model names.
- The first construction of engine, session factory and worker.  The code would
  allow a race (`get_engine` sets two globals without a lock), but
  `install_as_publisher` builds all of them at import (`main.py:142`), before
  there is a second thread.
- Autonomous runs on a mission whose `repo_url` is a local path, which work in that
  path.
- The git records inside the blob: no guard reads them but that of the merge of a
  pull request, and no pull request is ever opened.
- The other columns of the row, list and get endpoints, response bodies.
- Authentication, signature and input checks: they refuse a request before it
  has any effect.
- Mission Control and DeerFlow calls: after the commit, never raising, no state.
- The rows of agents and tasks as such (what their creation waits for is in
  `Server`), logs, configuration, migrations, the web client.

## 8. State of the work

Done: the mission row first, since every other part writes it; then the
worker's attempts with their faults, the event bus, the mission run, creation,
git, what requests wait for, and the environment; the abstract specifications of
the mission, of one task and of one subscription, and their refinements; the
proofs of every safety property that a passing run checks; the safety halves of
two liveness properties.

Left: a bound on the pool that excludes the second and third cause of
`NoOtherCircle`.  Sessions of the worker come on top of those of the requests and
the number of either is unlimited, so there is none without a limit on requests,
which the code does not set.  The liveness properties are left to TLC for the
reason given in section 5.

A composition of `TaskGraph` with several `TaskRetry` tasks was weighed and left:
the two share only what a call returns for a task, which `TaskGraph` has as a
choice over every value `TaskRetry` allows.

## 9. Running

```
tlc -config missions_locked.cfg MCMissions.tla
tlapm Missions_proofs.tla        # and the other *_proofs modules
```

`PROJECT.json` names the module of each run.
