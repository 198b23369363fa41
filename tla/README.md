# Scheduler MCP server: TLA+ models and proofs

This directory holds TLA+ models of the scheduler MCP server, the TLC
configurations that check them on small instances, and TLAPS proofs of their
main invariants for every size. Paths such as `worker.py:293` are relative to
`src/src/scheduler_mcp/`.

## The system

A server process offers REST, A2A and MCP endpoints over one database, runs a
*tick loop* that turns due schedules into runs, and a *worker* that dispatches
queued runs to target adapters. Several processes may share the database and
the cache; each has its own in-memory job queue.

| Component | State | Operations | Interacts with |
|---|---|---|---|
| Schedules (`api/schedules.py`) | `schedules` rows: status, paused, enabled, trigger, `next_fire_at`, `approval_status` | create, patch, delete | read by the tick, the run handlers and the worker |
| Tick (`tick.py`, loop in `worker_lifecycle.py`) | none between ticks | `tick_once`: lock, scan, insert runs and submit jobs, advance, commit, release | leader lock, trigger engine, job queue |
| Leader lock (`leader.py`) | the cache key `scheduler:leader` with a time to live | `acquire`, `release`, `renew` (no caller), the contend probe of `/health/leader` | tick loops of all processes |
| Trigger engine (`trigger.py`) | none | `compute_next_fire` | create and patch, tick |
| Runs (`api/runs.py`, A2A and MCP run_now) | `schedule_runs` rows | trigger, run_now, retry, cancel, delete | job queue, worker |
| Job queue and worker (`jobs.py`, `worker_lifecycle.py`, `worker.py`) | queue in memory; the run being dispatched | claim, decide, execute, record the outcome | adapters, approval gate |
| Approvals (`api/approvals.py`) | `approval_requests`, the schedule's gate | request, grant, reject | dispatch reads the gate |
| Chains (`chain.py`, `adapters/chain.py`, `api/chains.py`) | chain definitions and versions | compile, execute, create, patch, delete | chain adapter, A2A, REST |
| Planner (`api/nl_chain.py`) | one conversation with a language model | plan, repair, confirm | stores chains |
| Context (`api/context.py`) | key-value rows by scope | put, list, delete | none |
| Adapters (`adapters/`) | one call in progress | call, poll a sibling's job, give up | the worker, other services |
| Groups, accounts, keys (`api/idam_admin.py`, `idam_sql.py`) | `users`, `groups`, `group_memberships`, `api_keys` | create, rename, rotate, revoke, join, leave, delete; the bootstrap of the administrator | started by every process |
| Audit trail (`audit.py`, `api/audit.py`) | an appended file | emit, list by pages, export | written by all handlers |
| Registry, UI, reports | see `PROJECT.json` | | |

What is hard in it:

* **Split transactions.** Every handler reads, decides and commits; the tick
  submits jobs before it commits; an adapter runs for minutes between the two
  commits of a dispatch. Whatever was read may be out of date when it is used.
* **Two kinds of memory.** Rows survive a restart, jobs do not, and nothing
  reconciles the two.
* **A lock of three calls.** `acquire` is a get, a set and a get; `release` a get
  and a delete; the lease is never renewed.
* **Swallowed failures.** A failed submit, a trigger that cannot be evaluated and
  an exception in a handler are caught, so later steps run as if nothing was.
* **Calls that are given up.** A target goes on working when its caller stops
  waiting, and a poll of its job must end whether the job does or not.
* **Progress.** One row, one job or one crashed holder of the lock must not stop
  all the others.

What makes each correct: a run's adapter is started at most once and never past a
closed gate; a waiting row has a job somewhere; a status moves only along its
life cycle; one tick at a time; a window fires once; a due schedule fires; a
chain step runs after what it needs, and a definition is refused only with
reason; the gate agrees with the approvals; a stored chain compiles and a version
names one definition; a key's value and type belong together; the next fire is the
earliest on the schedule's grid; a bootstrap leaves one key; a page-by-page reader
misses no row; a call is reported for what it was.

## Modules

### RunLifecycle: from trigger to outcome

`status` and `of` are the columns `status` and `schedule_id` of `schedule_runs`
(with `none`, `pending` and `gone` for a row not issued, not yet committed,
deleted); `alive`, `mode` and `gate` abstract a schedule's row, its status and paused
flag, and its `approval_status`. A `mode` is runnable, held or unreadable: PATCH
stores any string as a status, and every load of a row whose status the enum lacks
raises. `queue`, `worker` and `tick` are what each
process has in memory, `req` is a request between its read and its write. Every
handler is cut where it commits:

| Code | Actions |
|---|---|
| `POST /runs`, A2A and MCP run_now, `POST /runs/{id}/retry` | `TriggerCheck`, `RunNowCheck`, `RetryCheck`, then `InsertRun`, then `SubmitJob` or `SubmitFails` |
| `tick_once`, its runs | `TickBegin`, one `TickFire` per due schedule, `TickCommit` |
| `_handle_schedule_run` and `dispatch_run` | `Claim`, `CommitPlan`, then `Finish`; `DispatchRaises` at any point in between |
| cancel, delete of a run | `CancelCheck`, `CancelCommit`; `DeleteCheck`, `DeleteCommit`; `CommitFails` of any request |
| patch and delete of a schedule, approvals | `PatchSchedule`, `DeleteSchedule`, `MoveGate` |
| stop or crash of a process | `Restart` |

`worker` and the tick loop of one process interleave: `dispatch_run` calls
`asyncio.run` (`worker.py:325`), which works only off the event loop's thread, so
the job library runs handlers on another thread than the loop's tasks. The job
library is outside the repository; the model takes from its use that a claim
removes the job and that a handler runs once per claim. Whether SQLite enforces
foreign keys depends on a pragma the code does not set, hence the constant
`ForeignKeys`; both values are checked.

Two ghosts: `execs` counts starts of a run's adapter, `stranded` collects the runs
whose job was lost: by a failed submit (`SubmitFails`, `TickFire`), a claim before
the tick's commit or of a run whose schedule cannot be read (`Claim`), an exception
between the commits of a dispatch, those commits included (`DispatchRaises`), or a
restart (`Restart`). `_handle_schedule_run` catches whatever `dispatch_run` raises
and the job is consumed all the same. `InFlightAccounted` says that handlers that
succeed lose no job, however they interleave, and the liveness properties exempt
stranded runs only. These are weaknesses of the code, stated as exemptions rather
than as findings because no document of the repository denies them.

A commit may fail wherever one is made. Of the tick's, that rolls back every run it
added (`TickCommit`), whose queued jobs find no row later.

### FireWindow: who ticks, and what fires

`lock` is the owner of the cache key, `pc` where each contender stands in
`acquire`, the tick and `release`; `next` is `next_fire_at`; `seen` and `plan` are
what a tick's transaction read and will write; `target` and `anchor` the same for
a PATCH. The trigger engine is used by its contract: after a fire, the next one is
any later instant, none for a one-shot, or an error. `Expire` is the time to live
of a key whose owner is gone; `LeaseRunsOut` that of an owner still at work, and
counts as a fault. The cache is assumed shared (Redis, Valkey); with the default
memory backend each process has its own lock, and two processes on one database
would each lead, as `leader.py:125-129` says.

SQLAlchemy writes only columns whose value changed, so an edit that computes the
same next fire is not an edit of it. A tick that commits after a PATCH overwrites
the PATCH's next fire: schedules edited across a commit are `excused` in
`FiredOnce`, as are those whose trigger cannot be evaluated (`Keep`), which fire
the same window at each tick.

`WindowContract` is what the owner of a schedule may count on: a clock, the next
window and the windows fired, nothing of nodes, leases or transactions. Windows become
runs in the order of time, each once and not before its time, and a fire moves the next
window on, or ends a one-shot. `WindowRefinement` instantiates it over `FireWindow`; the
promise is waived for excused schedules, and for all once ticks have overlapped.
`KeepsWindows` says that every step of FireWindow is a step of the contract or unseen by
it. It is more than `FiredOnce`: a window fired early, out of order, or after which the
schedule goes back or loses its next fire breaks it too.

### ChainCompile: order and execution of a chain

One action per turn of Kahn's loop. The definition (`needs`) is chosen initially:
all definitions over the given steps, with unknown names, self-dependencies and
repeated needs. `Count`, `Place` and `Conclude` follow `chain.py:92-112`, the
execution `chain.py:174-198`. Python's `sorted` is the set `Sorted(S)` of its one
result, so the module needs no recursion and can be proved about.

### RunContract and RunRefinement: what a run promises

`RunContract` is the run as whoever asked for it sees it: nothing of nodes, queues,
ticks or gates, only a `phase` and whether the target was `called`. `RunRefinement`
instantiates it over `RunLifecycle`: `pending` and `scheduled` rows are waiting,
`running` is working, `failed`, `blocked` and `cancelled` are closed, and a run was
called if `execs` counts it. `KeepsContract` says that every step of RunLifecycle is
one of the contract or leaves it alone. The contract is as weak as the code makes
it: a closed run may be called (a cancel overtaken by the worker) and a succeeded
one closed (a cancel that read the run before it was over).

### TargetCall: what a call reports

The target works by itself: it begins when the request reaches it, which may be after
the adapter has given up, and ends or fails whenever it likes. The first answer may
come from anyone on the way, at any point of that work, and what the adapter judges it
by is kept in `answer`:

| `answer` | Judged by | Reported |
|---|---|---|
| `result` | the verdict on finished work: `error`, `isError` or `ok` of a body to `registered_tool`, an exit code | what it says |
| `status` | the HTTP status alone | failed, or succeeded by the three adapters that look no further |
| `opaque` | a 200 in which `registered_tool` finds no error | succeeded |
| `marked` | an `error` member that is no error of the work | failed |
| `handle` | a job to be awaited | what the poll finds |
| `none` | nothing: not sent, refused, lost | failed |

So `SuccessIsReal`, `NothingLeftAtWork` and `FailureIsReal` claim nothing of answers
that carry no verdict, as the code can claim nothing of them. Their weight is on what
takes several steps: a job that is awaited is reported as it ended, through lost
polls, raises, sleeps, the deadline and the worker's own timeout, and is left at work
only by giving up. That a polled status word for an end is the job's own is assumed.

### ControlPlane: the records around the runs

| Module | Code | What its steps are |
|---|---|---|
| `Requests` | all handlers | who calls, `Written` (only changed columns are updated), whether foreign keys hold |
| `Approvals` | `api/approvals.py` | `RequestRead`, `DecideRead`, then `CallCommits` or `CallFails`; `GuardedDeleted` |
| `Chains` | `api/chains.py`, `api/nl_chain.py`, chain_run of A2A and MCP | `ChainCreate`, `PatchRead`/`PatchCommit`, `ChainDelete`; `PlanStart`, `PlanAccepted`, `PlanRepaired`, `PlanReturns` |
| `Context` | `api/context.py` | `PutRead`, then `PutUpdates`, `PutInserts` or `PutFails`; `ContextDelete` |
| `Trigger` | `trigger.py` | `compute_next_fire` and, as its reference, the grid `OnGrid` each trigger means |
| `Schedules` | `api/schedules.py`, `tick.py`, A2A and MCP create | `RestCount`/`RestInsert`, `A2ACreate`, `McpCreate`, `TickAdvances`, `SchedulePatch`, `ScheduleSwitched` |
| `Groups` | `api/idam_admin.py` | `JoinReads`/`JoinCommits`, `DisbandReads`/`DisbandCommits`, with what makes each fail |
| `Keys` | `api/idam_admin.py`, `idam_sql.py` | accounts and keys; `BootReadsAccount`, `BootReadsKey`, `BootCommits` by each process |
| `AuditTrail` | `audit.py`, `api/audit.py` | `RowStamped`, then `RowWritten` or `RowLost`; `ListPage`, `ExportRound` |
| `ChainCompile` | `chain.py` | as above |
| `TargetCall` | `adapters/*.py`, `worker.py` | the target by itself (`TargetStarts`, `TargetEnds`); `AnsweredResult` and its kin, the poll of a job, `WorkerGivesUp` |

A handler that decides on what it read and then writes is two steps, a read and a
commit, and anything may happen in between; a handler that overwrites one row
without deciding on another is one. Where the code lets overlapping handlers spoil a
property, a ghost (`garbled`, `collided`, `blended`, `crossed`) marks exactly the
rows that such an overlap was committed to, and the property is about all others;
`garbled` and `blended` are taken back when an undisturbed handler commits.

`ControlPlane` puts them side by side. No two of them write a row that the other
reads, so an interleaving of all is one of each; `focus`, chosen at the start, names
the one whose steps a behaviour shows, and the state spaces add up instead of
multiplying. Their interfaces to the other modules are the approval gate (`MoveGate`
in RunLifecycle is any change of it), the next fire (any later instant in
FireWindow, exact in Schedules), the chain definition (ChainCompile takes any) and
the outcome of a call (`Finish` takes any).

### Proof modules and MC modules

| Module | Proves about |
|---|---|
| `RunLifecycleProofs`, `FireWindowProofs`, `ChainCompileProofs` | the module each extends; `FireWindowProofs` also `WindowRefinement` |
| `RunRefinementProofs` | `RunRefinement`: the lifecycle implements the contract |
| `RecordsProofs` | `Approvals`, `Chains`, `Context`, `Groups`, `Keys`, `AuditTrail`, a section each |
| `SchedulesProofs` | `Trigger` and `Schedules` |
| `TargetCallProofs` | `TargetCall` |
| `ControlPlaneProofs` | `ControlPlane`, from the three above and `ChainCompileProofs` |

`MCRunLifecycle`, `MCFireWindow`, `MCChainCompile`,
`MCControlPlane` and `MCAuditTrail` add what TLC needs (symmetry sets, the timezones
and the triggers clients ask for).

## Runs

| Run | Instance | Shows |
|---|---|---|
| `lifecycle_safety` | 2 nodes, 2 runs, 2 requests, 1 one-shot schedule, foreign keys | types, at most one execution, blocked runs unexecuted, in-flight runs accounted for, legal transitions, and the contract of a run kept |
| `lifecycle_liveness` | 1 node, 2 runs, 1 request, no foreign keys | scheduled and running runs settle unless stranded |
| `lifecycle_cancelled` (violated) | 1 node, 1 run, 1 request | a cancelled run is executed |
| `lifecycle_quota` (violated) | 1 node, 2 runs, 2 requests, quota 1 | the quota is exceeded |
| `lifecycle_deleted` (violated) | 1 node, 1 run, 1 request | a run is deleted while it is executed |
| `firewindow_safety` | 2 nodes, 1 probe, 1 editor, 1 schedule, clock to 2, 1 fault | overlap needs a race, release is one's own, windows fire once, and the contract of windows is kept |
| `firewindow_liveness` | 2 nodes, 2 schedules (one a one-shot), 1 fault | due schedules settle |
| `firewindow_leader` (violated) | 2 nodes, no fault | two leaders at once |
| `firewindow_poisoned` (violated) | 1 node, 1 schedule | one unreadable row stops all ticks |
| `chain_duplicate` (violated) | 2 steps | a repeated need is taken for a cycle |
| `control_plane` | see below | records agree with one another, steps follow their needs, the next fire is exact, a call ends and is reported for what the adapter could read |
| `audit_export` (violated) | 2 emitters, 3 rows, a reader's limit of 2 under a batch of 3 | an export stops after its first page |

Why the bounds are enough. Two nodes and two requests are the fewest with which a
handler can be overtaken by each other kind of actor; two runs allow a retry beside
its original and a tick that creates one while another is in flight. Run ids are
issued once, so the instance also bounds how often anything is triggered. Nodes,
runs and requests are interchangeable and symmetry is used, in safety runs only. In
FireWindow the races need two nodes, the probe is a third contender, and two
instants of the clock suffice for a window to be due, fire and be due again;
`MaxFaults` bounds crashes, failed calls and leases that run out, `MaxTime` the
clock. The safety invariants of both modules are proved for every value of these
bounds.

`control_plane` has two overlapping clients in every component: the fewest with
which a read goes stale. Further, by component:

* approvals: 1 schedule, 3 requests, so that a granted, a rejected and a pending one
  meet on one gate;
* chains: 1 chain, 3 definitions of which 2 compile, versions to 2, 1 planner with 1
  repair;
* compile: 3 steps, 1 unknown name, up to 2 needs each, so that chains, forks, joins
  and cycles of every length occur, and a repeated need; the proofs cover all sizes;
* context: 1 key, 2 values, a known and an unknown type, 2 row ids, so a key deleted
  and put again has another row;
* schedules: a clock to 5 and a trigger of each kind, with periods 2 and 3 and an
  anchor at 3, which makes late, early and exact fires and outages of several periods
  occur; 2 zones one instant apart, for the cron phase; a quota of 1;
* groups: 2 users, 2 groups; keys: 2 accounts, 3 keys and 2 processes, so that
  bootstraps overlap, and repeat after a rotation;
* audit: 2 emitters, 3 rows with stamps from 0 to 2, pages of 2, so that rows reach
  the file out of order across a page's edge;
* calls: every adapter, every answer at every point of the work, 2 URLs to try, a timeout of 2 and a clock to 4, so that the
  timeout falls before, within and after a poll's sleep.

Deadlock is checked except in `chain_duplicate`, `control_plane` and `audit_export`,
where a compiled and executed (or refused) chain is the end of the behaviour, a call
is over or a reader done, ids are used up and the clock stops.

### Fairness

RunLifecycle: weak fairness of each node's worker (`_run_forever_with_logging`
restarts the loop after any exception, `_handle_schedule_run` lets none out, and
adapters are bounded by timeouts: 60 s by default) and of the submit that follows a
commit in the same handler. Nothing is assumed of clients, the tick, or restarts.

FireWindow: weak fairness of each node's tick steps (`_run_tick_loop` catches every
exception and sleeps a bounded time) and of `Expire` (the cache honours its time to
live). Faults are bounded by `MaxFaults`: a lease that runs out in every tick, or a
process that crashes in each, makes no progress in the code either. The liveness
run has no probes, as nothing keeps frequent contend probes from holding the lock
most of the time. The clock may stop at `MaxTime`; a schedule due by then must
still settle.

TargetCall: weak fairness of the clock, of the adapter's step as a whole (its HTTP
client and its process have timeouts, `asyncio.sleep` ends) and of the worker's
`asyncio.wait_for`. Nothing is assumed of the target, which may work for ever: that
is what makes `CallEnds` worth checking. The clock stops at `MaxElapsed`, beyond the
timeout, and a sleep that would end later ends there.

## Findings

* `lifecycle_cancelled`: the dispatcher does not look at the run's status, so a
  cancel is overwritten (`worker.py:293`, `:346`).
* `lifecycle_quota`: the quota is counted in one step and used in another, and only
  by one of the four ways to create a run (`api/runs.py:161`).
* `lifecycle_deleted`: a DELETE checks the status and then deletes whatever the row
  has become; a cancelled run whose queued job a worker takes up in between is removed
  while its adapter is at work (`api/runs.py:405-408`, against `:397-398`).
* `firewindow_leader`: the lock's get-set-get lets two callers lead
  (`leader.py:91-96`).
* `firewindow_poisoned`: a `misfire_policy` stored unchecked by the MCP tool
  (`mcp_tools.py:72`) makes loading the row, and so every tick, fail.
* `chain_duplicate`: a need listed twice is counted twice and taken off once
  (`chain.py:93-107`).
* `audit_export`: the export asks for pages of 500 rows, the reader gives 200 at
  most, and a page shorter than asked for ends the export (`api/audit.py:142`).

Seen while modelling, and in the models as the code has it:

* `api/chains.py:127` says that every successful update bumps the version; of two
  overlapping PATCHes both write the same one (`VersionNamesDefinition` excepts them).
* Of two requests on one schedule, granting one opens the gate while the other is
  pending; the code has no rule against it, and `GateHasReason` allows it.
* `external_mcp` and `code_runner` report success for any HTTP 200, `external_http` for
  any status below 400, a redirect or a 202 included, whatever the body says
  (`AnsweredStatus`). To `registered_tool`, `external_mcp` and `code_runner` any status
  but 200 is a failure, a 201 or 204 of finished work too (`registered_tool.py:316`).
* `registered_tool` takes a 200 in which it finds no error for success: a page that is
  no JSON, a job's handle with a status word other than its four, an error told in
  another way (`AnsweredOpaque`). It takes any `error` member for an error, a null
  one too (`AnsweredMarked`, `registered_tool.py:62-66`).
* PATCH stores any status string; one the enum lacks makes the row unreadable for the
  worker too, which drops the jobs of its runs (`api/schedules.py:206`, `worker.py:224`).
* A command that exceeds its time is not killed (`adapters/sandbox_command.py:59`).
* An A2A creation computes its first fire in UTC whatever zone it stores
  (`Misplaced`); a PATCH is held to no quota; a PATCH of a completed schedule sets a
  next fire that no tick will take.
* A context key with an unknown `value_type` cannot be read, overwritten or deleted.

## What is proved

Every safety property of the passing runs, invariants and action properties alike,
is a theorem for all values of the constants that each module's named assumptions
allow: any number of processes, clients, rows and ids, and any value of the bounds.
The inductive invariants were checked by TLC on the instances above before they were
proved, except where they speak of all instants (`RowRight`), of which TLC checks those
up to a horizon, in `NextIsEarliest`.

### The core

* **RunLifecycle**: `TypeOK`, `AtMostOnceExecution`, `BlockedNeverExecuted`,
  `InFlightAccounted` and the action property `LegalTransitions`. None is
  inductive alone. `IInv` adds that a run's job is in one place at a time (a queue,
  a worker that has loaded it, or a request about to submit it: `OneJob`), that
  whatever carries it was never executed and its row is unfinished (`JobIsFresh`),
  that a tick's uncommitted rows are its own (`TickOwnsPending`), and what each
  program counter implies (`ControlOK`). At most one execution follows because
  only `CommitPlan` executes, it needs a loaded run, and loading takes the run out
  of its one place.
* **RunRefinement**: `KeepsContract`, that is, RunLifecycle implements RunContract.
  The initial states map to initial states. Then there is one lemma for each way a
  handler can change what a caller sees (`Asked`, `Closed`, `Succeeded`, `Called`,
  `Removed`) or not see it (`Unseen`, `SamePhase`), and one for each group of
  actions that uses them. `IInv` is needed where a handler writes without looking:
  a start of the target is the contract's call only because the run was not called
  before, and an outcome written by the worker finds a run that was called.
* **FireWindow**: `TypeOK`, `OneLeader`, `ReleasesOwn`, `FiredOnce`. `LockOK` says
  that without a race at most one contender is between its get and its set, the key
  is absent then, and a leader owns it. For `FiredOnce`, `WindowsAhead` says that
  every fired window lies before `next_fire_at`, before what any tick has read and
  before what any edit will write; it needs `SnapOK`, that a tick plans a later
  instant than it read.
* **WindowRefinement**: `KeepsWindows`, that is, FireWindow implements WindowContract.
  Beside `IInv` it takes `PlanOK`, that a plan leaves no next fire just for a one-shot.
  Three actions are seen by the contract (`TickCommitKept`, `EditCommitKept`, and
  `ConfirmKept` where the promise is waived), all others are not.
* **ChainCompile**: `TypeOK` (the counts never go below zero), `NeedsHaveResults`,
  `CycleIsReal`, `CyclesNeverRun`. The invariant `CountsOK` gives each count as the
  length of the needs list less the number of *different* placed steps in it; so a
  zero count means that all needs are placed, and at the end of an incomplete sort
  each left-out step without repeated needs still needs another left-out step.

### The records around the runs

The invariants of the record modules answer one question: what does a handler
between its read and its commit still know of the rows it read?

* **Approvals** (`ApprovalsInv`): `GateHasReason`, `DecisionsStand`. A handler that
  was not overtaken has read the gate the schedule still has, and a decision finds
  its request pending (`HandlerKnows`); ids of requests to come differ
  (`NewIdsApart`). So an undisturbed commit leaves a gate with its reason, and only
  an overtaken one decides a request again.
* **Chains** (`ChainsInv`): `StoredChainsCompile`, `VersionNamesDefinition`,
  `PlannerBudget`. A PATCH that was not outrun has read the row as it is
  (`PatchKnows`), and no version that a chain had is above its row's
  (`VersionsGrow`); hence the version a PATCH writes is new. `PlanCounts` ties the
  questions asked to the repairs made, in each place of the planner's loop.
* **Context** (`ContextInv`): `RowIsLastPut`. A PUT that was not outpaced knows the
  row's content, so writing only the changed columns leaves exactly what it asked
  for (`PutsKnow`); a row deleted meanwhile cannot be mistaken for a new one, as ids
  are used once (`RowHere`).
* **Groups** (`GroupsInv`): `MembersLeaveOnPurpose`. Type correctness and what a
  handler under way is about are enough; the work is in the cases of a deletion that
  fails at its commit.
* **Keys** (`KeysInv`): `BootstrapLeavesOneKey`. Without a crossing one process
  bootstraps at a time, a key it is about to insert is the first, and all keys with
  the bootstrap's hash are one (`BootAlone`); who commits has found or brought one
  (`BootHasKey`).
* **AuditTrail** (`AuditInv`): `PagingMissesNothing`. A row that the client is owed and
  has not got has an index of at least the client's offset (`PagesAhead`). It is
  inductive because an append can only raise the index of a row, in either order of
  sorting, and never lower it: the rows before a row stay before it. At the end of
  the last page the index of every match is below the total, so nothing is left
  ahead. The proof is of ranks, not of sorted sequences: `IndexOf` counts the matches
  that sort before a row, which is the index a stable sort gives it.
* **Trigger, Schedules** (`SchedulesInv`): `NextFireIsEarliest` states that
  `compute_next_fire` is right, without any bound: for every spec, zone and base it
  returns the earliest instant after the base on the grid that the trigger means, or
  none if there is none. It rests on lemmas about division (`DivMod`, `ModUnique`,
  `SameResidue`). From it, `RowRight` and `NextIsEarliest`, through creations, late
  ticks and patches. `RestCreationsBounded` follows by counting: schedules made plus
  requests that have counted and not inserted stay within the quota plus the clients
  less one (`CreationsCounted`).
* **TargetCall** (`CallInv`): `SuccessIsReal`, `NothingLeftAtWork`, `FailureIsReal`. Who
  polls awaits a job that began, and who fetches a result knows that the job is done
  (`StepKnowsTarget`), for every adapter, every first answer at any point of the work,
  and whatever the target does by itself, also after the call is over.
* **ControlPlane**: `BehaviourOfEach`, that a behaviour of the composition is one of
  each component, from which `ControlPlaneTypeOK` and all the properties above hold
  under `ControlPlaneSpec`, the specification that the run checks.

Each proof has the initial states, one lemma per action or group of actions, a
theorem that puts them together and a PTL step. The provers are trusted with SMT,
first-order and temporal reasoning; nothing is assumed beyond the named assumptions
on the constants.

### Only model-checked

* Liveness: `ScheduledRunsSettle`, `RunningRunsSettle`, `DueSettles` and `CallEnds`.
  They rest on fairness, hence on ENABLED, which the prover does not handle.
* The violated properties, which are false: a counterexample on an instance is all
  there is to show.
* That `Before` and `IndexOf` are what Python's sort computes, and that `Sorted`,
  `OnGrid` and the like say what the code and the triggers mean, is in the
  definitions and is read there; induction over data, which a proof about an actual
  sorting algorithm needs, is out of the prover's reach.

## Not modelled

* The project registry: its only writers, `seed_from_terraform` and `poll_entry`,
  have no caller in the program, so the table is only read.
* Authentication and the sessions of the web login: an external library keeps them,
  and this code hands requests to it. Roles and role bindings are rows of their own
  that no other operation of this code decides on; creating and deleting one is a
  single insert or delete.
* The wiring of the application (`app.py`, `config.py`, database, cache and storage
  set-up), which runs once and in order; logs, metrics, reports and the UI, which
  only read.
* The inside of libraries: cron expressions are reduced to a period and a phase and
  zones to a constant offset, so daylight saving is left out; the answers of the
  language model are any definition, or none that satisfies the schema.
* Contents of targets, contexts, reports and filters, reduced to what a property
  tells apart.
* Statuses that the enum declares but no code assigns (`claimed`, `queued`,
  `skipped`, `misfired`, `partially_failed`), the table `schedule_fire_windows`,
  chain-run rows, `misfire_policy` and `concurrency_policy` as settings,
  `leader.renew` and `apply_backpressure` have no effect in the code and none in the
  models.

## Plan

1. Done: all modules; the proofs of every safety property that a passing run checks;
   the refinements of the contracts of a run and of windows; the composition.
2. Next, statements that no run makes and the proofs could:
   * RunLifecycle: that a run which a named cause stranded stays so until a client
     cancels, deletes or retries it, which says that nothing reconciles rows and jobs;
   * Chains: that versions of one chain only grow, as an action property, and the
     same of `next` in Schedules between edits;
   * invariants used by the liveness arguments (which actor is enabled while a run is
     scheduled), stated without ENABLED.
