---------------------------- MODULE RunLifecycle ----------------------------
(***************************************************************************)
(* The life of a schedule run: who inserts its row, who queues its job,    *)
(* how a node's worker dispatches it, and what the REST handlers, the tick *)
(* and a process restart may do to it meanwhile.                           *)
(*                                                                         *)
(* The rows of schedules and schedule_runs live in the shared database.    *)
(* The job queue is the process's own MemoryQueueBackend (jobs.get_queue), *)
(* so each node has a queue, one worker and one tick loop, and loses all   *)
(* three when it restarts.  Every handler is split where it commits: what  *)
(* it read before the commit may be out of date when it writes.            *)
(*                                                                         *)
(* Abstracted: times, payloads, audit rows and metrics; the reason a       *)
(* schedule is due (module FireWindow); the approval requests behind a     *)
(* schedule's gate, which may move whenever it likes.                      *)
(***************************************************************************)
EXTENDS Naturals, FiniteSets

CONSTANTS
    Node,        \* server processes
    Schedule,    \* schedule ids
    Run,         \* schedule_run ids, each issued at most once (uuid4)
    Client,      \* concurrent HTTP, A2A or MCP requests
    OneShot,     \* schedules with trigger_type one_shot
    MaxActive,   \* quotas.max_active_runs_per_schedule
    ForeignKeys, \* does the database enforce schedule_runs.schedule_id?
    NoRun, NoSchedule, NoNode

ASSUME ConstantsOK ==
    /\ OneShot \subseteq Schedule
    /\ MaxActive \in Nat \ {0}
    /\ ForeignKeys \in BOOLEAN
    /\ NoRun \notin Run
    /\ NoSchedule \notin Schedule
    /\ NoNode \notin Node

VARIABLES
    alive,    \* schedules that have a row
    mode,     \* what a schedule's status and paused columns amount to
    gate,     \* schedules whose approval_status lets runs start
    status,   \* schedule_runs.status, or how far the row is from existing
    of,       \* schedule_runs.schedule_id
    queue,    \* each node's jobs, by the run in their payload
    worker,   \* each node's worker
    tick,     \* each node's tick transaction
    req,      \* requests between their reads and their writes
    execs,    \* ghost: how often the run's adapter was started
    stranded  \* ghost: runs whose job is gone though the row still waits for it

sched == <<alive, mode, gate>>
vars == <<sched, status, of, queue, worker, tick, req, execs, stranded>>

-----------------------------------------------------------------------------
\* Statuses the code writes; claimed, queued, skipped, misfired and
\* partially_failed are declared but no code assigns them.
Rows   == {"scheduled", "running", "succeeded", "failed", "cancelled", "blocked"}
\* none: id not issued; pending: added by a tick that has not committed;
\* gone: deleted, or rolled back.
Absent == {"none", "pending", "gone"}

Terminal  == {"succeeded", "failed", "cancelled"}
Active    == {"scheduled", "running"}
Retriable == Terminal \cup {"blocked"}
Outcomes  == {"succeeded", "failed", "cancelled"}

\* A schedule is runnable if it is active and not paused. A status that is no
\* member of ScheduleStatus makes the row unreadable: every later load raises.
Modes       == {"runnable", "held", "unreadable"}
Runnable(s) == mode[s] = "runnable"
Readable(s) == mode[s] # "unreadable"

HasRow(r) == status[r] \in Rows
RunsOf(s) == {r \in Run : of[r] = s}
ActiveCount(s) == Cardinality({r \in RunsOf(s) : status[r] \in Active})

IdleWorker == [pc |-> "idle", run |-> NoRun, plan |-> "none"]
IdleTick   == [pc |-> "idle", due |-> {}, runs |-> {}]
IdleReq    == [op |-> "idle", node |-> NoNode, sched |-> NoSchedule, run |-> NoRun]

Holds(n, r)     == worker[n].pc # "idle" /\ worker[n].run = r
LoadedBy(n, r)  == worker[n].pc = "loaded" /\ worker[n].run = r
Submits(c, r)   == req[c].op = "submit" /\ req[c].run = r
Executing(n, r) == worker[n].pc = "executing" /\ worker[n].run = r

TypeOK ==
    /\ alive \in [Schedule -> BOOLEAN]
    /\ mode \in [Schedule -> Modes]
    /\ gate \in [Schedule -> BOOLEAN]
    /\ status \in [Run -> Rows \cup Absent]
    /\ of \in [Run -> Schedule \cup {NoSchedule}]
    /\ queue \in [Node -> SUBSET Run]
    /\ worker \in [Node -> [pc   : {"idle", "loaded", "executing"},
                            run  : Run \cup {NoRun},
                            plan : {"none", "running", "blocked", "failed"}]]
    /\ tick \in [Node -> [pc : {"idle", "scan"}, due : SUBSET Schedule, runs : SUBSET Run]]
    /\ req \in [Client -> [op    : {"idle", "insert", "submit", "cancel", "delete"},
                           node  : Node \cup {NoNode},
                           sched : Schedule \cup {NoSchedule},
                           run   : Run \cup {NoRun}]]
    /\ execs \in [Run -> Nat]
    /\ stranded \in SUBSET Run

Init ==
    /\ alive = [s \in Schedule |-> TRUE]
    /\ mode = [s \in Schedule |-> "runnable"]
    /\ gate = [s \in Schedule |-> TRUE]
    /\ status = [r \in Run |-> "none"]
    /\ of = [r \in Run |-> NoSchedule]
    /\ queue = [n \in Node |-> {}]
    /\ worker = [n \in Node |-> IdleWorker]
    /\ tick = [n \in Node |-> IdleTick]
    /\ req = [c \in Client |-> IdleReq]
    /\ execs = [r \in Run |-> 0]
    /\ stranded = {}

-----------------------------------------------------------------------------
(* Entry points that create a run.  Each reads, then inserts and commits,  *)
(* then submits the job: the submit may fail and the failure is swallowed. *)

\* POST /runs reads the schedule and counts its active runs.
TriggerCheck(c, n, s) ==
    /\ req[c].op = "idle"
    /\ alive[s]
    /\ Runnable(s)
    /\ ActiveCount(s) < MaxActive
    /\ req' = [req EXCEPT ![c] = [op |-> "insert", node |-> n, sched |-> s, run |-> NoRun]]
    /\ UNCHANGED <<sched, status, of, queue, worker, tick, execs, stranded>>

\* A2A schedule.run_now and MCP schedule_run_now only load the schedule.
RunNowCheck(c, n, s) ==
    /\ req[c].op = "idle"
    /\ alive[s]
    /\ Readable(s)
    /\ req' = [req EXCEPT ![c] = [op |-> "insert", node |-> n, sched |-> s, run |-> NoRun]]
    /\ UNCHANGED <<sched, status, of, queue, worker, tick, execs, stranded>>

\* Mutant of RetryCheck: queues the original run again instead of a new one.
RetryReusesRun(c, n, r) ==
    /\ req[c].op = "idle"
    /\ status[r] \in Retriable
    /\ of[r] \in Schedule
    /\ alive[of[r]]
    /\ Runnable(of[r])
    /\ req' = [req EXCEPT ![c] = [op |-> "submit", node |-> n, sched |-> NoSchedule, run |-> r]]
    /\ UNCHANGED <<sched, status, of, queue, worker, tick, execs, stranded>>

\* POST /runs/{id}/retry asks for a finished or gate-blocked run of a runnable
\* schedule, and does not count active runs.
RetryCheck(c, n, r) ==
    /\ req[c].op = "idle"
    /\ status[r] \in Retriable
    /\ of[r] \in Schedule
    /\ alive[of[r]]
    /\ Runnable(of[r])
    /\ req' = [req EXCEPT ![c] = [op |-> "insert", node |-> n, sched |-> of[r], run |-> NoRun]]
    /\ UNCHANGED <<sched, status, of, queue, worker, tick, execs, stranded>>

\* The INSERT and its commit, for all three; a deleted schedule makes it fail
\* where foreign keys are enforced.
InsertRun(c, r) ==
    /\ req[c].op = "insert"
    /\ status[r] = "none"
    /\ IF ~alive[req[c].sched] /\ ForeignKeys
       THEN /\ req' = [req EXCEPT ![c] = IdleReq]
            /\ UNCHANGED <<status, of>>
       ELSE /\ status' = [status EXCEPT ![r] = "scheduled"]
            /\ of' = [of EXCEPT ![r] = req[c].sched]
            /\ req' = [req EXCEPT ![c] = [op |-> "submit", node |-> req[c].node,
                                          sched |-> NoSchedule, run |-> r]]
    /\ UNCHANGED <<sched, queue, worker, tick, execs, stranded>>

SubmitJob(c) ==
    /\ req[c].op = "submit"
    /\ queue' = [queue EXCEPT ![req[c].node] = @ \cup {req[c].run}]
    /\ req' = [req EXCEPT ![c] = IdleReq]
    /\ UNCHANGED <<sched, status, of, worker, tick, execs, stranded>>

\* The submit raises, or already reading the schedule again after the commit.
SubmitFails(c) ==
    /\ req[c].op = "submit"
    /\ stranded' = stranded \cup {req[c].run}
    /\ req' = [req EXCEPT ![c] = IdleReq]
    /\ UNCHANGED <<sched, status, of, queue, worker, tick, execs>>

-----------------------------------------------------------------------------
(* The tick: one transaction for every due schedule, each run's job        *)
(* submitted while its row is still uncommitted.                           *)

TickBegin(n) ==
    /\ tick[n].pc = "idle"
    /\ \E due \in SUBSET {s \in Schedule : alive[s] /\ Runnable(s)} :
         /\ due # {}
         /\ tick' = [tick EXCEPT ![n] = [pc |-> "scan", due |-> due, runs |-> {}]]
    /\ UNCHANGED <<sched, status, of, queue, worker, req, execs, stranded>>

TickFire(n, s, r) ==
    /\ s \in tick[n].due
    /\ status[r] = "none"
    /\ status' = [status EXCEPT ![r] = "pending"]
    /\ of' = [of EXCEPT ![r] = s]
    /\ tick' = [tick EXCEPT ![n] = [pc |-> "scan", due |-> @.due \ {s}, runs |-> @.runs \cup {r}]]
    /\ \/ /\ queue' = [queue EXCEPT ![n] = @ \cup {r}]
          /\ UNCHANGED stranded
       \/ /\ stranded' = stranded \cup {r}
          /\ UNCHANGED queue
    /\ UNCHANGED <<sched, worker, req, execs>>

\* A failed commit rolls the whole tick back, and a schedule deleted since the
\* scan makes it fail, its UPDATE finding no row: the jobs stay queued. A
\* schedule whose trigger cannot be evaluated has no UPDATE: it is not advanced,
\* a one_shot not completed. Completing writes over an unreadable status too.
TickCommit(n) ==
    LET runs == tick[n].runs IN
    /\ tick[n].pc = "scan"
    /\ tick[n].due = {}
    /\ \/ \E unadvanced \in SUBSET {of[r] : r \in runs} :
             /\ \A r \in runs :
                    of[r] \in Schedule /\ (alive[of[r]] \/ (of[r] \in unadvanced /\ ~ForeignKeys))
             /\ status' = [r \in Run |-> IF r \in runs THEN "scheduled" ELSE status[r]]
             /\ mode' = [s \in Schedule |->
                     IF s \in OneShot \ unadvanced /\ \E r \in runs : of[r] = s
                     THEN "held" ELSE mode[s]]
       \/ /\ status' = [r \in Run |-> IF r \in runs THEN "gone" ELSE status[r]]
          /\ UNCHANGED mode
    /\ tick' = [tick EXCEPT ![n] = IdleTick]
    /\ UNCHANGED <<alive, gate, of, queue, worker, req, execs, stranded>>

-----------------------------------------------------------------------------
(* The worker: claim a job and read run, schedule and gate; commit the     *)
(* decision; run the adapter; commit its outcome.                          *)

\* What dispatch_run decides from what it read, nothing if the schedule cannot be
\* read.  "failed" with an open gate: no adapter for the target type, or only a
\* stub in production.
Plans(r) ==
    IF of[r] \notin Schedule \/ ~alive[of[r]] THEN {"failed"}
    ELSE IF ~Readable(of[r]) THEN {}
    ELSE IF ~gate[of[r]] THEN {"blocked"}
    ELSE {"running", "failed"}

\* Mutant of Claim: the job stays queued until it is acknowledged, which the
\* handler never does.
ClaimKeepsJob(n, r) ==
    /\ worker[n].pc = "idle"
    /\ r \in queue[n]
    /\ HasRow(r)
    /\ \E p \in Plans(r) :
         worker' = [worker EXCEPT ![n] = [pc |-> "loaded", run |-> r, plan |-> p]]
    /\ UNCHANGED <<sched, status, of, queue, tick, req, execs, stranded>>

\* Mutant of Claim: a job waits in the queue until its gate opens.
ClaimWaitsForGate(n, r) ==
    /\ worker[n].pc = "idle"
    /\ r \in queue[n]
    /\ HasRow(r)
    /\ "running" \in Plans(r)
    /\ queue' = [queue EXCEPT ![n] = @ \ {r}]
    /\ worker' = [worker EXCEPT ![n] = [pc |-> "loaded", run |-> r, plan |-> "running"]]
    /\ UNCHANGED <<sched, status, of, tick, req, execs, stranded>>

\* A job whose run is not there raises ValueError and one whose schedule cannot
\* be read LookupError; the handler catches both and the job is consumed all the
\* same.  The run's status is not looked at.
Claim(n, r) ==
    /\ worker[n].pc = "idle"
    /\ r \in queue[n]
    /\ queue' = [queue EXCEPT ![n] = @ \ {r}]
    /\ \/ /\ ~HasRow(r) \/ Plans(r) = {}
          /\ stranded' = stranded \cup {r}
          /\ UNCHANGED worker
       \/ /\ HasRow(r)
          /\ \E p \in Plans(r) :
               worker' = [worker EXCEPT ![n] = [pc |-> "loaded", run |-> r, plan |-> p]]
          /\ UNCHANGED stranded
    /\ UNCHANGED <<sched, status, of, tick, req, execs>>

\* Mutant of CommitPlan: a blocked run is returned without writing its status.
CommitPlanSkipsBlocked(n) ==
    LET r == worker[n].run
        p == worker[n].plan IN
    /\ worker[n].pc = "loaded"
    /\ status' = IF HasRow(r) /\ p # "blocked" THEN [status EXCEPT ![r] = p] ELSE status
    /\ IF HasRow(r) /\ p = "running"
       THEN /\ worker' = [worker EXCEPT ![n] = [pc |-> "executing", run |-> r, plan |-> "none"]]
            /\ execs' = [execs EXCEPT ![r] = @ + 1]
       ELSE /\ worker' = [worker EXCEPT ![n] = IdleWorker]
            /\ UNCHANGED execs
    /\ UNCHANGED <<sched, of, queue, tick, req, stranded>>

\* Writing to a row deleted since it was read raises StaleDataError, which the
\* handler also catches.
CommitPlan(n) ==
    LET r == worker[n].run
        p == worker[n].plan IN
    /\ worker[n].pc = "loaded"
    /\ IF HasRow(r)
       THEN status' = [status EXCEPT ![r] = p]
       ELSE UNCHANGED status
    /\ IF HasRow(r) /\ p = "running"
       THEN /\ worker' = [worker EXCEPT ![n] = [pc |-> "executing", run |-> r, plan |-> "none"]]
            /\ execs' = [execs EXCEPT ![r] = @ + 1]
       ELSE /\ worker' = [worker EXCEPT ![n] = IdleWorker]
            /\ UNCHANGED execs
    /\ UNCHANGED <<sched, of, queue, tick, req, stranded>>

\* dispatch_run raises and the handler catches it: the row stays as it was last
\* committed, the job is consumed.  The commit of the decision or of the outcome
\* may fail, and rendering target_spec and reading its timeout come after the
\* first commit and outside the try.
DispatchRaises(n) ==
    /\ worker[n].pc # "idle"
    /\ stranded' = stranded \cup {worker[n].run}
    /\ worker' = [worker EXCEPT ![n] = IdleWorker]
    /\ UNCHANGED <<sched, status, of, queue, tick, req, execs>>

\* Mutant of Finish: merges the detached row back, re-creating a deleted one.
FinishMergesRow(n) ==
    /\ worker[n].pc = "executing"
    /\ \E o \in Outcomes : status' = [status EXCEPT ![worker[n].run] = o]
    /\ worker' = [worker EXCEPT ![n] = IdleWorker]
    /\ UNCHANGED <<sched, of, queue, tick, req, execs, stranded>>

\* Mutant of Finish: the outcome is set on the object but never committed.
FinishForgetsCommit(n) ==
    /\ worker[n].pc = "executing"
    /\ worker' = [worker EXCEPT ![n] = IdleWorker]
    /\ UNCHANGED <<sched, status, of, queue, tick, req, execs, stranded>>

\* Mutant of Finish: writes the status timeout, which the enum does not have.
FinishTimesOut(n) ==
    LET r == worker[n].run IN
    /\ worker[n].pc = "executing"
    /\ \E o \in Outcomes \cup {"timeout"} :
         status' = IF HasRow(r) THEN [status EXCEPT ![r] = o] ELSE status
    /\ worker' = [worker EXCEPT ![n] = IdleWorker]
    /\ UNCHANGED <<sched, of, queue, tick, req, execs, stranded>>

\* The adapter's result (a timeout and an exception are failures) replaces
\* whatever status the row has by now.
Finish(n) ==
    LET r == worker[n].run IN
    /\ worker[n].pc = "executing"
    /\ \E o \in Outcomes :
         status' = IF HasRow(r) THEN [status EXCEPT ![r] = o] ELSE status
    /\ worker' = [worker EXCEPT ![n] = IdleWorker]
    /\ UNCHANGED <<sched, of, queue, tick, req, execs, stranded>>

-----------------------------------------------------------------------------
(* Cancelling and deleting runs: read, check, then write.                  *)

CancelCheck(c, n, r) ==
    /\ req[c].op = "idle"
    /\ HasRow(r)
    /\ status[r] \notin Terminal
    /\ req' = [req EXCEPT ![c] = [op |-> "cancel", node |-> n, sched |-> NoSchedule, run |-> r]]
    /\ UNCHANGED <<sched, status, of, queue, worker, tick, execs, stranded>>

CancelCommit(c) ==
    LET r == req[c].run IN
    /\ req[c].op = "cancel"
    /\ status' = IF HasRow(r) THEN [status EXCEPT ![r] = "cancelled"] ELSE status
    /\ req' = [req EXCEPT ![c] = IdleReq]
    /\ UNCHANGED <<sched, of, queue, worker, tick, execs, stranded>>

DeleteCheck(c, n, r) ==
    /\ req[c].op = "idle"
    /\ status[r] \in Retriable
    /\ req' = [req EXCEPT ![c] = [op |-> "delete", node |-> n, sched |-> NoSchedule, run |-> r]]
    /\ UNCHANGED <<sched, status, of, queue, worker, tick, execs, stranded>>

DeleteCommit(c) ==
    LET r == req[c].run IN
    /\ req[c].op = "delete"
    /\ status' = [status EXCEPT ![r] = "gone"]
    /\ req' = [req EXCEPT ![c] = IdleReq]
    /\ UNCHANGED <<sched, of, queue, worker, tick, execs, stranded>>

\* The commit of an insert, a cancel or a delete fails: nothing is written.
CommitFails(c) ==
    /\ req[c].op \in {"insert", "cancel", "delete"}
    /\ req' = [req EXCEPT ![c] = IdleReq]
    /\ UNCHANGED <<sched, status, of, queue, worker, tick, execs, stranded>>

-----------------------------------------------------------------------------
(* What else changes a schedule row.  Each is one step, at its commit.     *)
(* None asks for a readable row, as the handler may have loaded it before  *)
(* another one made it unreadable.                                         *)

\* PATCH /schedules stores status and paused as given, whatever they say.
PatchSchedule(s) ==
    /\ alive[s]
    /\ \E m \in Modes : mode' = [mode EXCEPT ![s] = m]
    /\ UNCHANGED <<alive, gate, status, of, queue, worker, tick, req, execs, stranded>>

\* An approval requested, granted or rejected.
MoveGate(s) ==
    /\ alive[s]
    /\ \E b \in BOOLEAN : gate' = [gate EXCEPT ![s] = b]
    /\ UNCHANGED <<alive, mode, status, of, queue, worker, tick, req, execs, stranded>>

\* ON DELETE CASCADE takes the schedule's runs along.
DeleteSchedule(s) ==
    /\ alive[s]
    /\ alive' = [alive EXCEPT ![s] = FALSE]
    /\ status' = [r \in Run |-> IF ForeignKeys /\ of[r] = s /\ HasRow(r)
                                THEN "gone" ELSE status[r]]
    /\ UNCHANGED <<mode, gate, of, queue, worker, tick, req, execs, stranded>>

\* The process ends, by stop_worker or by a crash: memory is lost, the open
\* tick transaction rolls back, requests in flight break off.
Restart(n) ==
    /\ queue' = [queue EXCEPT ![n] = {}]
    /\ worker' = [worker EXCEPT ![n] = IdleWorker]
    /\ tick' = [tick EXCEPT ![n] = IdleTick]
    /\ req' = [c \in Client |-> IF req[c].node = n THEN IdleReq ELSE req[c]]
    /\ status' = [r \in Run |-> IF r \in tick[n].runs THEN "gone" ELSE status[r]]
    /\ stranded' = stranded \cup queue[n] \cup {r \in Run : Holds(n, r)}
                   \cup {r \in Run : \E c \in Client : Submits(c, r) /\ req[c].node = n}
    /\ UNCHANGED <<sched, of, execs>>

-----------------------------------------------------------------------------
Create(c) ==
    \/ \E n \in Node, s \in Schedule : TriggerCheck(c, n, s) \/ RunNowCheck(c, n, s)
    \/ \E n \in Node, r \in Run : RetryCheck(c, n, r)

Submit(c) == (\E r \in Run : InsertRun(c, r)) \/ SubmitJob(c) \/ SubmitFails(c)

Withdraw(c) ==
    \/ \E n \in Node, r \in Run : CancelCheck(c, n, r) \/ DeleteCheck(c, n, r)
    \/ CancelCommit(c)
    \/ DeleteCommit(c)
    \/ CommitFails(c)

TickStep(n) ==
    \/ TickBegin(n)
    \/ \E s \in Schedule, r \in Run : TickFire(n, s, r)
    \/ TickCommit(n)

WorkerStep(n) ==
    \/ \E r \in Run : Claim(n, r)
    \/ CommitPlan(n)
    \/ DispatchRaises(n)
    \/ Finish(n)

Admin(s) == PatchSchedule(s) \/ MoveGate(s) \/ DeleteSchedule(s)

Next ==
    \/ \E c \in Client : Create(c) \/ Submit(c) \/ Withdraw(c)
    \/ \E n \in Node : TickStep(n) \/ WorkerStep(n) \/ Restart(n)
    \/ \E s \in Schedule : Admin(s)

Spec == Init /\ [][Next]_vars

\* The worker loop never stops while its process lives, adapters return or
\* time out, and a handler that has begun runs to its end.
Fairness ==
    /\ \A n \in Node : WF_vars(WorkerStep(n))
    /\ \A c \in Client : WF_vars(SubmitJob(c) \/ SubmitFails(c))

FairSpec == Spec /\ Fairness
-----------------------------------------------------------------------------
(* Properties.                                                             *)

\* The places from which the run can still be dispatched.
Queued(r)   == \E n \in Node : r \in queue[n]
Loaded(r)   == \E n \in Node : LoadedBy(n, r)
ToSubmit(r) == \E c \in Client : Submits(c, r)
Carried(r)  == Queued(r) \/ Loaded(r) \/ ToSubmit(r)

\* However handlers, ticks, workers and restarts interleave, the adapter of a
\* run (the call that acts on another system) is started at most once: the
\* job queue is filled once for each run and a job is claimed once
\* (worker._dispatch_run_impl, api/runs.retry_run makes a new run).
AtMostOnceExecution == \A r \in Run : execs[r] <= 1

\* A run that the approval gate blocked never had its adapter started
\* (worker._dispatch_run_impl, the gate comes before the transition to running).
BlockedNeverExecuted == \A r \in Run : status[r] = "blocked" => execs[r] = 0

\* A row that still waits (scheduled) has a job on its way to a worker, and a
\* row that is running has a worker executing it, unless it was stranded by a
\* named cause: a failed submit, a claim before the tick committed, an exception
\* of dispatch_run (an unreadable schedule, a failed commit, a bad target_spec),
\* or a restart.  No handler that succeeds may drop a job
\* (worker_lifecycle._handle_schedule_run).
InFlightAccounted ==
    \A r \in Run :
        /\ status[r] = "scheduled" => Carried(r) \/ r \in stranded
        /\ status[r] = "running" => (\E n \in Node : Executing(n, r)) \/ r \in stranded

\* Why those three hold.  A run's job is in one place at a time, and while it
\* is anywhere the adapter has not been started and the row is unfinished.
OneQueue  == \A r \in Run, m, n \in Node : r \in queue[m] /\ r \in queue[n] => m = n
OneHolder == \A r \in Run, m, n \in Node : Holds(m, r) /\ Holds(n, r) => m = n
OneSubmit == \A r \in Run, c, d \in Client : Submits(c, r) /\ Submits(d, r) => c = d
OnePlace  ==
    /\ \A r \in Run, m, n \in Node : r \in queue[m] => ~LoadedBy(n, r)
    /\ \A r \in Run, n \in Node, c \in Client : r \in queue[n] => ~Submits(c, r)
    /\ \A r \in Run, n \in Node, c \in Client : LoadedBy(n, r) => ~Submits(c, r)
OneJob == OneQueue /\ OneHolder /\ OneSubmit /\ OnePlace

JobIsFresh ==
    /\ \A r \in Run : Carried(r) =>
         execs[r] = 0 /\ status[r] \in {"pending", "scheduled", "cancelled", "gone"}
    /\ \A n \in Node, r \in Run : Executing(n, r) =>
         execs[r] = 1 /\ status[r] \in {"running", "cancelled", "gone"}
    /\ \A r \in Run : status[r] \in {"none", "pending", "scheduled", "blocked"} => execs[r] = 0
    /\ \A r \in Run : execs[r] <= 1

\* The rows a tick has added are exactly its own and still uncommitted.
TickOwnsPending ==
    /\ \A n \in Node, r \in Run : r \in tick[n].runs => status[r] = "pending"
    /\ \A r \in Run, m, n \in Node : r \in tick[m].runs /\ r \in tick[n].runs => m = n
    /\ \A r \in Run : status[r] = "pending" => Queued(r) \/ r \in stranded

\* What a worker or a request carries is what its next step needs.
ControlOK ==
    /\ \A n \in Node : worker[n].pc # "idle" => worker[n].run \in Run
    /\ \A n \in Node : worker[n].pc = "loaded" => worker[n].plan # "none"
    /\ \A c \in Client : req[c].op # "idle" => req[c].node \in Node
    /\ \A c \in Client : req[c].op = "insert" => req[c].sched \in Schedule
    /\ \A c \in Client : req[c].op \in {"submit", "cancel", "delete"} => req[c].run \in Run
    /\ \A c \in Client : req[c].op = "delete" => status[req[c].run] \notin {"none", "pending"}

\* The inductive invariant of the dispatch of runs.
IInv == TypeOK /\ ControlOK /\ TickOwnsPending /\ OneJob /\ JobIsFresh /\ InFlightAccounted

\* The status a row may have after any one step, by the status it had: nothing
\* comes back from gone, a finished or blocked run is never dispatched again,
\* only a tick that rolls back undoes a pending row.
After(st) ==
    CASE st = "none"      -> {"pending", "scheduled"}
      [] st = "pending"   -> {"scheduled", "gone"}
      [] st = "scheduled" -> {"running", "failed", "blocked", "cancelled"}
      [] st = "running"   -> {"succeeded", "failed", "cancelled"}
      [] st = "succeeded" -> {"cancelled", "gone"}
      [] st = "failed"    -> {"cancelled", "gone"}
      [] st = "blocked"   -> {"cancelled", "gone"}
      [] st = "cancelled" -> {"running", "succeeded", "failed", "blocked", "gone"}
      [] OTHER            -> {}

\* The step takes the run's row because its schedule is deleted.
Cascades(r) == of[r] \in Schedule /\ ~alive'[of[r]]
\* A DELETE of the run found it finished, and has yet to commit.
Condemned(r) == \E c \in Client : req[c].op = "delete" /\ req[c].run = r

\* Every step of every actor respects that order, including the writes that
\* handlers make from stale reads (worker.py, api/runs.py).  A run in flight is
\* removed only along with its schedule, or by a DELETE that had found it
\* finished when a worker then took a cancelled run up: InFlightNotDeleted.
LegalTransitions ==
    [][\A r \in Run : status'[r] # status[r] =>
          \/ status'[r] \in After(status[r])
          \/ status[r] \in Active /\ status'[r] = "gone" /\ (Cascades(r) \/ Condemned(r))]_vars

\* Unless stranded, a scheduled run is eventually dispatched, blocked, cancelled
\* or deleted: the worker loop survives every bad run
\* (worker_lifecycle._handle_schedule_run must not raise).
ScheduledRunsSettle ==
    \A r \in Run : status[r] = "scheduled" ~> (status[r] # "scheduled" \/ r \in stranded)

\* Unless stranded, a running run eventually gets the outcome of its adapter.
RunningRunsSettle ==
    \A r \in Run : status[r] = "running" ~> (status[r] # "running" \/ r \in stranded)

\* worker.py:3-6 gives cancelled as a final status, api/runs.cancel_run as a
\* terminal one: a cancelled run should stay cancelled until it is deleted.
CancelledIsFinal ==
    [][\A r \in Run : status[r] = "cancelled" => status'[r] \in {"cancelled", "gone"}]_vars

\* api/runs.py:158-160: a schedule has at most MaxActive runs in flight.
QuotaHeld == \A s \in Schedule : ActiveCount(s) <= MaxActive

\* api/runs.py:397: DELETE /runs/{id} removes "never an in-flight run", and
\* answers 409 to one that is scheduled or running.
InFlightNotDeleted ==
    [][\A r \in Run : status[r] \in Active /\ status'[r] = "gone" => Cascades(r)]_vars
=============================================================================
