------------------------------ MODULE FireWindow ------------------------------
(***************************************************************************)
(* The tick and the leader lock: which node may run the tick, and which    *)
(* fire windows of a schedule become runs.                                 *)
(*                                                                         *)
(* The lock is a key of the shared cache (Redis or Valkey) with a time to  *)
(* live; acquire is a get, a set and a get, release a get and a delete,    *)
(* and the cache serves other processes in between.  The health probe      *)
(* /health/leader?contend=1 takes the same lock and lets it expire.  A     *)
(* leader reads the schedules, decides, and commits; PATCH /schedules      *)
(* re-anchors a schedule's next fire in a transaction of its own.          *)
(*                                                                         *)
(* Abstracted: what follows a fire is any later instant, as the trigger    *)
(* engine promises; jobs and the rows' later life (module RunLifecycle);   *)
(* how long a lease lasts, so it may end at any time.                      *)
(***************************************************************************)
EXTENDS Naturals

CONSTANTS
    Node,      \* processes with a tick loop on the shared cache
    Prober,    \* requests to /health/leader?contend=1
    Editor,    \* concurrent PATCH /schedules requests
    Schedule,
    OneShot,   \* schedules with trigger_type one_shot
    BadPolicy, \* may an MCP client create a schedule with an unknown misfire_policy?
    MaxTime,   \* bound on the clock
    MaxFaults, \* bound on crashes, failed calls and leases too short for a tick
    Never, Keep, NoOne, NoSchedule

ASSUME ConstantsOK ==
    /\ OneShot \subseteq Schedule
    /\ BadPolicy \in BOOLEAN
    /\ MaxTime \in Nat
    /\ MaxFaults \in Nat
    /\ Node \cap Prober = {}
    /\ NoOne \notin Node \cup Prober
    /\ NoSchedule \notin Schedule
    /\ Never \notin Nat
    /\ Keep \notin Nat \cup {Never}

VARIABLES
    now,      \* the clock
    lock,     \* whose token the key scheduler:leader holds
    pc,       \* where each contender is in acquire, tick_once and release
    seen,     \* next_fire_at as each node's tick read it, if due
    plan,     \* the next_fire_at each node's tick will write
    next,     \* schedules.next_fire_at
    runnable, \* active, enabled and not paused
    broken,   \* schedules whose trigger_spec was patched to null
    target,   \* the schedule each editor is changing
    anchor,   \* the next_fire_at the editor will write
    poisoned, \* is there a runnable row that cannot be read back?
    fired,    \* the scheduled_for of each schedule's runs
    faults,
    twice,    \* ghost: schedules with two runs for one window
    raced,    \* ghost: two contenders found the key absent, or it ran out on its holder
    overlapped, \* ghost: two nodes were inside a tick at once
    excused   \* ghost: schedules edited across a tick's commit, or fired while broken

election == <<lock, pc, raced, overlapped>>
ticks    == <<seen, plan>>
rows     == <<next, runnable, broken, poisoned, fired, twice>>
edits    == <<target, anchor>>
vars == <<now, election, ticks, rows, edits, faults, excused>>

-----------------------------------------------------------------------------
Contender == Node \cup Prober
Instant   == 0..(MaxTime + 1)
Later(t)  == {i \in Instant : i > t}

Leading(n) == pc[n] \in {"lead", "scanned"}

\* Mutant of Due: a window fires an instant early.
DueSoon(s) == runnable[s] /\ next[s] # Never /\ next[s] <= now + 1

Due(s) == runnable[s] /\ next[s] # Never /\ next[s] <= now

TypeOK ==
    /\ now \in 0..MaxTime
    /\ lock \in Contender \cup {NoOne}
    /\ pc \in [Contender -> {"idle", "set", "confirm", "lead", "scanned", "release", "delete"}]
    /\ seen \in [Node -> [Schedule -> Instant \cup {Never}]]
    /\ plan \in [Node -> [Schedule -> Instant \cup {Never, Keep}]]
    /\ next \in [Schedule -> Instant \cup {Never}]
    /\ runnable \in [Schedule -> BOOLEAN]
    /\ broken \in SUBSET Schedule
    /\ poisoned \in BOOLEAN
    /\ target \in [Editor -> Schedule \cup {NoSchedule}]
    /\ anchor \in [Editor -> Instant \cup {Never}]
    /\ fired \in [Schedule -> SUBSET Instant]
    /\ faults \in 0..MaxFaults
    /\ twice \in SUBSET Schedule
    /\ raced \in BOOLEAN
    /\ overlapped \in BOOLEAN
    /\ excused \in SUBSET Schedule

NothingSeen == [s \in Schedule |-> Never]
NothingPlanned == [s \in Schedule |-> Keep]

Init ==
    /\ now = 0
    /\ lock = NoOne
    /\ pc = [a \in Contender |-> "idle"]
    /\ seen = [n \in Node |-> NothingSeen]
    /\ plan = [n \in Node |-> NothingPlanned]
    /\ next \in [Schedule -> Later(0)]
    /\ runnable = [s \in Schedule |-> TRUE]
    /\ broken = {}
    /\ poisoned = FALSE
    /\ target = [e \in Editor |-> NoSchedule]
    /\ anchor = [e \in Editor |-> Never]
    /\ fired = [s \in Schedule |-> {}]
    /\ faults = 0
    /\ twice = {}
    /\ raced = FALSE
    /\ overlapped = FALSE
    /\ excused = {}

\* The locals of a tick end with its transaction.
Forget(n) ==
    /\ seen' = [seen EXCEPT ![n] = NothingSeen]
    /\ plan' = [plan EXCEPT ![n] = NothingPlanned]

Pass ==
    /\ now < MaxTime
    /\ now' = now + 1
    /\ UNCHANGED <<election, ticks, rows, edits, faults, excused>>

-----------------------------------------------------------------------------
(* acquire: get, set, get.                                                 *)

AcquireGet(a) ==
    /\ pc[a] = "idle"
    /\ lock = NoOne
    /\ pc' = [pc EXCEPT ![a] = "set"]
    /\ raced' = (raced \/ \E b \in Contender : pc[b] = "set")
    /\ UNCHANGED <<now, lock, overlapped, ticks, rows, edits, faults, excused>>

AcquireSet(a) ==
    /\ pc[a] = "set"
    /\ lock' = a
    /\ pc' = [pc EXCEPT ![a] = "confirm"]
    /\ UNCHANGED <<now, raced, overlapped, ticks, rows, edits, faults, excused>>

\* Mutant of AcquireConfirm: whoever landed the set leads, without a second look.
ConfirmUnseen(a) ==
    /\ pc[a] = "confirm"
    /\ IF a \in Node
       THEN /\ pc' = [pc EXCEPT ![a] = "lead"]
            /\ overlapped' = (overlapped \/ \E n \in Node : Leading(n))
       ELSE /\ pc' = [pc EXCEPT ![a] = "idle"]
            /\ UNCHANGED overlapped
    /\ UNCHANGED <<now, lock, raced, ticks, rows, edits, faults, excused>>

\* A probe that wins keeps the key and returns.
AcquireConfirm(a) ==
    /\ pc[a] = "confirm"
    /\ IF lock = a /\ a \in Node
       THEN /\ pc' = [pc EXCEPT ![a] = "lead"]
            /\ overlapped' = (overlapped \/ \E n \in Node : Leading(n))
       ELSE /\ pc' = [pc EXCEPT ![a] = "idle"]
            /\ UNCHANGED overlapped
    /\ UNCHANGED <<now, lock, raced, ticks, rows, edits, faults, excused>>

\* The time to live of a key that its owner has left behind runs out.
Expire ==
    /\ lock # NoOne
    /\ pc[lock] = "idle"
    /\ lock' = NoOne
    /\ UNCHANGED <<now, pc, raced, overlapped, ticks, rows, edits, faults, excused>>

\* The lease runs out under its owner: a tick never renews it.
LeaseRunsOut ==
    /\ lock # NoOne
    /\ pc[lock] # "idle"
    /\ faults < MaxFaults
    /\ faults' = faults + 1
    /\ lock' = NoOne
    /\ raced' = (raced \/ pc[lock] \in {"lead", "scanned", "delete"})
    /\ UNCHANGED <<now, pc, overlapped, ticks, rows, edits, excused>>

(* release: get, delete.                                                   *)

\* Mutant of ReleaseGet: deletes the key without comparing tokens.
ReleaseAny(n) ==
    /\ pc[n] = "release"
    /\ pc' = [pc EXCEPT ![n] = "delete"]
    /\ UNCHANGED <<now, lock, raced, overlapped, ticks, rows, edits, faults, excused>>

ReleaseGet(n) ==
    /\ pc[n] = "release"
    /\ pc' = [pc EXCEPT ![n] = IF lock = n THEN "delete" ELSE "idle"]
    /\ UNCHANGED <<now, lock, raced, overlapped, ticks, rows, edits, faults, excused>>

ReleaseDelete(n) ==
    /\ pc[n] = "delete"
    /\ lock' = NoOne
    /\ pc' = [pc EXCEPT ![n] = "idle"]
    /\ UNCHANGED <<now, raced, overlapped, ticks, rows, edits, faults, excused>>

\* The process dies or a cache call fails: the key stays until it expires.
Abort(a) ==
    /\ pc[a] # "idle"
    /\ faults < MaxFaults
    /\ faults' = faults + 1
    /\ pc' = [pc EXCEPT ![a] = "idle"]
    /\ IF a \in Node THEN Forget(a) ELSE UNCHANGED ticks
    /\ UNCHANGED <<now, lock, raced, overlapped, rows, edits, excused>>

-----------------------------------------------------------------------------
(* The transaction of tick_once.                                           *)

\* What compute_next_fire returns for a schedule that fires now; Keep when it
\* raises, which the tick swallows and leaves next_fire_at as it was.
Advances(s) ==
    IF s \in broken THEN {Keep}
    ELSE IF s \in OneShot THEN {Never}
    ELSE Later(now)

TickScan(n) ==
    /\ pc[n] = "lead"
    /\ ~poisoned
    /\ pc' = [pc EXCEPT ![n] = "scanned"]
    /\ seen' = [seen EXCEPT ![n] = [s \in Schedule |-> IF Due(s) THEN next[s] ELSE Never]]
    /\ \E f \in [Schedule -> Instant \cup {Never, Keep}] :
         /\ \A s \in Schedule : f[s] \in IF Due(s) THEN Advances(s) ELSE {Keep}
         /\ plan' = [plan EXCEPT ![n] = f]
    /\ UNCHANGED <<now, lock, raced, overlapped, rows, edits, faults, excused>>

\* The SELECT loads every runnable row, due or not: one whose misfire_policy is
\* no member of the enum raises LookupError.
ScanRaises(n) ==
    /\ pc[n] = "lead"
    /\ poisoned
    /\ pc' = [pc EXCEPT ![n] = "release"]
    /\ UNCHANGED <<now, lock, raced, overlapped, ticks, rows, edits, faults, excused>>

\* Mutant of TickCommit: the run is inserted, next_fire_at stays.
CommitKeepsNext(n) ==
    LET due == {s \in Schedule : seen[n][s] # Never} IN
    /\ pc[n] = "scanned"
    /\ pc' = [pc EXCEPT ![n] = "release"]
    /\ fired' = [s \in Schedule |-> IF s \in due THEN fired[s] \cup {seen[n][s]} ELSE fired[s]]
    /\ twice' = twice \cup {s \in due : seen[n][s] \in fired[s]}
    /\ Forget(n)
    /\ UNCHANGED <<now, lock, raced, overlapped, next, runnable, broken, poisoned, edits, faults, excused>>

\* Mutant of TickCommit: what the trigger engine returned is stored even when it
\* raised.
CommitStoresFailure(n) ==
    /\ pc[n] = "scanned"
    /\ pc' = [pc EXCEPT ![n] = "release"]
    /\ next' = [s \in Schedule |-> IF seen[n][s] # Never THEN plan[n][s] ELSE next[s]]
    /\ Forget(n)
    /\ UNCHANGED <<now, lock, raced, overlapped, runnable, broken, poisoned, fired, twice,
                   edits, faults, excused>>

\* Inserts a run for each schedule it saw due and moves next_fire_at on; a
\* finished one_shot is completed.
TickCommit(n) ==
    LET due == {s \in Schedule : seen[n][s] # Never} IN
    /\ pc[n] = "scanned"
    /\ pc' = [pc EXCEPT ![n] = "release"]
    /\ fired' = [s \in Schedule |-> IF s \in due THEN fired[s] \cup {seen[n][s]} ELSE fired[s]]
    /\ twice' = twice \cup {s \in due : seen[n][s] \in fired[s]}
    /\ next' = [s \in Schedule |-> IF plan[n][s] = Keep THEN next[s] ELSE plan[n][s]]
    /\ runnable' = [s \in Schedule |->
            IF s \in OneShot /\ s \in due /\ plan[n][s] = Never THEN FALSE ELSE runnable[s]]
    /\ excused' = excused \cup {s \in due : plan[n][s] = Keep \/ \E e \in Editor : target[e] = s}
    /\ Forget(n)
    /\ UNCHANGED <<now, lock, raced, overlapped, broken, poisoned, edits, faults>>

\* The database refuses the commit: nothing is kept, the lock is released.
CommitFails(n) ==
    /\ pc[n] = "scanned"
    /\ faults < MaxFaults
    /\ faults' = faults + 1
    /\ pc' = [pc EXCEPT ![n] = "release"]
    /\ Forget(n)
    /\ UNCHANGED <<now, lock, raced, overlapped, rows, edits, excused>>

-----------------------------------------------------------------------------
(* PATCH /schedules.                                                       *)

\* A new trigger or timezone: the next fire is computed from now, without
\* regard to the last one.  SQLAlchemy writes only a value that differs.
EditRead(e, s) ==
    /\ target[e] = NoSchedule
    /\ target' = [target EXCEPT ![e] = s]
    /\ \E i \in (Later(now) \cup {Never}) \ {next[s]} : anchor' = [anchor EXCEPT ![e] = i]
    /\ UNCHANGED <<now, election, ticks, rows, faults, excused>>

EditCommit(e) ==
    /\ target[e] # NoSchedule
    /\ next' = [next EXCEPT ![target[e]] = anchor[e]]
    /\ broken' = broken \ {target[e]}
    /\ target' = [target EXCEPT ![e] = NoSchedule]
    /\ anchor' = [anchor EXCEPT ![e] = Never]
    /\ UNCHANGED <<now, election, ticks, runnable, poisoned, fired, twice, faults, excused>>

\* An explicit null for trigger_spec is stored and recomputes nothing.
EditNullsSpec(e, s) ==
    /\ target[e] = NoSchedule
    /\ broken' = broken \cup {s}
    /\ UNCHANGED <<now, election, ticks, next, runnable, poisoned, fired, twice, edits, faults, excused>>

\* status, enabled and paused are written as given.
EditRunnable(e, s) ==
    /\ target[e] = NoSchedule
    /\ \E b \in BOOLEAN : runnable' = [runnable EXCEPT ![s] = b]
    /\ UNCHANGED <<now, election, ticks, next, broken, poisoned, fired, twice, edits, faults, excused>>

\* MCP schedule_create stores misfire_policy unchecked.  No handler can load the
\* row again, to delete it or otherwise.
CreatePoisoned ==
    /\ BadPolicy
    /\ ~poisoned
    /\ poisoned' = TRUE
    /\ UNCHANGED <<now, election, ticks, next, runnable, broken, fired, twice, edits, faults, excused>>

-----------------------------------------------------------------------------
Elect(a) == AcquireGet(a) \/ AcquireSet(a) \/ AcquireConfirm(a)

TickStep(n) ==
    \/ Elect(n)
    \/ TickScan(n)
    \/ ScanRaises(n)
    \/ TickCommit(n)
    \/ ReleaseGet(n)
    \/ ReleaseDelete(n)

Edit(e) ==
    \/ EditCommit(e)
    \/ \E s \in Schedule : EditRead(e, s) \/ EditNullsSpec(e, s) \/ EditRunnable(e, s)

Next ==
    \/ Pass
    \/ Expire
    \/ LeaseRunsOut
    \/ CreatePoisoned
    \/ \E n \in Node : TickStep(n) \/ CommitFails(n)
    \/ \E p \in Prober : Elect(p)
    \/ \E a \in Contender : Abort(a)
    \/ \E e \in Editor : Edit(e)

Spec == Init /\ [][Next]_vars

\* The tick loop runs as long as its process, catches what a tick raises and
\* sleeps a bounded time; the cache honours the time to live.
FairSpec == Spec /\ WF_vars(Expire) /\ \A n \in Node : WF_vars(TickStep(n))

-----------------------------------------------------------------------------
(* Properties.                                                             *)

\* Two nodes are inside a tick at once only if two contenders once both found
\* the key absent, or a lease ran out under its holder (leader.acquire).
OneLeader == overlapped => raced

\* release deletes nobody else's key, under the same two exceptions, though it
\* checks and deletes in two calls (leader.release).
ReleasesOwn == raced \/ \A n \in Node : pc[n] = "delete" => lock = n

\* No window of a schedule becomes two runs, unless two ticks overlapped, the
\* schedule was edited across a tick's commit, or its spec could not be
\* evaluated (tick.tick_once advances next_fire_at in the run's transaction).
FiredOnce == overlapped \/ twice \subseteq excused

\* A due schedule is eventually fired, paused or moved on, however the nodes
\* contend for the lock (worker_lifecycle._run_tick_loop).
DueSettles == \A s \in Schedule : Due(s) ~> (~Due(s) \/ s \in excused)

\* leader.py:3-8 and 84-87: one leader at a time, without exceptions.
LeaderExclusive == \A m, n \in Node : Leading(m) /\ Leading(n) => m = n

\* Why they hold.
LockOK ==
    \/ raced
    \/ /\ \A a, b \in Contender : pc[a] = "set" /\ pc[b] = "set" => a = b
       /\ \A a \in Contender : pc[a] = "set" => lock = NoOne
       /\ \A a \in Contender : pc[a] \in {"lead", "scanned", "delete"} => lock = a

OneTick == overlapped \/ \A m, n \in Node : Leading(m) /\ Leading(n) => m = n

PcOK == \A p \in Prober : pc[p] \in {"idle", "set", "confirm"}

\* A node remembers what it read and decided only until it commits; what it
\* decided lies after what it read.
SnapOK == \A n \in Node, s \in Schedule :
    /\ pc[n] # "scanned" => seen[n][s] = Never /\ plan[n][s] = Keep
    /\ seen[n][s] # Never => seen[n][s] <= now
    /\ plan[n][s] # Keep => seen[n][s] # Never
    /\ plan[n][s] \in Nat => plan[n][s] > seen[n][s]

\* Every window fired is past.
FiredPast == \A s \in Schedule : \A w \in fired[s] : w <= now

\* It lies before the next fire, before the one a tick is about to fire, and
\* before the one an edit is about to set.
WindowsAhead ==
    overlapped \/ \A s \in Schedule \ excused : \A w \in fired[s] :
        /\ next[s] # Never => w < next[s]
        /\ \A n \in Node : seen[n][s] # Never => w < seen[n][s]
        /\ \A e \in Editor : target[e] = s /\ anchor[e] # Never => w < anchor[e]

ElectionOK == LockOK /\ OneLeader /\ OneTick /\ PcOK
FiringOK   == SnapOK /\ FiredPast /\ WindowsAhead /\ FiredOnce

\* The inductive invariant of the tick and its lock.
IInv == TypeOK /\ ElectionOK /\ FiringOK
=============================================================================
