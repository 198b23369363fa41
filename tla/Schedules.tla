------------------------------ MODULE Schedules ------------------------------
(***************************************************************************)
(* Creation of schedules by its three surfaces, and how a schedule's next  *)
(* fire moves from then on: by ticks and by PATCH.  FireWindow has the     *)
(* races of the tick and uses any later instant as the next fire; here     *)
(* each handler is one step, except for the creation quota, and the        *)
(* instants are exact.  One schedule is followed; of the user's other      *)
(* schedules, created by REST, only the number matters.                    *)
(***************************************************************************)
EXTENDS Trigger, Requests, FiniteSets

CONSTANTS
    Wish,         \* the trigger_specs clients ask for
    MaxPerUser,   \* quotas.max_schedules_per_user
    MinInterval,  \* quotas.min_interval_seconds
    MaxClock      \* bound on the clock

ASSUME SchedulesConstantsOK ==
    /\ Wish \subseteq TriggerSpecs
    /\ MaxPerUser \in Nat \ {0}
    /\ MinInterval \in Nat
    /\ MaxClock \in Nat
    /\ IsFiniteSet(Client)

VARIABLES
    clock,
    row,       \* the schedules row that is followed
    others,    \* how many more the user has
    creating   \* the base time of REST creates between their count and their insert

scheduleVars == <<clock, row, others, creating>>

-----------------------------------------------------------------------------
Row == [spec : Wish, zone : Zone, via : {"rest", "a2a", "mcp"},
        live : BOOLEAN, \* active, enabled and not paused
        next : Int \cup {Absent},
        last : Int \cup {Absent},
        asOf : Int,     \* ghost: the instant the next fire was computed from
        origin : Int]   \* ghost: the same, but when it was not computed by a tick
MadeBy(vias) == IF row # Nothing /\ row.via \in vias THEN 1 ELSE 0
\* The user's schedules: MCP records an owner of its own.
Owned == others + MadeBy({"rest", "a2a"})

SchedulesTypeOK ==
    /\ clock \in 0..MaxClock
    /\ row \in Row \cup {Nothing}
    /\ others \in Nat
    /\ creating \in [Client -> 0..MaxClock \cup {Nothing}]

SchedulesInit ==
    /\ clock = 0
    /\ row = Nothing
    /\ others = 0
    /\ creating = [c \in Client |-> Nothing]

TimePasses ==
    /\ clock < MaxClock
    /\ clock' = clock + 1
    /\ UNCHANGED <<row, others, creating>>

\* A new row whose first fire was computed at base, in zone computed.
NewRow(spec, zone, via, base, computed) ==
    [spec |-> spec, zone |-> zone, via |-> via, live |-> TRUE,
     next |-> compute_next_fire(spec, base, Absent, computed),
     last |-> Absent, asOf |-> base, origin |-> base]

Create(via, spec, zone, base, computed) ==
    /\ row = Nothing
    /\ row' = NewRow(spec, zone, via, base, computed)

LongEnough(spec) == spec.kind = "interval" => spec.every >= MinInterval

\* Mutant of RestCount: goes on when the quota is reached.
RestCountIgnored(c) ==
    /\ creating[c] = Nothing
    /\ creating' = [creating EXCEPT ![c] = clock]
    /\ UNCHANGED <<clock, row, others>>

\* POST /schedules: 429 at the user's quota, and below the minimal interval.
RestCount(c) ==
    /\ creating[c] = Nothing
    /\ Owned < MaxPerUser
    /\ creating' = [creating EXCEPT ![c] = clock]
    /\ UNCHANGED <<clock, row, others>>

RestInsert(c, spec, zone) ==
    /\ creating[c] # Nothing
    /\ LongEnough(spec)
    /\ Create("rest", spec, zone, creating[c], zone)
    /\ creating' = [creating EXCEPT ![c] = Nothing]
    /\ UNCHANGED <<clock, others>>

RestInsertsOther(c) ==
    /\ creating[c] # Nothing
    /\ others' = others + 1
    /\ creating' = [creating EXCEPT ![c] = Nothing]
    /\ UNCHANGED <<clock, row>>

\* A2A schedule.create: no quotas, and the timezone it stores is not the one it
\* computes with.
A2ACreate(spec, zone) ==
    /\ Create("a2a", spec, zone, clock, UTC)
    /\ UNCHANGED <<clock, others, creating>>

\* MCP schedule_create: no quotas, and an owner of its own.
McpCreate(spec, zone) ==
    /\ Create("mcp", spec, zone, clock, zone)
    /\ UNCHANGED <<clock, others, creating>>

DueNow == row # Nothing /\ row.live /\ row.next # Absent /\ row.next <= clock

\* Mutant of TickAdvances: steps from now without the fire it leaves.
TickDrifts ==
    /\ DueNow
    /\ LET next == compute_next_fire(row.spec, clock, Absent, row.zone) IN
       row' = [row EXCEPT !.next = next,
                          !.last = row.next,
                          !.asOf = clock,
                          !.live = next # Absent \/ row.spec.kind # "one_shot"]
    /\ UNCHANGED <<clock, others, creating>>

\* tick_once on a due schedule, however late; a one_shot is completed by it.
TickAdvances ==
    /\ DueNow
    /\ LET next == compute_next_fire(row.spec, clock, row.next, row.zone) IN
       row' = [row EXCEPT !.next = next,
                          !.last = row.next,
                          !.asOf = clock,
                          !.live = next # Absent \/ row.spec.kind # "one_shot"]
    /\ UNCHANGED <<clock, others, creating>>

\* PATCH /schedules/{id} of status, enabled or paused, which moves no fire.
ScheduleSwitched ==
    /\ row # Nothing
    /\ row' = [row EXCEPT !.live = ~@]
    /\ UNCHANGED <<clock, others, creating>>

\* PATCH /schedules/{id} of trigger or timezone: from now, without the last fire,
\* and no quota.  A completed schedule stays completed.
SchedulePatch(spec, zone) ==
    /\ row # Nothing
    /\ row' = [row EXCEPT !.spec = spec,
                          !.zone = zone,
                          !.next = compute_next_fire(spec, clock, Absent, zone),
                          !.asOf = clock,
                          !.origin = clock]
    /\ UNCHANGED <<clock, others, creating>>

ScheduleDelete ==
    /\ row # Nothing
    /\ row' = Nothing
    /\ UNCHANGED <<clock, others, creating>>

OtherDeleted ==
    /\ others > 0
    /\ others' = others - 1
    /\ UNCHANGED <<clock, row, creating>>

SchedulesNext ==
    \/ TimePasses
    \/ TickAdvances
    \/ ScheduleSwitched
    \/ ScheduleDelete
    \/ OtherDeleted
    \/ \E c \in Client : RestCount(c) \/ RestInsertsOther(c)
    \/ \E spec \in Wish, zone \in Zone :
         \/ \E c \in Client : RestInsert(c, spec, zone)
         \/ A2ACreate(spec, zone)
         \/ McpCreate(spec, zone)
         \/ SchedulePatch(spec, zone)

SchedulesSpec == SchedulesInit /\ [][SchedulesNext]_scheduleVars

-----------------------------------------------------------------------------
\* The first fire of an A2A schedule is computed in UTC.
Misplaced(r) == r.via = "a2a" /\ r.zone # UTC /\ r.asOf = r.origin

\* The next fire is the earliest instant of the schedule's own grid after the
\* instant it was computed from, and none only if there is none: late ticks skip
\* windows but never drift off the grid or come back to one (compute_next_fire).
\* Excepted is the first fire of an A2A schedule with another timezone.
NextIsEarliest == row # Nothing /\ ~Misplaced(row) =>
    LET On(t) == OnGrid(row.spec, row.zone, row.origin, t)
        Horizon == row.asOf + MaxClock + 4
    IN  IF row.next = Absent
        THEN \A t \in (row.asOf + 1)..Horizon : ~On(t)
        ELSE /\ row.next > row.asOf
             /\ On(row.next)
             /\ \A t \in (row.asOf + 1)..(row.next - 1) : ~On(t)

\* REST creations exceed the user's quota by no more than the requests that can
\* have counted before the last allowed insert (create_schedule counts and
\* inserts in one session but without a lock).
RestCreationsBounded == others + MadeBy({"rest"}) <= MaxPerUser + Cardinality(Client) - 1
=============================================================================
