------------------------------- MODULE Trigger -------------------------------
(***************************************************************************)
(* The trigger engine's arithmetic: compute_next_fire as an operator on    *)
(* instants, and the grid of instants that each trigger_spec describes.    *)
(* Cron expressions are evaluated by a library (croniter); it is used by   *)
(* what it returns, the first instant after the base whose wall-clock time *)
(* matches, and an expression is reduced to a period and a phase.          *)
(***************************************************************************)
EXTENDS Integers

CONSTANTS
    Zone,     \* timezones
    UTC,
    Offset,   \* each zone's distance from UTC
    Absent    \* no start_at, no last fire, no next fire

ASSUME TriggerConstantsOK ==
    /\ UTC \in Zone
    /\ Offset \in [Zone -> Int]
    /\ Offset[UTC] = 0
    /\ Absent \notin Int

\* Specs that compute_next_fire accepts; it raises TriggerSpecError for others.
TriggerSpecs ==
    [kind : {"interval", "condition_watch"}, every : Nat \ {0}, start : Int \cup {Absent}]
    \cup [kind : {"one_shot"}, at : Int]
    \cup [kind : {"cron"}, every : Nat \ {0}, phase : Nat]
    \cup [kind : {"manual"}]

Recurring(spec) == spec.kind \in {"interval", "condition_watch"}

-----------------------------------------------------------------------------
\* start_at, else the fire that is being left, else the base.
AnchorOf(spec, base, last) ==
    IF spec.start # Absent THEN spec.start ELSE IF last # Absent THEN last ELSE base

\* The anchor if it is still to come, else anchor + k * every for the smallest k
\* that passes the base.
Stepped(anchor, every, base) ==
    IF anchor > base THEN anchor
    ELSE anchor + ((base - anchor) \div every + 1) * every

MatchesCron(spec, zone, t) == (t + Offset[zone]) % spec.every = spec.phase % spec.every

CronNext(spec, zone, base) ==
    CHOOSE t \in (base + 1)..(base + spec.every) : MatchesCron(spec, zone, t)

OneShotNext(spec, base, last) ==
    IF last # Absent /\ last >= spec.at THEN Absent
    ELSE IF spec.at > base THEN spec.at ELSE Absent

compute_next_fire(spec, base, last, zone) ==
    CASE Recurring(spec) -> Stepped(AnchorOf(spec, base, last), spec.every, base)
      [] spec.kind = "cron" -> CronNext(spec, zone, base)
      [] spec.kind = "one_shot" -> OneShotNext(spec, base, last)
      [] spec.kind = "manual" -> Absent

-----------------------------------------------------------------------------
\* Reference: the instants a spec means.  Without start_at the grid starts where
\* the schedule was created or last given a new trigger.
OnGrid(spec, zone, origin, t) ==
    CASE Recurring(spec) ->
            LET o == IF spec.start # Absent THEN spec.start ELSE origin
            IN  t >= o /\ (t - o) % spec.every = 0
      [] spec.kind = "cron" -> MatchesCron(spec, zone, t)
      [] spec.kind = "one_shot" -> t = spec.at
      [] spec.kind = "manual" -> FALSE
=============================================================================
