---------------------------- MODULE WindowContract ----------------------------
(***************************************************************************)
(* What the tick promises to the owners of schedules, whatever nodes,      *)
(* leases and transactions do underneath: the windows of a schedule become *)
(* runs in the order of time, each once and not before its time, and a     *)
(* fire moves the next one on, or ends a one_shot.  It does not promise    *)
(* that every window becomes a run, nor anything more of a schedule for    *)
(* which the promise was waived than that its runs stay.                   *)
(***************************************************************************)
EXTENDS Naturals

CONSTANTS Schedule, OneShot, Never

VARIABLES
    clock,
    next,   \* the next window of each schedule, or Never
    fired,  \* the windows that became runs
    waived  \* schedules promised nothing more

contractVars == <<clock, next, fired, waived>>

ContractInit ==
    /\ clock = 0
    /\ next \in [Schedule -> Nat \cup {Never}]
    /\ fired = [s \in Schedule |-> {}]
    /\ waived = {}

Ahead(t, windows) == t \in Nat /\ \A w \in windows : w < t

Rests(s) == fired'[s] = fired[s] /\ next'[s] = next[s]

\* A window later than all before it becomes a run.
Fires(s) ==
    /\ \E w \in fired'[s] :
         /\ w <= clock
         /\ Ahead(w, fired[s])
         /\ fired'[s] = fired[s] \cup {w}
    /\ IF s \in OneShot THEN next'[s] = Never ELSE Ahead(next'[s], fired'[s])

\* The owner asks for another next window.
Moves(s) ==
    /\ fired'[s] = fired[s]
    /\ next'[s] = Never \/ Ahead(next'[s], fired[s])

ClockTicks ==
    /\ clock' = clock + 1
    /\ UNCHANGED <<next, fired, waived>>

\* A tick, an edit or a waiver; what is waived stays so.
Step ==
    /\ waived \subseteq waived'
    /\ \A s \in Schedule \ waived' : Fires(s) \/ Rests(s) \/ Moves(s)
    /\ \A s \in waived' : fired[s] \subseteq fired'[s]
    /\ UNCHANGED clock

ContractNext == ClockTicks \/ Step

ContractSpec == ContractInit /\ [][ContractNext]_contractVars
=============================================================================
