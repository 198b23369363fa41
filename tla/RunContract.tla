----------------------------- MODULE RunContract -----------------------------
(***************************************************************************)
(* What a run of a schedule promises to whoever asked for it, whatever     *)
(* nodes, queues, requests and restarts do underneath: its target is       *)
(* called at most once, success is reported only of a run whose target was *)
(* called, and a run that is gone stays gone.  It does not promise that    *)
(* the target is called at all, nor that a closed run stays closed.        *)
(***************************************************************************)
CONSTANT Run

VARIABLES
    phase, \* none, waiting, working, succeeded, closed (otherwise over) or gone
    called \* runs whose target was called

contractVars == <<phase, called>>

ContractInit ==
    /\ phase = [r \in Run |-> "none"]
    /\ called = {}

\* Whoever asks for a run gets an id never used before.
Ask(r) ==
    /\ phase[r] = "none"
    /\ phase' = [phase EXCEPT ![r] = "waiting"]
    /\ UNCHANGED called

\* A run cancelled while it waits may still be called.
Call(r) ==
    /\ phase[r] \in {"waiting", "closed"}
    /\ r \notin called
    /\ phase' = [phase EXCEPT ![r] = "working"]
    /\ called' = called \cup {r}

Succeed(r) ==
    /\ phase[r] \in {"working", "closed"}
    /\ r \in called
    /\ phase' = [phase EXCEPT ![r] = "succeeded"]
    /\ UNCHANGED called

\* Failed, blocked or cancelled.
Close(r) ==
    /\ phase[r] \in {"waiting", "working", "succeeded"}
    /\ phase' = [phase EXCEPT ![r] = "closed"]
    /\ UNCHANGED called

\* Runs are deleted, singly or with their schedule, or never came to be.
Remove(runs) ==
    /\ \A r \in runs : phase[r] # "none"
    /\ phase' = [r \in Run |-> IF r \in runs THEN "gone" ELSE phase[r]]
    /\ UNCHANGED called

ContractNext ==
    \/ \E r \in Run : Ask(r) \/ Call(r) \/ Succeed(r) \/ Close(r)
    \/ \E runs \in SUBSET Run : Remove(runs)

ContractSpec == ContractInit /\ [][ContractNext]_contractVars
=============================================================================
