---------------------------- MODULE RunRefinement ----------------------------
(***************************************************************************)
(* RunLifecycle keeps the promise of RunContract.                          *)
(***************************************************************************)
EXTENDS RunLifecycle

\* What the status of a row tells of its run.
PhaseOf(st) ==
    CASE st \in {"pending", "scheduled"}           -> "waiting"
      [] st = "running"                            -> "working"
      [] st \in {"failed", "blocked", "cancelled"} -> "closed"
      [] OTHER                                     -> st

Contract == INSTANCE RunContract WITH
    phase  <- [r \in Run |-> PhaseOf(status[r])],
    called <- {r \in Run : execs[r] > 0}

\* Every step of every actor is a step of the contract or changes nothing it can
\* see: a run's target is called once at most, success is reported only of a run
\* whose target was called, a run that is gone never comes back (worker.py,
\* tick.py, api/runs.py).
KeepsContract == Contract!ContractSpec
=============================================================================
