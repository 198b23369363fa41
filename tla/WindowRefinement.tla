--------------------------- MODULE WindowRefinement ---------------------------
(***************************************************************************)
(* FireWindow keeps the promise of WindowContract.                         *)
(***************************************************************************)
EXTENDS FireWindow

\* An overlap of ticks waives the promise to every schedule.
Waived == IF overlapped THEN Schedule ELSE excused

Contract == INSTANCE WindowContract WITH clock <- now, waived <- Waived

\* Every step of a node, a probe, an editor or the cache is a step of the
\* contract or changes nothing it can see: windows fire in order, each once and
\* when due, and only a one_shot has no next one (tick.py, api/schedules.py).
KeepsWindows == Contract!ContractSpec
=============================================================================
