--------------------------- MODULE MCRunLifecycle ---------------------------
(***************************************************************************)
(* Small instances of RunLifecycle.  Nodes, requests and run ids are       *)
(* interchangeable; symmetry is used for safety only.                      *)
(***************************************************************************)
EXTENDS RunRefinement, TLC

Symmetry == Permutations(Node) \cup Permutations(Run) \cup Permutations(Client)
=============================================================================
