---------------------------- MODULE MCFireWindow ----------------------------
(***************************************************************************)
(* Small instances of FireWindow.  Nodes are interchangeable; symmetry is  *)
(* used for safety only.                                                   *)
(***************************************************************************)
EXTENDS WindowRefinement, TLC

Symmetry == Permutations(Node)
=============================================================================
