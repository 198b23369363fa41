--------------------------- MODULE MCControlPlane ---------------------------
(***************************************************************************)
(* A small instance of ControlPlane: two timezones one instant apart, and  *)
(* a schedule of every kind of trigger, with and without an anchor.        *)
(***************************************************************************)
EXTENDS ControlPlane

MCOffset == [z \in Zone |-> IF z = UTC THEN 0 ELSE 1]

MCWish == {
    [kind |-> "interval", every |-> 2, start |-> Absent],
    [kind |-> "interval", every |-> 3, start |-> 3],
    [kind |-> "one_shot", at |-> 2],
    [kind |-> "cron", every |-> 3, phase |-> 1],
    [kind |-> "manual"]}
=============================================================================
