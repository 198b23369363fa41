---------------------------- MODULE ControlPlane ----------------------------
(***************************************************************************)
(* The operations of the control plane side by side: approvals, chains,    *)
(* the compiling and running of one chain, context records, schedules,     *)
(* groups, keys, the audit trail and one call of a target adapter.  No two *)
(* of them write a row the other reads (the approval gate and the outcome  *)
(* of a call are where RunLifecycle takes over; a chain is compiled from a *)
(* copy), so any interleaving of all is one of each, and a behaviour here  *)
(* exercises one of them, chosen at its start, while the others rest in    *)
(* their initial states.  The state spaces add up instead of multiplying.  *)
(***************************************************************************)
EXTENDS Approvals, Chains, ChainCompile, Context, Schedules, Groups, Keys, AuditTrail, TargetCall

VARIABLE focus  \* the component whose steps this behaviour shows

Component == {"approvals", "chains", "compile", "context", "schedules", "groups", "keys",
              "audit", "call"}

planeVars == <<approvalVars, chainVars, vars, contextVars, scheduleVars, groupVars, keyVars,
               auditVars, callVars, focus>>

\* Init, Next, Spec, vars and TypeOK are ChainCompile's.
ControlPlaneInit ==
    /\ focus \in Component
    /\ ApprovalsInit
    /\ ChainsInit
    /\ Init /\ (focus # "compile" => needs = [s \in Step |-> <<>>])
    /\ ContextInit
    /\ SchedulesInit
    /\ GroupsInit
    /\ KeysInit
    /\ AuditTrailInit
    /\ TargetCallInit

\* The components not shown.
OthersRest ==
    /\ focus # "approvals" => UNCHANGED approvalVars
    /\ focus # "chains"    => UNCHANGED chainVars
    /\ focus # "compile"   => UNCHANGED vars
    /\ focus # "context"   => UNCHANGED contextVars
    /\ focus # "schedules" => UNCHANGED scheduleVars
    /\ focus # "groups"    => UNCHANGED groupVars
    /\ focus # "keys"      => UNCHANGED keyVars
    /\ focus # "audit"     => UNCHANGED auditVars
    /\ focus # "call"      => UNCHANGED callVars
    /\ UNCHANGED focus

ControlPlaneNext ==
    \/ focus = "approvals" /\ ApprovalsNext  /\ OthersRest
    \/ focus = "chains"    /\ ChainsNext     /\ OthersRest
    \/ focus = "compile"   /\ Next           /\ OthersRest
    \/ focus = "context"   /\ ContextNext    /\ OthersRest
    \/ focus = "schedules" /\ SchedulesNext  /\ OthersRest
    \/ focus = "groups"    /\ GroupsNext     /\ OthersRest
    \/ focus = "keys"      /\ KeysNext       /\ OthersRest
    \/ focus = "audit"     /\ AuditTrailNext /\ OthersRest
    \/ focus = "call"      /\ TargetCallNext /\ OthersRest

ControlPlaneSpec == ControlPlaneInit /\ [][ControlPlaneNext]_planeVars /\ TargetCallFairness

ControlPlaneTypeOK ==
    /\ focus \in Component
    /\ ApprovalsTypeOK
    /\ ChainsTypeOK
    /\ TypeOK
    /\ ContextTypeOK
    /\ SchedulesTypeOK
    /\ GroupsTypeOK
    /\ KeysTypeOK
    /\ AuditTrailTypeOK
    /\ TargetCallTypeOK
=============================================================================
