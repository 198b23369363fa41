------------------------- MODULE ControlPlaneProofs -------------------------
(***************************************************************************)
(* Every behaviour of the control plane is one of each of its components,  *)
(* so that what is proved about a component alone holds of all of them     *)
(* side by side.                                                           *)
(***************************************************************************)
EXTENDS ControlPlane, RecordsProofs, ChainCompileProofs, SchedulesProofs, TargetCallProofs

\* A step of the control plane is, for each component, one of its own or none.
LEMMA StepOfEach ==
  ASSUME [ControlPlaneNext]_planeVars
  PROVE  /\ [ApprovalsNext]_approvalVars
         /\ [ChainsNext]_chainVars
         /\ [Next]_vars
         /\ [ContextNext]_contextVars
         /\ [SchedulesNext]_scheduleVars
         /\ [GroupsNext]_groupVars
         /\ [KeysNext]_keyVars
         /\ [AuditTrailNext]_auditVars
         /\ [TargetCallNext]_callVars
         /\ UNCHANGED focus
<1>1. CASE UNCHANGED planeVars
  BY <1>1 DEF planeVars
<1>2. CASE ControlPlaneNext
  BY <1>2 DEF ControlPlaneNext, OthersRest
<1> QED BY <1>1, <1>2

\* A behaviour of the control plane is one of each component.
THEOREM BehaviourOfEach ==
  ControlPlaneSpec => /\ ApprovalsSpec
                      /\ ChainsSpec
                      /\ Spec
                      /\ ContextSpec
                      /\ SchedulesSpec
                      /\ GroupsSpec
                      /\ KeysSpec
                      /\ AuditTrailSpec
                      /\ TargetCallSpec
<1>1. ControlPlaneInit => /\ ApprovalsInit /\ ChainsInit /\ Init /\ ContextInit /\ SchedulesInit
                          /\ GroupsInit /\ KeysInit /\ AuditTrailInit /\ TargetCallInit
  BY DEF ControlPlaneInit
<1> QED
  BY <1>1, StepOfEach, PTL
     DEF ControlPlaneSpec, ApprovalsSpec, ChainsSpec, Spec, ContextSpec, SchedulesSpec, GroupsSpec,
         KeysSpec, AuditTrailSpec, TargetCallSpec

\* All components keep their types, whichever is shown.
THEOREM ControlPlaneTypeCorrect == ControlPlaneSpec => []ControlPlaneTypeOK
<1>1. ControlPlaneInit => focus \in Component
  BY DEF ControlPlaneInit
<1>2. focus \in Component /\ [ControlPlaneNext]_planeVars => (focus \in Component)'
  BY StepOfEach
<1>3. ControlPlaneSpec => [](focus \in Component)
  BY <1>1, <1>2, PTL DEF ControlPlaneSpec
<1>4. /\ focus \in Component /\ ApprovalsTypeOK /\ ChainsTypeOK /\ TypeOK /\ ContextTypeOK
      /\ SchedulesTypeOK /\ GroupsTypeOK /\ KeysTypeOK /\ AuditTrailTypeOK /\ TargetCallTypeOK
      => ControlPlaneTypeOK
  BY DEF ControlPlaneTypeOK
<1> QED
  BY <1>3, <1>4, BehaviourOfEach, ApprovalsTypeCorrect, ChainsTypeCorrect, TypeCorrect,
     ContextTypeCorrect, SchedulesTypeCorrect, GroupsTypeCorrect, KeysTypeCorrect, AuditTrailTypeCorrect,
     TargetCallTypeCorrect, PTL

\* What each component promises holds while the others run beside it: gates have
\* reasons and decisions stand, stored chains compile under their versions and
\* run in the order of their needs, the context and the schedules are what was
\* asked last, no member leaves by accident, bootstraps leave one key, pages miss
\* no row and outcomes are real.
THEOREM ControlPlaneCorrect ==
  ControlPlaneSpec => /\ []GateHasReason
                      /\ DecisionsStand
                      /\ []StoredChainsCompile
                      /\ []VersionNamesDefinition
                      /\ []PlannerBudget
                      /\ []NeedsHaveResults
                      /\ []CycleIsReal
                      /\ []CyclesNeverRun
                      /\ []RowIsLastPut
                      /\ []NextIsEarliest
                      /\ []RestCreationsBounded
                      /\ MembersLeaveOnPurpose
                      /\ []BootstrapLeavesOneKey
                      /\ []PagingMissesNothing
                      /\ []SuccessIsReal
                      /\ []NothingLeftAtWork
                      /\ []FailureIsReal
<1> QED
  BY BehaviourOfEach, GateIsReasoned, DecisionsHold, ChainsCompile, VersionsName, PlannerStaysInBudget,
     ExecutionOrder, CycleErrorIsRight, CyclicChainsDoNotRun, LastPutHolds, NextFireRight,
     QuotaExceededByRequests, MembersStay, BootstrapIdempotent, PagingComplete,
     SuccessReported, TargetLeftAtWork, FailureReported, PTL
=============================================================================
