------------------------------ MODULE Approvals ------------------------------
(***************************************************************************)
(* Approval requests and the gate they move.  A request waits on one       *)
(* schedule; creating it sets the schedule's approval_status to pending,   *)
(* deciding it to approved or rejected.  dispatch_run (RunLifecycle) lets  *)
(* a run start only while the gate is not_required or approved.            *)
(***************************************************************************)
EXTENDS Requests

CONSTANTS
    Guarded,  \* schedules with approval requests
    Approval  \* approval ids, each issued at most once (uuid4)

ASSUME ApprovalsConstantsOK == Nothing \notin Guarded \cup Approval

VARIABLES
    request,   \* approval_requests.status, or how far the row is from existing
    regarding, \* approval_requests.schedule_id
    gateword,  \* schedules.approval_status
    deciding,  \* each handler between its read and its commit
    overtaken, \* ghost: handlers whose schedule's gate was committed to meanwhile
    garbled    \* ghost: schedules whose last committed handler was overtaken

approvalVars == <<request, regarding, gateword, deciding, overtaken, garbled>>

-----------------------------------------------------------------------------
Decisions == {"granted", "rejected"}
\* Mutant of GateFor: the request's own word.
GateIsVerdict(verdict) == verdict

GateFor(verdict) ==
    CASE verdict = "granted"  -> "approved"
      [] verdict = "rejected" -> "rejected"
      [] verdict = "pending"  -> "pending"
RequestsOn(s, word) == {a \in Approval : regarding[a] = s /\ request[a] = word}
NoCall == [approval |-> Nothing, sched |-> Nothing, verdict |-> Nothing, read |-> Nothing]
BusyOn(s) == {c \in Client : deciding[c].sched = s}

ApprovalsTypeOK ==
    /\ request \in [Approval -> {"none", "pending", "gone"} \cup Decisions]
    /\ regarding \in [Approval -> Guarded \cup {Nothing}]
    /\ gateword \in [Guarded -> {"not_required", "pending", "approved", "rejected", "gone"}]
    /\ deciding \in [Client -> [approval : Approval \cup {Nothing}, sched : Guarded \cup {Nothing},
                                verdict : {"pending", Nothing} \cup Decisions,
                                read : {"not_required", "pending", "approved", "rejected", Nothing}]]
    /\ overtaken \in SUBSET Client
    /\ garbled \in SUBSET Guarded

ApprovalsInit ==
    /\ request = [a \in Approval |-> "none"]
    /\ regarding = [a \in Approval |-> Nothing]
    /\ gateword = [s \in Guarded |-> "not_required"]
    /\ deciding = [c \in Client |-> NoCall]
    /\ overtaken = {}
    /\ garbled = {}

Begin(c, a, s, verdict) ==
    /\ deciding' = [deciding EXCEPT ![c] =
            [approval |-> a, sched |-> s, verdict |-> verdict, read |-> gateword[s]]]
    /\ UNCHANGED <<request, regarding, gateword, overtaken, garbled>>

\* POST /approvals: 404 without the schedule.
RequestRead(c, s) ==
    /\ deciding[c] = NoCall
    /\ gateword[s] # "gone"
    /\ \E a \in Approval :
         /\ request[a] = "none"
         /\ \A d \in Client : deciding[d].approval # a
         /\ Begin(c, a, s, "pending")

\* Mutant of DecideRead: decides a request whatever was decided before.
DecideAgain(c, a) ==
    /\ deciding[c] = NoCall
    /\ request[a] \in {"pending"} \cup Decisions
    /\ gateword[regarding[a]] # "gone"
    /\ \E verdict \in Decisions : Begin(c, a, regarding[a], verdict)

\* POST /approvals/{id}/grant and /reject: 404 without the request or its
\* schedule, 409 once it is decided.
DecideRead(c, a) ==
    /\ deciding[c] = NoCall
    /\ request[a] = "pending"
    /\ gateword[regarding[a]] # "gone"
    /\ \E verdict \in Decisions : Begin(c, a, regarding[a], verdict)

\* Mutant of CallCommits: the request is written, the schedule only stamped.
CommitLeavesGate(c) ==
    LET call == deciding[c] IN
    /\ call # NoCall
    /\ gateword[call.sched] # "gone"
    /\ request' = [request EXCEPT ![call.approval] = call.verdict]
    /\ regarding' = [regarding EXCEPT ![call.approval] = call.sched]
    /\ deciding' = [deciding EXCEPT ![c] = NoCall]
    /\ overtaken' = (overtaken \cup BusyOn(call.sched)) \ {c}
    /\ garbled' = IF c \in overtaken THEN garbled \cup {call.sched} ELSE garbled \ {call.sched}
    /\ UNCHANGED gateword

\* The request's row and the schedule's gate in one transaction.
CallCommits(c) ==
    LET call == deciding[c] IN
    /\ call # NoCall
    /\ gateword[call.sched] # "gone"
    /\ request' = [request EXCEPT ![call.approval] = call.verdict]
    /\ regarding' = [regarding EXCEPT ![call.approval] = call.sched]
    /\ gateword' = [gateword EXCEPT ![call.sched] = Written(@, call.read, GateFor(call.verdict))]
    /\ deciding' = [deciding EXCEPT ![c] = NoCall]
    /\ overtaken' = (overtaken \cup BusyOn(call.sched)) \ {c}
    /\ garbled' = IF c \in overtaken THEN garbled \cup {call.sched} ELSE garbled \ {call.sched}

\* The schedule went meanwhile: its UPDATE matches no row and all is rolled back.
CallFails(c) ==
    /\ deciding[c] # NoCall
    /\ gateword[deciding[c].sched] = "gone"
    /\ deciding' = [deciding EXCEPT ![c] = NoCall]
    /\ overtaken' = overtaken \ {c}
    /\ UNCHANGED <<request, regarding, gateword, garbled>>

\* DELETE /schedules/{id}; without foreign keys the requests stay behind.
GuardedDeleted(s) ==
    /\ gateword[s] # "gone"
    /\ gateword' = [gateword EXCEPT ![s] = "gone"]
    /\ request' = [a \in Approval |->
            IF FKEnforced /\ regarding[a] = s THEN "gone" ELSE request[a]]
    /\ UNCHANGED <<regarding, deciding, overtaken, garbled>>

ApprovalsNext ==
    \/ \E c \in Client : CallCommits(c) \/ CallFails(c)
    \/ \E c \in Client, s \in Guarded : RequestRead(c, s)
    \/ \E c \in Client, a \in Approval : DecideRead(c, a)
    \/ \E s \in Guarded : GuardedDeleted(s)

ApprovalsSpec == ApprovalsInit /\ [][ApprovalsNext]_approvalVars

-----------------------------------------------------------------------------
\* The gate agrees with the requests: open for approval only with a granted
\* request, closed as pending or rejected only with such a request, free only
\* without any; unless handlers of the schedule overlapped and none has
\* committed undisturbed since (create_approval, _decide).
GateHasReason == \A s \in Guarded \ garbled :
    CASE gateword[s] = "approved"     -> RequestsOn(s, "granted") # {}
      [] gateword[s] = "rejected"     -> RequestsOn(s, "rejected") # {}
      [] gateword[s] = "pending"      -> RequestsOn(s, "pending") # {}
      [] gateword[s] = "not_required" -> \A a \in Approval : regarding[a] # s
      [] OTHER -> TRUE

\* A decision stands: a granted or rejected request is decided otherwise only
\* by a handler that overlapped the first decision (the 409 of _decide).
DecisionsStand ==
    [][\A a \in Approval : request[a] \in Decisions =>
          \/ request'[a] \in {request[a], "gone"}
          \/ regarding[a] \in garbled']_approvalVars
=============================================================================
