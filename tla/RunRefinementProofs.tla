------------------------ MODULE RunRefinementProofs ------------------------
(***************************************************************************)
(* RunLifecycle implements RunContract, for any number of nodes,           *)
(* schedules, runs and requests: every step of every actor is one step of  *)
(* the contract, or leaves what it sees as it was.  What a step needs to   *)
(* know of the run it writes to (that a worker about to start a target is  *)
(* the first, that a run being executed was not finished by another) is    *)
(* the invariant IInv of RunLifecycle.                                     *)
(***************************************************************************)
EXTENDS RunLifecycleProofs, RunRefinement

\* What a caller sees of each status.
LEMMA Phases ==
  /\ PhaseOf("none") = "none" /\ PhaseOf("gone") = "gone" /\ PhaseOf("succeeded") = "succeeded"
  /\ PhaseOf("pending") = "waiting" /\ PhaseOf("scheduled") = "waiting"
  /\ PhaseOf("running") = "working"
  /\ PhaseOf("failed") = "closed" /\ PhaseOf("blocked") = "closed" /\ PhaseOf("cancelled") = "closed"
  BY DEF PhaseOf

\* A step of the contract, or one it does not see.
Kept == [Contract!ContractNext]_(Contract!contractVars)

\* A step that changes no status and starts no target is not seen.
LEMMA Unseen == ASSUME UNCHANGED <<status, execs>> PROVE Kept
  BY DEF Kept, Contract!contractVars

\* Neither is the commit of a pending run, or a second closing.
LEMMA SamePhase ==
  ASSUME \A r \in Run : PhaseOf(status'[r]) = PhaseOf(status[r]), execs' = execs PROVE Kept
  BY DEF Kept, Contract!contractVars

\* A new run is asked for.
LEMMA Asked ==
  ASSUME IInv, NEW r \in Run, status[r] = "none", NEW st \in {"pending", "scheduled"},
         status' = [status EXCEPT ![r] = st], execs' = execs
  PROVE  Kept
<1>1. Contract!Ask(r)
  BY Phases DEF IInv, TypeOK, Contract!Ask
<1> QED BY <1>1 DEF Kept, Contract!ContractNext

\* A run is closed, perhaps not for the first time.
LEMMA Closed ==
  ASSUME IInv, NEW r \in Run, HasRow(r), NEW st \in {"failed", "blocked", "cancelled"},
         status' = [status EXCEPT ![r] = st], execs' = execs
  PROVE  Kept
<1>1. CASE PhaseOf(status[r]) = "closed"
  <2>1. \A q \in Run : PhaseOf(status'[q]) = PhaseOf(status[q])
    BY <1>1, Phases DEF IInv, TypeOK
  <2> QED BY <2>1, SamePhase
<1>2. CASE PhaseOf(status[r]) # "closed"
  <2>1. PhaseOf(status[r]) \in {"waiting", "working", "succeeded"}
    BY <1>2, Phases DEF HasRow, Rows
  <2>2. Contract!Close(r)
    BY <2>1, Phases DEF IInv, TypeOK, Contract!Close
  <2> QED BY <2>2 DEF Kept, Contract!ContractNext
<1> QED BY <1>1, <1>2

\* A run whose target was called succeeds.
LEMMA Succeeded ==
  ASSUME IInv, NEW r \in Run, status[r] \in {"running", "cancelled"}, execs[r] = 1,
         status' = [status EXCEPT ![r] = "succeeded"], execs' = execs
  PROVE  Kept
<1>1. PhaseOf(status[r]) \in {"working", "closed"} /\ r \in {q \in Run : execs[q] > 0}
  BY Phases
<1>2. {q \in Run : execs[q] > 0}' = {q \in Run : execs[q] > 0}
  OBVIOUS
<1>3. [q \in Run |-> PhaseOf(status[q])]' = [[q \in Run |-> PhaseOf(status[q])] EXCEPT ![r] = "succeeded"]
  BY Phases DEF IInv, TypeOK
<1>4. Contract!Succeed(r)
  BY <1>1, <1>2, <1>3 DEF Contract!Succeed
<1> QED BY <1>4 DEF Kept, Contract!ContractNext

\* The target of a run is called for the first time.
LEMMA Called ==
  ASSUME IInv, NEW r \in Run, status[r] \in {"scheduled", "cancelled"}, execs[r] = 0,
         status' = [status EXCEPT ![r] = "running"], execs' = [execs EXCEPT ![r] = @ + 1]
  PROVE  Kept
<1>1. r \notin {q \in Run : execs[q] > 0}
  BY DEF IInv, TypeOK
<1>2. {q \in Run : execs'[q] > 0} = {q \in Run : execs[q] > 0} \cup {r}
  BY DEF IInv, TypeOK
<1>3. Contract!Call(r)
  BY <1>1, <1>2, Phases DEF IInv, TypeOK, Contract!Call
<1> QED BY <1>3 DEF Kept, Contract!ContractNext

\* Runs that were asked for go.
LEMMA Removed ==
  ASSUME IInv, NEW runs \in SUBSET Run, \A r \in runs : status[r] # "none",
         \A r \in Run : status'[r] = IF r \in runs THEN "gone" ELSE status[r],
         execs' = execs
  PROVE  Kept
<1>1. \A r \in runs : PhaseOf(status[r]) # "none"
  BY Phases DEF IInv, TypeOK, Rows, Absent
<1>2. Contract!Remove(runs)
  BY <1>1, Phases DEF IInv, TypeOK, Contract!Remove
<1> QED BY <1>2 DEF Kept, Contract!ContractNext

-----------------------------------------------------------------------------
\* Whoever creates a run asks for it when the row is inserted.
LEMMA SubmitKept == ASSUME IInv, NEW c \in Client, Submit(c) PROVE Kept
<1>1. CASE SubmitJob(c) \/ SubmitFails(c)
  BY <1>1, Unseen DEF SubmitJob, SubmitFails
<1>2. ASSUME NEW r \in Run, InsertRun(c, r) PROVE Kept
  <2>1. status[r] = "none" /\ execs' = execs
        /\ (status' = status \/ status' = [status EXCEPT ![r] = "scheduled"])
    BY <1>2 DEF InsertRun
  <2> QED BY <2>1, Unseen, Asked
<1> QED BY <1>1, <1>2 DEF Submit

\* A tick asks for runs one by one; its commit is not seen, and a rollback
\* removes them.
LEMMA TickKept == ASSUME IInv, NEW n \in Node, TickStep(n) PROVE Kept
<1>1. CASE TickBegin(n)
  BY <1>1, Unseen DEF TickBegin
<1>2. ASSUME NEW s \in Schedule, NEW r \in Run, TickFire(n, s, r) PROVE Kept
  BY <1>2, Asked DEF TickFire
<1>3. CASE TickCommit(n)
  <2>1. tick[n].runs \in SUBSET Run /\ \A r \in tick[n].runs : status[r] = "pending"
    BY DEF IInv, TypeOK, TickOwnsPending
  <2>2. /\ execs' = execs
        /\ \/ status' = [r \in Run |-> IF r \in tick[n].runs THEN "scheduled" ELSE status[r]]
           \/ status' = [r \in Run |-> IF r \in tick[n].runs THEN "gone" ELSE status[r]]
    BY <1>3 DEF TickCommit
  <2>3. CASE status' = [r \in Run |-> IF r \in tick[n].runs THEN "scheduled" ELSE status[r]]
    <3>1. \A r \in Run : PhaseOf(status'[r]) = PhaseOf(status[r])
      BY <2>1, <2>3, Phases
    <3> QED BY <2>2, <3>1, SamePhase
  <2>4. CASE status' = [r \in Run |-> IF r \in tick[n].runs THEN "gone" ELSE status[r]]
    <3>1. \A r \in tick[n].runs : status[r] # "none"
      BY <2>1
    <3>2. \A r \in Run : status'[r] = IF r \in tick[n].runs THEN "gone" ELSE status[r]
      BY <2>4
    <3> QED BY <2>1, <2>2, <3>1, <3>2, Removed
  <2> QED BY <2>2, <2>3, <2>4
<1> QED BY <1>1, <1>2, <1>3 DEF TickStep

\* A worker calls the target of a run it has loaded, which nobody called, and
\* reports the outcome of a call it made.
LEMMA WorkerKept == ASSUME IInv, NEW n \in Node, WorkerStep(n) PROVE Kept
<1>1. ASSUME NEW r \in Run, Claim(n, r) PROVE Kept
  BY <1>1, Unseen DEF Claim
<1>2. CASE CommitPlan(n)
  <2>1. PICK q \in Run : q = worker[n].run /\ LoadedBy(n, q)
    BY <1>2 DEF CommitPlan, IInv, ControlOK, LoadedBy
  <2>2. worker[n].plan \in {"running", "blocked", "failed"}
    BY <1>2 DEF CommitPlan, IInv, TypeOK, ControlOK
  <2>3. execs[q] = 0 /\ status[q] \in {"pending", "scheduled", "cancelled", "gone"}
    BY <2>1 DEF IInv, JobIsFresh, Carried, Loaded
  <2>4. CASE HasRow(q)
    <3>1. /\ status' = [status EXCEPT ![q] = worker[n].plan]
          /\ status[q] \in {"scheduled", "cancelled"}
      BY <1>2, <2>1, <2>3, <2>4 DEF CommitPlan, HasRow, Rows
    <3>2. CASE worker[n].plan = "running"
      <4>1. execs' = [execs EXCEPT ![q] = @ + 1]
        BY <1>2, <2>1, <2>4, <3>2 DEF CommitPlan
      <4> QED BY <2>3, <3>1, <3>2, <4>1, Called
    <3>3. CASE worker[n].plan # "running"
      <4>1. execs' = execs /\ worker[n].plan \in {"failed", "blocked", "cancelled"}
        BY <1>2, <2>1, <2>2, <2>4, <3>3 DEF CommitPlan
      <4> QED BY <2>4, <3>1, <4>1, Closed
    <3> QED BY <3>2, <3>3
  <2>5. CASE ~HasRow(q)
    BY <1>2, <2>1, <2>5, Unseen DEF CommitPlan
  <2> QED BY <2>4, <2>5
<1>3. CASE DispatchRaises(n)
  BY <1>3, Unseen DEF DispatchRaises
<1>4. CASE Finish(n)
  <2>1. PICK q \in Run : q = worker[n].run /\ Executing(n, q)
    BY <1>4 DEF Finish, IInv, ControlOK, Executing
  <2>2. execs[q] = 1 /\ status[q] \in {"running", "cancelled", "gone"}
    BY <2>1 DEF IInv, JobIsFresh
  <2>3. execs' = execs
    BY <1>4 DEF Finish
  <2>4. PICK o \in Outcomes : status' = IF HasRow(q) THEN [status EXCEPT ![q] = o] ELSE status
    BY <1>4, <2>1 DEF Finish
  <2>5. CASE ~HasRow(q)
    BY <2>3, <2>4, <2>5, Unseen
  <2>6. CASE HasRow(q) /\ o = "succeeded"
    <3>1. status[q] \in {"running", "cancelled"}
      BY <2>2, <2>6 DEF HasRow, Rows
    <3> QED BY <2>2, <2>3, <2>4, <2>6, <3>1, Succeeded
  <2>7. CASE HasRow(q) /\ o # "succeeded"
    <3>1. o \in {"failed", "blocked", "cancelled"}
      BY <2>7 DEF Outcomes
    <3> QED BY <2>3, <2>4, <2>7, <3>1, Closed
  <2> QED BY <2>5, <2>6, <2>7
<1> QED BY <1>1, <1>2, <1>3, <1>4 DEF WorkerStep

\* A cancel closes, a delete removes, whatever became of the run since they read
\* it.
LEMMA WithdrawKept == ASSUME IInv, NEW c \in Client, Withdraw(c) PROVE Kept
<1>1. ASSUME NEW n \in Node, NEW r \in Run, CancelCheck(c, n, r) \/ DeleteCheck(c, n, r) PROVE Kept
  BY <1>1, Unseen DEF CancelCheck, DeleteCheck
<1>2. CASE CancelCommit(c)
  <2>1. PICK r \in Run : r = req[c].run
    BY <1>2 DEF CancelCommit, IInv, ControlOK
  <2>2. execs' = execs /\ status' = IF HasRow(r) THEN [status EXCEPT ![r] = "cancelled"] ELSE status
    BY <1>2, <2>1 DEF CancelCommit
  <2>3. CASE HasRow(r)
    BY <2>2, <2>3, Closed
  <2>4. CASE ~HasRow(r)
    BY <2>2, <2>4, Unseen
  <2> QED BY <2>3, <2>4
<1>3. CASE DeleteCommit(c)
  <2>1. PICK r \in Run : r = req[c].run /\ status[r] # "none"
    BY <1>3 DEF DeleteCommit, IInv, ControlOK
  <2>2. execs' = execs /\ status' = [status EXCEPT ![r] = "gone"]
    BY <1>3, <2>1 DEF DeleteCommit
  <2>3. \A q \in Run : status'[q] = IF q \in {r} THEN "gone" ELSE status[q]
    BY <2>2 DEF IInv, TypeOK
  <2>4. {r} \in SUBSET Run /\ \A q \in {r} : status[q] # "none"
    BY <2>1
  <2> QED BY <2>2, <2>3, <2>4, Removed
<1>4. CASE CommitFails(c)
  BY <1>4, Unseen DEF CommitFails
<1> QED BY <1>1, <1>2, <1>3, <1>4 DEF Withdraw

\* A restart removes the runs of its open tick, and no other.
LEMMA RestartKept == ASSUME IInv, NEW n \in Node, Restart(n) PROVE Kept
<1>1. tick[n].runs \in SUBSET Run /\ \A r \in tick[n].runs : status[r] # "none"
  BY DEF IInv, TypeOK, TickOwnsPending
<1>2. execs' = execs /\ \A r \in Run : status'[r] = IF r \in tick[n].runs THEN "gone" ELSE status[r]
  BY DEF Restart
<1> QED BY <1>1, <1>2, Removed

\* Deleting a schedule removes its runs.
LEMMA AdminKept == ASSUME IInv, NEW s \in Schedule, Admin(s) PROVE Kept
<1>1. CASE PatchSchedule(s) \/ MoveGate(s)
  BY <1>1, Unseen DEF PatchSchedule, MoveGate
<1>2. CASE DeleteSchedule(s)
  <2> DEFINE runs == {r \in Run : ForeignKeys /\ of[r] = s /\ HasRow(r)}
  <2>1. runs \in SUBSET Run /\ \A r \in runs : status[r] # "none"
    BY DEF HasRow, Rows
  <2>2. execs' = execs /\ \A r \in Run : status'[r] = IF r \in runs THEN "gone" ELSE status[r]
    BY <1>2 DEF DeleteSchedule
  <2> HIDE DEF runs
  <2> QED BY <2>1, <2>2, Removed
<1> QED BY <1>1, <1>2 DEF Admin

\* Every step is one of the contract, or not seen.
THEOREM StepsAreKept == IInv /\ [Next]_vars => Kept
<1> SUFFICES ASSUME IInv, [Next]_vars PROVE Kept
  OBVIOUS
<1>1. ASSUME NEW c \in Client, Create(c) PROVE Kept
  BY <1>1, Unseen DEF Create, TriggerCheck, RunNowCheck, RetryCheck
<1>2. CASE UNCHANGED vars
  BY <1>2, Unseen DEF vars
<1> QED BY <1>1, <1>2, SubmitKept, WithdrawKept, TickKept, WorkerKept, RestartKept, AdminKept DEF Next

\* A run's target is called once at most, success is reported only of a run
\* whose target was called, and no run comes back from being deleted.
THEOREM ContractIsKept == Spec => KeepsContract
<1>1. Init => Contract!ContractInit
  <2> SUFFICES ASSUME Init PROVE Contract!ContractInit
    OBVIOUS
  <2>1. \A r \in Run : status[r] = "none" /\ ~(execs[r] > 0)
    BY DEF Init
  <2> QED BY <2>1, Phases DEF Contract!ContractInit
<1>2. IInv /\ [Next]_vars => [Contract!ContractNext]_(Contract!contractVars)
  BY StepsAreKept DEF Kept
<1> QED BY <1>1, <1>2, SpecIInv, PTL DEF Spec, KeepsContract, Contract!ContractSpec
=============================================================================
