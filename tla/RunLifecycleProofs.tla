------------------------- MODULE RunLifecycleProofs -------------------------
(***************************************************************************)
(* Proofs about RunLifecycle, for any number of nodes, schedules, runs and *)
(* requests and for both settings of ForeignKeys.  IInv is inductive; the  *)
(* safety properties and the order of statuses follow from it.             *)
(***************************************************************************)
EXTENDS RunLifecycle, TLAPS

\* The empty system (no rows, no jobs, idle workers) satisfies the invariant.
THEOREM InitIInv == Init => IInv
  BY ConstantsOK DEF Init, IInv, TypeOK, ControlOK, TickOwnsPending, OneJob, OneQueue, OneHolder, OneSubmit,
     OnePlace, JobIsFresh, InFlightAccounted, Rows, Absent, Modes, sched, IdleWorker, IdleTick, IdleReq, Carried, Queued, Loaded, ToSubmit, LoadedBy, Submits, Holds, Executing

-----------------------------------------------------------------------------
\* The five checks a handler starts with change only its own request.
LEMMA RequestStep ==
  ASSUME IInv, NEW c \in Client, NEW q,
         req[c].op = "idle", q.op \in {"insert", "cancel", "delete"}, q.node \in Node,
         q \in [op : {"idle", "insert", "submit", "cancel", "delete"}, node : Node \cup {NoNode},
                sched : Schedule \cup {NoSchedule}, run : Run \cup {NoRun}],
         q.op = "insert" => q.sched \in Schedule,
         q.op \in {"cancel", "delete"} => q.run \in Run /\ HasRow(q.run),
         req' = [req EXCEPT ![c] = q],
         UNCHANGED <<sched, status, of, queue, worker, tick, execs, stranded>>
  PROVE  IInv'
<1> USE ConstantsOK DEF sched, IInv, TypeOK, ControlOK, Rows, Absent, Terminal, Retriable, Outcomes, HasRow
<1>1. TypeOK'
  OBVIOUS
<1>2. ControlOK'
  OBVIOUS
<1>3. TickOwnsPending'
  BY DEF TickOwnsPending, JobIsFresh, Carried, Queued, Loaded, ToSubmit, LoadedBy, Submits, Holds, Executing
<1>4. OneQueue'
  BY DEF OneJob, OneQueue, OnePlace, JobIsFresh, Carried, Queued, Loaded, ToSubmit, LoadedBy, Submits, Holds, Executing
<1>5. OneHolder'
  BY DEF OneJob, OneHolder, OnePlace, JobIsFresh, Carried, Queued, Loaded, ToSubmit, LoadedBy, Submits, Holds, Executing
<1>6. OneSubmit'
  BY DEF OneJob, OneSubmit, OnePlace, JobIsFresh, Carried, Queued, Loaded, ToSubmit, LoadedBy, Submits, Holds, Executing
<1>7. OnePlace'
  BY DEF OneJob, OneQueue, OneHolder, OneSubmit, OnePlace, JobIsFresh, Carried, Queued, Loaded, ToSubmit, LoadedBy, Submits, Holds, Executing
<1>8. JobIsFresh'
  BY DEF TickOwnsPending, OneJob, OneQueue, OneHolder, OneSubmit, OnePlace, JobIsFresh, Carried, Queued, Loaded, ToSubmit, LoadedBy, Submits, Holds, Executing
<1>9. InFlightAccounted'
  BY DEF TickOwnsPending, InFlightAccounted, JobIsFresh, Carried, Queued, Loaded, ToSubmit, LoadedBy, Submits, Holds, Executing
<1> QED BY <1>1, <1>2, <1>3, <1>4, <1>5, <1>6, <1>7, <1>8, <1>9 DEF OneJob

\* POST /runs, before it inserts, changes only its own request.
LEMMA TriggerCheckStep ==
  ASSUME IInv, NEW c \in Client, NEW n \in Node, NEW s \in Schedule, TriggerCheck(c, n, s) PROVE IInv'
  BY RequestStep DEF TriggerCheck, IInv, TypeOK, Retriable, Terminal, Rows, HasRow, sched

\* run_now of A2A and MCP, before it inserts, changes only its own request.
LEMMA RunNowCheckStep ==
  ASSUME IInv, NEW c \in Client, NEW n \in Node, NEW s \in Schedule, RunNowCheck(c, n, s) PROVE IInv'
  BY RequestStep DEF RunNowCheck, IInv, TypeOK, Retriable, Terminal, Rows, HasRow, sched

\* retry_run, before it inserts, changes only its own request.
LEMMA RetryCheckStep ==
  ASSUME IInv, NEW c \in Client, NEW n \in Node, NEW r \in Run, RetryCheck(c, n, r) PROVE IInv'
  BY RequestStep DEF RetryCheck, IInv, TypeOK, Retriable, Terminal, Rows, HasRow, sched

\* cancel_run, before it writes, changes only its own request.
LEMMA CancelCheckStep ==
  ASSUME IInv, NEW c \in Client, NEW n \in Node, NEW r \in Run, CancelCheck(c, n, r) PROVE IInv'
  BY RequestStep DEF CancelCheck, IInv, TypeOK, Retriable, Terminal, Rows, HasRow, sched

\* delete_run, before it writes, changes only its own request.
LEMMA DeleteCheckStep ==
  ASSUME IInv, NEW c \in Client, NEW n \in Node, NEW r \in Run, DeleteCheck(c, n, r) PROVE IInv'
  BY RequestStep DEF DeleteCheck, IInv, TypeOK, Retriable, Terminal, Rows, HasRow, sched

\* A patch of the schedule or a decision about its gate.
LEMMA SchedStep ==
  ASSUME IInv,
         alive' \in [Schedule -> BOOLEAN], mode' \in [Schedule -> Modes], gate' \in [Schedule -> BOOLEAN],
         UNCHANGED <<status, of, queue, worker, tick, req, execs, stranded>>
  PROVE  IInv'
<1> USE ConstantsOK DEF sched, IInv, TypeOK, ControlOK, Rows, Absent, Terminal, Retriable, Outcomes
<1>1. TypeOK'
  OBVIOUS
<1>2. ControlOK'
  OBVIOUS
<1>3. TickOwnsPending'
  BY DEF TickOwnsPending, JobIsFresh, Carried, Queued, Loaded, ToSubmit, LoadedBy, Submits, Holds, Executing
<1>4. OneQueue'
  BY DEF OneJob, OneQueue, OnePlace, JobIsFresh, Carried, Queued, Loaded, ToSubmit, LoadedBy, Submits, Holds, Executing
<1>5. OneHolder'
  BY DEF OneJob, OneHolder, OnePlace, JobIsFresh, Carried, Queued, Loaded, ToSubmit, LoadedBy, Submits, Holds, Executing
<1>6. OneSubmit'
  BY DEF OneJob, OneSubmit, OnePlace, JobIsFresh, Carried, Queued, Loaded, ToSubmit, LoadedBy, Submits, Holds, Executing
<1>7. OnePlace'
  BY DEF OneJob, OneQueue, OneHolder, OneSubmit, OnePlace, JobIsFresh, Carried, Queued, Loaded, ToSubmit, LoadedBy, Submits, Holds, Executing
<1>8. JobIsFresh'
  BY DEF TickOwnsPending, OneJob, OneQueue, OneHolder, OneSubmit, OnePlace, JobIsFresh, Carried, Queued, Loaded, ToSubmit, LoadedBy, Submits, Holds, Executing
<1>9. InFlightAccounted'
  BY DEF TickOwnsPending, InFlightAccounted, JobIsFresh, Carried, Queued, Loaded, ToSubmit, LoadedBy, Submits, Holds, Executing
<1> QED BY <1>1, <1>2, <1>3, <1>4, <1>5, <1>6, <1>7, <1>8, <1>9 DEF OneJob

\* patch_schedule disturbs no run.
LEMMA PatchScheduleStep ==
  ASSUME IInv, NEW s \in Schedule, PatchSchedule(s) PROVE IInv'
  BY SchedStep DEF PatchSchedule, IInv, TypeOK

\* An approval decision disturbs no run.
LEMMA MoveGateStep ==
  ASSUME IInv, NEW s \in Schedule, MoveGate(s) PROVE IInv'
  BY SchedStep DEF MoveGate, IInv, TypeOK

\* A request that ends without a write held no run's job.
LEMMA AbandonStep ==
  ASSUME IInv, NEW c \in Client,
         req[c].op \in {"insert", "cancel", "delete"},
         req' = [req EXCEPT ![c] = IdleReq],
         UNCHANGED <<sched, status, of, queue, worker, tick, execs, stranded>>
  PROVE  IInv'
<1> USE ConstantsOK DEF sched, IInv, TypeOK, ControlOK, Rows, Absent, Terminal, Retriable, Outcomes, IdleReq
<1>1. TypeOK'
  OBVIOUS
<1>2. ControlOK'
  OBVIOUS
<1>3. TickOwnsPending'
  BY DEF TickOwnsPending, Queued
<1>4. \A d \in Client, r \in Run : Submits(d, r)' <=> Submits(d, r)
  BY DEF Submits
<1>5. \A r \in Run, n \in Node :
        /\ LoadedBy(n, r)' <=> LoadedBy(n, r)
        /\ Holds(n, r)' <=> Holds(n, r)
        /\ Executing(n, r)' <=> Executing(n, r)
  BY DEF LoadedBy, Holds, Executing
<1>6. OneJob'
  BY <1>4, <1>5 DEF OneJob, OneQueue, OneHolder, OneSubmit, OnePlace
<1>7. \A r \in Run : Carried(r)' <=> Carried(r)
  BY <1>4, <1>5 DEF Carried, Queued, Loaded, ToSubmit
<1>8. JobIsFresh'
  BY <1>5, <1>7 DEF JobIsFresh
<1>9. InFlightAccounted'
  BY <1>5, <1>7 DEF InFlightAccounted
<1> QED BY <1>1, <1>2, <1>3, <1>6, <1>8, <1>9

\* A commit that fails leaves the rows alone.
LEMMA CommitFailsStep == ASSUME IInv, NEW c \in Client, CommitFails(c) PROVE IInv'
  BY AbandonStep DEF CommitFails

\* The new row takes an id nobody used and becomes the only job for it.
LEMMA InsertRunStep ==
  ASSUME IInv, NEW c \in Client, NEW r \in Run, InsertRun(c, r) PROVE IInv'
<1> USE ConstantsOK DEF sched, IInv, TypeOK, ControlOK, Rows, Absent, Terminal, Retriable, Outcomes
<1>1. CASE ~alive[req[c].sched] /\ ForeignKeys
  <2>1. /\ req[c].op = "insert"
        /\ req' = [req EXCEPT ![c] = IdleReq]
        /\ UNCHANGED <<sched, status, of, queue, worker, tick, execs, stranded>>
    BY <1>1 DEF InsertRun
  <2> QED BY <2>1, AbandonStep
<1>2. CASE ~(~alive[req[c].sched] /\ ForeignKeys)
  <2>0. /\ status[r] = "none"
        /\ req[c].op = "insert"
        /\ req[c].node \in Node /\ req[c].sched \in Schedule
        /\ status' = [status EXCEPT ![r] = "scheduled"]
        /\ of' = [of EXCEPT ![r] = req[c].sched]
        /\ req' = [req EXCEPT ![c] = [op |-> "submit", node |-> req[c].node, sched |-> NoSchedule, run |-> r]]
        /\ UNCHANGED <<sched, queue, worker, tick, execs, stranded>>
    BY <1>2 DEF InsertRun, IdleReq, IdleWorker, IdleTick, HasRow
  <2>1. TypeOK'
    BY <2>0
  <2>2. ControlOK'
    BY <2>0
  <2>3. TickOwnsPending'
    BY <2>0 DEF TickOwnsPending, JobIsFresh, Carried, Queued, Loaded, ToSubmit, LoadedBy, Submits, Holds, Executing
  <2>4. OneQueue'
    BY <2>0 DEF OneJob, OneQueue, OnePlace, JobIsFresh, Carried, Queued, Loaded, ToSubmit, LoadedBy, Submits, Holds, Executing
  <2>5. OneHolder'
    BY <2>0 DEF OneJob, OneHolder, OnePlace, JobIsFresh, Carried, Queued, Loaded, ToSubmit, LoadedBy, Submits, Holds, Executing
  <2>6. OneSubmit'
    <3>1. \A d \in Client, q \in Run : Submits(d, q)' => Submits(d, q) \/ (d = c /\ q = r)
      BY <2>0 DEF Submits
    <3>2. \A d \in Client : ~Submits(d, r)
      BY <2>0 DEF JobIsFresh, Carried, ToSubmit
    <3>3. OneSubmit
      BY DEF OneJob
    <3> QED BY <3>1, <3>2, <3>3, SMTT(30) DEF OneSubmit
  <2>7. OnePlace'
    <3>1. \A m \in Node : r \notin queue[m] /\ ~LoadedBy(m, r)
      BY <2>0 DEF JobIsFresh, Carried, Loaded, Queued
    <3>2. \A d \in Client, q \in Run : Submits(d, q)' => Submits(d, q) \/ q = r
      BY <2>0 DEF Submits
    <3>3. /\ \A m \in Node, q \in Run : LoadedBy(m, q)' <=> LoadedBy(m, q)
          /\ queue' = queue
      BY <2>0 DEF LoadedBy
    <3>4. OnePlace
      BY DEF OneJob
    <3> QED BY <3>1, <3>2, <3>3, <3>4 DEF OnePlace
  <2>8. JobIsFresh'
    BY <2>0, SMTT(40) DEF TickOwnsPending, OneJob, OneQueue, OneHolder, OneSubmit, OnePlace, JobIsFresh, Carried, Queued, Loaded, ToSubmit, LoadedBy, Submits, Holds, Executing
  <2>9. InFlightAccounted'
    BY <2>0, SMTT(40) DEF TickOwnsPending, InFlightAccounted, JobIsFresh, Carried, Queued, Loaded, ToSubmit, LoadedBy, Submits, Holds, Executing
  <2> QED BY <2>1, <2>2, <2>3, <2>4, <2>5, <2>6, <2>7, <2>8, <2>9 DEF OneJob
<1> QED BY <1>1, <1>2 DEF InsertRun, HasRow

\* The job moves from the handler to the queue of its node.
LEMMA SubmitJobStep ==
  ASSUME IInv, NEW c \in Client, SubmitJob(c) PROVE IInv'
<1> USE ConstantsOK DEF sched, IInv, TypeOK, ControlOK, Rows, Absent, Terminal, Retriable, Outcomes, SubmitJob, IdleWorker, IdleTick, IdleReq, HasRow
<1>1. TypeOK'
  OBVIOUS
<1>2. ControlOK'
  OBVIOUS
<1>3. TickOwnsPending'
  BY DEF TickOwnsPending, JobIsFresh, Carried, Queued, Loaded, ToSubmit, LoadedBy, Submits, Holds, Executing
<1>4. OneQueue'
  BY DEF OneJob, OneQueue, OnePlace, JobIsFresh, Carried, Queued, Loaded, ToSubmit, LoadedBy, Submits, Holds, Executing
<1>5. OneHolder'
  BY DEF OneJob, OneHolder, OnePlace, JobIsFresh, Carried, Queued, Loaded, ToSubmit, LoadedBy, Submits, Holds, Executing
<1>6. OneSubmit'
  BY DEF OneJob, OneSubmit, OnePlace, JobIsFresh, Carried, Queued, Loaded, ToSubmit, LoadedBy, Submits, Holds, Executing
<1>7. OnePlace'
  BY DEF OneJob, OneQueue, OneHolder, OneSubmit, OnePlace, JobIsFresh, Carried, Queued, Loaded, ToSubmit, LoadedBy, Submits, Holds, Executing
<1>8. JobIsFresh'
  BY DEF TickOwnsPending, OneJob, OneQueue, OneHolder, OneSubmit, OnePlace, JobIsFresh, Carried, Queued, Loaded, ToSubmit, LoadedBy, Submits, Holds, Executing
<1>9. InFlightAccounted'
  BY DEF TickOwnsPending, InFlightAccounted, JobIsFresh, Carried, Queued, Loaded, ToSubmit, LoadedBy, Submits, Holds, Executing
<1> QED BY <1>1, <1>2, <1>3, <1>4, <1>5, <1>6, <1>7, <1>8, <1>9 DEF OneJob

\* The job is dropped and the run counts as stranded.
LEMMA SubmitFailsStep ==
  ASSUME IInv, NEW c \in Client, SubmitFails(c) PROVE IInv'
<1> USE ConstantsOK DEF sched, IInv, TypeOK, ControlOK, Rows, Absent, Terminal, Retriable, Outcomes, SubmitFails, IdleWorker, IdleTick, IdleReq, HasRow
<1>1. TypeOK'
  OBVIOUS
<1>2. ControlOK'
  OBVIOUS
<1>3. TickOwnsPending'
  BY DEF TickOwnsPending, JobIsFresh, Carried, Queued, Loaded, ToSubmit, LoadedBy, Submits, Holds, Executing
<1>4. OneQueue'
  BY DEF OneJob, OneQueue, OnePlace, JobIsFresh, Carried, Queued, Loaded, ToSubmit, LoadedBy, Submits, Holds, Executing
<1>5. OneHolder'
  BY DEF OneJob, OneHolder, OnePlace, JobIsFresh, Carried, Queued, Loaded, ToSubmit, LoadedBy, Submits, Holds, Executing
<1>6. OneSubmit'
  BY DEF OneJob, OneSubmit, OnePlace, JobIsFresh, Carried, Queued, Loaded, ToSubmit, LoadedBy, Submits, Holds, Executing
<1>7. OnePlace'
  BY DEF OneJob, OneQueue, OneHolder, OneSubmit, OnePlace, JobIsFresh, Carried, Queued, Loaded, ToSubmit, LoadedBy, Submits, Holds, Executing
<1>8. JobIsFresh'
  BY DEF TickOwnsPending, OneJob, OneQueue, OneHolder, OneSubmit, OnePlace, JobIsFresh, Carried, Queued, Loaded, ToSubmit, LoadedBy, Submits, Holds, Executing
<1>9. InFlightAccounted'
  BY DEF TickOwnsPending, InFlightAccounted, JobIsFresh, Carried, Queued, Loaded, ToSubmit, LoadedBy, Submits, Holds, Executing
<1> QED BY <1>1, <1>2, <1>3, <1>4, <1>5, <1>6, <1>7, <1>8, <1>9 DEF OneJob

\* A scan only reads.
LEMMA TickBeginStep ==
  ASSUME IInv, NEW n \in Node, TickBegin(n) PROVE IInv'
<1> USE ConstantsOK DEF sched, IInv, TypeOK, ControlOK, Rows, Absent, Terminal, Retriable, Outcomes, TickBegin, IdleWorker, IdleTick, IdleReq, HasRow
<1>1. TypeOK'
  OBVIOUS
<1>2. ControlOK'
  OBVIOUS
<1>3. TickOwnsPending'
  BY DEF TickOwnsPending, JobIsFresh, Carried, Queued, Loaded, ToSubmit, LoadedBy, Submits, Holds, Executing
<1>4. OneQueue'
  BY DEF OneJob, OneQueue, OnePlace, JobIsFresh, Carried, Queued, Loaded, ToSubmit, LoadedBy, Submits, Holds, Executing
<1>5. OneHolder'
  BY DEF OneJob, OneHolder, OnePlace, JobIsFresh, Carried, Queued, Loaded, ToSubmit, LoadedBy, Submits, Holds, Executing
<1>6. OneSubmit'
  BY DEF OneJob, OneSubmit, OnePlace, JobIsFresh, Carried, Queued, Loaded, ToSubmit, LoadedBy, Submits, Holds, Executing
<1>7. OnePlace'
  BY DEF OneJob, OneQueue, OneHolder, OneSubmit, OnePlace, JobIsFresh, Carried, Queued, Loaded, ToSubmit, LoadedBy, Submits, Holds, Executing
<1>8. JobIsFresh'
  BY DEF TickOwnsPending, OneJob, OneQueue, OneHolder, OneSubmit, OnePlace, JobIsFresh, Carried, Queued, Loaded, ToSubmit, LoadedBy, Submits, Holds, Executing
<1>9. InFlightAccounted'
  BY DEF TickOwnsPending, InFlightAccounted, JobIsFresh, Carried, Queued, Loaded, ToSubmit, LoadedBy, Submits, Holds, Executing
<1> QED BY <1>1, <1>2, <1>3, <1>4, <1>5, <1>6, <1>7, <1>8, <1>9 DEF OneJob

\* The job is queued before the row is visible, or its submit fails.
LEMMA TickFireStep ==
  ASSUME IInv, NEW n \in Node, NEW s \in Schedule, NEW r \in Run, TickFire(n, s, r) PROVE IInv'
<1> USE ConstantsOK DEF sched, IInv, TypeOK, ControlOK, Rows, Absent, Terminal, Retriable, Outcomes
<1>1. CASE queue' = [queue EXCEPT ![n] = queue[n] \cup {r}] /\ UNCHANGED stranded
  <2>0. /\ status[r] = "none"
        /\ status' = [status EXCEPT ![r] = "pending"]
        /\ of' = [of EXCEPT ![r] = s]
        /\ tick' = [tick EXCEPT ![n] = [pc |-> "scan", due |-> tick[n].due \ {s}, runs |-> tick[n].runs \cup {r}]]
        /\ queue' = [queue EXCEPT ![n] = queue[n] \cup {r}]
        /\ UNCHANGED <<sched, worker, req, execs, stranded>>
    BY <1>1 DEF TickFire, IdleReq, IdleWorker, IdleTick, HasRow
  <2>1. TypeOK'
    BY <2>0
  <2>2. ControlOK'
    BY <2>0
  <2>3. TickOwnsPending'
    BY <2>0 DEF TickOwnsPending, JobIsFresh, Carried, Queued, Loaded, ToSubmit, LoadedBy, Submits, Holds, Executing
  <2>4. OneQueue'
    BY <2>0 DEF OneJob, OneQueue, OnePlace, JobIsFresh, Carried, Queued, Loaded, ToSubmit, LoadedBy, Submits, Holds, Executing
  <2>5. OneHolder'
    BY <2>0 DEF OneJob, OneHolder, OnePlace, JobIsFresh, Carried, Queued, Loaded, ToSubmit, LoadedBy, Submits, Holds, Executing
  <2>6. OneSubmit'
    BY <2>0 DEF OneJob, OneSubmit, OnePlace, JobIsFresh, Carried, Queued, Loaded, ToSubmit, LoadedBy, Submits, Holds, Executing
  <2>7. OnePlace'
    <3>1. \A m \in Node, q \in Run : q \in queue'[m] => q \in queue[m] \/ q = r
      BY <2>0
    <3>2. \A m \in Node : ~LoadedBy(m, r)
      BY <2>0 DEF JobIsFresh, Carried, Loaded
    <3>3. \A d \in Client : ~Submits(d, r)
      BY <2>0 DEF JobIsFresh, Carried, ToSubmit
    <3>4. /\ \A m \in Node, q \in Run : LoadedBy(m, q)' <=> LoadedBy(m, q)
          /\ \A d \in Client, q \in Run : Submits(d, q)' <=> Submits(d, q)
      BY <2>0 DEF LoadedBy, Submits
    <3> QED BY <3>1, <3>2, <3>3, <3>4 DEF OneJob, OnePlace
  <2>8. JobIsFresh'
    BY <2>0, SMTT(40) DEF TickOwnsPending, OneJob, OneQueue, OneHolder, OneSubmit, OnePlace, JobIsFresh, Carried, Queued, Loaded, ToSubmit, LoadedBy, Submits, Holds, Executing
  <2>9. InFlightAccounted'
    BY <2>0, SMTT(40) DEF TickOwnsPending, InFlightAccounted, JobIsFresh, Carried, Queued, Loaded, ToSubmit, LoadedBy, Submits, Holds, Executing
  <2> QED BY <2>1, <2>2, <2>3, <2>4, <2>5, <2>6, <2>7, <2>8, <2>9 DEF OneJob
<1>2. CASE stranded' = stranded \cup {r} /\ UNCHANGED queue
  <2>0. /\ status[r] = "none"
        /\ status' = [status EXCEPT ![r] = "pending"]
        /\ of' = [of EXCEPT ![r] = s]
        /\ tick' = [tick EXCEPT ![n] = [pc |-> "scan", due |-> tick[n].due \ {s}, runs |-> tick[n].runs \cup {r}]]
        /\ stranded' = stranded \cup {r}
        /\ UNCHANGED <<sched, worker, req, execs, queue>>
    BY <1>2 DEF TickFire, IdleReq, IdleWorker, IdleTick, HasRow
  <2>1. TypeOK'
    BY <2>0
  <2>2. ControlOK'
    BY <2>0
  <2>3. TickOwnsPending'
    BY <2>0 DEF TickOwnsPending, JobIsFresh, Carried, Queued, Loaded, ToSubmit, LoadedBy, Submits, Holds, Executing
  <2>4. OneQueue'
    BY <2>0 DEF OneJob, OneQueue, OnePlace, JobIsFresh, Carried, Queued, Loaded, ToSubmit, LoadedBy, Submits, Holds, Executing
  <2>5. OneHolder'
    BY <2>0 DEF OneJob, OneHolder, OnePlace, JobIsFresh, Carried, Queued, Loaded, ToSubmit, LoadedBy, Submits, Holds, Executing
  <2>6. OneSubmit'
    BY <2>0 DEF OneJob, OneSubmit, OnePlace, JobIsFresh, Carried, Queued, Loaded, ToSubmit, LoadedBy, Submits, Holds, Executing
  <2>7. OnePlace'
    BY <2>0, SMTT(40) DEF OneJob, OneQueue, OneHolder, OneSubmit, OnePlace, JobIsFresh, Carried, Queued, Loaded, ToSubmit, LoadedBy, Submits, Holds, Executing
  <2>8. JobIsFresh'
    BY <2>0, SMTT(40) DEF TickOwnsPending, OneJob, OneQueue, OneHolder, OneSubmit, OnePlace, JobIsFresh, Carried, Queued, Loaded, ToSubmit, LoadedBy, Submits, Holds, Executing
  <2>9. InFlightAccounted'
    BY <2>0, SMTT(40) DEF TickOwnsPending, InFlightAccounted, JobIsFresh, Carried, Queued, Loaded, ToSubmit, LoadedBy, Submits, Holds, Executing
  <2> QED BY <2>1, <2>2, <2>3, <2>4, <2>5, <2>6, <2>7, <2>8, <2>9 DEF OneJob
<1> QED BY <1>1, <1>2 DEF TickFire, HasRow

\* The pending rows of the tick become scheduled, or all vanish.
LEMMA TickCommitStep ==
  ASSUME IInv, NEW n \in Node, TickCommit(n) PROVE IInv'
<1> USE ConstantsOK DEF sched, IInv, TypeOK, ControlOK, Rows, Absent, Terminal, Retriable, Outcomes
<1>0. \/ \E unadvanced \in SUBSET {of[r] : r \in tick[n].runs} :
           /\ status' = [r \in Run |-> IF r \in tick[n].runs THEN "scheduled" ELSE status[r]]
           /\ mode' = [s \in Schedule |->
                   IF s \in OneShot \ unadvanced /\ \E r \in tick[n].runs : of[r] = s
                   THEN "held" ELSE mode[s]]
      \/ /\ status' = [r \in Run |-> IF r \in tick[n].runs THEN "gone" ELSE status[r]]
         /\ UNCHANGED mode
  BY Zenon DEF TickCommit
<1>1. ASSUME NEW unadvanced \in SUBSET {of[r] : r \in tick[n].runs},
             status' = [r \in Run |-> IF r \in tick[n].runs THEN "scheduled" ELSE status[r]],
             mode' = [s \in Schedule |->
                 IF s \in OneShot \ unadvanced /\ \E r \in tick[n].runs : of[r] = s
                 THEN "held" ELSE mode[s]]
      PROVE  IInv'
  <2>0. /\ status' = [r \in Run |-> IF r \in tick[n].runs THEN "scheduled" ELSE status[r]]
        /\ tick' = [tick EXCEPT ![n] = [pc |-> "idle", due |-> {}, runs |-> {}]]
        /\ UNCHANGED <<alive, gate, of, queue, worker, req, execs, stranded>>
    BY <1>1 DEF TickCommit, IdleReq, IdleWorker, IdleTick, HasRow
  <2>1. TypeOK'
    <3>1. "held" \in Modes /\ \A s \in Schedule : mode[s] \in Modes
      BY DEF Modes
    <3>2. mode' \in [Schedule -> Modes]
      BY <1>1, <3>1, Zenon
    <3> QED BY <2>0, <3>2
  <2>2. ControlOK'
    BY <2>0
  <2>3. TickOwnsPending'
    BY <2>0 DEF TickOwnsPending, JobIsFresh, Carried, Queued, Loaded, ToSubmit, LoadedBy, Submits, Holds, Executing
  <2>4. OneQueue'
    BY <2>0 DEF OneJob, OneQueue, OnePlace, JobIsFresh, Carried, Queued, Loaded, ToSubmit, LoadedBy, Submits, Holds, Executing
  <2>5. OneHolder'
    BY <2>0 DEF OneJob, OneHolder, OnePlace, JobIsFresh, Carried, Queued, Loaded, ToSubmit, LoadedBy, Submits, Holds, Executing
  <2>6. OneSubmit'
    BY <2>0 DEF OneJob, OneSubmit, OnePlace, JobIsFresh, Carried, Queued, Loaded, ToSubmit, LoadedBy, Submits, Holds, Executing
  <2>7. OnePlace'
    BY <2>0, SMTT(40) DEF OneJob, OneQueue, OneHolder, OneSubmit, OnePlace, JobIsFresh, Carried, Queued, Loaded, ToSubmit, LoadedBy, Submits, Holds, Executing
  <2>8. JobIsFresh'
    BY <2>0, SMTT(40) DEF TickOwnsPending, OneJob, OneQueue, OneHolder, OneSubmit, OnePlace, JobIsFresh, Carried, Queued, Loaded, ToSubmit, LoadedBy, Submits, Holds, Executing
  <2>9. InFlightAccounted'
    BY <2>0, SMTT(40) DEF TickOwnsPending, InFlightAccounted, JobIsFresh, Carried, Queued, Loaded, ToSubmit, LoadedBy, Submits, Holds, Executing
  <2> QED BY <2>1, <2>2, <2>3, <2>4, <2>5, <2>6, <2>7, <2>8, <2>9 DEF OneJob
<1>2. CASE /\ status' = [r \in Run |-> IF r \in tick[n].runs THEN "gone" ELSE status[r]]
           /\ UNCHANGED mode
  <2>0. /\ status' = [r \in Run |-> IF r \in tick[n].runs THEN "gone" ELSE status[r]]
        /\ tick' = [tick EXCEPT ![n] = [pc |-> "idle", due |-> {}, runs |-> {}]]
        /\ UNCHANGED <<sched, of, queue, worker, req, execs, stranded>>
    BY <1>2 DEF TickCommit, IdleReq, IdleWorker, IdleTick, HasRow
  <2>1. TypeOK'
    BY <2>0
  <2>2. ControlOK'
    BY <2>0
  <2>3. TickOwnsPending'
    BY <2>0 DEF TickOwnsPending, JobIsFresh, Carried, Queued, Loaded, ToSubmit, LoadedBy, Submits, Holds, Executing
  <2>4. OneQueue'
    BY <2>0 DEF OneJob, OneQueue, OnePlace, JobIsFresh, Carried, Queued, Loaded, ToSubmit, LoadedBy, Submits, Holds, Executing
  <2>5. OneHolder'
    BY <2>0 DEF OneJob, OneHolder, OnePlace, JobIsFresh, Carried, Queued, Loaded, ToSubmit, LoadedBy, Submits, Holds, Executing
  <2>6. OneSubmit'
    BY <2>0 DEF OneJob, OneSubmit, OnePlace, JobIsFresh, Carried, Queued, Loaded, ToSubmit, LoadedBy, Submits, Holds, Executing
  <2>7. OnePlace'
    BY <2>0, SMTT(40) DEF OneJob, OneQueue, OneHolder, OneSubmit, OnePlace, JobIsFresh, Carried, Queued, Loaded, ToSubmit, LoadedBy, Submits, Holds, Executing
  <2>8. JobIsFresh'
    BY <2>0, SMTT(40) DEF TickOwnsPending, OneJob, OneQueue, OneHolder, OneSubmit, OnePlace, JobIsFresh, Carried, Queued, Loaded, ToSubmit, LoadedBy, Submits, Holds, Executing
  <2>9. InFlightAccounted'
    BY <2>0, SMTT(40) DEF TickOwnsPending, InFlightAccounted, JobIsFresh, Carried, Queued, Loaded, ToSubmit, LoadedBy, Submits, Holds, Executing
  <2> QED BY <2>1, <2>2, <2>3, <2>4, <2>5, <2>6, <2>7, <2>8, <2>9 DEF OneJob
<1> QED BY <1>0, <1>1, <1>2

\* A job leaves its queue for the worker, or is consumed for a run or a schedule
\* that cannot be loaded.
LEMMA ClaimStep ==
  ASSUME IInv, NEW n \in Node, NEW r \in Run, Claim(n, r) PROVE IInv'
<1> USE ConstantsOK DEF sched, IInv, TypeOK, ControlOK, Rows, Absent, Terminal, Retriable, Outcomes
<1>1. CASE stranded' = stranded \cup {r} /\ UNCHANGED worker
  <2>0. /\ r \in queue[n]
        /\ queue' = [queue EXCEPT ![n] = queue[n] \ {r}]
        /\ stranded' = stranded \cup {r}
        /\ UNCHANGED <<sched, status, of, tick, req, execs, worker>>
    BY <1>1 DEF Claim
  <2>1. TypeOK'
    BY <2>0
  <2>2. ControlOK'
    BY <2>0
  <2>3. TickOwnsPending'
    BY <2>0 DEF TickOwnsPending, JobIsFresh, Carried, Queued, Loaded, ToSubmit, LoadedBy, Submits, Holds, Executing
  <2>4. OneQueue'
    BY <2>0 DEF OneJob, OneQueue, OnePlace, JobIsFresh, Carried, Queued, Loaded, ToSubmit, LoadedBy, Submits, Holds, Executing
  <2>5. OneHolder'
    BY <2>0 DEF OneJob, OneHolder, OnePlace, JobIsFresh, Carried, Queued, Loaded, ToSubmit, LoadedBy, Submits, Holds, Executing
  <2>6. OneSubmit'
    BY <2>0 DEF OneJob, OneSubmit, OnePlace, JobIsFresh, Carried, Queued, Loaded, ToSubmit, LoadedBy, Submits, Holds, Executing
  <2>7. OnePlace'
    BY <2>0, SMTT(40) DEF OneJob, OneQueue, OneHolder, OneSubmit, OnePlace, JobIsFresh, Carried, Queued, Loaded, ToSubmit, LoadedBy, Submits, Holds, Executing
  <2>8. JobIsFresh'
    BY <2>0, SMTT(40) DEF TickOwnsPending, OneJob, OneQueue, OneHolder, OneSubmit, OnePlace, JobIsFresh, Carried, Queued, Loaded, ToSubmit, LoadedBy, Submits, Holds, Executing
  <2>9. InFlightAccounted'
    <3>1. \A q \in Run : q # r /\ Queued(q) => Queued(q)'
      BY <2>0 DEF Queued
    <3>2. \A q \in Run : (Loaded(q) <=> Loaded(q)') /\ (ToSubmit(q) <=> ToSubmit(q)')
      BY <2>0 DEF Loaded, LoadedBy, ToSubmit, Submits
    <3>3. \A m \in Node, q \in Run : Executing(m, q) => Executing(m, q)'
      BY <2>0 DEF Executing
    <3>4. r \in stranded' /\ status' = status /\ stranded \subseteq stranded'
      BY <2>0
    <3>5. InFlightAccounted
      BY DEF IInv
    <3>6. ASSUME NEW q \in Run, status'[q] = "scheduled" PROVE Carried(q)' \/ q \in stranded'
      BY <3>1, <3>2, <3>4, <3>5, <3>6 DEF InFlightAccounted, Carried
    <3>7. ASSUME NEW q \in Run, status'[q] = "running"
          PROVE (\E m \in Node : Executing(m, q)') \/ q \in stranded'
      BY <3>3, <3>4, <3>5, <3>7 DEF InFlightAccounted
    <3> QED BY <3>6, <3>7 DEF InFlightAccounted
  <2> QED BY <2>1, <2>2, <2>3, <2>4, <2>5, <2>6, <2>7, <2>8, <2>9 DEF OneJob
<1>2. CASE HasRow(r) /\ (\E p \in Plans(r) : worker' = [worker EXCEPT ![n] = [pc |-> "loaded", run |-> r, plan |-> p]]) /\ UNCHANGED stranded
  <2>0. /\ r \in queue[n]
        /\ worker[n].pc = "idle"
        /\ status[r] \in Rows
        /\ queue' = [queue EXCEPT ![n] = queue[n] \ {r}]
        /\ \E p \in {"running", "blocked", "failed"} : worker' = [worker EXCEPT ![n] = [pc |-> "loaded", run |-> r, plan |-> p]]
        /\ UNCHANGED <<sched, status, of, tick, req, execs, stranded>>
    BY <1>2 DEF Claim, IdleReq, IdleWorker, IdleTick, HasRow, Plans
  <2>1. TypeOK'
    BY <2>0
  <2>2. ControlOK'
    BY <2>0
  <2>3. TickOwnsPending'
    BY <2>0 DEF TickOwnsPending, JobIsFresh, Carried, Queued, Loaded, ToSubmit, LoadedBy, Submits, Holds, Executing
  <2>4. OneQueue'
    BY <2>0 DEF OneJob, OneQueue, OnePlace, JobIsFresh, Carried, Queued, Loaded, ToSubmit, LoadedBy, Submits, Holds, Executing
  <2>5. OneHolder'
    <3>1. \A m \in Node, q \in Run : Holds(m, q)' => Holds(m, q) \/ (m = n /\ q = r)
      BY <2>0 DEF Holds
    <3>2. \A m \in Node : ~Holds(m, r)
      BY <2>0 DEF OneJob, OnePlace, JobIsFresh, Carried, Queued, LoadedBy, Executing, Holds
    <3>3. \A q \in Run : Holds(n, q)' => q = r
      BY <2>0 DEF Holds
    <3> QED BY <3>1, <3>2, <3>3 DEF OneJob, OneHolder
  <2>6. OneSubmit'
    BY <2>0 DEF OneJob, OneSubmit, OnePlace, JobIsFresh, Carried, Queued, Loaded, ToSubmit, LoadedBy, Submits, Holds, Executing
  <2>7. OnePlace'
    BY <2>0, SMTT(40) DEF OneJob, OneQueue, OneHolder, OneSubmit, OnePlace, JobIsFresh, Carried, Queued, Loaded, ToSubmit, LoadedBy, Submits, Holds, Executing
  <2>8. JobIsFresh'
    BY <2>0, SMTT(40) DEF TickOwnsPending, OneJob, OneQueue, OneHolder, OneSubmit, OnePlace, JobIsFresh, Carried, Queued, Loaded, ToSubmit, LoadedBy, Submits, Holds, Executing
  <2>9. InFlightAccounted'
    <3>1. Loaded(r)'
      BY <2>0 DEF Loaded, LoadedBy
    <3>2. \A q \in Run : q # r /\ Queued(q) => Queued(q)'
      BY <2>0 DEF Queued
    <3>3. \A q \in Run : Loaded(q) => Loaded(q)'
      BY <2>0 DEF Loaded, LoadedBy
    <3>4. \A q \in Run : ToSubmit(q) <=> ToSubmit(q)'
      BY <2>0 DEF ToSubmit, Submits
    <3>5. \A m \in Node, q \in Run : Executing(m, q) => Executing(m, q)'
      BY <2>0 DEF Executing
    <3> QED BY <2>0, <3>1, <3>2, <3>3, <3>4, <3>5 DEF InFlightAccounted, Carried
  <2> QED BY <2>1, <2>2, <2>3, <2>4, <2>5, <2>6, <2>7, <2>8, <2>9 DEF OneJob
<1> QED BY <1>1, <1>2 DEF Claim, HasRow

\* The worker writes what it decided, unless the row is gone.
LEMMA CommitPlanStep ==
  ASSUME IInv, NEW n \in Node, CommitPlan(n) PROVE IInv'
<1> USE ConstantsOK DEF sched, IInv, TypeOK, ControlOK, Rows, Absent, Terminal, Retriable, Outcomes
<1>1. CASE ~HasRow(worker[n].run)
  <2>0. /\ worker[n].pc = "loaded"
        /\ worker[n].run \in Run
        /\ status[worker[n].run] \notin Rows
        /\ worker' = [worker EXCEPT ![n] = [pc |-> "idle", run |-> NoRun, plan |-> "none"]]
        /\ UNCHANGED <<sched, status, of, queue, tick, req, execs, stranded>>
    BY <1>1 DEF CommitPlan, IdleReq, IdleWorker, IdleTick, HasRow
  <2>1. TypeOK'
    BY <2>0
  <2>2. ControlOK'
    BY <2>0
  <2>3. TickOwnsPending'
    BY <2>0 DEF TickOwnsPending, JobIsFresh, Carried, Queued, Loaded, ToSubmit, LoadedBy, Submits, Holds, Executing
  <2>4. OneQueue'
    BY <2>0 DEF OneJob, OneQueue, OnePlace, JobIsFresh, Carried, Queued, Loaded, ToSubmit, LoadedBy, Submits, Holds, Executing
  <2>5. OneHolder'
    BY <2>0 DEF OneJob, OneHolder, OnePlace, JobIsFresh, Carried, Queued, Loaded, ToSubmit, LoadedBy, Submits, Holds, Executing
  <2>6. OneSubmit'
    BY <2>0 DEF OneJob, OneSubmit, OnePlace, JobIsFresh, Carried, Queued, Loaded, ToSubmit, LoadedBy, Submits, Holds, Executing
  <2>7. OnePlace'
    BY <2>0, SMTT(40) DEF OneJob, OneQueue, OneHolder, OneSubmit, OnePlace, JobIsFresh, Carried, Queued, Loaded, ToSubmit, LoadedBy, Submits, Holds, Executing
  <2>8. JobIsFresh'
    BY <2>0, SMTT(40) DEF TickOwnsPending, OneJob, OneQueue, OneHolder, OneSubmit, OnePlace, JobIsFresh, Carried, Queued, Loaded, ToSubmit, LoadedBy, Submits, Holds, Executing
  <2>9. InFlightAccounted'
    BY <2>0, SMTT(40) DEF TickOwnsPending, InFlightAccounted, JobIsFresh, Carried, Queued, Loaded, ToSubmit, LoadedBy, Submits, Holds, Executing
  <2> QED BY <2>1, <2>2, <2>3, <2>4, <2>5, <2>6, <2>7, <2>8, <2>9 DEF OneJob
<1>2. CASE HasRow(worker[n].run) /\ worker[n].plan # "running"
  <2>0. /\ status[worker[n].run] \in Rows
        /\ worker[n].pc = "loaded"
        /\ worker[n].run \in Run
        /\ worker[n].plan \in {"blocked", "failed"}
        /\ status' = [status EXCEPT ![worker[n].run] = worker[n].plan]
        /\ worker' = [worker EXCEPT ![n] = [pc |-> "idle", run |-> NoRun, plan |-> "none"]]
        /\ UNCHANGED <<sched, of, queue, tick, req, execs, stranded>>
    BY <1>2 DEF CommitPlan, IdleReq, IdleWorker, IdleTick, HasRow
  <2>1. TypeOK'
    BY <2>0
  <2>2. ControlOK'
    BY <2>0
  <2>3. TickOwnsPending'
    BY <2>0 DEF TickOwnsPending, JobIsFresh, Carried, Queued, Loaded, ToSubmit, LoadedBy, Submits, Holds, Executing
  <2>4. OneQueue'
    BY <2>0 DEF OneJob, OneQueue, OnePlace, JobIsFresh, Carried, Queued, Loaded, ToSubmit, LoadedBy, Submits, Holds, Executing
  <2>5. OneHolder'
    BY <2>0 DEF OneJob, OneHolder, OnePlace, JobIsFresh, Carried, Queued, Loaded, ToSubmit, LoadedBy, Submits, Holds, Executing
  <2>6. OneSubmit'
    BY <2>0 DEF OneJob, OneSubmit, OnePlace, JobIsFresh, Carried, Queued, Loaded, ToSubmit, LoadedBy, Submits, Holds, Executing
  <2>7. OnePlace'
    BY <2>0, SMTT(40) DEF OneJob, OneQueue, OneHolder, OneSubmit, OnePlace, JobIsFresh, Carried, Queued, Loaded, ToSubmit, LoadedBy, Submits, Holds, Executing
  <2>8. JobIsFresh'
    <3>0. PICK q \in Run : q = worker[n].run
      BY <2>0
    <3>1. LoadedBy(n, q) /\ Carried(q)
      BY <2>0, <3>0 DEF LoadedBy, Carried, Loaded
    <3>2. ~Carried(q)'
      <4>1. \A m \in Node : ~LoadedBy(m, q)'
        BY <2>0, <3>0 DEF OneJob, OneHolder, Holds, LoadedBy
      <4>2. \A m \in Node : q \notin queue'[m]
        BY <2>0, <3>0, <3>1 DEF OneJob, OnePlace
      <4>3. \A c \in Client : ~Submits(c, q)'
        BY <2>0, <3>0, <3>1 DEF OneJob, OnePlace, Submits
      <4> QED BY <4>1, <4>2, <4>3 DEF Carried, Queued, Loaded, ToSubmit
    <3>3. \A m \in Node : ~Executing(m, q)'
      BY <2>0, <3>0 DEF OneJob, OneHolder, Holds, Executing
    <3>4. \A r \in Run : Carried(r)' => Carried(r)
      BY <2>0, <3>0 DEF Carried, Queued, Loaded, LoadedBy, ToSubmit, Submits
    <3>5. \A r \in Run, m \in Node : Executing(m, r)' => Executing(m, r)
      BY <2>0, <3>0 DEF Executing
    <3>6. /\ \A r \in Run : r # q => status'[r] = status[r]
          /\ execs' = execs
          /\ execs[q] = 0
      BY <2>0, <3>0, <3>1 DEF JobIsFresh
    <3>7. JobIsFresh
      OBVIOUS
    <3> QED BY <3>2, <3>3, <3>4, <3>5, <3>6, <3>7 DEF JobIsFresh
  <2>9. InFlightAccounted'
    BY <2>0, SMTT(40) DEF TickOwnsPending, InFlightAccounted, JobIsFresh, Carried, Queued, Loaded, ToSubmit, LoadedBy, Submits, Holds, Executing
  <2> QED BY <2>1, <2>2, <2>3, <2>4, <2>5, <2>6, <2>7, <2>8, <2>9 DEF OneJob
<1>3. CASE HasRow(worker[n].run) /\ worker[n].plan = "running"
  <2>0. /\ worker[n].pc = "loaded"
        /\ worker[n].run \in Run
        /\ status[worker[n].run] \in Rows
        /\ status' = [status EXCEPT ![worker[n].run] = "running"]
        /\ worker' = [worker EXCEPT ![n] = [pc |-> "executing", run |-> worker[n].run, plan |-> "none"]]
        /\ execs' = [execs EXCEPT ![worker[n].run] = execs[worker[n].run] + 1]
        /\ UNCHANGED <<sched, of, queue, tick, req, stranded>>
    BY <1>3 DEF CommitPlan, IdleReq, IdleWorker, IdleTick, HasRow
  <2>1. TypeOK'
    BY <2>0
  <2>2. ControlOK'
    BY <2>0
  <2>3. TickOwnsPending'
    BY <2>0 DEF TickOwnsPending, JobIsFresh, Carried, Queued, Loaded, ToSubmit, LoadedBy, Submits, Holds, Executing
  <2>4. OneQueue'
    BY <2>0 DEF OneJob, OneQueue, OnePlace, JobIsFresh, Carried, Queued, Loaded, ToSubmit, LoadedBy, Submits, Holds, Executing
  <2>5. OneHolder'
    BY <2>0 DEF OneJob, OneHolder, OnePlace, JobIsFresh, Carried, Queued, Loaded, ToSubmit, LoadedBy, Submits, Holds, Executing
  <2>6. OneSubmit'
    BY <2>0 DEF OneJob, OneSubmit, OnePlace, JobIsFresh, Carried, Queued, Loaded, ToSubmit, LoadedBy, Submits, Holds, Executing
  <2>7. OnePlace'
    BY <2>0, SMTT(40) DEF OneJob, OneQueue, OneHolder, OneSubmit, OnePlace, JobIsFresh, Carried, Queued, Loaded, ToSubmit, LoadedBy, Submits, Holds, Executing
  <2>8. JobIsFresh'
    BY <2>0, SMTT(40) DEF TickOwnsPending, OneJob, OneQueue, OneHolder, OneSubmit, OnePlace, JobIsFresh, Carried, Queued, Loaded, ToSubmit, LoadedBy, Submits, Holds, Executing
  <2>9. InFlightAccounted'
    BY <2>0, SMTT(40) DEF TickOwnsPending, InFlightAccounted, JobIsFresh, Carried, Queued, Loaded, ToSubmit, LoadedBy, Submits, Holds, Executing
  <2> QED BY <2>1, <2>2, <2>3, <2>4, <2>5, <2>6, <2>7, <2>8, <2>9 DEF OneJob
<1> QED BY <1>1, <1>2, <1>3 DEF CommitPlan, HasRow

\* The handler gives up on a run it has loaded or set running.
LEMMA DispatchRaisesStep ==
  ASSUME IInv, NEW n \in Node, DispatchRaises(n) PROVE IInv'
<1> USE ConstantsOK DEF sched, IInv, TypeOK, ControlOK, Rows, Absent, Terminal, Retriable, Outcomes, DispatchRaises, IdleWorker, IdleTick, IdleReq, HasRow
<1>1. TypeOK'
  OBVIOUS
<1>2. ControlOK'
  OBVIOUS
<1>3. TickOwnsPending'
  BY DEF TickOwnsPending, JobIsFresh, Carried, Queued, Loaded, ToSubmit, LoadedBy, Submits, Holds, Executing
<1>4. OneQueue'
  BY DEF OneJob, OneQueue, OnePlace, JobIsFresh, Carried, Queued, Loaded, ToSubmit, LoadedBy, Submits, Holds, Executing
<1>5. OneHolder'
  BY DEF OneJob, OneHolder, OnePlace, JobIsFresh, Carried, Queued, Loaded, ToSubmit, LoadedBy, Submits, Holds, Executing
<1>6. OneSubmit'
  BY DEF OneJob, OneSubmit, OnePlace, JobIsFresh, Carried, Queued, Loaded, ToSubmit, LoadedBy, Submits, Holds, Executing
<1>7. OnePlace'
  BY DEF OneJob, OneQueue, OneHolder, OneSubmit, OnePlace, JobIsFresh, Carried, Queued, Loaded, ToSubmit, LoadedBy, Submits, Holds, Executing
<1>8. JobIsFresh'
  BY DEF TickOwnsPending, OneJob, OneQueue, OneHolder, OneSubmit, OnePlace, JobIsFresh, Carried, Queued, Loaded, ToSubmit, LoadedBy, Submits, Holds, Executing
<1>9. InFlightAccounted'
  BY DEF TickOwnsPending, InFlightAccounted, JobIsFresh, Carried, Queued, Loaded, ToSubmit, LoadedBy, Submits, Holds, Executing
<1> QED BY <1>1, <1>2, <1>3, <1>4, <1>5, <1>6, <1>7, <1>8, <1>9 DEF OneJob

\* The outcome overwrites whatever the row says.
LEMMA FinishStep ==
  ASSUME IInv, NEW n \in Node, Finish(n) PROVE IInv'
<1> USE ConstantsOK DEF sched, IInv, TypeOK, ControlOK, Rows, Absent, Terminal, Retriable, Outcomes
<1>1. CASE ~HasRow(worker[n].run)
  <2>0. /\ worker[n].pc = "executing"
        /\ worker[n].run \in Run
        /\ worker' = [worker EXCEPT ![n] = [pc |-> "idle", run |-> NoRun, plan |-> "none"]]
        /\ status[worker[n].run] \notin Rows
        /\ UNCHANGED <<sched, status, of, queue, tick, req, execs, stranded>>
    BY <1>1 DEF Finish, IdleReq, IdleWorker, IdleTick, HasRow
  <2>1. TypeOK'
    BY <2>0
  <2>2. ControlOK'
    BY <2>0
  <2>3. TickOwnsPending'
    BY <2>0 DEF TickOwnsPending, JobIsFresh, Carried, Queued, Loaded, ToSubmit, LoadedBy, Submits, Holds, Executing
  <2>4. OneQueue'
    BY <2>0 DEF OneJob, OneQueue, OnePlace, JobIsFresh, Carried, Queued, Loaded, ToSubmit, LoadedBy, Submits, Holds, Executing
  <2>5. OneHolder'
    BY <2>0 DEF OneJob, OneHolder, OnePlace, JobIsFresh, Carried, Queued, Loaded, ToSubmit, LoadedBy, Submits, Holds, Executing
  <2>6. OneSubmit'
    BY <2>0 DEF OneJob, OneSubmit, OnePlace, JobIsFresh, Carried, Queued, Loaded, ToSubmit, LoadedBy, Submits, Holds, Executing
  <2>7. OnePlace'
    BY <2>0, SMTT(40) DEF OneJob, OneQueue, OneHolder, OneSubmit, OnePlace, JobIsFresh, Carried, Queued, Loaded, ToSubmit, LoadedBy, Submits, Holds, Executing
  <2>8. JobIsFresh'
    BY <2>0, SMTT(40) DEF TickOwnsPending, OneJob, OneQueue, OneHolder, OneSubmit, OnePlace, JobIsFresh, Carried, Queued, Loaded, ToSubmit, LoadedBy, Submits, Holds, Executing
  <2>9. InFlightAccounted'
    BY <2>0, SMTT(40) DEF TickOwnsPending, InFlightAccounted, JobIsFresh, Carried, Queued, Loaded, ToSubmit, LoadedBy, Submits, Holds, Executing
  <2> QED BY <2>1, <2>2, <2>3, <2>4, <2>5, <2>6, <2>7, <2>8, <2>9 DEF OneJob
<1>2. CASE HasRow(worker[n].run)
  <2>0. /\ worker[n].pc = "executing"
        /\ worker[n].run \in Run
        /\ \E o \in Outcomes : status' = [status EXCEPT ![worker[n].run] = o]
        /\ worker' = [worker EXCEPT ![n] = [pc |-> "idle", run |-> NoRun, plan |-> "none"]]
        /\ UNCHANGED <<sched, of, queue, tick, req, execs, stranded>>
    BY <1>2 DEF Finish, IdleReq, IdleWorker, IdleTick, HasRow
  <2>1. TypeOK'
    BY <2>0
  <2>2. ControlOK'
    BY <2>0
  <2>3. TickOwnsPending'
    BY <2>0 DEF TickOwnsPending, JobIsFresh, Carried, Queued, Loaded, ToSubmit, LoadedBy, Submits, Holds, Executing
  <2>4. OneQueue'
    BY <2>0 DEF OneJob, OneQueue, OnePlace, JobIsFresh, Carried, Queued, Loaded, ToSubmit, LoadedBy, Submits, Holds, Executing
  <2>5. OneHolder'
    BY <2>0 DEF OneJob, OneHolder, OnePlace, JobIsFresh, Carried, Queued, Loaded, ToSubmit, LoadedBy, Submits, Holds, Executing
  <2>6. OneSubmit'
    BY <2>0 DEF OneJob, OneSubmit, OnePlace, JobIsFresh, Carried, Queued, Loaded, ToSubmit, LoadedBy, Submits, Holds, Executing
  <2>7. OnePlace'
    BY <2>0, SMTT(40) DEF OneJob, OneQueue, OneHolder, OneSubmit, OnePlace, JobIsFresh, Carried, Queued, Loaded, ToSubmit, LoadedBy, Submits, Holds, Executing
  <2>8. JobIsFresh'
    BY <2>0, SMTT(40) DEF TickOwnsPending, OneJob, OneQueue, OneHolder, OneSubmit, OnePlace, JobIsFresh, Carried, Queued, Loaded, ToSubmit, LoadedBy, Submits, Holds, Executing
  <2>9. InFlightAccounted'
    <3> DEFINE q == worker[n].run
    <3>1. PICK o \in Outcomes : status' = [status EXCEPT ![q] = o]
      BY <2>0
    <3>2. \A p \in Run : Carried(p) => Carried(p)'
      BY <2>0 DEF Carried, Queued, Loaded, LoadedBy, ToSubmit, Submits
    <3>3. \A m \in Node, p \in Run : p # q /\ Executing(m, p) => Executing(m, p)'
      BY <2>0 DEF Executing
    <3>4. status'[q] \notin {"scheduled", "running"}
      BY <2>0, <3>1
    <3>5. \A p \in Run : p # q => status'[p] = status[p]
      BY <2>0, <3>1
    <3>6. UNCHANGED stranded
      BY <2>0
    <3> HIDE DEF q
    <3> QED BY <3>2, <3>3, <3>4, <3>5, <3>6 DEF InFlightAccounted
  <2> QED BY <2>1, <2>2, <2>3, <2>4, <2>5, <2>6, <2>7, <2>8, <2>9 DEF OneJob
<1> QED BY <1>1, <1>2 DEF Finish, HasRow

\* A cancel from a stale read may overwrite any status.
LEMMA CancelCommitStep ==
  ASSUME IInv, NEW c \in Client, CancelCommit(c) PROVE IInv'
<1> USE ConstantsOK DEF sched, IInv, TypeOK, ControlOK, Rows, Absent, Terminal, Retriable, Outcomes, CancelCommit, IdleWorker, IdleTick, IdleReq, HasRow
<1>1. TypeOK'
  OBVIOUS
<1>2. ControlOK'
  OBVIOUS
<1>3. TickOwnsPending'
  BY DEF TickOwnsPending, JobIsFresh, Carried, Queued, Loaded, ToSubmit, LoadedBy, Submits, Holds, Executing
<1>4. OneQueue'
  BY DEF OneJob, OneQueue, OnePlace, JobIsFresh, Carried, Queued, Loaded, ToSubmit, LoadedBy, Submits, Holds, Executing
<1>5. OneHolder'
  BY DEF OneJob, OneHolder, OnePlace, JobIsFresh, Carried, Queued, Loaded, ToSubmit, LoadedBy, Submits, Holds, Executing
<1>6. OneSubmit'
  BY DEF OneJob, OneSubmit, OnePlace, JobIsFresh, Carried, Queued, Loaded, ToSubmit, LoadedBy, Submits, Holds, Executing
<1>7. OnePlace'
  BY DEF OneJob, OneQueue, OneHolder, OneSubmit, OnePlace, JobIsFresh, Carried, Queued, Loaded, ToSubmit, LoadedBy, Submits, Holds, Executing
<1>8. JobIsFresh'
  BY DEF TickOwnsPending, OneJob, OneQueue, OneHolder, OneSubmit, OnePlace, JobIsFresh, Carried, Queued, Loaded, ToSubmit, LoadedBy, Submits, Holds, Executing
<1>9. InFlightAccounted'
  BY DEF TickOwnsPending, InFlightAccounted, JobIsFresh, Carried, Queued, Loaded, ToSubmit, LoadedBy, Submits, Holds, Executing
<1> QED BY <1>1, <1>2, <1>3, <1>4, <1>5, <1>6, <1>7, <1>8, <1>9 DEF OneJob

\* A delete from a stale read removes the row whatever its status.
LEMMA DeleteCommitStep ==
  ASSUME IInv, NEW c \in Client, DeleteCommit(c) PROVE IInv'
<1> USE ConstantsOK DEF sched, IInv, TypeOK, ControlOK, Rows, Absent, Terminal, Retriable, Outcomes, DeleteCommit, IdleWorker, IdleTick, IdleReq, HasRow
<1>1. TypeOK'
  OBVIOUS
<1>2. ControlOK'
  OBVIOUS
<1>3. TickOwnsPending'
  BY DEF TickOwnsPending, JobIsFresh, Carried, Queued, Loaded, ToSubmit, LoadedBy, Submits, Holds, Executing
<1>4. OneQueue'
  BY DEF OneJob, OneQueue, OnePlace, JobIsFresh, Carried, Queued, Loaded, ToSubmit, LoadedBy, Submits, Holds, Executing
<1>5. OneHolder'
  BY DEF OneJob, OneHolder, OnePlace, JobIsFresh, Carried, Queued, Loaded, ToSubmit, LoadedBy, Submits, Holds, Executing
<1>6. OneSubmit'
  BY DEF OneJob, OneSubmit, OnePlace, JobIsFresh, Carried, Queued, Loaded, ToSubmit, LoadedBy, Submits, Holds, Executing
<1>7. OnePlace'
  BY DEF OneJob, OneQueue, OneHolder, OneSubmit, OnePlace, JobIsFresh, Carried, Queued, Loaded, ToSubmit, LoadedBy, Submits, Holds, Executing
<1>8. JobIsFresh'
  BY DEF TickOwnsPending, OneJob, OneQueue, OneHolder, OneSubmit, OnePlace, JobIsFresh, Carried, Queued, Loaded, ToSubmit, LoadedBy, Submits, Holds, Executing
<1>9. InFlightAccounted'
  BY DEF TickOwnsPending, InFlightAccounted, JobIsFresh, Carried, Queued, Loaded, ToSubmit, LoadedBy, Submits, Holds, Executing
<1> QED BY <1>1, <1>2, <1>3, <1>4, <1>5, <1>6, <1>7, <1>8, <1>9 DEF OneJob

\* The cascade removes rows whose jobs and workers live on.
LEMMA DeleteScheduleStep ==
  ASSUME IInv, NEW s \in Schedule, DeleteSchedule(s) PROVE IInv'
<1> USE ConstantsOK DEF sched, IInv, TypeOK, ControlOK, Rows, Absent, Terminal, Retriable, Outcomes
<1>1. CASE TRUE
  <2>0. /\ status' = [r \in Run |-> IF ForeignKeys /\ of[r] = s /\ status[r] \in Rows THEN "gone" ELSE status[r]]
        /\ alive' = [alive EXCEPT ![s] = FALSE]
        /\ UNCHANGED <<mode, gate, of, queue, worker, tick, req, execs, stranded>>
    BY <1>1 DEF DeleteSchedule, IdleReq, IdleWorker, IdleTick, HasRow
  <2>1. TypeOK'
    BY <2>0
  <2>2. ControlOK'
    BY <2>0
  <2>3. TickOwnsPending'
    BY <2>0 DEF TickOwnsPending, JobIsFresh, Carried, Queued, Loaded, ToSubmit, LoadedBy, Submits, Holds, Executing
  <2>4. OneQueue'
    BY <2>0 DEF OneJob, OneQueue, OnePlace, JobIsFresh, Carried, Queued, Loaded, ToSubmit, LoadedBy, Submits, Holds, Executing
  <2>5. OneHolder'
    BY <2>0 DEF OneJob, OneHolder, OnePlace, JobIsFresh, Carried, Queued, Loaded, ToSubmit, LoadedBy, Submits, Holds, Executing
  <2>6. OneSubmit'
    BY <2>0 DEF OneJob, OneSubmit, OnePlace, JobIsFresh, Carried, Queued, Loaded, ToSubmit, LoadedBy, Submits, Holds, Executing
  <2>7. OnePlace'
    BY <2>0, SMTT(40) DEF OneJob, OneQueue, OneHolder, OneSubmit, OnePlace, JobIsFresh, Carried, Queued, Loaded, ToSubmit, LoadedBy, Submits, Holds, Executing
  <2>8. JobIsFresh'
    BY <2>0, SMTT(40) DEF TickOwnsPending, OneJob, OneQueue, OneHolder, OneSubmit, OnePlace, JobIsFresh, Carried, Queued, Loaded, ToSubmit, LoadedBy, Submits, Holds, Executing
  <2>9. InFlightAccounted'
    BY <2>0, SMTT(40) DEF TickOwnsPending, InFlightAccounted, JobIsFresh, Carried, Queued, Loaded, ToSubmit, LoadedBy, Submits, Holds, Executing
  <2> QED BY <2>1, <2>2, <2>3, <2>4, <2>5, <2>6, <2>7, <2>8, <2>9 DEF OneJob
<1> QED BY <1>1 DEF DeleteSchedule, HasRow

\* What a process forgets is accounted for as stranded.
LEMMA RestartStep ==
  ASSUME IInv, NEW n \in Node, Restart(n) PROVE IInv'
<1> USE ConstantsOK DEF sched, IInv, TypeOK, ControlOK, Rows, Absent, Terminal, Retriable, Outcomes, Restart, IdleWorker, IdleTick, IdleReq, HasRow
<1>1. TypeOK'
  OBVIOUS
<1>2. ControlOK'
  OBVIOUS
<1>3. TickOwnsPending'
  BY DEF TickOwnsPending, JobIsFresh, Carried, Queued, Loaded, ToSubmit, LoadedBy, Submits, Holds, Executing
<1>4. OneQueue'
  BY DEF OneJob, OneQueue, OnePlace, JobIsFresh, Carried, Queued, Loaded, ToSubmit, LoadedBy, Submits, Holds, Executing
<1>5. OneHolder'
  BY DEF OneJob, OneHolder, OnePlace, JobIsFresh, Carried, Queued, Loaded, ToSubmit, LoadedBy, Submits, Holds, Executing
<1>6. OneSubmit'
  BY DEF OneJob, OneSubmit, OnePlace, JobIsFresh, Carried, Queued, Loaded, ToSubmit, LoadedBy, Submits, Holds, Executing
<1>7. OnePlace'
  BY DEF OneJob, OneQueue, OneHolder, OneSubmit, OnePlace, JobIsFresh, Carried, Queued, Loaded, ToSubmit, LoadedBy, Submits, Holds, Executing
<1>8. JobIsFresh'
  BY DEF TickOwnsPending, OneJob, OneQueue, OneHolder, OneSubmit, OnePlace, JobIsFresh, Carried, Queued, Loaded, ToSubmit, LoadedBy, Submits, Holds, Executing
<1>9. InFlightAccounted'
  BY DEF TickOwnsPending, InFlightAccounted, JobIsFresh, Carried, Queued, Loaded, ToSubmit, LoadedBy, Submits, Holds, Executing
<1> QED BY <1>1, <1>2, <1>3, <1>4, <1>5, <1>6, <1>7, <1>8, <1>9 DEF OneJob

-----------------------------------------------------------------------------
\* A step that changes nothing preserves the invariant.
LEMMA StutterStep == ASSUME IInv, UNCHANGED vars PROVE IInv'
  BY DEF vars, sched, IInv, TypeOK, ControlOK, TickOwnsPending, OneJob, OneQueue, OneHolder, OneSubmit, OnePlace,
         JobIsFresh, InFlightAccounted, Carried, Queued, Loaded, ToSubmit, LoadedBy, Submits, Holds, Executing

\* One step of any actor, or none, preserves the inductive invariant.
THEOREM NextIInv == IInv /\ [Next]_vars => IInv'
<1> SUFFICES ASSUME IInv, [Next]_vars PROVE IInv'
  OBVIOUS
<1>1. ASSUME NEW c \in Client, Create(c) PROVE IInv'
  BY <1>1, TriggerCheckStep, RunNowCheckStep, RetryCheckStep DEF Create
<1>2. ASSUME NEW c \in Client, Submit(c) PROVE IInv'
  BY <1>2, InsertRunStep, SubmitJobStep, SubmitFailsStep DEF Submit
<1>3. ASSUME NEW c \in Client, Withdraw(c) PROVE IInv'
  BY <1>3, CancelCheckStep, CancelCommitStep, DeleteCheckStep, DeleteCommitStep, CommitFailsStep DEF Withdraw
<1>4. ASSUME NEW n \in Node, TickStep(n) PROVE IInv'
  BY <1>4, TickBeginStep, TickFireStep, TickCommitStep DEF TickStep
<1>5. ASSUME NEW n \in Node, WorkerStep(n) PROVE IInv'
  BY <1>5, ClaimStep, CommitPlanStep, DispatchRaisesStep, FinishStep DEF WorkerStep
<1>6. ASSUME NEW s \in Schedule, Admin(s) PROVE IInv'
  BY <1>6, PatchScheduleStep, MoveGateStep, DeleteScheduleStep DEF Admin
<1>7. CASE UNCHANGED vars
  BY <1>7, StutterStep
<1> QED BY <1>1, <1>2, <1>3, <1>4, <1>5, <1>6, <1>7, RestartStep DEF Next

\* IInv holds in every reachable state.
THEOREM SpecIInv == Spec => []IInv
  BY InitIInv, NextIInv, PTL DEF Spec

\* Every variable keeps its type.
THEOREM TypeCorrect == Spec => []TypeOK
  BY SpecIInv, PTL DEF IInv

\* No run's adapter is ever started twice, whatever the number of nodes.
THEOREM ExecutesAtMostOnce == Spec => []AtMostOnceExecution
<1>1. IInv => AtMostOnceExecution
  BY DEF IInv, JobIsFresh, AtMostOnceExecution
<1> QED BY <1>1, SpecIInv, PTL

\* A blocked run was never started.
THEOREM BlockedIsUnexecuted == Spec => []BlockedNeverExecuted
<1>1. IInv => BlockedNeverExecuted
  BY DEF IInv, JobIsFresh, BlockedNeverExecuted
<1> QED BY <1>1, SpecIInv, PTL

\* No waiting or running run loses its job except by one of the named causes.
THEOREM RunsAreAccountedFor == Spec => []InFlightAccounted
  BY SpecIInv, PTL DEF IInv

-----------------------------------------------------------------------------
\* What LegalTransitions asks of one step.
Legal ==
    \A r \in Run : status'[r] # status[r] =>
        \/ status'[r] \in After(status[r])
        \/ status[r] \in Active /\ status'[r] = "gone" /\ (Cascades(r) \/ Condemned(r))

\* A step that leaves every status alone is legal.
LEMMA SameStatus == ASSUME UNCHANGED status PROVE Legal
  BY DEF Legal

\* The insert issues a new id; the submit touches no row.
LEMMA SubmitLegal == ASSUME IInv, NEW c \in Client, Submit(c) PROVE Legal
<1>1. CASE SubmitJob(c) \/ SubmitFails(c)
  BY <1>1, SameStatus DEF SubmitJob, SubmitFails
<1>2. ASSUME NEW r \in Run, InsertRun(c, r) PROVE Legal
  BY <1>2 DEF InsertRun, Legal, After, IInv, TypeOK
<1> QED BY <1>1, <1>2 DEF Submit

\* A tick adds pending rows, then commits or rolls back only its own.
LEMMA TickLegal == ASSUME IInv, NEW n \in Node, TickStep(n) PROVE Legal
<1>1. CASE TickBegin(n)
  BY <1>1, SameStatus DEF TickBegin
<1>2. ASSUME NEW s \in Schedule, NEW r \in Run, TickFire(n, s, r) PROVE Legal
  BY <1>2 DEF TickFire, Legal, After, IInv, TypeOK
<1>3. CASE TickCommit(n)
  <2>1. \A r \in Run : status'[r] # status[r] =>
          r \in tick[n].runs /\ status'[r] \in {"scheduled", "gone"}
    BY <1>3 DEF TickCommit
  <2> QED BY <2>1 DEF Legal, After, IInv, TickOwnsPending
<1> QED BY <1>1, <1>2, <1>3 DEF TickStep

\* The worker's two writes meet the statuses JobIsFresh allows at that point.
LEMMA WorkerLegal == ASSUME IInv, NEW n \in Node, WorkerStep(n) PROVE Legal
<1>1. ASSUME NEW r \in Run, Claim(n, r) PROVE Legal
  BY <1>1, SameStatus DEF Claim
<1>2. CASE CommitPlan(n)
  <2>1. PICK q \in Run : q = worker[n].run /\ LoadedBy(n, q)
    BY <1>2 DEF CommitPlan, IInv, ControlOK, LoadedBy
  <2>2. worker[n].plan \in {"running", "blocked", "failed"}
    BY <1>2 DEF CommitPlan, IInv, TypeOK, ControlOK
  <2>3. status[q] \in {"pending", "scheduled", "cancelled", "gone"}
    BY <2>1 DEF IInv, JobIsFresh, Carried, Loaded
  <2>4. CASE HasRow(q)
    <3>1. status' = [status EXCEPT ![q] = worker[n].plan]
      BY <1>2, <2>1, <2>4 DEF CommitPlan
    <3>2. status[q] \in {"scheduled", "cancelled"}
      BY <2>3, <2>4 DEF HasRow, Rows
    <3> QED BY <2>2, <3>1, <3>2 DEF Legal, After, IInv, TypeOK
  <2>5. CASE ~HasRow(q)
    BY <1>2, <2>1, <2>5, SameStatus DEF CommitPlan
  <2> QED BY <2>4, <2>5
<1>3. CASE DispatchRaises(n)
  BY <1>3, SameStatus DEF DispatchRaises
<1>4. CASE Finish(n)
  <2>1. PICK q \in Run : q = worker[n].run /\ Executing(n, q)
    BY <1>4 DEF Finish, IInv, ControlOK, Executing
  <2>2. status[q] \in {"running", "cancelled", "gone"}
    BY <2>1 DEF IInv, JobIsFresh
  <2>3. PICK o \in Outcomes : status' = IF HasRow(q) THEN [status EXCEPT ![q] = o] ELSE status
    BY <1>4, <2>1 DEF Finish
  <2> QED BY <2>2, <2>3 DEF Legal, After, Outcomes, HasRow, Rows, IInv, TypeOK
<1> QED BY <1>1, <1>2, <1>3, <1>4 DEF WorkerStep

\* Cancel and delete write only over rows, however stale their reads.
LEMMA WithdrawLegal == ASSUME IInv, NEW c \in Client, Withdraw(c) PROVE Legal
<1>1. ASSUME NEW n \in Node, NEW r \in Run, CancelCheck(c, n, r) \/ DeleteCheck(c, n, r) PROVE Legal
  BY <1>1, SameStatus DEF CancelCheck, DeleteCheck
<1>2. CASE CancelCommit(c)
  BY <1>2 DEF CancelCommit, HasRow, Rows, Legal, After, IInv, TypeOK
<1>3. CASE DeleteCommit(c)
  <2>1. PICK r \in Run : r = req[c].run /\ Condemned(r) /\ status[r] \notin {"none", "pending"}
    BY <1>3 DEF DeleteCommit, IInv, ControlOK, Condemned
  <2>2. status' = [status EXCEPT ![r] = "gone"]
    BY <1>3, <2>1 DEF DeleteCommit
  <2> QED BY <2>1, <2>2 DEF Rows, Absent, Active, Legal, After, IInv, TypeOK
<1>4. CASE CommitFails(c)
  BY <1>4, SameStatus DEF CommitFails
<1> QED BY <1>1, <1>2, <1>3, <1>4 DEF Withdraw

\* A restart rolls back the pending rows of its tick and no other.
LEMMA RestartLegal == ASSUME IInv, NEW n \in Node, Restart(n) PROVE Legal
<1>1. \A r \in Run : status'[r] # status[r] => r \in tick[n].runs /\ status'[r] = "gone"
  BY DEF Restart
<1> QED BY <1>1 DEF Legal, After, IInv, TickOwnsPending

\* Deleting a schedule only removes rows.
LEMMA AdminLegal == ASSUME IInv, NEW s \in Schedule, Admin(s) PROVE Legal
<1>1. CASE PatchSchedule(s) \/ MoveGate(s)
  BY <1>1, SameStatus DEF PatchSchedule, MoveGate
<1>2. CASE DeleteSchedule(s)
  <2>1. \A r \in Run : status'[r] # status[r] => HasRow(r) /\ status'[r] = "gone" /\ of[r] = s
    BY <1>2 DEF DeleteSchedule
  <2>2. ~alive'[s]
    BY <1>2 DEF DeleteSchedule, IInv, TypeOK
  <2> QED BY <2>1, <2>2 DEF Cascades, HasRow, Rows, Active, Legal, After
<1> QED BY <1>1, <1>2 DEF Admin

\* Whatever stale read a handler acts on, a status changes only as After says.
THEOREM StatusesAreOrdered == Spec => LegalTransitions
<1>1. IInv /\ [Next]_vars => [Legal]_vars
  <2> SUFFICES ASSUME IInv, Next PROVE Legal
    OBVIOUS
  <2>1. ASSUME NEW c \in Client, Create(c) PROVE Legal
    BY <2>1, SameStatus DEF Create, TriggerCheck, RunNowCheck, RetryCheck
  <2> QED BY <2>1, SubmitLegal, WithdrawLegal, TickLegal, WorkerLegal, RestartLegal, AdminLegal DEF Next
<1> QED BY <1>1, SpecIInv, PTL DEF Spec, LegalTransitions, Legal
=============================================================================
