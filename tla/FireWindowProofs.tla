-------------------------- MODULE FireWindowProofs --------------------------
(***************************************************************************)
(* Proofs about FireWindow, for any number of nodes, probes, editors and   *)
(* schedules and any bounds.  ElectionOK follows from the lock alone;      *)
(* FiringOK says that every window fired lies before every window that may *)
(* still be fired.  With it every step is one of WindowContract.           *)
(***************************************************************************)
EXTENDS WindowRefinement, TLAPS

\* At the start nobody contends and nothing was fired.
THEOREM InitIInv == Init => IInv
<1> SUFFICES ASSUME Init PROVE IInv
  OBVIOUS
<1>1. TypeOK
  <2>1. now \in 0..MaxTime /\ faults \in 0..MaxFaults
    BY ConstantsOK DEF Init
  <2>2. next \in [Schedule -> Instant \cup {Never}]
    BY DEF Init, Later
  <2>3. fired \in [Schedule -> SUBSET Instant]
    BY DEF Init
  <2> QED BY <2>1, <2>2, <2>3 DEF Init, TypeOK, NothingSeen, NothingPlanned
<1>2. ElectionOK
  BY DEF Init, ElectionOK, LockOK, OneLeader, OneTick, PcOK, Leading, Contender
<1>3. FiringOK
  BY ConstantsOK DEF Init, FiringOK, SnapOK, FiredPast, WindowsAhead, FiredOnce, NothingSeen, NothingPlanned
<1> QED BY <1>1, <1>2, <1>3 DEF IInv

-----------------------------------------------------------------------------
\* A step of the election touches no row and no tick in flight.
LEMMA RowsKept ==
  ASSUME IInv, UNCHANGED <<now, ticks, rows, edits, excused>>,
         \A n \in Node : pc'[n] = "scanned" <=> pc[n] = "scanned",
         overlapped => overlapped'
  PROVE FiringOK'
<1>1. SnapOK'
  BY DEF IInv, FiringOK, SnapOK, ticks
<1>2. FiredPast' /\ FiredOnce'
  BY DEF IInv, FiringOK, FiredPast, FiredOnce, rows
<1>3. WindowsAhead'
  BY DEF IInv, FiringOK, WindowsAhead, rows, ticks, edits
<1> QED BY <1>1, <1>2, <1>3 DEF FiringOK

\* A step that leaves lock and contenders alone keeps the election in order.
LEMMA ElectionKept == ASSUME IInv, UNCHANGED election PROVE ElectionOK'
  BY DEF IInv, ElectionOK, LockOK, OneLeader, OneTick, PcOK, Leading, election

\* Finding the key absent: alone, or the race is recorded.
LEMMA AcquireGetStep == ASSUME IInv, NEW a \in Contender, AcquireGet(a) PROVE IInv'
<1>1. TypeOK'
  BY DEF AcquireGet, IInv, TypeOK, ticks, rows, edits
<1>2. ElectionOK'
  BY DEF AcquireGet, IInv, TypeOK, ElectionOK, LockOK, OneLeader, OneTick, PcOK, Leading, Contender
<1>3. FiringOK'
  BY RowsKept DEF AcquireGet, IInv, TypeOK, Contender
<1> QED BY <1>1, <1>2, <1>3 DEF IInv

\* The set overwrites nobody who is inside a tick, unless raced.
LEMMA AcquireSetStep == ASSUME IInv, NEW a \in Contender, AcquireSet(a) PROVE IInv'
<1>1. TypeOK'
  BY DEF AcquireSet, IInv, TypeOK, ticks, rows, edits
<1>2. ElectionOK'
  BY ConstantsOK DEF AcquireSet, IInv, TypeOK, ElectionOK, LockOK, OneLeader, OneTick, PcOK, Leading, Contender
<1>3. FiringOK'
  BY RowsKept DEF AcquireSet, IInv, TypeOK, Contender
<1> QED BY <1>1, <1>2, <1>3 DEF IInv

\* Whoever still sees its token is the only one to lead, unless raced.
LEMMA AcquireConfirmStep == ASSUME IInv, NEW a \in Contender, AcquireConfirm(a) PROVE IInv'
<1>1. TypeOK'
  BY DEF AcquireConfirm, IInv, TypeOK, ticks, rows, edits
<1>2. ElectionOK'
  <2>1. CASE lock = a /\ a \in Node
    <3>1. /\ pc' = [pc EXCEPT ![a] = "lead"]
          /\ overlapped' = (overlapped \/ \E n \in Node : Leading(n))
          /\ lock' = lock /\ raced' = raced
      BY <2>1 DEF AcquireConfirm
    <3>2. overlapped' => raced'
      <4>1. (\E n \in Node : Leading(n)) => raced
        <5> SUFFICES ASSUME NEW n \in Node, Leading(n), ~raced PROVE FALSE
          OBVIOUS
        <5>1. lock = n /\ pc[a] = "confirm" /\ a = n
          BY <2>1 DEF AcquireConfirm, IInv, ElectionOK, LockOK, Leading, Contender
        <5> QED BY <5>1 DEF Leading
      <4>2. overlapped => raced
        BY DEF IInv, ElectionOK, OneLeader
      <4> QED BY <3>1, <4>1, <4>2, Zenon
    <3>3. OneTick'
      BY <2>1, <3>1 DEF AcquireConfirm, IInv, TypeOK, ElectionOK, OneTick, Leading, Contender
    <3>4. LockOK' /\ PcOK'
      BY <2>1, <3>1, ConstantsOK DEF AcquireConfirm, IInv, TypeOK, ElectionOK, LockOK, PcOK, Contender
    <3> QED BY <3>2, <3>3, <3>4 DEF ElectionOK, OneLeader
  <2>2. CASE ~(lock = a /\ a \in Node)
    <3>1. pc' = [pc EXCEPT ![a] = "idle"] /\ UNCHANGED <<lock, raced, overlapped>>
      BY <2>2 DEF AcquireConfirm
    <3> QED BY <3>1 DEF IInv, TypeOK, ElectionOK, LockOK, OneLeader, OneTick, PcOK, Leading, Contender
  <2> QED BY <2>1, <2>2
<1>3. FiringOK'
  BY RowsKept DEF AcquireConfirm, IInv, TypeOK, Contender
<1> QED BY <1>1, <1>2, <1>3 DEF IInv

\* A key left behind is nobody's who leads.
LEMMA ExpireStep == ASSUME IInv, Expire PROVE IInv'
<1>1. TypeOK'
  BY DEF Expire, IInv, TypeOK, ticks, rows, edits
<1>2. ElectionOK'
  BY ConstantsOK DEF Expire, IInv, TypeOK, ElectionOK, LockOK, OneLeader, OneTick, PcOK, Leading, Contender
<1>3. FiringOK'
  BY RowsKept DEF Expire, IInv, TypeOK, Contender
<1> QED BY <1>1, <1>2, <1>3 DEF IInv

\* A lease that runs out inside a tick is recorded as a race.
LEMMA LeaseRunsOutStep == ASSUME IInv, LeaseRunsOut PROVE IInv'
<1>1. TypeOK'
  BY ConstantsOK DEF LeaseRunsOut, IInv, TypeOK, ticks, rows, edits
<1>2. ElectionOK'
  BY ConstantsOK DEF LeaseRunsOut, IInv, TypeOK, ElectionOK, LockOK, OneLeader, OneTick, PcOK, Leading, Contender
<1>3. FiringOK'
  BY RowsKept DEF LeaseRunsOut, IInv, TypeOK, Contender
<1> QED BY <1>1, <1>2, <1>3 DEF IInv

\* The comparison finds the node's own token or gives up.
LEMMA ReleaseGetStep == ASSUME IInv, NEW n \in Node, ReleaseGet(n) PROVE IInv'
<1>1. TypeOK'
  BY DEF ReleaseGet, IInv, TypeOK, ticks, rows, edits
<1>2. ElectionOK'
  BY ConstantsOK DEF ReleaseGet, IInv, TypeOK, ElectionOK, LockOK, OneLeader, OneTick, PcOK, Leading, Contender
<1>3. FiringOK'
  BY RowsKept DEF ReleaseGet, IInv, TypeOK, Contender
<1> QED BY <1>1, <1>2, <1>3 DEF IInv

\* The key deleted is the node's own, unless raced.
LEMMA ReleaseDeleteStep == ASSUME IInv, NEW n \in Node, ReleaseDelete(n) PROVE IInv'
<1>1. TypeOK'
  BY DEF ReleaseDelete, IInv, TypeOK, ticks, rows, edits
<1>2. ElectionOK'
  BY ConstantsOK DEF ReleaseDelete, IInv, TypeOK, ElectionOK, LockOK, OneLeader, OneTick, PcOK, Leading, Contender
<1>3. FiringOK'
  BY RowsKept DEF ReleaseDelete, IInv, TypeOK, Contender
<1> QED BY <1>1, <1>2, <1>3 DEF IInv

\* A tick that cannot read the rows only goes on to release.
LEMMA ScanRaisesStep == ASSUME IInv, NEW n \in Node, ScanRaises(n) PROVE IInv'
<1>1. TypeOK'
  BY DEF ScanRaises, IInv, TypeOK, ticks, rows, edits
<1>2. ElectionOK'
  BY ConstantsOK DEF ScanRaises, IInv, TypeOK, ElectionOK, LockOK, OneLeader, OneTick, PcOK, Leading, Contender
<1>3. FiringOK'
  BY RowsKept DEF ScanRaises, IInv, TypeOK, Contender
<1> QED BY <1>1, <1>2, <1>3 DEF IInv

-----------------------------------------------------------------------------
\* A node that loses its transaction forgets what it read.
LEMMA ForgetKept ==
  ASSUME IInv, NEW n \in Node, Forget(n), UNCHANGED <<now, rows, edits, excused, overlapped>>,
         pc'[n] # "scanned", \A m \in Node \ {n} : pc'[m] = pc[m]
  PROVE FiringOK' /\ seen' \in [Node -> [Schedule -> Instant \cup {Never}]]
        /\ plan' \in [Node -> [Schedule -> Instant \cup {Never, Keep}]]
<1>1. /\ seen' \in [Node -> [Schedule -> Instant \cup {Never}]]
      /\ plan' \in [Node -> [Schedule -> Instant \cup {Never, Keep}]]
  BY DEF Forget, IInv, TypeOK, NothingSeen, NothingPlanned
<1>2. \A m \in Node, s \in Schedule :
        /\ seen'[m][s] = IF m = n THEN Never ELSE seen[m][s]
        /\ plan'[m][s] = IF m = n THEN Keep ELSE plan[m][s]
  BY DEF Forget, IInv, TypeOK, NothingSeen, NothingPlanned
<1>3. SnapOK'
  BY <1>2, ConstantsOK DEF IInv, FiringOK, SnapOK
<1>4. FiredPast' /\ FiredOnce'
  BY DEF IInv, FiringOK, FiredPast, FiredOnce, rows
<1>5. WindowsAhead'
  BY <1>2 DEF IInv, FiringOK, WindowsAhead, rows, edits
<1> QED BY <1>1, <1>3, <1>4, <1>5 DEF FiringOK

\* A crash or a failed cache call leaves the key and drops the transaction.
LEMMA AbortStep == ASSUME IInv, NEW a \in Contender, Abort(a) PROVE IInv'
<1>1. ElectionOK'
  BY ConstantsOK DEF Abort, IInv, TypeOK, ElectionOK, LockOK, OneLeader, OneTick, PcOK, Leading, Contender
<1>2. CASE a \in Node
  <2>1. Forget(a) /\ UNCHANGED <<now, rows, edits, excused, overlapped>>
    BY <1>2 DEF Abort
  <2>2. pc'[a] # "scanned" /\ \A m \in Node \ {a} : pc'[m] = pc[m]
    BY <1>2 DEF Abort, IInv, TypeOK, Contender
  <2>3. FiringOK' /\ seen' \in [Node -> [Schedule -> Instant \cup {Never}]]
        /\ plan' \in [Node -> [Schedule -> Instant \cup {Never, Keep}]]
    BY <1>2, <2>1, <2>2, ForgetKept
  <2>4. TypeOK'
    BY <2>3, ConstantsOK DEF Abort, IInv, TypeOK, rows, edits
  <2> QED BY <1>1, <2>3, <2>4 DEF IInv
<1>3. CASE a \notin Node
  <2>1. TypeOK'
    BY <1>3, ConstantsOK DEF Abort, IInv, TypeOK, ticks, rows, edits
  <2>2. FiringOK'
    BY <1>3, RowsKept DEF Abort, IInv, TypeOK, Contender
  <2> QED BY <1>1, <2>1, <2>2 DEF IInv
<1> QED BY <1>2, <1>3

\* A refused commit leaves the rows as they were.
LEMMA CommitFailsStep == ASSUME IInv, NEW n \in Node, CommitFails(n) PROVE IInv'
<1>1. ElectionOK'
  BY ConstantsOK DEF CommitFails, IInv, TypeOK, ElectionOK, LockOK, OneLeader, OneTick, PcOK, Leading, Contender
<1>2. pc'[n] # "scanned" /\ \A m \in Node \ {n} : pc'[m] = pc[m]
  BY DEF CommitFails, IInv, TypeOK, Contender
<1>3. FiringOK' /\ seen' \in [Node -> [Schedule -> Instant \cup {Never}]]
      /\ plan' \in [Node -> [Schedule -> Instant \cup {Never, Keep}]]
  BY <1>2, ForgetKept DEF CommitFails
<1>4. TypeOK'
  BY <1>3, ConstantsOK DEF CommitFails, IInv, TypeOK, rows, edits, Contender
<1> QED BY <1>1, <1>3, <1>4 DEF IInv

\* The clock only moves away from what was fired.
LEMMA PassStep == ASSUME IInv, Pass PROVE IInv'
<1>1. TypeOK'
  BY ConstantsOK DEF Pass, IInv, TypeOK, election, ticks, rows, edits
<1>2. ElectionOK'
  BY ElectionKept DEF Pass
<1>3. SnapOK' /\ FiredPast'
  BY ConstantsOK DEF Pass, IInv, TypeOK, FiringOK, SnapOK, FiredPast, Instant, election, ticks, rows
<1>4. WindowsAhead' /\ FiredOnce'
  BY DEF Pass, IInv, FiringOK, WindowsAhead, FiredOnce, election, ticks, rows, edits
<1> QED BY <1>1, <1>2, <1>3, <1>4 DEF IInv, FiringOK

\* What a tick reads is due and unfired; what it decides lies in the future.
LEMMA TickScanStep == ASSUME IInv, NEW n \in Node, TickScan(n) PROVE IInv'
<1>1. PICK f \in [Schedule -> Instant \cup {Never, Keep}] :
        /\ \A s \in Schedule : f[s] \in IF Due(s) THEN Advances(s) ELSE {Keep}
        /\ plan' = [plan EXCEPT ![n] = f]
  BY DEF TickScan
<1>2. TypeOK'
  <2>1. [s \in Schedule |-> IF Due(s) THEN next[s] ELSE Never] \in [Schedule -> Instant \cup {Never}]
    BY DEF IInv, TypeOK
  <2>2. seen' \in [Node -> [Schedule -> Instant \cup {Never}]]
    BY <2>1 DEF TickScan, IInv, TypeOK
  <2>3. plan' \in [Node -> [Schedule -> Instant \cup {Never, Keep}]]
    BY <1>1 DEF IInv, TypeOK
  <2> QED BY <2>2, <2>3 DEF TickScan, IInv, TypeOK, rows, edits, Contender
<1>3. ElectionOK'
  BY ConstantsOK DEF TickScan, IInv, TypeOK, ElectionOK, LockOK, OneLeader, OneTick, PcOK, Leading, Contender
<1>4. \A m \in Node, s \in Schedule :
        /\ seen'[m][s] = IF m # n THEN seen[m][s] ELSE IF Due(s) THEN next[s] ELSE Never
        /\ plan'[m][s] = IF m = n THEN f[s] ELSE plan[m][s]
  BY <1>1 DEF TickScan, IInv, TypeOK
<1>5. SnapOK'
  <2> SUFFICES ASSUME NEW m \in Node, NEW s \in Schedule
               PROVE /\ pc'[m] # "scanned" => seen'[m][s] = Never /\ plan'[m][s] = Keep
                     /\ seen'[m][s] # Never => seen'[m][s] <= now
                     /\ plan'[m][s] # Keep => seen'[m][s] # Never
                     /\ plan'[m][s] \in Nat => plan'[m][s] > seen'[m][s]
    BY DEF SnapOK, TickScan
  <2>1. CASE m # n
    BY <2>1, <1>4 DEF TickScan, IInv, TypeOK, FiringOK, SnapOK, Contender
  <2>2. CASE m = n /\ ~Due(s)
    BY <2>2, <1>1, <1>4, ConstantsOK DEF TickScan, IInv, TypeOK, Contender
  <2>3. CASE m = n /\ Due(s)
    <3>1. f[s] = Keep \/ f[s] = Never \/ f[s] \in Later(now)
      BY <2>3, <1>1 DEF Advances
    <3>2. next[s] \in Instant /\ next[s] <= now /\ next[s] # Never
      BY <2>3 DEF Due, IInv, TypeOK
    <3>3. f[s] \in Nat => f[s] > next[s]
      BY <3>1, <3>2, ConstantsOK DEF Later, Instant, IInv, TypeOK
    <3> QED BY <2>3, <1>4, <3>2, <3>3, ConstantsOK DEF TickScan, IInv, TypeOK, Contender
  <2> QED BY <2>1, <2>2, <2>3
<1>6. FiredPast' /\ FiredOnce'
  BY DEF TickScan, IInv, FiringOK, FiredPast, FiredOnce, rows
<1>7. WindowsAhead'
  BY <1>4 DEF TickScan, IInv, FiringOK, WindowsAhead, rows, edits
<1> QED BY <1>2, <1>3, <1>5, <1>6, <1>7 DEF IInv, FiringOK

\* The commit fires what was unfired and moves next_fire_at beyond it; other
\* ticks in flight are recorded as overlapping, other edits as crossed.
LEMMA TickCommitStep == ASSUME IInv, NEW n \in Node, TickCommit(n) PROVE IInv'
<1> DEFINE due == {s \in Schedule : seen[n][s] # Never}
<1>1. /\ pc[n] = "scanned"
      /\ pc' = [pc EXCEPT ![n] = "release"]
      /\ fired' = [s \in Schedule |-> IF s \in due THEN fired[s] \cup {seen[n][s]} ELSE fired[s]]
      /\ twice' = twice \cup {s \in due : seen[n][s] \in fired[s]}
      /\ next' = [s \in Schedule |-> IF plan[n][s] = Keep THEN next[s] ELSE plan[n][s]]
      /\ runnable' = [s \in Schedule |->
            IF s \in OneShot /\ s \in due /\ plan[n][s] = Never THEN FALSE ELSE runnable[s]]
      /\ excused' = excused \cup {s \in due : plan[n][s] = Keep \/ \E e \in Editor : target[e] = s}
      /\ Forget(n)
      /\ UNCHANGED <<now, lock, raced, overlapped, broken, poisoned, edits, faults>>
  BY DEF TickCommit
<1> HIDE DEF due
<1>2. \A s \in Schedule : s \in due <=> seen[n][s] # Never
  BY DEF due
<1>3. due \subseteq Schedule
  BY DEF due
<1>4. \A m \in Node, s \in Schedule :
        /\ seen'[m][s] = IF m = n THEN Never ELSE seen[m][s]
        /\ plan'[m][s] = IF m = n THEN Keep ELSE plan[m][s]
  BY <1>1 DEF Forget, IInv, TypeOK, NothingSeen, NothingPlanned
<1>5. TypeOK'
  <2>1. seen' \in [Node -> [Schedule -> Instant \cup {Never}]]
        /\ plan' \in [Node -> [Schedule -> Instant \cup {Never, Keep}]]
    BY <1>1 DEF Forget, IInv, TypeOK, NothingSeen, NothingPlanned
  <2>2. fired' \in [Schedule -> SUBSET Instant]
    BY <1>1, <1>2 DEF IInv, TypeOK
  <2>3. next' \in [Schedule -> Instant \cup {Never}]
    BY <1>1 DEF IInv, TypeOK
  <2>4. runnable' \in [Schedule -> BOOLEAN]
    BY <1>1 DEF IInv, TypeOK
  <2>5. twice' \in SUBSET Schedule /\ excused' \in SUBSET Schedule
    BY <1>1, <1>3 DEF IInv, TypeOK
  <2>6. pc' \in [Contender -> {"idle", "set", "confirm", "lead", "scanned", "release", "delete"}]
    BY <1>1 DEF IInv, TypeOK, Contender
  <2> QED BY <1>1, <2>1, <2>2, <2>3, <2>4, <2>5, <2>6 DEF IInv, TypeOK, edits
<1>6. ElectionOK'
  BY <1>1, ConstantsOK DEF IInv, TypeOK, ElectionOK, LockOK, OneLeader, OneTick, PcOK, Leading, Contender
<1>7. SnapOK'
  BY <1>1, <1>4, ConstantsOK DEF IInv, TypeOK, FiringOK, SnapOK, Contender
<1>8. FiredPast'
  BY <1>1, <1>2 DEF IInv, TypeOK, FiringOK, SnapOK, FiredPast
<1>9. ASSUME ~overlapped, NEW s \in Schedule, s \notin excused
      PROVE \A w \in fired[s] : s \in due => w < seen[n][s]
  BY <1>9, <1>2 DEF IInv, FiringOK, WindowsAhead
<1>10. FiredOnce'
  BY <1>1, <1>3, <1>9 DEF IInv, TypeOK, FiringOK, FiredOnce, Instant
<1>11. WindowsAhead'
  <2> SUFFICES ASSUME ~overlapped, NEW s \in Schedule, s \notin excused', NEW w \in fired'[s]
               PROVE /\ next'[s] # Never => w < next'[s]
                     /\ \A m \in Node : seen'[m][s] # Never => w < seen'[m][s]
                     /\ \A e \in Editor : target'[e] = s /\ anchor'[e] # Never => w < anchor'[e]
    BY <1>1 DEF WindowsAhead
  <2>1. s \notin excused
    BY <1>1
  <2>2. CASE s \notin due
    <3>1. plan[n][s] = Keep /\ w \in fired[s] /\ next'[s] = next[s]
      BY <2>2, <1>1, <1>2 DEF IInv, FiringOK, SnapOK
    <3> QED BY <2>1, <3>1, <1>1, <1>4 DEF IInv, FiringOK, WindowsAhead, edits
  <2>3. CASE s \in due
    <3>1. plan[n][s] # Keep /\ \A e \in Editor : target[e] # s
      BY <2>3, <1>1
    <3>2. seen[n][s] \in Nat /\ w \in Nat /\ w <= seen[n][s]
      <4>1. seen[n][s] \in Instant /\ fired[s] \in SUBSET Instant
        BY <2>3, <1>2 DEF IInv, TypeOK
      <4>2. w \in fired[s] \/ w = seen[n][s]
        BY <2>3, <1>1
      <4> QED BY <4>1, <4>2, <2>1, <2>3, <1>9, ConstantsOK DEF Instant
    <3>3. next'[s] = plan[n][s]
      BY <3>1, <1>1
    <3>4. plan[n][s] # Never => plan[n][s] \in Nat /\ plan[n][s] > seen[n][s]
      BY <3>1, ConstantsOK DEF IInv, TypeOK, FiringOK, SnapOK, Instant
    <3>5. \A m \in Node : seen'[m][s] = Never
      <4> SUFFICES ASSUME NEW m \in Node PROVE seen'[m][s] = Never
        OBVIOUS
      <4>1. CASE m = n
        BY <4>1, <1>4
      <4>2. CASE m # n
        <5>1. pc[m] # "scanned"
          BY <4>2, <1>1 DEF IInv, ElectionOK, OneTick, Leading
        <5> QED BY <4>2, <5>1, <1>4 DEF IInv, FiringOK, SnapOK
      <4> QED BY <4>1, <4>2
    <3>6. \A e \in Editor : target'[e] # s
      BY <3>1, <1>1 DEF edits
    <3> QED BY <3>2, <3>3, <3>4, <3>5, <3>6
  <2> QED BY <2>2, <2>3
<1> QED BY <1>5, <1>6, <1>7, <1>8, <1>10, <1>11 DEF IInv, FiringOK

-----------------------------------------------------------------------------
\* An edit computes its anchor from now, beyond every window fired so far.
LEMMA EditReadStep == ASSUME IInv, NEW e \in Editor, NEW s \in Schedule, EditRead(e, s) PROVE IInv'
<1>1. PICK i \in (Later(now) \cup {Never}) \ {next[s]} : anchor' = [anchor EXCEPT ![e] = i]
  BY DEF EditRead
<1>2. TypeOK'
  BY <1>1 DEF EditRead, IInv, TypeOK, Later, election, ticks, rows
<1>3. ElectionOK'
  BY ElectionKept DEF EditRead
<1>4. SnapOK' /\ FiredPast' /\ FiredOnce'
  BY DEF EditRead, IInv, FiringOK, SnapOK, FiredPast, FiredOnce, election, ticks, rows
<1>5. WindowsAhead'
  <2>1. \A t \in Schedule : \A w \in fired[t] : i # Never => w < i
    BY <1>1, ConstantsOK DEF IInv, TypeOK, FiringOK, FiredPast, Later, Instant
  <2>2. \A d \in Editor : /\ target'[d] = IF d = e THEN s ELSE target[d]
                          /\ anchor'[d] = IF d = e THEN i ELSE anchor[d]
    BY <1>1 DEF EditRead, IInv, TypeOK
  <2> QED BY <2>1, <2>2 DEF EditRead, IInv, FiringOK, WindowsAhead, election, ticks, rows
<1> QED BY <1>2, <1>3, <1>4, <1>5 DEF IInv, FiringOK

\* Writing the anchor, unless a tick's commit came in between.
LEMMA EditCommitStep == ASSUME IInv, NEW e \in Editor, EditCommit(e) PROVE IInv'
<1>1. TypeOK'
  BY DEF EditCommit, IInv, TypeOK, election, ticks
<1>2. ElectionOK'
  BY ElectionKept DEF EditCommit
<1>3. SnapOK' /\ FiredPast' /\ FiredOnce'
  BY DEF EditCommit, IInv, FiringOK, SnapOK, FiredPast, FiredOnce, election, ticks
<1>4. WindowsAhead'
  <2>1. \A d \in Editor : /\ target'[d] = IF d = e THEN NoSchedule ELSE target[d]
                          /\ anchor'[d] = IF d = e THEN Never ELSE anchor[d]
    BY DEF EditCommit, IInv, TypeOK
  <2>2. \A s \in Schedule : next'[s] = IF s = target[e] THEN anchor[e] ELSE next[s]
    BY DEF EditCommit, IInv, TypeOK
  <2> QED BY <2>1, <2>2, ConstantsOK DEF EditCommit, IInv, FiringOK, WindowsAhead, election, ticks
<1> QED BY <1>1, <1>2, <1>3, <1>4 DEF IInv, FiringOK

\* Writes that leave the fire times alone.
LEMMA FlagsStep ==
  ASSUME IInv, UNCHANGED <<now, election, ticks, next, fired, twice, edits, faults, excused>>,
         runnable' \in [Schedule -> BOOLEAN], broken' \in SUBSET Schedule, poisoned' \in BOOLEAN
  PROVE IInv'
<1>1. TypeOK'
  BY DEF IInv, TypeOK, election, ticks, edits
<1>2. ElectionOK'
  BY ElectionKept
<1>3. FiringOK'
  BY DEF IInv, FiringOK, SnapOK, FiredPast, WindowsAhead, FiredOnce, election, ticks, edits
<1> QED BY <1>1, <1>2, <1>3 DEF IInv

\* A null trigger_spec changes no fire time.
LEMMA EditNullsSpecStep ==
  ASSUME IInv, NEW e \in Editor, NEW s \in Schedule, EditNullsSpec(e, s) PROVE IInv'
  BY FlagsStep DEF EditNullsSpec, IInv, TypeOK

\* Pausing and resuming change no fire time.
LEMMA EditRunnableStep ==
  ASSUME IInv, NEW e \in Editor, NEW s \in Schedule, EditRunnable(e, s) PROVE IInv'
  BY FlagsStep DEF EditRunnable, IInv, TypeOK

\* A row nobody can read changes no other row.
LEMMA CreatePoisonedStep == ASSUME IInv, CreatePoisoned PROVE IInv'
  BY FlagsStep DEF CreatePoisoned, IInv, TypeOK

\* A step that changes nothing preserves the invariant.
LEMMA StutterStep == ASSUME IInv, UNCHANGED vars PROVE IInv'
  BY FlagsStep DEF vars, rows, IInv, TypeOK

-----------------------------------------------------------------------------
\* One step of any node, probe, editor or of the cache preserves the invariant.
THEOREM NextIInv == IInv /\ [Next]_vars => IInv'
<1> SUFFICES ASSUME IInv, [Next]_vars PROVE IInv'
  OBVIOUS
<1>1. ASSUME NEW a \in Contender, Elect(a) PROVE IInv'
  BY <1>1, AcquireGetStep, AcquireSetStep, AcquireConfirmStep DEF Elect
<1>2. ASSUME NEW n \in Node, TickStep(n) \/ CommitFails(n) PROVE IInv'
  <2>1. n \in Contender
    BY DEF Contender
  <2> QED BY <1>1, <1>2, <2>1, TickScanStep, ScanRaisesStep, TickCommitStep, ReleaseGetStep,
             ReleaseDeleteStep, CommitFailsStep DEF TickStep
<1>3. ASSUME NEW e \in Editor, Edit(e) PROVE IInv'
  BY <1>3, EditReadStep, EditCommitStep, EditNullsSpecStep, EditRunnableStep DEF Edit
<1>4. ASSUME NEW p \in Prober, Elect(p) PROVE IInv'
  BY <1>1, <1>4 DEF Contender
<1> QED BY <1>2, <1>3, <1>4, PassStep, ExpireStep, LeaseRunsOutStep, CreatePoisonedStep,
           AbortStep, StutterStep DEF Next

\* IInv holds in every reachable state.
THEOREM SpecIInv == Spec => []IInv
  BY InitIInv, NextIInv, PTL DEF Spec

\* Every variable keeps its type.
THEOREM TypeCorrect == Spec => []TypeOK
  BY SpecIInv, PTL DEF IInv

\* Two ticks overlap only after a race for the absent key or a lease that ran out.
THEOREM OverlapNeedsRace == Spec => []OneLeader
  BY SpecIInv, PTL DEF IInv, ElectionOK

\* Without a race release deletes only its own key.
THEOREM ReleaseIsOwn == Spec => []ReleasesOwn
<1>1. IInv => ReleasesOwn
  BY DEF IInv, ElectionOK, LockOK, ReleasesOwn, Contender
<1> QED BY <1>1, SpecIInv, PTL

\* A window becomes two runs only for one of the three named causes.
THEOREM WindowsFireOnce == Spec => []FiredOnce
  BY SpecIInv, PTL DEF IInv, FiringOK

-----------------------------------------------------------------------------
(* The windows as WindowContract promises them.                            *)

\* A tick that moves a schedule on ends it if it is a one_shot, and only then.
PlanOK == \A n \in Node, s \in Schedule :
    plan[n][s] # Keep => (plan[n][s] = Never <=> s \in OneShot)

\* A tick's plan is made in its scan and forgotten when it ends.
LEMMA PlanKept == ASSUME IInv, PlanOK, [Next]_vars PROVE PlanOK'
<1>1. CASE UNCHANGED plan
  BY <1>1 DEF PlanOK
<1>2. ASSUME NEW n \in Node, Forget(n) PROVE PlanOK'
  BY <1>2 DEF Forget, PlanOK, IInv, TypeOK, NothingPlanned
<1>3. ASSUME NEW n \in Node, TickScan(n) PROVE PlanOK'
  <2>1. PICK f \in [Schedule -> Instant \cup {Never, Keep}] :
          /\ \A s \in Schedule : f[s] \in IF Due(s) THEN Advances(s) ELSE {Keep}
          /\ plan' = [plan EXCEPT ![n] = f]
    BY <1>3 DEF TickScan
  <2>2. ASSUME NEW s \in Schedule, f[s] # Keep PROVE f[s] = Never <=> s \in OneShot
    <3>1. f[s] \in Advances(s) /\ f[s] # Keep
      BY <2>1, <2>2
    <3> QED BY <3>1, ConstantsOK DEF Advances, Later, Instant
  <2> QED BY <2>1, <2>2 DEF PlanOK, IInv, TypeOK
<1>4. ASSUME NEW a \in Contender, Abort(a) PROVE PlanOK'
  BY <1>1, <1>2, <1>4 DEF Abort, ticks
<1>5. ASSUME NEW a \in Contender, Elect(a) PROVE UNCHANGED plan
  BY <1>5 DEF Elect, AcquireGet, AcquireSet, AcquireConfirm, ticks
<1>6. ASSUME NEW e \in Editor, Edit(e) PROVE UNCHANGED plan
  BY <1>6 DEF Edit, EditCommit, EditRead, EditNullsSpec, EditRunnable, ticks
<1>7. ASSUME NEW n \in Node, TickStep(n) \/ CommitFails(n) PROVE PlanOK'
  <2>1. n \in Contender
    BY DEF Contender
  <2>2. CASE TickCommit(n) \/ CommitFails(n)
    BY <1>2, <2>2 DEF TickCommit, CommitFails
  <2>3. CASE ScanRaises(n) \/ ReleaseGet(n) \/ ReleaseDelete(n)
    BY <1>1, <2>3 DEF ScanRaises, ReleaseGet, ReleaseDelete, ticks
  <2> QED BY <1>1, <1>3, <1>5, <1>7, <2>1, <2>2, <2>3 DEF TickStep
<1>8. ASSUME NEW p \in Prober, Elect(p) PROVE PlanOK'
  BY <1>1, <1>5, <1>8 DEF Contender
<1>9. CASE Pass \/ Expire \/ LeaseRunsOut \/ CreatePoisoned \/ UNCHANGED vars
  BY <1>1, <1>9 DEF Pass, Expire, LeaseRunsOut, CreatePoisoned, ticks, vars
<1> QED BY <1>1, <1>4, <1>6, <1>7, <1>8, <1>9 DEF Next

\* A step of the contract, or one it does not see.
Kept == [Contract!ContractNext]_(Contract!contractVars)

\* Most steps are not seen, as they touch no window and waive nothing.
LEMMA Unseen == ASSUME UNCHANGED <<now, next, fired, overlapped, excused>> PROVE Kept
  BY DEF Kept, Contract!contractVars, Waived

\* Leading beside another waives the promise to all.
LEMMA ConfirmKept == ASSUME IInv, NEW a \in Contender, AcquireConfirm(a) PROVE Kept
<1>1. UNCHANGED <<now, next, fired, excused>>
  BY DEF AcquireConfirm, rows
<1>2. CASE overlapped' = overlapped
  BY <1>1, <1>2, Unseen
<1>3. CASE overlapped' # overlapped
  <2>1. overlapped \in BOOLEAN /\ overlapped' \in BOOLEAN
    BY DEF IInv, TypeOK, AcquireConfirm
  <2>2. overlapped' /\ ~overlapped
    BY <1>3, <2>1 DEF AcquireConfirm
  <2>3. Waived' = Schedule /\ Waived \subseteq Schedule
    BY <2>2 DEF Waived, IInv, TypeOK
  <2>4. Contract!Step
    BY <1>1, <2>3 DEF Contract!Step
  <2> QED BY <2>4 DEF Kept, Contract!ContractNext
<1> QED BY <1>2, <1>3

\* A PATCH moves a schedule beyond all its windows.
LEMMA EditCommitKept == ASSUME IInv, NEW e \in Editor, EditCommit(e) PROVE Kept
<1> DEFINE s == target[e]
<1>1. /\ s \in Schedule /\ next' = [next EXCEPT ![s] = anchor[e]]
      /\ UNCHANGED <<now, fired, overlapped, excused>>
  BY DEF EditCommit, IInv, TypeOK, election
<1> HIDE DEF s
<1>2. Waived' = Waived /\ Waived \subseteq Schedule
  BY <1>1 DEF Waived, IInv, TypeOK
<1>3. ASSUME NEW q \in Schedule \ Waived PROVE Contract!Rests(q) \/ Contract!Moves(q)
  <2>1. CASE q # s
    BY <1>1, <2>1 DEF Contract!Rests, IInv, TypeOK
  <2>2. CASE q = s
    <3>1. next'[q] = anchor[e] /\ fired'[q] = fired[q]
      BY <1>1, <2>2 DEF IInv, TypeOK
    <3>2. anchor[e] = Never \/ (anchor[e] \in Nat /\ \A w \in fired[q] : w < anchor[e])
      <4>1. ~overlapped /\ q \in Schedule \ excused
        BY <1>3 DEF Waived
      <4>2. anchor[e] # Never => \A w \in fired[q] : w < anchor[e]
        BY <2>2, <4>1 DEF s, IInv, FiringOK, WindowsAhead
      <4>3. anchor[e] \in Instant \cup {Never}
        BY DEF IInv, TypeOK
      <4> QED BY <4>2, <4>3, ConstantsOK DEF Instant
    <3> QED BY <3>1, <3>2 DEF Contract!Moves, Contract!Ahead
  <2> QED BY <2>1, <2>2
<1>4. Contract!Step
  BY <1>1, <1>2, <1>3 DEF Contract!Step
<1> QED BY <1>4 DEF Kept, Contract!ContractNext

\* A commit fires, for each schedule it saw due, a window beyond all before it,
\* and moves the schedule beyond that.
LEMMA TickCommitKept == ASSUME IInv, PlanOK, NEW n \in Node, TickCommit(n) PROVE Kept
<1> DEFINE due == {s \in Schedule : seen[n][s] # Never}
<1>1. /\ fired' = [s \in Schedule |-> IF s \in due THEN fired[s] \cup {seen[n][s]} ELSE fired[s]]
      /\ next' = [s \in Schedule |-> IF plan[n][s] = Keep THEN next[s] ELSE plan[n][s]]
      /\ excused' = excused \cup {s \in due : plan[n][s] = Keep \/ \E e \in Editor : target[e] = s}
      /\ UNCHANGED <<now, overlapped>>
  BY DEF TickCommit
<1>2. Waived \subseteq Waived' /\ Waived' \subseteq Schedule
  BY <1>1 DEF Waived, IInv, TypeOK
<1>3. ASSUME NEW s \in Schedule \ Waived' PROVE Contract!Fires(s) \/ Contract!Rests(s)
  <2>1. ~overlapped /\ s \in Schedule \ excused /\ (s \in due => plan[n][s] # Keep)
    BY <1>1, <1>3 DEF Waived
  <2>2. CASE s \notin due
    <3>1. plan[n][s] = Keep
      BY <2>2 DEF IInv, FiringOK, SnapOK
    <3> QED BY <1>1, <2>2, <3>1 DEF Contract!Rests
  <2>3. CASE s \in due
    <3> DEFINE w == seen[n][s]
               i == plan[n][s]
    <3>1. w # Never /\ i # Keep /\ fired'[s] = fired[s] \cup {w} /\ next'[s] = i
      BY <1>1, <2>1, <2>3
    <3>2. w \in Instant \cup {Never} /\ i \in Instant \cup {Never, Keep}
      BY DEF IInv, TypeOK
    <3>3. w \in Nat /\ w <= now /\ (i # Never => i \in Nat)
      BY <3>1, <3>2, ConstantsOK DEF Instant, IInv, FiringOK, SnapOK
    <3>4. i # Never => w < i
      BY <3>3 DEF IInv, FiringOK, SnapOK, Instant
    <3>5. \A v \in fired[s] : v \in Nat /\ v < w
      BY <2>1, <3>1, ConstantsOK DEF IInv, TypeOK, Instant, FiringOK, WindowsAhead
    <3>6. s \in OneShot <=> i = Never
      BY <3>1 DEF PlanOK
    <3> HIDE DEF w, i
    <3>7. i # Never => \A v \in fired'[s] : v < i
      BY <3>1, <3>3, <3>4, <3>5
    <3>8. Contract!Fires(s)
      BY <3>1, <3>3, <3>5, <3>6, <3>7 DEF Contract!Fires, Contract!Ahead
    <3> QED BY <3>8
  <2> QED BY <2>2, <2>3
<1>4. \A s \in Schedule : fired[s] \subseteq fired'[s]
  BY <1>1
<1>5. Contract!Step
  BY <1>1, <1>2, <1>3, <1>4 DEF Contract!Step
<1> QED BY <1>5 DEF Kept, Contract!ContractNext

\* Every step of every actor is a step of the contract or not seen by it.
THEOREM StepsAreKept == IInv /\ PlanOK /\ [Next]_vars => Kept
<1> SUFFICES ASSUME IInv, PlanOK, [Next]_vars PROVE Kept
  OBVIOUS
<1>1. ASSUME NEW a \in Contender, Elect(a) PROVE Kept
  <2>1. CASE AcquireGet(a) \/ AcquireSet(a)
    BY <2>1, Unseen DEF AcquireGet, AcquireSet, rows
  <2> QED BY <1>1, <2>1, ConfirmKept DEF Elect
<1>2. ASSUME NEW n \in Node, TickStep(n) \/ CommitFails(n) PROVE Kept
  <2>1. n \in Contender
    BY DEF Contender
  <2>2. CASE TickScan(n) \/ ScanRaises(n) \/ ReleaseGet(n) \/ ReleaseDelete(n) \/ CommitFails(n)
    BY <2>2, Unseen DEF TickScan, ScanRaises, ReleaseGet, ReleaseDelete, CommitFails, rows
  <2> QED BY <1>1, <1>2, <2>1, <2>2, TickCommitKept DEF TickStep
<1>3. ASSUME NEW e \in Editor, Edit(e) PROVE Kept
  <2>1. ASSUME NEW s \in Schedule, EditRead(e, s) \/ EditNullsSpec(e, s) \/ EditRunnable(e, s) PROVE Kept
    BY <2>1, Unseen DEF EditRead, EditNullsSpec, EditRunnable, rows, election
  <2> QED BY <1>3, <2>1, EditCommitKept DEF Edit
<1>4. ASSUME NEW a \in Contender, Abort(a) PROVE Kept
  BY <1>4, Unseen DEF Abort, rows
<1>5. CASE Pass
  <2>1. Contract!ClockTicks
    BY <1>5 DEF Pass, Contract!ClockTicks, rows, election, Waived
  <2> QED BY <2>1 DEF Kept, Contract!ContractNext
<1>6. CASE Expire \/ LeaseRunsOut \/ CreatePoisoned \/ UNCHANGED vars
  BY <1>6, Unseen DEF Expire, LeaseRunsOut, CreatePoisoned, vars, rows, election
<1>7. ASSUME NEW p \in Prober, Elect(p) PROVE Kept
  BY <1>1, <1>7 DEF Contender
<1> QED BY <1>2, <1>3, <1>4, <1>5, <1>6, <1>7 DEF Next

\* FireWindow implements WindowContract: outside of overlapping ticks, edits
\* across a commit and triggers that cannot be evaluated, windows become runs in
\* order, each once and when due.
THEOREM WindowsAreKept == Spec => KeepsWindows
<1>1. Init => Contract!ContractInit
  <2> SUFFICES ASSUME Init PROVE Contract!ContractInit
    OBVIOUS
  <2>1. next \in [Schedule -> Nat \cup {Never}]
    BY ConstantsOK DEF Init, Later, Instant
  <2>2. Waived = {}
    BY DEF Init, Waived
  <2> QED BY <2>1, <2>2 DEF Init, Contract!ContractInit
<1>2. Init => PlanOK
  BY DEF Init, PlanOK, NothingPlanned
<1>3. Spec => []PlanOK
  BY <1>2, PlanKept, SpecIInv, PTL DEF Spec
<1> QED
  BY <1>1, <1>3, SpecIInv, StepsAreKept, PTL DEF Spec, Kept, KeepsWindows, Contract!ContractSpec
=============================================================================
