--------------------------- MODULE SchedulesProofs ---------------------------
(***************************************************************************)
(* Proofs about the trigger engine and the schedules that use it: for      *)
(* every trigger spec that compute_next_fire accepts, in every timezone    *)
(* and from every instant, what it returns is the earliest instant of the  *)
(* spec's grid; and so is the next fire of a schedule, through creations,  *)
(* late ticks and patches.                                                 *)
(***************************************************************************)
EXTENDS Schedules, FiniteSetTheorems, TLAPS

-----------------------------------------------------------------------------
(* Arithmetic of periods.                                                  *)

\* A positive multiple of a period is at least the period.
LEMMA MultipleAtLeast ==
  ASSUME NEW d \in Int, NEW e \in Nat \ {0}, d >= 1 PROVE d * e \in Int /\ d * e >= e
  OBVIOUS

\* Division with remainder.
LEMMA DivMod ==
  ASSUME NEW a \in Int, NEW e \in Nat \ {0}
  PROVE  /\ a \div e \in Int /\ a % e \in Int
         /\ (a \div e) * e \in Int
         /\ a = (a \div e) * e + (a % e)
         /\ 0 <= a % e /\ a % e < e
  OBVIOUS

\* The remainder is determined by being one.
LEMMA ModUnique ==
  ASSUME NEW a \in Int, NEW e \in Nat \ {0}, NEW q \in Int, NEW r \in Int,
         q * e \in Int, a = q * e + r, 0 <= r, r < e
  PROVE  a % e = r
<1> DEFINE p == a \div e
           s == a % e
<1>1. p \in Int /\ s \in Int /\ p * e \in Int /\ a = p * e + s /\ 0 <= s /\ s < e
  BY DivMod
<1> HIDE DEF p, s
<1>2. (q - p) * e = q * e - p * e /\ (p - q) * e = p * e - q * e
  BY <1>1
<1>3. ~(q - p >= 1)
  BY <1>1, <1>2, MultipleAtLeast
<1>4. ~(p - q >= 1)
  BY <1>1, <1>2, MultipleAtLeast
<1>5. p = q
  BY <1>1, <1>3, <1>4
<1> QED BY <1>1, <1>5 DEF s

\* Steps of the period keep the remainder.
LEMMA ModShift ==
  ASSUME NEW a \in Int, NEW e \in Nat \ {0}, NEW k \in Int
  PROVE  k * e \in Int /\ (a + k * e) % e = a % e
<1> DEFINE p == a \div e
           s == a % e
<1>1. p \in Int /\ s \in Int /\ p * e \in Int /\ a = p * e + s /\ 0 <= s /\ s < e
  BY DivMod
<1> HIDE DEF p, s
<1>2. k * e \in Int /\ (p + k) * e = p * e + k * e /\ p + k \in Int
  BY <1>1
<1>3. a + k * e = (p + k) * e + s /\ a + k * e \in Int
  BY <1>1, <1>2
<1>4. (a + k * e) % e = s
  BY <1>1, <1>2, <1>3, ModUnique
<1> QED BY <1>2, <1>4 DEF s

\* Two instants with the same remainder are a period apart.
LEMMA SameResidue ==
  ASSUME NEW a \in Int, NEW b \in Int, NEW e \in Nat \ {0}, a % e = b % e, a < b
  PROVE  b - a >= e
<1> DEFINE p == a \div e
           q == b \div e
           s == a % e
<1>1. p \in Int /\ s \in Int /\ p * e \in Int /\ a = p * e + s
  BY DivMod
<1>2. q \in Int /\ q * e \in Int /\ b = q * e + s
  BY DivMod
<1> HIDE DEF p, q, s
<1>3. (q - p) * e = q * e - p * e /\ (p - q) * e = p * e - q * e
  BY <1>1, <1>2
<1>4. ~(p - q >= 1) /\ p # q
  BY <1>1, <1>2, <1>3, MultipleAtLeast
<1>5. q - p >= 1
  BY <1>1, <1>2, <1>4
<1> QED BY <1>1, <1>2, <1>3, <1>5, MultipleAtLeast

\* Zero is a multiple of every period.
LEMMA ZeroMod == ASSUME NEW e \in Nat \ {0} PROVE 0 % e = 0
  BY ModUnique, 0 * e = 0

-----------------------------------------------------------------------------
(* The trigger engine.                                                     *)

\* next is the earliest instant of a spec's grid after asOf, and Absent only if
\* there is none.
Earliest(spec, zone, origin, asOf, next) ==
    IF next = Absent
    THEN \A t \in Int : t > asOf => ~OnGrid(spec, zone, origin, t)
    ELSE /\ next \in Int
         /\ next > asOf
         /\ OnGrid(spec, zone, origin, next)
         /\ \A t \in Int : asOf < t /\ t < next => ~OnGrid(spec, zone, origin, t)

\* The instants from o on, every so often.
OnRay(o, every, t) == t >= o /\ (t - o) % every = 0

\* Stepping from an anchor on the grid gives the earliest instant on it.
LEMMA SteppedIsEarliest ==
  ASSUME NEW o \in Int, NEW anchor \in Int, NEW every \in Nat \ {0}, NEW base \in Int,
         OnRay(o, every, anchor), anchor > base => anchor = o
  PROVE  /\ Stepped(anchor, every, base) \in Int
         /\ Stepped(anchor, every, base) > base
         /\ OnRay(o, every, Stepped(anchor, every, base))
         /\ \A t \in Int : base < t /\ t < Stepped(anchor, every, base) => ~OnRay(o, every, t)
<1> USE DEF OnRay
<1> DEFINE next == Stepped(anchor, every, base)
<1>1. CASE anchor > base
  BY <1>1 DEF Stepped
<1>2. CASE ~(anchor > base)
  <2> DEFINE k == (base - anchor) \div every
             r == (base - anchor) % every
  <2>1. base - anchor \in Int /\ base - anchor >= 0
    BY <1>2
  <2>2. k \in Int /\ r \in Int /\ k * every \in Int /\ base - anchor = k * every + r /\ 0 <= r /\ r < every
    BY <2>1, DivMod
  <2>3. next = anchor + (k + 1) * every
    BY <1>2 DEF Stepped
  <2> HIDE DEF k, r, next
  <2>4. (k + 1) * every = k * every + every /\ (k + 1) * every \in Int /\ k + 1 \in Int
    BY <2>2
  <2>5. next \in Int /\ next > base /\ next - every <= base /\ next >= o
    BY <1>2, <2>2, <2>3, <2>4
  <2>6. (next - o) % every = 0
    <3>1. next - o = (anchor - o) + (k + 1) * every
      BY <2>3, <2>4, <2>5
    <3>2. anchor - o \in Int
      OBVIOUS
    <3>3. ((anchor - o) + (k + 1) * every) % every = (anchor - o) % every
      BY <2>4, <3>2, ModShift
    <3> QED BY <3>1, <3>3
  <2>7. ASSUME NEW t \in Int, base < t, t < next, (t - o) % every = 0 PROVE FALSE
    <3>1. t - o \in Int /\ next - o \in Int /\ t - o < next - o
      BY <2>5, <2>7
    <3>2. (next - o) - (t - o) >= every
      BY <2>6, <2>7, <3>1, SameResidue
    <3> QED BY <2>5, <2>7, <3>2
  <2> QED BY <2>5, <2>6, <2>7 DEF next
<1> QED BY <1>1, <1>2

\* The grid of a recurring trigger starts at start_at, or else at the origin.
LEMMA RecurringIsEarliest ==
  ASSUME NEW spec \in [kind : {"interval", "condition_watch"}, every : Nat \ {0}, start : Int \cup {Absent}],
         NEW zone, NEW origin \in Int, NEW base \in Int, NEW last \in Int \cup {Absent}, NEW computed,
         last = Absent => base = origin,
         last # Absent => last <= base /\ OnGrid(spec, zone, origin, last)
  PROVE  Earliest(spec, zone, origin, base, compute_next_fire(spec, base, last, computed))
<1> DEFINE o == IF spec.start # Absent THEN spec.start ELSE origin
           anchor == AnchorOf(spec, base, last)
           next == Stepped(anchor, spec.every, base)
<1>1. Recurring(spec) /\ spec.every \in Nat \ {0} /\ spec.start \in Int \cup {Absent} /\ o \in Int
  BY DEF Recurring
<1>2. compute_next_fire(spec, base, last, computed) = next
  BY <1>1 DEF compute_next_fire
<1>3. \A t : OnGrid(spec, zone, origin, t) <=> OnRay(o, spec.every, t)
  BY <1>1 DEF OnGrid, OnRay
<1>4. anchor \in Int /\ OnRay(o, spec.every, anchor) /\ (anchor > base => anchor = o)
  <2>0. OnRay(o, spec.every, o)
    BY <1>1, ZeroMod DEF OnRay
  <2>1. CASE spec.start # Absent
    <3>1. anchor = o
      BY <2>1 DEF AnchorOf
    <3> QED BY <1>1, <2>0, <3>1
  <2>2. CASE spec.start = Absent /\ last = Absent
    <3>1. anchor = base /\ o = base
      BY <2>2 DEF AnchorOf
    <3> QED BY <1>1, <2>0, <3>1
  <2>3. CASE spec.start = Absent /\ last # Absent
    <3>1. anchor = last
      BY <2>3 DEF AnchorOf
    <3>2. OnRay(o, spec.every, last)
      BY <1>3, <2>3
    <3> QED BY <1>1, <2>3, <3>1, <3>2
  <2> QED BY <2>1, <2>2, <2>3
<1> HIDE DEF o, anchor
<1>5. /\ next \in Int /\ next > base /\ OnRay(o, spec.every, next)
      /\ \A t \in Int : base < t /\ t < next => ~OnRay(o, spec.every, t)
  BY <1>1, <1>4, SteppedIsEarliest
<1> HIDE DEF next
<1> QED BY <1>2, <1>3, <1>5, TriggerConstantsOK DEF Earliest

\* An expression that matches once a period has its next match within one.
LEMMA CronIsEarliest ==
  ASSUME NEW spec \in [kind : {"cron"}, every : Nat \ {0}, phase : Nat],
         NEW zone \in Zone, NEW origin, NEW base \in Int, NEW last
  PROVE  Earliest(spec, zone, origin, base, compute_next_fire(spec, base, last, zone))
<1> DEFINE e == spec.every
           z == Offset[zone]
           next == CronNext(spec, zone, base)
<1>1. spec.kind = "cron" /\ e \in Nat \ {0} /\ spec.phase \in Nat /\ z \in Int
  BY TriggerConstantsOK
<1>2. compute_next_fire(spec, base, last, zone) = next
  BY <1>1 DEF compute_next_fire, Recurring
<1>3. \A t : OnGrid(spec, zone, origin, t) <=> (t + z) % e = spec.phase % e
  BY <1>1 DEF OnGrid, Recurring, MatchesCron
<1>4. \E t \in (base + 1)..(base + e) : MatchesCron(spec, zone, t)
  <2> DEFINE x == base + 1 + z
             q == (spec.phase - x) \div e
             r == (spec.phase - x) % e
             t == base + 1 + r
             m == q * e
  <2>1. x \in Int /\ spec.phase - x \in Int
    BY <1>1
  <2>2. q \in Int /\ r \in Int /\ m \in Int /\ spec.phase - x = m + r /\ 0 <= r /\ r < e
    BY <1>1, <2>1, DivMod
  <2> HIDE DEF q, r, m, e, z
  <2>3. t \in (base + 1)..(base + e) /\ t \in Int
    BY <1>1, <2>2
  <2>4. spec.phase = (t + z) + m /\ t + z \in Int
    BY <1>1, <2>2, <2>3
  <2>5. (t + z) % e = spec.phase % e
    <3>1. ((t + z) + q * e) % e = (t + z) % e
      BY <1>1, <2>2, <2>4, ModShift
    <3> QED BY <2>4, <3>1 DEF m
  <2> QED BY <2>3, <2>5 DEF MatchesCron, e, z
<1>5. next \in (base + 1)..(base + e) /\ (next + z) % e = spec.phase % e
  BY <1>4 DEF CronNext, MatchesCron
<1> HIDE DEF e, z, next
<1>6. ASSUME NEW t \in Int, base < t, t < next, (t + z) % e = spec.phase % e PROVE FALSE
  <2>1. t + z \in Int /\ next + z \in Int /\ t + z < next + z
    BY <1>1, <1>5, <1>6
  <2>2. (next + z) - (t + z) >= e
    BY <1>1, <1>5, <1>6, <2>1, SameResidue
  <2> QED BY <1>1, <1>5, <1>6, <2>2
<1> QED BY <1>1, <1>2, <1>3, <1>5, <1>6, TriggerConstantsOK DEF Earliest

\* A one_shot has one instant, and a fire that is left was it; a manual trigger
\* has none.
LEMMA OnceIsEarliest ==
  ASSUME NEW spec \in [kind : {"one_shot"}, at : Int] \cup [kind : {"manual"}],
         NEW zone, NEW origin, NEW base \in Int, NEW last \in Int \cup {Absent}, NEW computed,
         last # Absent => last <= base /\ OnGrid(spec, zone, origin, last)
  PROVE  Earliest(spec, zone, origin, base, compute_next_fire(spec, base, last, computed))
<1>1. CASE spec \in [kind : {"one_shot"}, at : Int]
  <2>1. spec.kind = "one_shot" /\ spec.at \in Int
    BY <1>1
  <2>2. compute_next_fire(spec, base, last, computed) = OneShotNext(spec, base, last)
    BY <2>1 DEF compute_next_fire, Recurring
  <2>3. \A t : OnGrid(spec, zone, origin, t) <=> t = spec.at
    BY <2>1 DEF OnGrid, Recurring
  <2> QED BY <2>1, <2>2, <2>3, TriggerConstantsOK DEF Earliest, OneShotNext
<1>2. CASE spec \in [kind : {"manual"}]
  <2>1. spec.kind = "manual"
    BY <1>2
  <2>2. compute_next_fire(spec, base, last, computed) = Absent /\ \A t : ~OnGrid(spec, zone, origin, t)
    BY <2>1 DEF compute_next_fire, OnGrid, Recurring
  <2> QED BY <2>2 DEF Earliest
<1> QED BY <1>1, <1>2

\* compute_next_fire is right for every spec it accepts: asked for a first fire,
\* and asked for the one after a fire of the grid that is due.  Only a cron
\* expression needs the timezone of the grid.
THEOREM NextFireIsEarliest ==
  ASSUME NEW spec \in TriggerSpecs, NEW zone \in Zone, NEW computed, NEW origin \in Int,
         NEW base \in Int, NEW last \in Int \cup {Absent},
         spec.kind = "cron" => computed = zone,
         last = Absent => base = origin,
         last # Absent /\ spec.kind # "cron" => last <= base /\ OnGrid(spec, zone, origin, last)
  PROVE  Earliest(spec, zone, origin, base, compute_next_fire(spec, base, last, computed))
<1>1. CASE spec \in [kind : {"interval", "condition_watch"}, every : Nat \ {0}, start : Int \cup {Absent}]
  BY <1>1, RecurringIsEarliest
<1>2. CASE spec \in [kind : {"cron"}, every : Nat \ {0}, phase : Nat]
  BY <1>2, CronIsEarliest
<1>3. CASE spec \in [kind : {"one_shot"}, at : Int] \cup [kind : {"manual"}]
  BY <1>3, OnceIsEarliest
<1> QED BY <1>1, <1>2, <1>3 DEF TriggerSpecs

-----------------------------------------------------------------------------
(* Schedules.                                                              *)

\* The next fire is right, but for the cron expression of an A2A schedule.
RowRight == row # Nothing /\ (~Misplaced(row) \/ row.spec.kind # "cron") =>
    Earliest(row.spec, row.zone, row.origin, row.asOf, row.next)

\* REST requests that have counted and not inserted.
Counting == {c \in Client : creating[c] # Nothing}

\* Each of them may still add a schedule, and the last one that counted was
\* below the quota.
CreationsCounted ==
    others + MadeBy({"rest"}) + Cardinality(Counting) <= MaxPerUser + Cardinality(Client) - 1

\* The inductive invariant.
SchedulesInv ==
    /\ SchedulesTypeOK
    /\ RowRight
    /\ CreationsCounted

\* What is counted are numbers.
LEMMA CountingTyped ==
  /\ IsFiniteSet(Counting) /\ Cardinality(Counting) \in Nat
  /\ Cardinality(Client) \in Nat /\ Cardinality(Counting) <= Cardinality(Client)
<1>1. Counting \in SUBSET Client /\ IsFiniteSet(Client)
  BY SchedulesConstantsOK DEF Counting
<1> QED BY <1>1, FS_Subset, FS_CardinalityType

\* At first there is no schedule and no request.
LEMMA SchedulesInvInit == SchedulesInit => SchedulesInv
<1> SUFFICES ASSUME SchedulesInit PROVE SchedulesInv
  OBVIOUS
<1>1. SchedulesTypeOK /\ RowRight
  BY SchedulesConstantsOK DEF SchedulesInit, SchedulesTypeOK, RowRight
<1>2. Counting = {} /\ MadeBy({"rest"}) = 0 /\ others = 0
  BY DEF SchedulesInit, Counting, MadeBy
<1>3. Cardinality(Counting) = 0
  BY <1>2, FS_EmptySet
<1>4. CreationsCounted
  BY <1>2, <1>3, CountingTyped, SchedulesConstantsOK DEF CreationsCounted
<1> QED BY <1>1, <1>4 DEF SchedulesInv

\* A step that inserts no schedule that REST counts keeps the count.
LEMMA CountKept ==
  ASSUME SchedulesInv, UNCHANGED creating, others' \in Nat, others' <= others,
         MadeBy({"rest"})' <= MadeBy({"rest"}), MadeBy({"rest"})' \in Nat
  PROVE  CreationsCounted'
<1>1. Counting' = Counting /\ others \in Nat /\ MadeBy({"rest"}) \in Nat
  BY DEF Counting, SchedulesInv, SchedulesTypeOK, MadeBy
<1> QED BY <1>1, CountingTyped, SchedulesConstantsOK DEF CreationsCounted, SchedulesInv

\* The first fire of a new row, and the row.
LEMMA NewRowRight ==
  ASSUME NEW spec \in Wish, NEW zone \in Zone, NEW via \in {"rest", "a2a", "mcp"}, NEW base \in Int,
         NEW computed \in Zone, computed # zone => via = "a2a" /\ computed = UTC,
         row' = NewRow(spec, zone, via, base, computed)
  PROVE  /\ row' \in Row
         /\ row'.via = via
         /\ RowRight'
<1> DEFINE next == compute_next_fire(spec, base, Absent, computed)
<1>1. spec \in TriggerSpecs
  BY SchedulesConstantsOK
<1>2. Earliest(spec, computed, base, base, next)
  BY <1>1, NextFireIsEarliest
<1>3. computed = zone \/ spec.kind # "cron" => Earliest(spec, zone, base, base, next)
  BY <1>1, NextFireIsEarliest
<1>4. next \in Int \cup {Absent}
  BY <1>2 DEF Earliest
<1> HIDE DEF next
<1>5. row' = [spec |-> spec, zone |-> zone, via |-> via, live |-> TRUE, next |-> next,
              last |-> Absent, asOf |-> base, origin |-> base]
  BY DEF NewRow, next
<1>6. row' \in Row
  BY <1>4, <1>5 DEF Row
<1>7. /\ row'.spec = spec /\ row'.zone = zone /\ row'.via = via /\ row'.next = next
      /\ row'.asOf = base /\ row'.origin = base
  BY <1>5
<1>8. RowRight'
  BY <1>3, <1>7 DEF RowRight, Misplaced
<1> QED BY <1>6, <1>7, <1>8

\* What a2a and mcp create does not count.
LEMMA CreateStep ==
  ASSUME SchedulesInv, NEW spec \in Wish, NEW zone \in Zone,
         A2ACreate(spec, zone) \/ McpCreate(spec, zone)
  PROVE  SchedulesInv'
<1> USE DEF SchedulesInv
<1>1. clock \in Int /\ UTC \in Zone /\ UNCHANGED <<clock, others, creating>>
  BY SchedulesConstantsOK, TriggerConstantsOK DEF A2ACreate, McpCreate, SchedulesTypeOK
<1>2. row' \in Row /\ row'.via \in {"a2a", "mcp"} /\ RowRight'
  <2>1. CASE A2ACreate(spec, zone)
    <3>1. row' = NewRow(spec, zone, "a2a", clock, UTC)
      BY <2>1 DEF A2ACreate, Create
    <3> QED BY <1>1, <3>1, NewRowRight
  <2>2. CASE McpCreate(spec, zone)
    <3>1. row' = NewRow(spec, zone, "mcp", clock, zone)
      BY <2>2 DEF McpCreate, Create
    <3> QED BY <1>1, <3>1, NewRowRight
  <2> QED BY <2>1, <2>2
<1>3. SchedulesTypeOK'
  BY <1>1, <1>2 DEF SchedulesTypeOK
<1>4. MadeBy({"rest"})' = 0 /\ MadeBy({"rest"}) \in {0, 1}
  BY <1>2 DEF MadeBy
<1>5. CreationsCounted'
  BY <1>1, <1>4, CountKept DEF SchedulesTypeOK
<1> QED BY <1>2, <1>3, <1>5

\* A request that counts saw the user below the quota, whoever else has counted.
LEMMA RestCountStep ==
  ASSUME SchedulesInv, NEW c \in Client, RestCount(c) PROVE SchedulesInv'
<1> USE DEF SchedulesInv
<1>1. UNCHANGED <<clock, row, others>> /\ Owned < MaxPerUser
      /\ creating' = [creating EXCEPT ![c] = clock]
  BY DEF RestCount
<1>2. SchedulesTypeOK' /\ RowRight'
  BY <1>1 DEF SchedulesTypeOK, RowRight, Misplaced
<1>3. Counting' \in SUBSET Client /\ IsFiniteSet(Client)
  BY SchedulesConstantsOK DEF Counting
<1>4. /\ Cardinality(Counting') <= Cardinality(Client)
      /\ Cardinality(Counting') \in Nat /\ Cardinality(Client) \in Nat
  BY <1>3, FS_Subset, FS_CardinalityType
<1>5. /\ MadeBy({"rest"})' = MadeBy({"rest"}) /\ MadeBy({"rest"}) \in Nat /\ MadeBy({"rest", "a2a"}) \in Nat
      /\ MadeBy({"rest"}) <= MadeBy({"rest", "a2a"})
  BY <1>1 DEF MadeBy
<1>6. CreationsCounted'
  BY <1>1, <1>4, <1>5, SchedulesConstantsOK DEF CreationsCounted, Owned, SchedulesTypeOK
<1> QED BY <1>2, <1>6

\* A request that inserts was counted, and is no longer.
LEMMA InsertCounted ==
  ASSUME SchedulesInv, NEW c \in Client, creating[c] # Nothing,
         creating' = [creating EXCEPT ![c] = Nothing],
         others' \in Nat, MadeBy({"rest"})' \in Nat,
         others' + MadeBy({"rest"})' <= others + MadeBy({"rest"}) + 1
  PROVE  CreationsCounted'
<1>1. Counting' = Counting \ {c} /\ c \in Counting
  BY DEF Counting, SchedulesInv, SchedulesTypeOK
<1>2. Cardinality(Counting') = Cardinality(Counting) - 1
  BY <1>1, CountingTyped, FS_RemoveElement
<1>3. others \in Nat /\ MadeBy({"rest"}) \in Nat
  BY DEF SchedulesInv, SchedulesTypeOK, MadeBy
<1> QED BY <1>2, <1>3, CountingTyped, SchedulesConstantsOK DEF CreationsCounted, SchedulesInv

\* POST /schedules of the schedule that is followed.
LEMMA RestInsertStep ==
  ASSUME SchedulesInv, NEW c \in Client, NEW spec \in Wish, NEW zone \in Zone, RestInsert(c, spec, zone)
  PROVE  SchedulesInv'
<1> USE DEF SchedulesInv
<1>1. /\ creating[c] # Nothing /\ row = Nothing
      /\ row' = NewRow(spec, zone, "rest", creating[c], zone)
      /\ creating' = [creating EXCEPT ![c] = Nothing]
      /\ UNCHANGED <<clock, others>>
  BY DEF RestInsert, Create
<1>2. creating[c] \in Int
  BY <1>1, SchedulesConstantsOK DEF SchedulesTypeOK
<1>3. row' \in Row /\ row'.via = "rest" /\ RowRight'
  BY <1>1, <1>2, NewRowRight
<1>4. SchedulesTypeOK'
  BY <1>1, <1>3 DEF SchedulesTypeOK
<1>5. CreationsCounted'
  <2>1. MadeBy({"rest"}) = 0 /\ MadeBy({"rest"})' \in {0, 1}
    BY <1>1 DEF MadeBy
  <2>2. others \in Nat /\ others' \in Nat /\ MadeBy({"rest"})' \in Nat
        /\ others' + MadeBy({"rest"})' <= others + MadeBy({"rest"}) + 1
    BY <1>1, <2>1 DEF SchedulesTypeOK
  <2> QED BY <1>1, <2>2, InsertCounted
<1> QED BY <1>3, <1>4, <1>5

\* POST /schedules of another one.
LEMMA RestInsertsOtherStep ==
  ASSUME SchedulesInv, NEW c \in Client, RestInsertsOther(c) PROVE SchedulesInv'
<1> USE DEF SchedulesInv, RestInsertsOther
<1>1. SchedulesTypeOK' /\ RowRight'
  BY DEF SchedulesTypeOK, RowRight, Misplaced
<1>2. MadeBy({"rest"})' \in Nat /\ MadeBy({"rest"})' = MadeBy({"rest"})
  BY DEF MadeBy
<1>a. others' \in Nat /\ others' + MadeBy({"rest"})' <= others + MadeBy({"rest"}) + 1
  BY <1>2 DEF SchedulesTypeOK
<1>3. CreationsCounted'
  BY <1>2, <1>a, InsertCounted
<1> QED BY <1>1, <1>3

\* A step that rewrites the row keeps who made it, hence the count.
LEMMA RewriteCounts ==
  ASSUME SchedulesInv, row # Nothing, row'.via = row.via, UNCHANGED <<others, creating>>
  PROVE  CreationsCounted'
<1>1. MadeBy({"rest"})' <= MadeBy({"rest"}) /\ MadeBy({"rest"})' \in Nat
  BY DEF MadeBy
<1>2. others' \in Nat /\ others' <= others
  BY DEF SchedulesInv, SchedulesTypeOK
<1> QED BY <1>1, <1>2, CountKept

\* A tick leaves a fire that is due, for the earliest after now.
LEMMA TickAdvancesStep ==
  ASSUME SchedulesInv, TickAdvances PROVE SchedulesInv'
<1> USE DEF SchedulesInv
<1> DEFINE next == compute_next_fire(row.spec, clock, row.next, row.zone)
           live == (next # Absent \/ row.spec.kind # "one_shot")
<1>1. /\ row # Nothing /\ row.next # Absent /\ row.next <= clock
      /\ row' = [row EXCEPT !.next = next, !.last = row.next, !.asOf = clock, !.live = live]
      /\ UNCHANGED <<clock, others, creating>>
  BY DEF TickAdvances, DueNow
<1>2. row \in Row /\ clock \in Int
  BY <1>1, SchedulesConstantsOK DEF SchedulesTypeOK
<1>3. /\ row.spec \in TriggerSpecs /\ row.zone \in Zone /\ row.origin \in Int
      /\ row.next \in Int \cup {Absent}
  BY <1>2, SchedulesConstantsOK DEF Row
<1>4. Earliest(row.spec, row.zone, row.origin, clock, next)
  <2>1. row.spec.kind # "cron" => OnGrid(row.spec, row.zone, row.origin, row.next)
    BY <1>1 DEF RowRight, Earliest
  <2> QED BY <1>1, <1>2, <1>3, <2>1, NextFireIsEarliest
<1>5. next \in Int \cup {Absent} /\ live \in BOOLEAN
  BY <1>4 DEF Earliest
<1> HIDE DEF next, live
<1>6. /\ row'.spec = row.spec /\ row'.zone = row.zone /\ row'.via = row.via /\ row'.next = next
      /\ row'.asOf = clock /\ row'.origin = row.origin
  BY <1>1, <1>2 DEF Row
<1>7. row' \in Row
  BY <1>1, <1>2, <1>3, <1>5 DEF Row
<1>8. SchedulesTypeOK'
  BY <1>1, <1>7 DEF SchedulesTypeOK
<1>9. RowRight'
  BY <1>4, <1>6 DEF RowRight
<1>10. CreationsCounted'
  BY <1>1, <1>6, RewriteCounts
<1> QED BY <1>8, <1>9, <1>10

\* A new trigger starts its grid now.
LEMMA SchedulePatchStep ==
  ASSUME SchedulesInv, NEW spec \in Wish, NEW zone \in Zone, SchedulePatch(spec, zone) PROVE SchedulesInv'
<1> USE DEF SchedulesInv
<1> DEFINE next == compute_next_fire(spec, clock, Absent, zone)
<1>1. /\ row # Nothing
      /\ row' = [row EXCEPT !.spec = spec, !.zone = zone, !.next = next, !.asOf = clock, !.origin = clock]
      /\ UNCHANGED <<clock, others, creating>>
  BY DEF SchedulePatch
<1>2. row \in Row /\ clock \in Int /\ spec \in TriggerSpecs
  BY <1>1, SchedulesConstantsOK DEF SchedulesTypeOK
<1>4. Earliest(spec, zone, clock, clock, next)
  BY <1>2, NextFireIsEarliest
<1>5. next \in Int \cup {Absent}
  BY <1>4 DEF Earliest
<1> HIDE DEF next
<1>6. /\ row'.spec = spec /\ row'.zone = zone /\ row'.via = row.via /\ row'.next = next
      /\ row'.asOf = clock /\ row'.origin = clock
  BY <1>1, <1>2 DEF Row
<1>7. row' \in Row
  BY <1>1, <1>2, <1>5 DEF Row
<1>8. SchedulesTypeOK'
  BY <1>1, <1>7 DEF SchedulesTypeOK
<1>9. RowRight'
  BY <1>4, <1>6 DEF RowRight
<1>10. CreationsCounted'
  BY <1>1, <1>6, RewriteCounts
<1> QED BY <1>8, <1>9, <1>10

\* Pausing and resuming move no fire.
LEMMA ScheduleSwitchedStep ==
  ASSUME SchedulesInv, ScheduleSwitched PROVE SchedulesInv'
<1> USE DEF SchedulesInv, ScheduleSwitched
<1>1. row \in Row
  BY DEF SchedulesTypeOK
<1>2. /\ row'.spec = row.spec /\ row'.zone = row.zone /\ row'.via = row.via /\ row'.next = row.next
      /\ row'.asOf = row.asOf /\ row'.origin = row.origin
  BY <1>1 DEF Row
<1>3. row' \in Row
  BY <1>1 DEF Row
<1>4. SchedulesTypeOK'
  BY <1>3 DEF SchedulesTypeOK
<1>5. RowRight'
  BY <1>2 DEF RowRight, Misplaced
<1>6. CreationsCounted'
  BY <1>2, RewriteCounts
<1> QED BY <1>4, <1>5, <1>6

\* The remaining steps add no schedule.
LEMMA OtherScheduleSteps ==
  ASSUME SchedulesInv, TimePasses \/ ScheduleDelete \/ OtherDeleted \/ UNCHANGED scheduleVars
  PROVE  SchedulesInv'
<1> USE DEF SchedulesInv
<1>1. UNCHANGED creating /\ (row' = row \/ row' = Nothing)
      /\ clock' \in 0..MaxClock /\ others' \in Nat /\ others' <= others
  BY SchedulesConstantsOK DEF TimePasses, ScheduleDelete, OtherDeleted, scheduleVars, SchedulesTypeOK
<1>2. SchedulesTypeOK' /\ RowRight'
  BY <1>1 DEF SchedulesTypeOK, RowRight, Misplaced
<1>3. MadeBy({"rest"})' \in Nat /\ MadeBy({"rest"})' <= MadeBy({"rest"})
  BY <1>1 DEF MadeBy
<1> QED BY <1>1, <1>2, <1>3, CountKept

\* Every step on schedules keeps the invariant.
THEOREM SchedulesInvNext == SchedulesInv /\ [SchedulesNext]_scheduleVars => SchedulesInv'
  BY OtherScheduleSteps, TickAdvancesStep, ScheduleSwitchedStep, RestCountStep, RestInsertsOtherStep,
     RestInsertStep, CreateStep, SchedulePatchStep DEF SchedulesNext

\* The invariant of schedules.
THEOREM SchedulesInvariant == SchedulesSpec => []SchedulesInv
<1> QED BY SchedulesInvInit, SchedulesInvNext, PTL DEF SchedulesSpec

\* The schedule and the requests keep their types.
THEOREM SchedulesTypeCorrect == SchedulesSpec => []SchedulesTypeOK
<1>1. SchedulesInv => SchedulesTypeOK
  BY DEF SchedulesInv
<1> QED BY <1>1, SchedulesInvariant, PTL

\* The next fire of a schedule is the earliest of its grid.
THEOREM NextFireRight == SchedulesSpec => []NextIsEarliest
<1>1. SchedulesInv => NextIsEarliest
  <2> SUFFICES ASSUME SchedulesInv, row # Nothing, ~Misplaced(row) PROVE NextIsEarliest
    BY DEF NextIsEarliest
  <2>1. Earliest(row.spec, row.zone, row.origin, row.asOf, row.next)
    BY DEF SchedulesInv, RowRight
  <2>2. row.asOf \in Int
    BY DEF SchedulesInv, SchedulesTypeOK, Row
  <2> QED BY <2>1, <2>2, SchedulesConstantsOK DEF NextIsEarliest, Earliest
<1> QED BY <1>1, SchedulesInvariant, PTL

\* REST creations exceed the quota by one less than the requests at once.
THEOREM QuotaExceededByRequests == SchedulesSpec => []RestCreationsBounded
<1>1. SchedulesInv => RestCreationsBounded
  <2> SUFFICES ASSUME SchedulesInv PROVE RestCreationsBounded
    OBVIOUS
  <2>1. others \in Nat /\ MadeBy({"rest"}) \in Nat
    BY DEF SchedulesInv, SchedulesTypeOK, MadeBy
  <2> QED BY <2>1, CountingTyped, SchedulesConstantsOK
          DEF SchedulesInv, CreationsCounted, RestCreationsBounded
<1> QED BY <1>1, SchedulesInvariant, PTL
=============================================================================
