-------------------------- MODULE ChainCompileProofs --------------------------
(***************************************************************************)
(* Theorems about ChainCompile, for every finite set of steps and needs    *)
(* lists of every length.  The invariant says what the counts are at the   *)
(* head of the while loop: the length of the needs list less the number of *)
(* different steps of it that were placed.                                 *)
(***************************************************************************)
EXTENDS ChainCompile, FiniteSetTheorems, SequenceTheorems, TLAPS

Sorting == pc \in {"sort", "run", "done", "cycle", "chain_step"}

\* What the compiler's variables say of each other while it sorts.
CountsOK ==
    \A s \in Step : indeg[s] = Len(needs[s]) - Cardinality(Range(needs[s]) \cap Range(order))

QueueOK ==
    /\ NoRepeats(order)
    /\ NoRepeats(ready)
    /\ Range(order) \cap Range(ready) = {}
    /\ \A s \in Step : indeg[s] = 0 <=> s \in Range(order) \cup Range(ready)

\* Every step of the order comes after all it needs.
OrderOK ==
    \A i \in DOMAIN order : Range(needs[order[i]]) \subseteq {order[j] : j \in 1..(i - 1)}

\* What the program counter says of the rest.
PhaseOK ==
    /\ pc \in {"validate", "chain_compile"} => order = <<>> /\ ready = <<>>
    /\ pc \in {"run", "done", "chain_step"} => Len(order) = Cardinality(Step)
    /\ pc = "cycle" => ready = <<>> /\ Len(order) # Cardinality(Step)
    /\ results # <<>> => pc \in {"run", "done", "chain_step"}
    /\ Sorting => ~BadNeeds

\* The results so far are those of the first steps of the order.
ResultsOK ==
    /\ Len(results) <= Len(order)
    /\ \A i \in DOMAIN results : results[i] = order[i]

IInv ==
    /\ TypeOK
    /\ Sorting => CountsOK /\ QueueOK
    /\ OrderOK
    /\ PhaseOK
    /\ ResultsOK

-----------------------------------------------------------------------------
(* Sequences and the sets of their elements *)

\* A finite sequence has at most as many elements as its length, and exactly
\* as many when it repeats none.
LEMMA RangeSize ==
    ASSUME NEW S, NEW q \in Seq(S)
    PROVE  /\ IsFiniteSet(Range(q))
           /\ Cardinality(Range(q)) \in Nat
           /\ Len(q) \in Nat
           /\ Cardinality(Range(q)) <= Len(q)
           /\ NoRepeats(q) => Cardinality(Range(q)) = Len(q)
<1>1. /\ Len(q) \in Nat
      /\ DOMAIN q = 1..Len(q)
      /\ q \in [1..Len(q) -> Range(q)]
  BY LenProperties DEF Range
<1>2. q \in Surjection(1..Len(q), Range(q))
  BY <1>1 DEF Surjection, Range
<1>3. /\ IsFiniteSet(1..Len(q))
      /\ Cardinality(1..Len(q)) = Len(q)
  BY <1>1, FS_Interval, SMT
<1>4. /\ IsFiniteSet(Range(q))
      /\ Cardinality(Range(q)) <= Len(q)
      /\ Cardinality(Range(q)) = Len(q) <=> q \in Injection(1..Len(q), Range(q))
  BY <1>2, <1>3, FS_Surjection
<1>5. NoRepeats(q) => q \in Injection(1..Len(q), Range(q))
  BY <1>1 DEF NoRepeats, Injection, IsInjective
<1> QED
  BY <1>1, <1>4, <1>5, FS_CardinalityType

\* If as many different elements of q lie in P as q is long, all of them do.
LEMMA AllPlaced ==
    ASSUME NEW S, NEW q \in Seq(S), NEW P
    PROVE  /\ Cardinality(Range(q) \cap P) \in Nat
           /\ Cardinality(Range(q) \cap P) <= Len(q)
           /\ Cardinality(Range(q) \cap P) = Len(q) => Range(q) \subseteq P
<1>1. /\ IsFiniteSet(Range(q))
      /\ Cardinality(Range(q)) <= Len(q)
      /\ Cardinality(Range(q)) \in Nat
      /\ Len(q) \in Nat
  BY RangeSize
<1>2. /\ IsFiniteSet(Range(q) \cap P)
      /\ Cardinality(Range(q) \cap P) <= Cardinality(Range(q))
      /\ Cardinality(Range(q)) = Cardinality(Range(q) \cap P) => Range(q) = Range(q) \cap P
  BY <1>1, FS_Subset, Range(q) \cap P \in SUBSET Range(q)
<1>3. Cardinality(Range(q) \cap P) \in Nat
  BY <1>2, FS_CardinalityType
<1> QED
  BY <1>1, <1>2, <1>3

\* Placing one more step takes one off the count of those that need it.
LEMMA OneMorePlaced ==
    ASSUME NEW S, NEW q \in Seq(S), NEW P, NEW c, c \notin P
    PROVE  Cardinality(Range(q) \cap (P \cup {c})) =
             IF c \in Range(q) THEN Cardinality(Range(q) \cap P) + 1
                               ELSE Cardinality(Range(q) \cap P)
<1>1. IsFiniteSet(Range(q) \cap P)
  BY RangeSize, FS_Intersection
<1>2. CASE c \in Range(q)
  <2>1. Range(q) \cap (P \cup {c}) = (Range(q) \cap P) \cup {c}
    BY <1>2
  <2> QED
    BY <1>1, <1>2, <2>1, FS_AddElement
<1>3. CASE c \notin Range(q)
  <2>1. Range(q) \cap (P \cup {c}) = Range(q) \cap P
    BY <1>3
  <2> QED
    BY <1>3, <2>1
<1> QED
  BY <1>2, <1>3

\* A sorted set of steps is a sequence that holds each of them once.
LEMMA SortedSet ==
    ASSUME NEW S \in SUBSET Step, NEW q \in Sorted(S)
    PROVE  /\ q \in Seq(Step)
           /\ Range(q) = S
           /\ NoRepeats(q)
<1>1. /\ IsFiniteSet(S)
      /\ Cardinality(S) \in Nat
  BY ConstantsOK, FS_Subset, FS_CardinalityType
<1>2. /\ q \in [1..Cardinality(S) -> S]
      /\ \A i, j \in DOMAIN q : i < j => q[i] < q[j]
      /\ Range(q) = S
  BY DEF Sorted
<1>3. q \in Seq(S)
  BY <1>1, <1>2, SeqDef
<1>4. q \in Seq(Step)
  BY <1>3, SeqMonotonic
<1>5. NoRepeats(q)
  <2>1. SUFFICES ASSUME NEW i \in DOMAIN q, NEW j \in DOMAIN q, q[i] = q[j], i # j
                 PROVE  FALSE
    BY DEF NoRepeats
  <2>2. i \in Nat /\ j \in Nat
    BY <1>1, <1>2
  <2>3. q[i] \in Nat
    BY <1>2, ConstantsOK
  <2>4. i < j \/ j < i
    BY <2>1, <2>2
  <2> QED
    BY <1>2, <2>1, <2>3, <2>4
<1> QED
  BY <1>2, <1>4, <1>5

\* What one more element does to a sequence and to its range.
LEMMA AppendedRange ==
    ASSUME NEW S, NEW q \in Seq(S), NEW c \in S
    PROVE  /\ Append(q, c) \in Seq(S)
           /\ Len(Append(q, c)) = Len(q) + 1
           /\ DOMAIN Append(q, c) = 1..(Len(q) + 1)
           /\ DOMAIN q = 1..Len(q)
           /\ Len(q) \in Nat
           /\ \A i \in 1..Len(q) : Append(q, c)[i] = q[i]
           /\ Append(q, c)[Len(q) + 1] = c
           /\ Range(Append(q, c)) = Range(q) \cup {c}
           /\ NoRepeats(q) /\ c \notin Range(q) => NoRepeats(Append(q, c))
<1>1. /\ Append(q, c) \in Seq(S)
      /\ Len(Append(q, c)) = Len(q) + 1
      /\ DOMAIN Append(q, c) = 1..(Len(q) + 1)
      /\ DOMAIN q = 1..Len(q)
      /\ Len(q) \in Nat
      /\ \A i \in 1..Len(q) : Append(q, c)[i] = q[i]
      /\ Append(q, c)[Len(q) + 1] = c
  OBVIOUS
<1>2. Range(Append(q, c)) = Range(q) \cup {c}
  <2>1. ASSUME NEW x \in Range(Append(q, c)) PROVE x \in Range(q) \cup {c}
    <3>1. PICK i \in 1..(Len(q) + 1) : x = Append(q, c)[i]
      BY <1>1 DEF Range
    <3>2. CASE i = Len(q) + 1
      BY <1>1, <3>1, <3>2
    <3>3. CASE i \in 1..Len(q)
      BY <1>1, <3>1, <3>3 DEF Range
    <3> QED
      BY <1>1, <3>1, <3>2, <3>3
  <2>2. ASSUME NEW x \in Range(q) \cup {c} PROVE x \in Range(Append(q, c))
    <3>1. CASE x = c
      BY <1>1, <3>1 DEF Range
    <3>2. CASE x \in Range(q)
      <4>1. PICK i \in 1..Len(q) : x = q[i]
        BY <1>1, <3>2 DEF Range
      <4>2. i \in DOMAIN Append(q, c)
        BY <1>1
      <4> QED
        BY <1>1, <4>1, <4>2 DEF Range
    <3> QED
      BY <2>2, <3>1, <3>2
  <2> QED
    BY <2>1, <2>2
<1>3. ASSUME NoRepeats(q), c \notin Range(q) PROVE NoRepeats(Append(q, c))
  <2>1. SUFFICES ASSUME NEW i \in 1..(Len(q) + 1), NEW j \in 1..(Len(q) + 1),
                        Append(q, c)[i] = Append(q, c)[j]
                 PROVE  i = j
    BY <1>1 DEF NoRepeats
  <2>2. \A k \in 1..Len(q) : Append(q, c)[k] = q[k] /\ q[k] # c
    BY <1>1, <1>3 DEF Range
  <2>3. CASE i \in 1..Len(q) /\ j \in 1..Len(q)
    BY <1>1, <1>3, <2>1, <2>2, <2>3 DEF NoRepeats
  <2>4. CASE i = Len(q) + 1 \/ j = Len(q) + 1
    BY <1>1, <2>1, <2>2, <2>4
  <2> QED
    BY <1>1, <2>3, <2>4
<1> QED
  BY <1>1, <1>2, <1>3

\* What taking the head off a queue and adding another sequence does to it.
LEMMA Requeued ==
    ASSUME NEW S, NEW q \in Seq(S), q # <<>>, NEW r \in Seq(S)
    PROVE  /\ Head(q) \in S
           /\ Head(q) \in Range(q)
           /\ Tail(q) \o r \in Seq(S)
           /\ Range(Tail(q) \o r) = Range(Tail(q)) \cup Range(r)
           /\ Range(q) = {Head(q)} \cup Range(Tail(q))
           /\ NoRepeats(q) => Head(q) \notin Range(Tail(q))
           /\ /\ NoRepeats(q)
              /\ NoRepeats(r)
              /\ Range(q) \cap Range(r) = {}
              => NoRepeats(Tail(q) \o r)
<1>1. /\ Len(q) \in Nat \ {0}
      /\ Len(r) \in Nat
      /\ DOMAIN q = 1..Len(q)
      /\ DOMAIN r = 1..Len(r)
      /\ Head(q) = q[1]
      /\ Head(q) \in S
      /\ Tail(q) \in Seq(S)
      /\ Len(Tail(q)) = Len(q) - 1
      /\ DOMAIN Tail(q) = 1..(Len(q) - 1)
      /\ \A i \in 1..(Len(q) - 1) : Tail(q)[i] = q[i + 1]
  OBVIOUS
<1> DEFINE t == Tail(q)
           n == Len(q) - 1
<1>2. /\ n \in Nat
      /\ t \in Seq(S)
      /\ Len(t) = n
      /\ DOMAIN t = 1..n
      /\ \A i \in 1..n : t[i] = q[i + 1]
      /\ DOMAIN q = 1..(n + 1)
  BY <1>1
<1>3. /\ t \o r \in Seq(S)
      /\ DOMAIN (t \o r) = 1..(n + Len(r))
      /\ \A i \in 1..n : (t \o r)[i] = t[i]
      /\ \A i \in 1..Len(r) : (t \o r)[n + i] = r[i]
  <2>1. /\ t \o r \in Seq(S)
        /\ Len(t \o r) = n + Len(r)
        /\ \A i \in 1..(n + Len(r)) : (t \o r)[i] = IF i <= n THEN t[i] ELSE r[i - n]
    BY <1>2, ConcatProperties
  <2>2. DOMAIN (t \o r) = 1..(n + Len(r))
    BY <2>1, LenProperties
  <2>3. ASSUME NEW i \in 1..n PROVE (t \o r)[i] = t[i]
    BY <1>1, <1>2, <2>1
  <2>4. ASSUME NEW i \in 1..Len(r) PROVE (t \o r)[n + i] = r[i]
    <3>1. n + i \in 1..(n + Len(r)) /\ ~(n + i <= n) /\ n + i - n = i
      BY <1>1, <1>2
    <3> QED
      BY <2>1, <3>1
  <2> QED
    BY <2>1, <2>2, <2>3, <2>4
<1> HIDE DEF t, n
<1>4. Range(t \o r) = Range(t) \cup Range(r)
  <2>1. ASSUME NEW x \in Range(t \o r) PROVE x \in Range(t) \cup Range(r)
    <3>1. PICK i \in 1..(n + Len(r)) : x = (t \o r)[i]
      BY <1>3 DEF Range
    <3>2. CASE i \in 1..n
      BY <1>2, <1>3, <3>1, <3>2 DEF Range
    <3>3. CASE i - n \in 1..Len(r)
      <4>1. n + (i - n) = i
        BY <1>2, <3>1
      <4> QED
        BY <1>1, <1>3, <3>1, <3>3, <4>1 DEF Range
    <3> QED
      BY <1>1, <1>2, <3>1, <3>2, <3>3
  <2>2. ASSUME NEW x \in Range(t) PROVE x \in Range(t \o r)
    <3>1. PICK i \in 1..n : x = t[i]
      BY <1>2, <2>2 DEF Range
    <3>2. i \in DOMAIN (t \o r)
      BY <1>1, <1>2, <1>3
    <3> QED
      BY <1>3, <3>1, <3>2 DEF Range
  <2>3. ASSUME NEW x \in Range(r) PROVE x \in Range(t \o r)
    <3>1. PICK i \in 1..Len(r) : x = r[i]
      BY <1>1, <2>3 DEF Range
    <3>2. n + i \in DOMAIN (t \o r)
      BY <1>1, <1>2, <1>3
    <3> QED
      BY <1>3, <3>1, <3>2 DEF Range
  <2> QED
    BY <2>1, <2>2, <2>3
<1>5. Range(q) = {Head(q)} \cup Range(t)
  <2>1. ASSUME NEW x \in Range(q) PROVE x \in {Head(q)} \cup Range(t)
    <3>1. PICK i \in 1..(n + 1) : x = q[i]
      BY <1>2 DEF Range
    <3>2. CASE i = 1
      BY <1>1, <3>1, <3>2
    <3>3. CASE i - 1 \in 1..n
      <4>1. t[i - 1] = x
        BY <1>2, <3>1, <3>3
      <4> QED
        BY <1>2, <3>3, <4>1 DEF Range
    <3> QED
      BY <1>2, <3>1, <3>2, <3>3
  <2>2. Head(q) \in Range(q)
    BY <1>1, <1>2 DEF Range
  <2>3. ASSUME NEW x \in Range(t) PROVE x \in Range(q)
    <3>1. PICK i \in 1..n : x = t[i]
      BY <1>2, <2>3 DEF Range
    <3>2. i + 1 \in DOMAIN q
      BY <1>2
    <3> QED
      BY <1>2, <3>1, <3>2 DEF Range
  <2> QED
    BY <2>1, <2>2, <2>3
<1>6. ASSUME NoRepeats(q) PROVE Head(q) \notin Range(t)
  <2>1. SUFFICES ASSUME NEW i \in 1..n, q[1] = t[i] PROVE FALSE
    BY <1>1, <1>2 DEF Range
  <2>2. q[1] = q[i + 1] /\ 1 \in DOMAIN q /\ i + 1 \in DOMAIN q /\ i + 1 # 1
    BY <1>2, <2>1
  <2> QED
    BY <1>6, <2>2 DEF NoRepeats
<1>7. ASSUME NoRepeats(q), NoRepeats(r), Range(q) \cap Range(r) = {}
      PROVE  NoRepeats(t \o r)
  <2>1. SUFFICES ASSUME NEW i \in 1..(n + Len(r)), NEW j \in 1..(n + Len(r)),
                        (t \o r)[i] = (t \o r)[j]
                 PROVE  i = j
    BY <1>3 DEF NoRepeats
  <2>2. \A k \in 1..n : (t \o r)[k] = q[k + 1] /\ k + 1 \in DOMAIN q
    BY <1>2, <1>3
  <2>3. \A k \in 1..(n + Len(r)) : k \notin 1..n =>
            k - n \in DOMAIN r /\ (t \o r)[k] = r[k - n]
    <3>1. SUFFICES ASSUME NEW k \in 1..(n + Len(r)), k \notin 1..n
                   PROVE  k - n \in DOMAIN r /\ (t \o r)[k] = r[k - n]
      OBVIOUS
    <3>2. k - n \in 1..Len(r) /\ n + (k - n) = k
      BY <1>1, <1>2, <3>1
    <3> QED
      BY <1>1, <1>3, <3>2
  <2>4. CASE i \in 1..n /\ j \in 1..n
    <3>1. q[i + 1] = q[j + 1] /\ i + 1 \in DOMAIN q /\ j + 1 \in DOMAIN q
      BY <2>1, <2>2, <2>4
    <3>2. i + 1 = j + 1
      BY <1>7, <3>1 DEF NoRepeats
    <3> QED
      BY <1>2, <2>4, <3>2
  <2>5. CASE i \notin 1..n /\ j \notin 1..n
    <3>1. i - n = j - n
      BY <1>7, <2>1, <2>3, <2>5 DEF NoRepeats
    <3> QED
      BY <1>1, <1>2, <3>1
  <2>6. CASE i \in 1..n /\ j \notin 1..n
    <3>1. q[i + 1] = r[j - n] /\ i + 1 \in DOMAIN q /\ j - n \in DOMAIN r
      BY <2>1, <2>2, <2>3, <2>6
    <3>2. q[i + 1] \in Range(q) /\ r[j - n] \in Range(r)
      BY <3>1 DEF Range
    <3> QED
      BY <1>7, <3>1, <3>2
  <2>7. CASE i \notin 1..n /\ j \in 1..n
    <3>1. q[j + 1] = r[i - n] /\ j + 1 \in DOMAIN q /\ i - n \in DOMAIN r
      BY <2>1, <2>2, <2>3, <2>7
    <3>2. q[j + 1] \in Range(q) /\ r[i - n] \in Range(r)
      BY <3>1 DEF Range
    <3> QED
      BY <1>7, <3>1, <3>2
  <2> QED
    BY <2>4, <2>5, <2>6, <2>7
<1> QED
  BY <1>1, <1>3, <1>4, <1>5, <1>6, <1>7 DEF t

-----------------------------------------------------------------------------
(* The invariant *)

\* Initially nothing is counted, queued, placed or run.
LEMMA InitIInv == Init => IInv
<1> SUFFICES ASSUME Init PROVE IInv
  OBVIOUS
<1>1. needs \in [Step -> Seq(Name)]
  <2>1. NeedsList \subseteq Seq(Name)
    <3>1. \A k \in 0..MaxNeeds : k \in Nat
      BY ConstantsOK
    <3> QED
      BY <3>1, SeqDef DEF NeedsList
  <2> QED
    BY <2>1 DEF Init
<1>2. TypeOK
  BY <1>1, EmptySeq DEF Init, TypeOK
<1>3. OrderOK /\ PhaseOK /\ ~Sorting
  BY DEF Init, OrderOK, PhaseOK, Sorting
<1>4. ResultsOK
  BY DEF Init, ResultsOK
<1> QED
  BY <1>2, <1>3, <1>4 DEF IInv

\* A step whose count is zero has all its needs placed.
LEMMA ZeroIsReady ==
    ASSUME TypeOK, CountsOK, NEW s \in Step, indeg[s] = 0
    PROVE  Range(needs[s]) \subseteq Range(order)
<1>1. needs[s] \in Seq(Name)
  BY DEF TypeOK
<1>2. 0 = Len(needs[s]) - Cardinality(Range(needs[s]) \cap Range(order))
  BY DEF CountsOK
<1>3. Cardinality(Range(needs[s]) \cap Range(order)) = Len(needs[s])
  BY <1>1, <1>2, AllPlaced, RangeSize
<1> QED
  BY <1>1, <1>3, AllPlaced

LEMMA CountIInv == IInv /\ Count => IInv'
<1> SUFFICES ASSUME IInv, Count PROVE IInv'
  OBVIOUS
<1>1. /\ TypeOK /\ OrderOK /\ ResultsOK
      /\ order = <<>> /\ ready = <<>> /\ results = <<>>
  BY DEF IInv, PhaseOK, Count
<1>2. /\ pc' = "sort"
      /\ needs' = needs /\ order' = order /\ results' = results
      /\ indeg' = [s \in Step |-> Len(needs[s])]
      /\ ready' \in Sorted({s \in Step : needs[s] = <<>>})
  BY DEF Count
<1>3. /\ ready' \in Seq(Step)
      /\ Range(ready') = {s \in Step : needs[s] = <<>>}
      /\ NoRepeats(ready')
  BY <1>2, SortedSet
<1>4. \A s \in Step : needs[s] \in Seq(Name) /\ Len(needs[s]) \in Nat
  BY <1>1 DEF TypeOK
<1>5. TypeOK'
  BY <1>1, <1>2, <1>3, <1>4 DEF TypeOK
<1>6. Range(order) = {}
  BY <1>1 DEF Range
<1>7. CountsOK'
  <2>1. SUFFICES ASSUME NEW s \in Step
                 PROVE  indeg'[s] = Len(needs[s]) - Cardinality(Range(needs[s]) \cap Range(order))
    BY <1>2 DEF CountsOK
  <2>2. Cardinality(Range(needs[s]) \cap Range(order)) = 0
    BY <1>6, FS_EmptySet
  <2> QED
    BY <1>2, <1>4, <2>2
<1>8. QueueOK'
  <2>1. NoRepeats(order)
    BY <1>1 DEF NoRepeats
  <2>2. \A s \in Step : indeg'[s] = 0 <=> needs[s] = <<>>
    BY <1>2, <1>4
  <2> QED
    BY <1>2, <1>3, <1>6, <2>1, <2>2 DEF QueueOK
<1>9. OrderOK' /\ PhaseOK' /\ ResultsOK'
  <2>1. ~BadNeeds'
    BY <1>2 DEF Count, BadNeeds
  <2> QED
    BY <1>1, <1>2, <2>1 DEF OrderOK, PhaseOK, ResultsOK
<1> QED
  BY <1>5, <1>7, <1>8, <1>9 DEF IInv

LEMMA PlaceIInv == IInv /\ Place => IInv'
<1> SUFFICES ASSUME IInv, Place PROVE IInv'
  OBVIOUS
<1> DEFINE cur == Head(ready)
<1>1. /\ TypeOK /\ CountsOK /\ QueueOK /\ OrderOK /\ ResultsOK
      /\ pc = "sort" /\ results = <<>>
      /\ ready \in Seq(Step) /\ order \in Seq(Step) /\ ready # <<>>
      /\ indeg \in [Step -> Nat]
      /\ \A s \in Step : needs[s] \in Seq(Name) /\ Len(needs[s]) \in Nat
  <2>1. pc = "sort" /\ Sorting /\ ready # <<>>
    BY DEF Place, Sorting
  <2>2. TypeOK /\ CountsOK /\ QueueOK /\ OrderOK /\ PhaseOK /\ ResultsOK
    BY <2>1 DEF IInv
  <2>3. results = <<>>
    BY <2>1, <2>2 DEF PhaseOK
  <2> QED
    BY <2>1, <2>2, <2>3 DEF TypeOK
<1>2. PICK next_ready \in Sorted(Released(cur)) : ready' = Tail(ready) \o next_ready
  BY DEF Place
<1>3. /\ order' = Append(order, cur)
      /\ indeg' = [s \in Step |-> IF s \in Dependents(cur) THEN indeg[s] - 1 ELSE indeg[s]]
      /\ needs' = needs /\ pc' = pc /\ results' = results
  BY DEF Place
<1>4. /\ next_ready \in Seq(Step)
      /\ Range(next_ready) = Released(cur)
      /\ NoRepeats(next_ready)
  <2>1. Released(cur) \in SUBSET Step
    BY DEF Released, Dependents
  <2> QED
    BY <1>2, <2>1, SortedSet
<1>5. /\ cur \in Step
      /\ cur \in Range(ready)
      /\ ready' \in Seq(Step)
      /\ Range(ready') = Range(Tail(ready)) \cup Released(cur)
      /\ Range(ready) = {cur} \cup Range(Tail(ready))
      /\ cur \notin Range(Tail(ready))
      /\ Range(ready) \cap Released(cur) = {} => NoRepeats(ready')
  BY <1>1, <1>2, <1>4, Requeued DEF QueueOK
<1> HIDE DEF cur
<1>6. /\ order' \in Seq(Step)
      /\ Len(order') = Len(order) + 1
      /\ DOMAIN order' = 1..(Len(order) + 1)
      /\ DOMAIN order = 1..Len(order)
      /\ Len(order) \in Nat
      /\ \A i \in 1..Len(order) : order'[i] = order[i]
      /\ order'[Len(order) + 1] = cur
      /\ Range(order') = Range(order) \cup {cur}
      /\ NoRepeats(order) /\ cur \notin Range(order) => NoRepeats(order')
  BY <1>1, <1>3, <1>5, AppendedRange
<1>7. /\ cur \notin Range(order)
      /\ indeg[cur] = 0
  BY <1>1, <1>5 DEF QueueOK
<1>8. ASSUME NEW s \in Step
      PROVE  /\ indeg'[s] = Len(needs[s]) - Cardinality(Range(needs[s]) \cap Range(order'))
             /\ indeg'[s] \in Nat
             /\ indeg[s] = 0 => s \notin Dependents(cur)
  <2> DEFINE before == Cardinality(Range(needs[s]) \cap Range(order))
             after == Cardinality(Range(needs[s]) \cap Range(order'))
  <2>1. /\ before \in Nat /\ after \in Nat
        /\ after <= Len(needs[s])
        /\ Len(needs[s]) \in Nat
    BY <1>1, AllPlaced
  <2>2. indeg[s] = Len(needs[s]) - before
    BY <1>1 DEF CountsOK
  <2>3. after = IF cur \in Range(needs[s]) THEN before + 1 ELSE before
    <3>1. needs[s] \in Seq(Name)
      BY <1>1
    <3>2. Cardinality(Range(needs[s]) \cap (Range(order) \cup {cur})) =
             IF cur \in Range(needs[s]) THEN before + 1 ELSE before
      BY <1>7, <3>1, OneMorePlaced
    <3> QED
      BY <1>6, <3>2
  <2>4. cur \in Range(needs[s]) <=> s \in Dependents(cur)
    BY DEF Dependents
  <2>5. indeg'[s] = IF s \in Dependents(cur) THEN indeg[s] - 1 ELSE indeg[s]
    BY <1>3
  <2> HIDE DEF before, after
  <2>6. indeg'[s] = Len(needs[s]) - after
    <3>1. CASE s \in Dependents(cur)
      <4>1. indeg'[s] = indeg[s] - 1 /\ after = before + 1
        BY <2>3, <2>4, <2>5, <3>1
      <4> QED
        BY <2>1, <2>2, <4>1
    <3>2. CASE s \notin Dependents(cur)
      BY <2>2, <2>3, <2>4, <2>5, <3>2
    <3> QED
      BY <3>1, <3>2
  <2>7. indeg'[s] \in Nat
    BY <2>1, <2>6
  <2>8. s \in Dependents(cur) => indeg[s] # 0
    BY <2>1, <2>2, <2>3, <2>4
  <2> QED
    BY <2>6, <2>7, <2>8 DEF after
<1>9. TypeOK'
  <2>1. indeg' \in [Step -> Nat]
    BY <1>3, <1>8
  <2> QED
    BY <1>1, <1>3, <1>5, <1>6, <2>1 DEF TypeOK
<1>10. CountsOK'
  BY <1>3, <1>8 DEF CountsOK
<1>11. QueueOK'
  <2>1. \A s \in Released(cur) : s \in Step /\ indeg[s] = 1
    BY DEF Released, Dependents
  <2>2. Released(cur) \cap (Range(order) \cup Range(ready)) = {}
    BY <1>1, <2>1 DEF QueueOK
  <2>3. NoRepeats(order') /\ NoRepeats(ready')
    BY <1>1, <1>5, <1>6, <1>7, <2>2 DEF QueueOK
  <2>4. Range(order') \cap Range(ready') = {}
    BY <1>1, <1>5, <1>6, <1>7, <2>2 DEF QueueOK
  <2>5. ASSUME NEW s \in Step
        PROVE  indeg'[s] = 0 <=> s \in Range(order') \cup Range(ready')
    <3>1. indeg'[s] = 0 <=> indeg[s] = 0 \/ s \in Released(cur)
      <4>1. indeg'[s] = IF s \in Dependents(cur) THEN indeg[s] - 1 ELSE indeg[s]
        BY <1>3
      <4>2. s \in Released(cur) <=> s \in Dependents(cur) /\ indeg[s] = 1
        BY DEF Released, Dependents
      <4>3. indeg[s] = 0 => s \notin Dependents(cur)
        BY <1>8
      <4>4. indeg[s] \in Nat
        BY <1>1
      <4> QED
        BY <4>1, <4>2, <4>3, <4>4
    <3>2. indeg[s] = 0 <=> s \in Range(order) \cup Range(ready)
      BY <1>1 DEF QueueOK
    <3> QED
      BY <1>5, <1>6, <3>1, <3>2
  <2> QED
    BY <1>3, <2>3, <2>4, <2>5 DEF QueueOK
<1>12. OrderOK'
  <2>1. SUFFICES ASSUME NEW i \in 1..(Len(order) + 1)
                 PROVE  Range(needs[order'[i]]) \subseteq {order'[j] : j \in 1..(i - 1)}
    BY <1>3, <1>6 DEF OrderOK
  <2>2. CASE i \in 1..Len(order)
    <3>1. Range(needs[order[i]]) \subseteq {order[j] : j \in 1..(i - 1)}
      BY <1>1, <1>6, <2>2 DEF OrderOK
    <3>2. \A j \in 1..(i - 1) : order'[j] = order[j]
      BY <1>6, <2>2
    <3>3. {order[j] : j \in 1..(i - 1)} = {order'[j] : j \in 1..(i - 1)}
      BY <3>2
    <3> QED
      BY <1>6, <2>2, <3>1, <3>3
  <2>3. CASE i = Len(order) + 1
    <3>1. Range(needs[cur]) \subseteq Range(order)
      BY <1>1, <1>5, <1>7, ZeroIsReady
    <3>2. i - 1 = Len(order)
      BY <1>6, <2>3
    <3>3. Range(order) \subseteq {order'[j] : j \in 1..(i - 1)}
      BY <1>6, <3>2 DEF Range
    <3> QED
      BY <1>6, <2>3, <3>1, <3>3
  <2> QED
    BY <1>6, <2>1, <2>2, <2>3
<1>13. PhaseOK' /\ ResultsOK'
  <2>1. PhaseOK'
    <3>1. ~BadNeeds'
      BY <1>1, <1>3 DEF IInv, PhaseOK, Sorting, BadNeeds
    <3> QED
      BY <1>1, <1>3, <3>1 DEF PhaseOK
  <2>2. Len(results') = 0 /\ DOMAIN results' = {}
    BY <1>1, <1>3
  <2> QED
    BY <1>6, <2>1, <2>2 DEF ResultsOK
<1> QED
  BY <1>9, <1>10, <1>11, <1>12, <1>13 DEF IInv

\* The steps that only move the program counter disturb no table.
LEMMA SameTables ==
    ASSUME UNCHANGED <<needs, indeg, ready, order>>
    PROVE  /\ CountsOK' <=> CountsOK
           /\ QueueOK' <=> QueueOK
           /\ OrderOK' <=> OrderOK
           /\ BadNeeds' <=> BadNeeds
<1>1. CountsOK' <=> CountsOK
  BY DEF CountsOK
<1>2. QueueOK' <=> QueueOK
  BY DEF QueueOK
<1>3. OrderOK' <=> OrderOK
  BY DEF OrderOK
<1>4. BadNeeds' <=> BadNeeds
  BY DEF BadNeeds
<1> QED
  BY <1>1, <1>2, <1>3, <1>4

\* One more result keeps the results a prefix of the order.
LEMMA StepReturnsIInv == IInv /\ StepReturns => IInv'
<1> SUFFICES ASSUME IInv, StepReturns PROVE IInv'
  OBVIOUS
<1>1. /\ TypeOK /\ CountsOK /\ QueueOK /\ OrderOK /\ PhaseOK /\ ResultsOK
      /\ pc = "run"
      /\ order \in Seq(Step) /\ results \in Seq(Step)
      /\ Len(results) < Len(order)
      /\ results' = Append(results, order[Len(results) + 1])
      /\ needs' = needs /\ pc' = pc /\ indeg' = indeg /\ ready' = ready /\ order' = order
  BY DEF IInv, StepReturns, Sorting, TypeOK
<1> DEFINE c == order[Len(results) + 1]
<1>2. Len(results) \in Nat /\ Len(order) \in Nat /\ DOMAIN order = 1..Len(order)
  BY <1>1
<1>3. c \in Step
  BY <1>1, <1>2, ElementOfSeq
<1>4. /\ Append(results, c) \in Seq(Step)
      /\ Len(Append(results, c)) = Len(results) + 1
      /\ DOMAIN Append(results, c) = 1..(Len(results) + 1)
      /\ DOMAIN results = 1..Len(results)
      /\ \A i \in 1..Len(results) : Append(results, c)[i] = results[i]
      /\ Append(results, c)[Len(results) + 1] = c
  BY <1>1, <1>3, AppendedRange
<1>5. TypeOK'
  BY <1>1, <1>4 DEF TypeOK
<1>6. ResultsOK'
  <2>1. Len(results') <= Len(order')
    BY <1>1, <1>2, <1>4
  <2>2. ASSUME NEW i \in 1..(Len(results) + 1) PROVE results'[i] = order[i]
    <3>1. CASE i = Len(results) + 1
      BY <1>1, <1>4, <3>1
    <3>2. CASE i \in 1..Len(results)
      BY <1>1, <1>4, <3>2 DEF ResultsOK
    <3> QED
      BY <1>2, <3>1, <3>2
  <2> QED
    BY <1>1, <1>4, <2>1, <2>2 DEF ResultsOK
<1>7. (Sorting => CountsOK /\ QueueOK)' /\ OrderOK' /\ PhaseOK'
  <2>1. CountsOK' /\ QueueOK' /\ OrderOK' /\ (BadNeeds' <=> BadNeeds)
    BY <1>1, SameTables
  <2> QED
    BY <1>1, <2>1 DEF PhaseOK, Sorting
<1> QED
  BY <1>5, <1>6, <1>7 DEF IInv

\* Every step of the compiler and of the executor keeps the invariant.
LEMMA NextIInv == IInv /\ [Next]_vars => IInv'
<1> SUFFICES ASSUME IInv, [Next]_vars PROVE IInv'
  OBVIOUS
<1>1. CASE Reject
  <2>1. UNCHANGED <<needs, indeg, ready, order>> /\ results' = results
    BY <1>1 DEF Reject
  <2>2. TypeOK' /\ ResultsOK' /\ OrderOK'
    BY <1>1, <2>1, SameTables DEF IInv, TypeOK, ResultsOK, Reject
  <2> QED
    BY <1>1, <2>1, <2>2 DEF IInv, PhaseOK, Sorting, Reject
<1>2. CASE Count
  BY <1>2, CountIInv
<1>3. CASE Place
  BY <1>3, PlaceIInv
<1>4. CASE Conclude \/ StepRaises \/ Finished
  <2>1. UNCHANGED <<needs, indeg, ready, order>> /\ results' = results /\ Sorting
    BY <1>4 DEF Conclude, StepRaises, Finished, Sorting
  <2>2. CountsOK' /\ QueueOK' /\ OrderOK' /\ ~BadNeeds'
    BY <2>1, SameTables DEF IInv, PhaseOK
  <2>3. TypeOK' /\ ResultsOK'
    BY <1>4, <2>1 DEF IInv, TypeOK, ResultsOK, Conclude, StepRaises, Finished
  <2>4. PhaseOK'
    BY <1>4, <2>1, <2>2 DEF IInv, PhaseOK, Conclude, StepRaises, Finished
  <2> QED
    BY <2>2, <2>3, <2>4 DEF IInv
<1>5. CASE StepReturns
  BY <1>5, StepReturnsIInv
<1>6. CASE UNCHANGED vars
  <2>1. UNCHANGED <<needs, indeg, ready, order>> /\ results' = results /\ pc' = pc
    BY <1>6 DEF vars
  <2>2. /\ CountsOK' <=> CountsOK
        /\ QueueOK' <=> QueueOK
        /\ OrderOK' <=> OrderOK
        /\ BadNeeds' <=> BadNeeds
    BY <2>1, SameTables
  <2>3. TypeOK' /\ ResultsOK'
    BY <2>1 DEF IInv, TypeOK, ResultsOK
  <2>4. PhaseOK'
    BY <2>1, <2>2 DEF IInv, PhaseOK, Sorting
  <2> QED
    BY <2>1, <2>2, <2>3, <2>4 DEF IInv, Sorting
<1> QED
  BY <1>1, <1>2, <1>3, <1>4, <1>5, <1>6 DEF Next, Compile, Execute

\* The invariant holds throughout.
THEOREM SpecIInv == Spec => []IInv
  BY InitIInv, NextIInv, PTL DEF Spec

-----------------------------------------------------------------------------
(* What follows *)

\* The counts never go below zero, whatever the needs lists repeat, and the
\* queue and the order only ever hold steps of the definition.
THEOREM TypeCorrect == Spec => []TypeOK
<1>1. IInv => TypeOK
  BY DEF IInv
<1> QED
  BY <1>1, SpecIInv, PTL

\* A step runs once, after every step it needs has its result.
THEOREM ExecutionOrder == Spec => []NeedsHaveResults
<1>1. IInv => NeedsHaveResults
  <2>1. SUFFICES ASSUME IInv PROVE NeedsHaveResults
    OBVIOUS
  <2>2. CASE results = <<>>
    BY <2>2 DEF NeedsHaveResults, NoRepeats
  <2>3. CASE results # <<>>
    <3>1. /\ TypeOK /\ OrderOK /\ ResultsOK
          /\ NoRepeats(order)
      BY <2>1, <2>3 DEF IInv, PhaseOK, Sorting, QueueOK
    <3>2. /\ DOMAIN results = 1..Len(results)
          /\ DOMAIN order = 1..Len(order)
          /\ Len(results) \in Nat /\ Len(order) \in Nat
          /\ Len(results) <= Len(order)
          /\ \A i \in 1..Len(results) : results[i] = order[i] /\ i \in DOMAIN order
      <4>1. Len(results) \in Nat /\ DOMAIN results = 1..Len(results)
        BY <3>1, LenProperties DEF TypeOK
      <4>2. Len(order) \in Nat /\ DOMAIN order = 1..Len(order)
        BY <3>1, LenProperties DEF TypeOK
      <4> QED
        BY <3>1, <4>1, <4>2 DEF ResultsOK
    <3>3. NoRepeats(results)
      BY <3>1, <3>2 DEF NoRepeats
    <3>4. ASSUME NEW i \in DOMAIN results
          PROVE  Range(needs[results[i]]) \subseteq {results[j] : j \in 1..(i - 1)}
      <4>1. Range(needs[order[i]]) \subseteq {order[j] : j \in 1..(i - 1)}
        BY <3>1, <3>2 DEF OrderOK
      <4>2. \A j \in 1..(i - 1) : results[j] = order[j]
        BY <3>2
      <4>3. {order[j] : j \in 1..(i - 1)} = {results[j] : j \in 1..(i - 1)}
        BY <4>2
      <4> QED
        BY <3>2, <4>1, <4>3
    <3> QED
      BY <3>3, <3>4 DEF NeedsHaveResults
  <2> QED
    BY <2>2, <2>3
<1> QED
  BY <1>1, SpecIInv, PTL

\* An order that is not complete leaves steps out that need each other.
THEOREM CycleErrorIsRight == Spec => []CycleIsReal
<1>1. IInv => CycleIsReal
  <2>1. SUFFICES ASSUME IInv, pc = "cycle", \A s \in Step : NoRepeats(needs[s])
                 PROVE  \E X \in SUBSET Step : Cyclic(X)
    BY DEF CycleIsReal
  <2>2. /\ TypeOK /\ CountsOK /\ QueueOK
        /\ ready = <<>> /\ Len(order) # Cardinality(Step)
    BY <2>1 DEF IInv, PhaseOK, Sorting
  <2>3. ~BadNeeds
    BY <2>1 DEF IInv, PhaseOK, Sorting
  <2> DEFINE X == Step \ Range(order)
  <2>4. X # {}
    <3>1. Cardinality(Range(order)) = Len(order)
      BY <2>2, RangeSize DEF TypeOK, QueueOK
    <3>2. order \in [1..Len(order) -> Step] /\ DOMAIN order = 1..Len(order)
      BY <2>2, LenProperties DEF TypeOK
    <3>3. Range(order) \subseteq Step
      BY <3>2 DEF Range
    <3>4. Range(order) # Step
      BY <2>2, <3>1
    <3> QED
      BY <3>3, <3>4
  <2>5. ASSUME NEW s \in X PROVE Range(needs[s]) \cap X # {}
    <3>1. indeg[s] # 0
      BY <2>2 DEF QueueOK, Range
    <3>2. needs[s] \in Seq(Name)
      BY <2>2 DEF TypeOK
    <3>3. /\ Cardinality(Range(needs[s])) = Len(needs[s])
          /\ Len(needs[s]) \in Nat
      BY <2>1, <3>2, RangeSize
    <3>4. indeg[s] = Len(needs[s]) - Cardinality(Range(needs[s]) \cap Range(order))
      BY <2>2 DEF CountsOK
    <3>5. ASSUME Range(needs[s]) \cap Range(order) = Range(needs[s]) PROVE FALSE
      <4>1. Cardinality(Range(needs[s]) \cap Range(order)) = Len(needs[s])
        BY <3>3, <3>5
      <4> QED
        BY <3>1, <3>3, <3>4, <4>1
    <3>6. Range(needs[s]) \subseteq Step
      BY <2>3 DEF BadNeeds
    <3> QED
      BY <3>5, <3>6
  <2>6. Cyclic(X)
    BY <2>4, <2>5 DEF Cyclic
  <2>7. X \in SUBSET Step
    OBVIOUS
  <2> QED
    BY <2>6, <2>7
<1> QED
  BY <1>1, SpecIInv, PTL

\* Every set of positions has a first one.
LEMMA FirstOf ==
    ASSUME NEW n \in Nat, NEW T \in SUBSET (1..n), T # {}
    PROVE  \E i \in T : \A j \in T : i <= j
<1> DEFINE Below == {1..i : i \in T}
<1>1. Below \subseteq FiniteSubsetsOf(Nat)
  <2>1. \A i \in T : (1..i) \in SUBSET Nat /\ IsFiniteSet(1..i)
    BY FS_Interval
  <2> QED
    BY <2>1 DEF FiniteSubsetsOf
<1>2. Below # {}
  OBVIOUS
<1> HIDE DEF Below
<1>3. PICK b \in Below : \A c \in Below : ~(<<c, b>> \in StrictSubsetOrdering(Nat))
  BY <1>1, <1>2, FS_StrictSubsetOrderingWellFounded, WFMin
<1>4. PICK i \in T : b = 1..i
  BY <1>3 DEF Below
<1>5. ASSUME NEW j \in T PROVE i <= j
  <2>1. SUFFICES ASSUME j < i PROVE FALSE
    OBVIOUS
  <2>2. (1..j) \subseteq (1..i) /\ (1..j) # (1..i)
    <3>1. i \in 1..i /\ i \notin 1..j
      BY <2>1
    <3> QED
      BY <2>1, <3>1
  <2>3. (1..j) \in Below /\ (1..j) \in SUBSET Nat /\ (1..i) \in SUBSET Nat
    BY DEF Below
  <2>4. <<1..j, b>> \in StrictSubsetOrdering(Nat)
    BY <1>4, <2>2, <2>3 DEF StrictSubsetOrdering
  <2> QED
    BY <1>3, <2>3, <2>4
<1> QED
  BY <1>5

\* Once a step has run the order holds every step, and in an order that
\* respects the needs the first of a cycle's steps would have no predecessor.
THEOREM CyclicChainsDoNotRun == Spec => []CyclesNeverRun
<1>1. IInv => CyclesNeverRun
  <2>1. SUFFICES ASSUME IInv, results # <<>>, NEW X \in SUBSET Step, Cyclic(X)
                 PROVE  FALSE
    BY DEF CyclesNeverRun
  <2>2. /\ TypeOK /\ OrderOK /\ QueueOK
        /\ Len(order) = Cardinality(Step)
    BY <2>1 DEF IInv, PhaseOK, Sorting
  <2>3. /\ order \in [1..Len(order) -> Step]
        /\ DOMAIN order = 1..Len(order)
        /\ Len(order) \in Nat
    BY <2>2, LenProperties DEF TypeOK
  <2>4. Range(order) = Step
    <3>1. Cardinality(Range(order)) = Cardinality(Step)
      BY <2>2, RangeSize DEF TypeOK, QueueOK
    <3>2. Range(order) \in SUBSET Step
      BY <2>3 DEF Range
    <3> QED
      BY <3>1, <3>2, ConstantsOK, FS_Subset
  <2> DEFINE T == {i \in 1..Len(order) : order[i] \in X}
  <2>5. T # {}
    <3>1. PICK x \in X : x \in Range(order)
      BY <2>1, <2>4 DEF Cyclic
    <3> QED
      BY <2>3, <3>1 DEF Range
  <2>6. PICK i \in T : \A j \in T : i <= j
    BY <2>3, <2>5, FirstOf, T \in SUBSET (1..Len(order))
  <2>7. PICK x \in X : x \in Range(needs[order[i]])
    BY <2>1, <2>6 DEF Cyclic
  <2>8. PICK j \in 1..(i - 1) : x = order[j]
    BY <2>2, <2>3, <2>6, <2>7 DEF OrderOK
  <2>9. j \in T /\ j < i
    BY <2>3, <2>6, <2>7, <2>8
  <2> QED
    BY <2>3, <2>6, <2>9
<1> QED
  BY <1>1, SpecIInv, PTL
=============================================================================
