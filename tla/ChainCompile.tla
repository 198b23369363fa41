----------------------------- MODULE ChainCompile -----------------------------
(***************************************************************************)
(* A chain definition, from its steps and their "needs" lists to an        *)
(* execution order, and the execution of that order.                       *)
(*                                                                         *)
(* Step ids are numbers, as only their equality and their order matter;    *)
(* what makes a raw step malformed (no id, a repeated id, a type that is   *)
(* not allowed, needs that is no list of strings) is a choice of the       *)
(* check; a step executor returns a result or raises.                      *)
(***************************************************************************)
EXTENDS Naturals, Sequences, FiniteSets, Functions

CONSTANTS
    Step,    \* the ids of the definition's steps
    Name,    \* what a needs list may hold: step ids, and names of no step
    MaxNeeds \* bound on the length of a needs list

ASSUME ConstantsOK ==
    /\ IsFiniteSet(Step)
    /\ Step \subseteq Name
    /\ Name \subseteq Nat
    /\ MaxNeeds \in Nat

VARIABLES
    needs,     \* the needs list of each step, repetitions kept
    pc,
    indeg,     \* needs not yet placed, as the compiler counts them
    ready,     \* the queue of steps whose count is zero
    order,     \* execution_order
    results    \* the steps with a result, in the order they ran

vars == <<needs, pc, indeg, ready, order, results>>

-----------------------------------------------------------------------------
NeedsList == UNION {[1..k -> Name] : k \in 0..MaxNeeds}

Placed == Range(order)

\* The steps that name c among their needs.
Dependents(c) == {s \in Step : c \in Range(needs[s])}

\* Python's sorted() of a set of step ids.
Sorted(S) == {q \in [1..Cardinality(S) -> S] :
                /\ \A i, j \in DOMAIN q : i < j => q[i] < q[j]
                /\ Range(q) = S}

TypeOK ==
    /\ needs \in [Step -> Seq(Name)]
    /\ pc \in {"validate", "sort", "run", "done",
               "chain_compile", "cycle", "chain_step"}
    /\ indeg \in [Step -> Nat]
    /\ ready \in Seq(Step)
    /\ order \in Seq(Step)
    /\ results \in Seq(Step)

Init ==
    /\ needs \in [Step -> NeedsList]
    /\ pc = "validate"
    /\ indeg = [s \in Step |-> 0]
    /\ ready = <<>>
    /\ order = <<>>
    /\ results = <<>>

-----------------------------------------------------------------------------
(* compile_chain *)

BadNeeds ==
    \E s \in Step : \/ Range(needs[s]) \ Step # {}
                   \/ s \in Range(needs[s])

\* Some raw step is malformed, or a needs list names no step or its own.
Reject ==
    /\ pc = "validate"
    /\ \E malformed \in BOOLEAN : malformed \/ Step = {} \/ BadNeeds
    /\ pc' = "chain_compile"
    /\ UNCHANGED <<needs, indeg, ready, order, results>>

\* The checks passed: every entry of a needs list is counted, a repeated one
\* each time, and the steps that need nothing are queued.
Count ==
    /\ pc = "validate"
    /\ Step # {}
    /\ ~BadNeeds
    /\ pc' = "sort"
    /\ indeg' = [s \in Step |-> Len(needs[s])]
    /\ ready' \in Sorted({s \in Step : needs[s] = <<>>})
    /\ UNCHANGED <<needs, order, results>>

\* Mutant: the count is compared with zero before it goes down.
ReleasedTooLate(cur) == {s \in Dependents(cur) : indeg[s] = 0}

\* The dependents whose count drops to zero when cur is placed.
Released(cur) == {s \in Dependents(cur) : indeg[s] = 1}

\* One turn of the while loop.  "if cur in st.needs" takes one off the count,
\* however often cur is listed.
Place ==
    /\ pc = "sort"
    /\ ready # <<>>
    /\ LET cur == Head(ready) IN
        /\ order' = Append(order, cur)
        /\ indeg' = [s \in Step |-> IF s \in Dependents(cur) THEN indeg[s] - 1 ELSE indeg[s]]
        /\ \E next_ready \in Sorted(Released(cur)) : ready' = Tail(ready) \o next_ready
    /\ UNCHANGED <<needs, pc, results>>

\* Mutant: a sort that placed too few steps is not noticed.
ConcludeUnchecked ==
    /\ pc = "sort"
    /\ ready = <<>>
    /\ pc' = "run"
    /\ UNCHANGED <<needs, indeg, ready, order, results>>

Conclude ==
    /\ pc = "sort"
    /\ ready = <<>>
    /\ pc' = IF Len(order) = Cardinality(Step) THEN "run" ELSE "cycle"
    /\ UNCHANGED <<needs, indeg, ready, order, results>>

-----------------------------------------------------------------------------
(* execute *)

\* Mutant: the loop goes over compiled.steps, not over execution_order.
StepInDictOrder ==
    /\ pc = "run"
    /\ Len(results) < Len(order)
    /\ \E ids \in Sorted(Step) : results' = Append(results, ids[Len(results) + 1])
    /\ UNCHANGED <<needs, pc, indeg, ready, order>>

StepReturns ==
    /\ pc = "run"
    /\ Len(results) < Len(order)
    /\ results' = Append(results, order[Len(results) + 1])
    /\ UNCHANGED <<needs, pc, indeg, ready, order>>

\* A missing url, tool, agent or chain_id, or a delay that is not a number.
StepRaises ==
    /\ pc = "run"
    /\ Len(results) < Len(order)
    /\ pc' = "chain_step"
    /\ UNCHANGED <<needs, indeg, ready, order, results>>

Finished ==
    /\ pc = "run"
    /\ Len(results) = Len(order)
    /\ pc' = "done"
    /\ UNCHANGED <<needs, indeg, ready, order, results>>

Compile == Reject \/ Count \/ Place \/ Conclude
Execute == StepReturns \/ StepRaises \/ Finished
Next == Compile \/ Execute

Spec == Init /\ [][Next]_vars

-----------------------------------------------------------------------------
NoRepeats(q) == \A i, j \in DOMAIN q : q[i] = q[j] => i = j

\* A set of steps none of which can go first: each needs another of them.
Cyclic(X) == X # {} /\ \A s \in X : Range(needs[s]) \cap X # {}

\* No step runs before the steps it needs have their results, and no step
\* runs twice: what chain.py's docstring calls topological order, seen from
\* the executors, which find {step_id: result} of their needs in the context.
NeedsHaveResults ==
    /\ NoRepeats(results)
    /\ \A i \in DOMAIN results :
          Range(needs[results[i]]) \subseteq {results[j] : j \in 1..(i - 1)}

\* A definition is refused as cyclic only when some of its steps do wait for
\* each other, provided no step lists the same need twice.
CycleIsReal ==
    /\ pc = "cycle"
    /\ \A s \in Step : NoRepeats(needs[s])
    => \E X \in SUBSET Step : Cyclic(X)

\* A definition that has a cycle never gets as far as running a step.
CyclesNeverRun == (\E X \in SUBSET Step : Cyclic(X)) => results = <<>>

\* chain.py:25 and :110: the error "chain has a cycle" says there is one.
CycleErrorMeansCycle ==
    pc = "cycle" => \E X \in SUBSET Step : Cyclic(X)
=============================================================================
