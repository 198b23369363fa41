------------------------------- MODULE Chains -------------------------------
(***************************************************************************)
(* Chain records: how a definition comes to be stored, by REST, A2A, MCP   *)
(* or the natural-language planner, and how patches number its versions.   *)
(*                                                                         *)
(* Compiling is module ChainCompile; here a definition compiles or not.    *)
(* What the language model answers is any definition, or a text that does  *)
(* not satisfy the schema.                                                 *)
(***************************************************************************)
EXTENDS Requests, Naturals

CONSTANTS
    Planner,     \* requests to the natural-language planner in progress at once
    Chain,       \* chain ids, each issued at most once (uuid4)
    Definition,
    Compiles,    \* the definitions compile_chain accepts
    Malformed,   \* an answer that is no JSON, or violates the schema
    RetryLimit,  \* llm.structured_repair_retries
    MaxVersion   \* bound on versions

ASSUME ChainsConstantsOK ==
    /\ Compiles \subseteq Definition
    /\ Malformed \notin Definition
    /\ Nothing \notin Definition \cup Chain \cup {Malformed}
    /\ RetryLimit \in {0, 1}
    /\ MaxVersion \in Nat \ {0}

VARIABLES
    chain,    \* chains rows: version and definition
    issued,   \* chain ids used so far
    patching, \* PATCH handlers between their read and their commit
    planner,  \* requests to /chains/from-natural-language
    stored,   \* ghost: every version and definition a chain's row has had
    outrun,   \* ghost: patches whose chain was patched meanwhile
    collided  \* ghost: chains that such a patch was committed to

chainVars == <<chain, issued, patching, planner, stored, outrun, collided>>

-----------------------------------------------------------------------------
ChainRow == [version : 1..(MaxVersion + 1), definition : Definition]
NoPatch  == [chain |-> Nothing, read |-> Nothing, definition |-> Nothing]
NoPlan   == [pc |-> "idle", confirm |-> FALSE, asked |-> 0, repairs |-> 0, answer |-> Nothing]

ChainsTypeOK ==
    /\ chain \in [Chain -> ChainRow \cup {Nothing}]
    /\ issued \in SUBSET Chain
    /\ patching \in [Client -> [chain : Chain \cup {Nothing}, read : ChainRow \cup {Nothing},
                                definition : Definition \cup {Nothing}]]
    /\ planner \in [Planner -> [pc : {"idle", "structured", "corrected", "planned"},
                               confirm : BOOLEAN, asked : 0..3, repairs : 0..2,
                               answer : Definition \cup {Malformed, Nothing}]]
    /\ stored \in SUBSET (Chain \X ChainRow)
    /\ outrun \in SUBSET Client
    /\ collided \in SUBSET Chain

ChainsInit ==
    /\ chain = [i \in Chain |-> Nothing]
    /\ issued = {}
    /\ patching = [c \in Client |-> NoPatch]
    /\ planner = [q \in Planner |-> NoPlan]
    /\ stored = {}
    /\ outrun = {}
    /\ collided = {}

Insert(i, d) ==
    LET row == [version |-> 1, definition |-> d] IN
    /\ i \notin issued
    /\ issued' = issued \cup {i}
    /\ chain' = [chain EXCEPT ![i] = row]
    /\ stored' = stored \cup {<<i, row>>}

\* POST /chains, A2A chain.run and MCP chain_run compile before they open a
\* session; chain.compile of both stores nothing.
ChainCreate(i, d) ==
    /\ d \in Compiles
    /\ Insert(i, d)
    /\ UNCHANGED <<patching, planner, outrun, collided>>

-----------------------------------------------------------------------------
(* PATCH /chains/{id}.                                                     *)

\* Mutant of PatchRead: compiles only definitions of chains never patched.
PatchReadTrusts(c, i, d) ==
    /\ patching[c] = NoPatch
    /\ chain[i] # Nothing
    /\ chain[i].version <= MaxVersion
    /\ chain[i].version = 1 /\ d # Nothing => d \in Compiles
    /\ patching' = [patching EXCEPT ![c] = [chain |-> i, read |-> chain[i], definition |-> d]]
    /\ UNCHANGED <<chain, issued, planner, stored, outrun, collided>>

\* d is Nothing when only the name or the description changes.
PatchRead(c, i, d) ==
    /\ patching[c] = NoPatch
    /\ chain[i] # Nothing
    /\ chain[i].version <= MaxVersion
    /\ d \in Compiles \cup {Nothing}
    /\ patching' = [patching EXCEPT ![c] = [chain |-> i, read |-> chain[i], definition |-> d]]
    /\ UNCHANGED <<chain, issued, planner, stored, outrun, collided>>

Asked(p) == IF p.definition = Nothing THEN p.read.definition ELSE p.definition
Rivals(c) == {b \in Client \ {c} : patching[b].chain = patching[c].chain}

\* Mutant of PatchCommit: keeps the version it read.
PatchKeepsVersion(c) ==
    LET p == patching[c]
        row == [version |-> p.read.version,
                definition |-> Written(chain[p.chain].definition, p.read.definition, Asked(p))]
    IN
    /\ p # NoPatch
    /\ chain[p.chain] # Nothing
    /\ chain' = [chain EXCEPT ![p.chain] = row]
    /\ stored' = stored \cup {<<p.chain, row>>}
    /\ collided' = IF c \in outrun THEN collided \cup {p.chain} ELSE collided
    /\ outrun' = (outrun \cup Rivals(c)) \ {c}
    /\ patching' = [patching EXCEPT ![c] = NoPatch]
    /\ UNCHANGED <<issued, planner>>

PatchCommit(c) ==
    LET p == patching[c]
        row == [version |-> p.read.version + 1,
                definition |-> Written(chain[p.chain].definition, p.read.definition, Asked(p))]
    IN
    /\ p # NoPatch
    /\ chain[p.chain] # Nothing
    /\ chain' = [chain EXCEPT ![p.chain] = row]
    /\ stored' = stored \cup {<<p.chain, row>>}
    /\ collided' = IF c \in outrun THEN collided \cup {p.chain} ELSE collided
    /\ outrun' = (outrun \cup Rivals(c)) \ {c}
    /\ patching' = [patching EXCEPT ![c] = NoPatch]
    /\ UNCHANGED <<issued, planner>>

\* Its UPDATE matches no row.
PatchFails(c) ==
    /\ patching[c] # NoPatch
    /\ chain[patching[c].chain] = Nothing
    /\ patching' = [patching EXCEPT ![c] = NoPatch]
    /\ outrun' = outrun \ {c}
    /\ UNCHANGED <<chain, issued, planner, stored, collided>>

ChainDelete(i) ==
    /\ chain[i] # Nothing
    /\ chain' = [chain EXCEPT ![i] = Nothing]
    /\ UNCHANGED <<issued, patching, planner, stored, outrun, collided>>

-----------------------------------------------------------------------------
(* POST /chains/from-natural-language.                                     *)

PlanStart(q) ==
    /\ planner[q] = NoPlan
    /\ \E confirm \in BOOLEAN :
         planner' = [planner EXCEPT ![q] =
            [pc |-> "structured", confirm |-> confirm, asked |-> 0, repairs |-> 0, answer |-> Nothing]]
    /\ UNCHANGED <<chain, issued, patching, stored, outrun, collided>>

Progress(q, pc, repairs, answer) ==
    /\ planner' = [planner EXCEPT ![q] =
            [pc |-> pc, confirm |-> planner[q].confirm, asked |-> planner[q].asked + 1,
             repairs |-> repairs, answer |-> answer]]
    /\ UNCHANGED <<chain, issued, patching, stored, outrun, collided>>

\* The provider answers with a definition that compiles.
PlanAccepted(q) ==
    /\ planner[q].pc \in {"structured", "corrected"}
    /\ \E d \in Compiles : Progress(q, "planned", planner[q].repairs, d)

\* Mutant of PlanRepaired: an answer that does not compile earns a repair of
\* its own.
PlanRepairedTwice(q) ==
    /\ planner[q].pc = "structured"
    /\ planner[q].repairs < 2
    /\ \/ planner[q].repairs < RetryLimit /\ Progress(q, "structured", planner[q].repairs + 1, Malformed)
       \/ \E d \in Definition \ Compiles : Progress(q, "corrected", planner[q].repairs + 1, d)

\* It answers badly and is asked again: repair_structured for an answer that
\* breaks the schema, _repair after the compiler's error.
PlanRepaired(q) ==
    /\ planner[q].pc = "structured"
    /\ planner[q].repairs < RetryLimit
    /\ \/ Progress(q, "structured", planner[q].repairs + 1, Malformed)
       \/ \E d \in Definition \ Compiles : Progress(q, "corrected", planner[q].repairs + 1, d)

\* It answers badly with no repair left, or after the compile repair, or the
\* call itself fails: 502.
PlanFails(q) ==
    /\ planner[q].pc \in {"structured", "corrected"}
    /\ planner' = [planner EXCEPT ![q] = NoPlan]
    /\ UNCHANGED <<chain, issued, patching, stored, outrun, collided>>

\* The endpoint returns the plan and, if confirmed, stores it.
PlanReturns(q) ==
    /\ planner[q].pc = "planned"
    /\ IF planner[q].confirm
       THEN \E i \in Chain : Insert(i, planner[q].answer)
       ELSE UNCHANGED <<chain, issued, stored>>
    /\ planner' = [planner EXCEPT ![q] = NoPlan]
    /\ UNCHANGED <<patching, outrun, collided>>

-----------------------------------------------------------------------------
ChainsNext ==
    \/ \E i \in Chain, d \in Definition : ChainCreate(i, d)
    \/ \E i \in Chain : ChainDelete(i)
    \/ \E c \in Client, i \in Chain, d \in Definition \cup {Nothing} : PatchRead(c, i, d)
    \/ \E c \in Client : PatchCommit(c) \/ PatchFails(c)
    \/ \E q \in Planner : PlanStart(q) \/ PlanAccepted(q) \/ PlanRepaired(q)
                            \/ PlanFails(q) \/ PlanReturns(q)

ChainsSpec == ChainsInit /\ [][ChainsNext]_chainVars

-----------------------------------------------------------------------------
\* Whatever way a definition came and however patches overlapped, the row the
\* chain adapter loads compiles (create_chain, patch_chain, chain.run, from_nl).
StoredChainsCompile == \A i \in Chain : chain[i] # Nothing => chain[i].definition \in Compiles

\* A version number names one definition, unless two patches of the chain
\* overlapped (patch_chain reads the version, adds one and writes it).
VersionNamesDefinition ==
    \A i \in Chain \ collided : \A x, y \in ChainRow :
        <<i, x>> \in stored /\ <<i, y>> \in stored /\ x.version = y.version => x = y

\* The model is asked at most once more than repairs are allowed, over both
\* kinds of repair, and a plan is the answer to the last question.
PlannerBudget == \A q \in Planner :
    /\ planner[q].asked <= 1 + RetryLimit
    /\ planner[q].pc = "planned" => planner[q].answer \in Compiles
=============================================================================
