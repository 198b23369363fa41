---------------------------- MODULE RecordsProofs ----------------------------
(***************************************************************************)
(* Proofs about the records the REST surface keeps: approvals, chains, the *)
(* context, groups, keys and the audit trail.  Every section has the same  *)
(* shape: what the handlers under way know of the rows they have read, in  *)
(* an inductive invariant; a lemma per step; and the theorems.             *)
(***************************************************************************)
EXTENDS Approvals, Chains, Context, Groups, Keys, AuditTrail, FiniteSetTheorems, TLAPS

-----------------------------------------------------------------------------
(* Approvals.                                                              *)

\* A row has a schedule once it exists.
RowsRegard == \A a \in Approval :
    /\ request[a] = "none" <=> regarding[a] = Nothing
    /\ request[a] # "none" => regarding[a] \in Guarded

\* Client c is between the read and the commit of a handler on approvals.
Deciding(c) == deciding[c] # NoCall

\* What a handler under way is about, and, if no other committed to its schedule
\* since it read, what is still so.
HandlerKnows(c) ==
    /\ deciding[c].approval \in Approval
    /\ deciding[c].sched \in Guarded
    /\ deciding[c].verdict \in {"pending"} \cup Decisions
    /\ deciding[c].read \in {"not_required", "pending", "approved", "rejected"}
    /\ deciding[c].verdict = "pending" => request[deciding[c].approval] = "none"
    /\ deciding[c].verdict \in Decisions =>
         /\ request[deciding[c].approval] # "none"
         /\ regarding[deciding[c].approval] = deciding[c].sched
    /\ c \notin overtaken /\ gateword[deciding[c].sched] # "gone" =>
         /\ deciding[c].read = gateword[deciding[c].sched]
         /\ deciding[c].verdict \in Decisions => request[deciding[c].approval] = "pending"

\* Every handler knows, and only one that is under way is overtaken.
HandlersKnow ==
    /\ \A c \in Client : Deciding(c) => HandlerKnows(c)
    /\ \A c \in overtaken : Deciding(c)

\* Ids of requests to come are different.
NewIdsApart == \A c, d \in Client :
    Deciding(c) /\ Deciding(d) /\ c # d /\ deciding[c].verdict = "pending" =>
        deciding[c].approval # deciding[d].approval

\* The inductive invariant: a handler must know its gate for its commit to keep
\* GateHasReason.
ApprovalsInv ==
    /\ ApprovalsTypeOK
    /\ RowsRegard
    /\ HandlersKnow
    /\ NewIdsApart
    /\ GateHasReason

\* Without requests every gate is free.
LEMMA ApprovalsInvInit == ApprovalsInit => ApprovalsInv
<1> SUFFICES ASSUME ApprovalsInit PROVE ApprovalsInv
  OBVIOUS
<1> USE ApprovalsConstantsOK, RequestsConstantsOK DEF ApprovalsInit
<1>1. ApprovalsTypeOK
  BY DEF ApprovalsTypeOK, NoCall
<1>2. RowsRegard
  BY DEF RowsRegard
<1>3. HandlersKnow /\ NewIdsApart
  BY DEF HandlersKnow, NewIdsApart, Deciding
<1>4. GateHasReason
  BY DEF GateHasReason
<1> QED BY <1>1, <1>2, <1>3, <1>4 DEF ApprovalsInv

\* A handler that begins reads the gate as it is.
LEMMA BeginStep ==
  ASSUME ApprovalsInv, NEW c \in Client, NEW a \in Approval, NEW s \in Guarded,
         NEW verdict \in {"pending"} \cup Decisions,
         ~Deciding(c), gateword[s] # "gone",
         verdict = "pending" => request[a] = "none" /\ \A d \in Client : deciding[d].approval # a,
         verdict \in Decisions => request[a] = "pending" /\ regarding[a] = s,
         Begin(c, a, s, verdict)
  PROVE  ApprovalsInv'
<1> USE ApprovalsConstantsOK, RequestsConstantsOK DEF ApprovalsInv, ApprovalsTypeOK, Decisions
<1>0. /\ deciding' = [deciding EXCEPT ![c] =
              [approval |-> a, sched |-> s, verdict |-> verdict, read |-> gateword[s]]]
      /\ UNCHANGED <<request, regarding, gateword, overtaken, garbled>>
  BY DEF Begin
<1>1. ApprovalsTypeOK'
  BY <1>0
<1>2. RowsRegard'
  BY <1>0 DEF RowsRegard
<1>3. HandlersKnow'
  BY <1>0 DEF HandlersKnow, HandlerKnows, Deciding, NoCall
<1>4. NewIdsApart'
  BY <1>0 DEF NewIdsApart, HandlersKnow, HandlerKnows, Deciding, NoCall
<1>5. GateHasReason'
  BY <1>0 DEF GateHasReason, RequestsOn
<1> QED BY <1>1, <1>2, <1>3, <1>4, <1>5

\* POST /approvals, before it commits.
LEMMA RequestReadStep ==
  ASSUME ApprovalsInv, NEW c \in Client, NEW s \in Guarded, RequestRead(c, s) PROVE ApprovalsInv'
<1>1. PICK a \in Approval :
        /\ request[a] = "none"
        /\ \A d \in Client : deciding[d].approval # a
        /\ Begin(c, a, s, "pending")
  BY DEF RequestRead
<1> QED BY <1>1, BeginStep DEF RequestRead, Deciding, Decisions

\* Grant and reject, before they commit.
LEMMA DecideReadStep ==
  ASSUME ApprovalsInv, NEW c \in Client, NEW a \in Approval, DecideRead(c, a) PROVE ApprovalsInv'
<1>1. regarding[a] \in Guarded
  BY DEF DecideRead, ApprovalsInv, RowsRegard
<1> QED BY <1>1, BeginStep DEF DecideRead, Deciding, Decisions

\* The commit of a handler: its request has its verdict, and the gate too unless
\* it was overtaken.  Every other handler of the schedule is overtaken by it.
LEMMA CallCommitsStep ==
  ASSUME ApprovalsInv, NEW c \in Client, CallCommits(c) PROVE ApprovalsInv'
<1> USE ApprovalsConstantsOK, RequestsConstantsOK DEF ApprovalsInv, ApprovalsTypeOK, Decisions
<1> DEFINE a == deciding[c].approval
           s == deciding[c].sched
           v == deciding[c].verdict
           read == deciding[c].read
<1>0. /\ Deciding(c)
      /\ gateword[s] # "gone"
      /\ request' = [request EXCEPT ![a] = v]
      /\ regarding' = [regarding EXCEPT ![a] = s]
      /\ gateword' = [gateword EXCEPT ![s] = Written(gateword[s], read, GateFor(v))]
      /\ deciding' = [deciding EXCEPT ![c] = NoCall]
      /\ overtaken' = (overtaken \cup BusyOn(s)) \ {c}
      /\ garbled' = IF c \in overtaken THEN garbled \cup {s} ELSE garbled \ {s}
  BY DEF CallCommits, Deciding
<1>1. HandlerKnows(c)
  BY <1>0 DEF HandlersKnow
<1>2. a \in Approval /\ s \in Guarded /\ v \in {"pending", "granted", "rejected"}
  BY <1>1 DEF HandlerKnows
<1>3. GateFor(v) \in {"pending", "approved", "rejected"} /\ (v = "pending" => GateFor(v) = "pending")
      /\ (v = "granted" => GateFor(v) = "approved") /\ (v = "rejected" => GateFor(v) = "rejected")
  BY <1>2 DEF GateFor
<1>4. c \notin overtaken => gateword'[s] = GateFor(v)
  BY <1>0, <1>1, <1>2, <1>3 DEF HandlerKnows, Written
<1>5. gateword'[s] \in {"not_required", "pending", "approved", "rejected"}
      /\ \A t \in Guarded : t # s => gateword'[t] = gateword[t]
  BY <1>0, <1>2, <1>3 DEF Written
<1>6. regarding[a] \in {Nothing, s}
  BY <1>0, <1>1, <1>2 DEF HandlerKnows, RowsRegard
<1> HIDE DEF a, s, v, read
<1>7. ApprovalsTypeOK'
  BY <1>0, <1>2, <1>3, <1>5 DEF NoCall, BusyOn
<1>8. RowsRegard'
  BY <1>0, <1>2 DEF RowsRegard
<1>9. HandlersKnow'
  <2>1. \A d \in overtaken' : Deciding(d)'
    BY <1>0, <1>2 DEF HandlersKnow, Deciding, BusyOn, NoCall
  <2>2. ASSUME NEW d \in Client, Deciding(d)' PROVE HandlerKnows(d)'
    <3>1. d # c /\ Deciding(d) /\ deciding'[d] = deciding[d] /\ HandlerKnows(d)
      BY <1>0, <2>2 DEF HandlersKnow, Deciding
    <3>2. deciding[d].sched = s => d \in overtaken'
      BY <1>0, <3>1 DEF BusyOn
    <3>3. deciding[d].sched # s /\ deciding[d].verdict # "pending" => deciding[d].approval # a
      BY <1>6, <3>1, <1>2 DEF HandlerKnows, RowsRegard
    <3>4. deciding[d].verdict = "pending" => deciding[d].approval # a
      BY <1>0, <3>1 DEF NewIdsApart, a
    <3> QED
      BY <1>0, <1>2, <1>5, <3>1, <3>2, <3>3, <3>4 DEF HandlerKnows
  <2> QED BY <2>1, <2>2 DEF HandlersKnow
<1>10. NewIdsApart'
  BY <1>0 DEF NewIdsApart, Deciding
<1>11. GateHasReason'
  <2> SUFFICES ASSUME NEW t \in Guarded \ garbled'
               PROVE (CASE gateword[t] = "approved"     -> RequestsOn(t, "granted") # {}
                        [] gateword[t] = "rejected"     -> RequestsOn(t, "rejected") # {}
                        [] gateword[t] = "pending"      -> RequestsOn(t, "pending") # {}
                        [] gateword[t] = "not_required" -> \A b \in Approval : regarding[b] # t
                        [] OTHER -> TRUE)'
    BY DEF GateHasReason
  <2>1. CASE t = s
    <3>1. c \notin overtaken
      BY <1>0, <2>1, <1>2
    <3>2. regarding'[a] = t /\ request'[a] = v
      BY <1>0, <1>2, <2>1
    <3>3. \A word : v = word => a \in RequestsOn(t, word)'
      BY <1>2, <3>2 DEF RequestsOn
    <3>4. gateword'[t] = GateFor(v)
      BY <1>4, <2>1, <3>1
    <3> QED BY <1>2, <1>3, <3>3, <3>4
  <2>2. CASE t # s
    <3>1. t \notin garbled /\ gateword'[t] = gateword[t]
      BY <1>0, <1>5, <2>2
    <3>2. \A b \in Approval : regarding'[b] = t <=> regarding[b] = t
      BY <1>0, <1>2, <1>6, <2>2
    <3>3. \A word : RequestsOn(t, word)' = RequestsOn(t, word)
      BY <1>0, <1>2, <2>2, <3>2 DEF RequestsOn
    <3> QED BY <3>1, <3>2, <3>3 DEF GateHasReason
  <2> QED BY <2>1, <2>2
<1> QED BY <1>7, <1>8, <1>9, <1>10, <1>11

\* A handler whose schedule is gone leaves nothing behind.
LEMMA CallFailsStep ==
  ASSUME ApprovalsInv, NEW c \in Client, CallFails(c) PROVE ApprovalsInv'
<1> USE ApprovalsConstantsOK, RequestsConstantsOK DEF ApprovalsInv, ApprovalsTypeOK, Decisions
<1>0. /\ Deciding(c)
      /\ deciding' = [deciding EXCEPT ![c] = NoCall]
      /\ overtaken' = overtaken \ {c}
      /\ UNCHANGED <<request, regarding, gateword, garbled>>
  BY DEF CallFails, Deciding
<1>1. ApprovalsTypeOK'
  BY <1>0 DEF NoCall
<1>2. RowsRegard'
  BY <1>0 DEF RowsRegard
<1>3. HandlersKnow'
  BY <1>0 DEF HandlersKnow, HandlerKnows, Deciding
<1>4. NewIdsApart'
  BY <1>0 DEF NewIdsApart, Deciding
<1>5. GateHasReason'
  BY <1>0 DEF GateHasReason, RequestsOn
<1> QED BY <1>1, <1>2, <1>3, <1>4, <1>5

\* Deleting the schedule closes its gate for good and decides nothing.
LEMMA GuardedDeletedStep ==
  ASSUME ApprovalsInv, NEW s \in Guarded, GuardedDeleted(s) PROVE ApprovalsInv'
<1> USE ApprovalsConstantsOK, RequestsConstantsOK DEF ApprovalsInv, ApprovalsTypeOK, Decisions
<1>0. /\ gateword' = [gateword EXCEPT ![s] = "gone"]
      /\ request' \in [Approval -> {"none", "pending", "gone"} \cup Decisions]
      /\ \A a \in Approval : request'[a] = request[a] \/ (request'[a] = "gone" /\ regarding[a] = s)
      /\ UNCHANGED <<regarding, deciding, overtaken, garbled>>
  BY DEF GuardedDeleted
<1>1. ApprovalsTypeOK'
  BY <1>0
<1>2. RowsRegard'
  BY <1>0 DEF RowsRegard
<1>3. HandlersKnow'
  BY <1>0 DEF HandlersKnow, HandlerKnows, Deciding, RowsRegard
<1>4. NewIdsApart'
  BY <1>0 DEF NewIdsApart, Deciding
<1>5. GateHasReason'
  <2>1. \A t \in Guarded : t # s => gateword'[t] = gateword[t]
    BY <1>0
  <2>2. \A t \in Guarded : \A word : t # s => RequestsOn(t, word)' = RequestsOn(t, word)
    BY <1>0 DEF RequestsOn
  <2> QED BY <1>0, <2>1, <2>2 DEF GateHasReason
<1> QED BY <1>1, <1>2, <1>3, <1>4, <1>5

\* Every step of every handler keeps the invariant.
THEOREM ApprovalsInvNext == ApprovalsInv /\ [ApprovalsNext]_approvalVars => ApprovalsInv'
<1>1. ASSUME ApprovalsInv, ApprovalsNext PROVE ApprovalsInv'
  BY <1>1, RequestReadStep, DecideReadStep, CallCommitsStep, CallFailsStep, GuardedDeletedStep
     DEF ApprovalsNext
<1>2. ASSUME ApprovalsInv, UNCHANGED approvalVars PROVE ApprovalsInv'
  BY <1>2 DEF approvalVars, ApprovalsInv, ApprovalsTypeOK, RowsRegard, HandlersKnow, HandlerKnows,
     Deciding, NewIdsApart, GateHasReason, RequestsOn
<1> QED BY <1>1, <1>2

\* Whatever requests and decisions overlap, the invariant holds.
THEOREM ApprovalsInvariant == ApprovalsSpec => []ApprovalsInv
<1>1. ApprovalsInv /\ [ApprovalsNext]_approvalVars => ApprovalsInv'
  BY ApprovalsInvNext
<1> QED BY <1>1, ApprovalsInvInit, PTL DEF ApprovalsSpec

\* Requests, gates and handlers keep their types.
THEOREM ApprovalsTypeCorrect == ApprovalsSpec => []ApprovalsTypeOK
<1>1. ApprovalsInv => ApprovalsTypeOK
  BY DEF ApprovalsInv
<1> QED BY <1>1, ApprovalsInvariant, PTL

\* The gate has its reason among the requests, unless handlers overlapped.
THEOREM GateIsReasoned == ApprovalsSpec => []GateHasReason
<1>1. ApprovalsInv => GateHasReason
  BY DEF ApprovalsInv
<1> QED BY <1>1, ApprovalsInvariant, PTL

\* A decision is revised only by a handler that overlapped the one that took it.
THEOREM DecisionsHold == ApprovalsSpec => DecisionsStand
<1> DEFINE Stand == \A a \in Approval : request[a] \in Decisions =>
                      \/ request'[a] \in {request[a], "gone"}
                      \/ regarding[a] \in garbled'
<1>1. ApprovalsInv /\ [ApprovalsNext]_approvalVars => [Stand]_approvalVars
  <2> SUFFICES ASSUME ApprovalsInv, ApprovalsNext, NEW a \in Approval, request[a] \in Decisions,
                      request'[a] \notin {request[a], "gone"}
               PROVE  regarding[a] \in garbled'
    OBVIOUS
  <2>1. PICK c \in Client : CallCommits(c)
    <3>1. ASSUME NEW c \in Client, CallFails(c) PROVE FALSE
      BY <3>1 DEF CallFails
    <3>2. ASSUME NEW c \in Client, NEW s \in Guarded, RequestRead(c, s) PROVE FALSE
      BY <3>2 DEF RequestRead, Begin
    <3>3. ASSUME NEW c \in Client, NEW b \in Approval, DecideRead(c, b) PROVE FALSE
      BY <3>3 DEF DecideRead, Begin
    <3>4. ASSUME NEW s \in Guarded, GuardedDeleted(s) PROVE FALSE
      BY <3>4 DEF GuardedDeleted
    <3> QED BY <3>1, <3>2, <3>3, <3>4 DEF ApprovalsNext
  <2>2. Deciding(c) /\ HandlerKnows(c) /\ gateword[deciding[c].sched] # "gone"
    BY <2>1 DEF CallCommits, Deciding, ApprovalsInv, HandlersKnow
  <2>3. deciding[c].approval = a
    BY <2>1, <2>2 DEF CallCommits, ApprovalsInv, ApprovalsTypeOK
  <2>4. c \in overtaken /\ deciding[c].sched = regarding[a]
    BY <2>2, <2>3 DEF HandlerKnows, Decisions
  <2> QED BY <2>1, <2>4 DEF CallCommits
<1> QED BY <1>1, ApprovalsInvariant, PTL DEF ApprovalsSpec, DecisionsStand

-----------------------------------------------------------------------------
(* Chains.                                                                 *)

\* Client c is between the read and the commit of a PATCH of a chain.
Patching(c) == patching[c] # NoPatch

\* What a PATCH under way has read, and, if no other was committed to its chain
\* since, what the row still is.
PatchKnows(c) ==
    /\ patching[c].chain \in issued
    /\ patching[c].read \in ChainRow
    /\ patching[c].read.version <= MaxVersion
    /\ patching[c].read.definition \in Compiles
    /\ patching[c].definition \in Compiles \cup {Nothing}
    /\ c \notin outrun /\ chain[patching[c].chain] # Nothing =>
         patching[c].read = chain[patching[c].chain]

\* Every PATCH under way knows.
PatchesKnow == \A c \in Client : Patching(c) => PatchKnows(c)

\* An id that was never issued has no row, and never had one.
ChainIds ==
    /\ \A i \in Chain : chain[i] # Nothing => i \in issued
    /\ \A i \in Chain, r \in ChainRow : <<i, r>> \in stored => i \in issued

\* Without a collision no version the chain had is above the one it has.
VersionsGrow == \A i \in Chain \ collided, r \in ChainRow :
    <<i, r>> \in stored /\ chain[i] # Nothing => r.version <= chain[i].version

\* A plan under way was asked for once, and once more per repair.
PlanCounts(q) ==
    /\ planner[q].pc = "idle" => planner[q].asked = 0 /\ planner[q].repairs = 0
    /\ planner[q].pc \in {"structured", "corrected"} => planner[q].asked = planner[q].repairs
    /\ planner[q].repairs <= RetryLimit
    /\ planner[q].asked <= 1 + RetryLimit
    /\ planner[q].pc = "planned" => planner[q].answer \in Compiles

\* Every plan counts.
PlansCounted == \A q \in Planner : PlanCounts(q)

\* The inductive invariant: a new version is above all others only because the
\* row has the greatest of them, and a PATCH that was not outrun has read it.
ChainsInv ==
    /\ ChainsTypeOK
    /\ PatchesKnow
    /\ ChainIds
    /\ VersionsGrow
    /\ PlansCounted
    /\ StoredChainsCompile
    /\ VersionNamesDefinition

\* Without chains there is nothing to say.
LEMMA ChainsInvInit == ChainsInit => ChainsInv
<1> SUFFICES ASSUME ChainsInit PROVE ChainsInv
  OBVIOUS
<1> USE ChainsConstantsOK, RequestsConstantsOK DEF ChainsInit
<1>1. ChainsTypeOK
  BY DEF ChainsTypeOK, NoPatch, NoPlan
<1>2. PatchesKnow /\ ChainIds /\ VersionsGrow
  BY DEF PatchesKnow, Patching, ChainIds, VersionsGrow
<1>3. PlansCounted
  BY DEF PlansCounted, PlanCounts, NoPlan
<1>4. StoredChainsCompile /\ VersionNamesDefinition
  BY DEF StoredChainsCompile, VersionNamesDefinition
<1> QED BY <1>1, <1>2, <1>3, <1>4 DEF ChainsInv

\* A new chain has version 1 and a definition that compiles, under a new id.
LEMMA InsertKeeps ==
  ASSUME ChainsInv, NEW i \in Chain, NEW d \in Compiles, Insert(i, d),
         UNCHANGED <<patching, outrun, collided>>,
         planner' \in [Planner -> [pc : {"idle", "structured", "corrected", "planned"},
                                   confirm : BOOLEAN, asked : 0..3, repairs : 0..2,
                                   answer : Definition \cup {Malformed, Nothing}]],
         PlansCounted'
  PROVE  ChainsInv'
<1> USE ChainsConstantsOK, RequestsConstantsOK DEF ChainsInv, ChainsTypeOK
<1> DEFINE row == [version |-> 1, definition |-> d]
<1>0. /\ i \notin issued /\ chain[i] = Nothing
      /\ issued' = issued \cup {i}
      /\ chain' = [chain EXCEPT ![i] = row]
      /\ stored' = stored \cup {<<i, row>>}
  BY DEF Insert, ChainIds
<1>1. row \in ChainRow /\ row.version = 1 /\ row.definition = d
  BY DEF ChainRow
<1> HIDE DEF row
<1>2. ChainsTypeOK'
  BY <1>0, <1>1
<1>3. PatchesKnow'
  BY <1>0 DEF PatchesKnow, Patching, PatchKnows
<1>4. ChainIds'
  BY <1>0, <1>1 DEF ChainIds
<1>5. VersionsGrow'
  BY <1>0, <1>1 DEF VersionsGrow, ChainIds, ChainRow
<1>6. StoredChainsCompile'
  BY <1>0, <1>1 DEF StoredChainsCompile
<1>7. VersionNamesDefinition'
  BY <1>0, <1>1 DEF VersionNamesDefinition, ChainIds
<1> QED BY <1>2, <1>3, <1>4, <1>5, <1>6, <1>7

\* A PATCH that reads a chain knows it as it is.
LEMMA PatchReadStep ==
  ASSUME ChainsInv, NEW c \in Client, NEW i \in Chain, NEW d \in Definition \cup {Nothing},
         PatchRead(c, i, d)
  PROVE  ChainsInv'
<1> USE ChainsConstantsOK, RequestsConstantsOK DEF ChainsInv, PatchRead
<1>1. ChainsTypeOK'
  BY DEF ChainsTypeOK
<1>2. PatchesKnow'
  BY DEF ChainsTypeOK, PatchesKnow, PatchKnows, Patching, ChainIds, StoredChainsCompile
<1>3. ChainIds' /\ VersionsGrow'
  BY DEF ChainIds, VersionsGrow
<1>4. PlansCounted' /\ StoredChainsCompile' /\ VersionNamesDefinition'
  BY DEF PlansCounted, PlanCounts, StoredChainsCompile, VersionNamesDefinition
<1> QED BY <1>1, <1>2, <1>3, <1>4

\* The commit of a PATCH: what it wrote compiles, for both the definition it
\* found and the one it brings do.  If no other was committed in between, its
\* version is one above the row's, hence above every version there was.
LEMMA PatchCommitStep ==
  ASSUME ChainsInv, NEW c \in Client, PatchCommit(c) PROVE ChainsInv'
<1> USE ChainsConstantsOK, RequestsConstantsOK DEF ChainsInv, ChainsTypeOK
<1> DEFINE i == patching[c].chain
           read == patching[c].read
           row == [version |-> read.version + 1,
                   definition |-> Written(chain[i].definition, read.definition, Asked(patching[c]))]
<1>0. /\ Patching(c)
      /\ chain[i] # Nothing
      /\ chain' = [chain EXCEPT ![i] = row]
      /\ stored' = stored \cup {<<i, row>>}
      /\ collided' = IF c \in outrun THEN collided \cup {i} ELSE collided
      /\ outrun' = (outrun \cup Rivals(c)) \ {c}
      /\ patching' = [patching EXCEPT ![c] = NoPatch]
      /\ UNCHANGED <<issued, planner>>
  BY DEF PatchCommit, Patching
<1>1. PatchKnows(c)
  BY <1>0 DEF PatchesKnow
<1>2. i \in Chain /\ i \in issued /\ chain[i] \in ChainRow
  BY <1>0, <1>1 DEF PatchKnows
<1>3. chain[i].definition \in Compiles
  BY <1>0, <1>2 DEF StoredChainsCompile
<1>4. Asked(patching[c]) \in Compiles
  BY <1>1 DEF PatchKnows, Asked
<1>5. row.definition \in Compiles /\ row.version = read.version + 1
  BY <1>3, <1>4 DEF Written
<1>6. row.version \in 1..(MaxVersion + 1)
  BY <1>1, <1>5 DEF PatchKnows, ChainRow
<1>7. row \in ChainRow
  BY <1>5, <1>6 DEF ChainRow
<1>8. c \notin outrun => row.version = chain[i].version + 1
  BY <1>0, <1>1, <1>5 DEF PatchKnows
<1>9. \A d \in Client : Patching(d)' => d # c /\ Patching(d) /\ patching'[d] = patching[d]
  BY <1>0 DEF Patching
<1> HIDE DEF row, i, read
<1>10. ChainsTypeOK'
  <2>1. stored' \in SUBSET (Chain \X ChainRow) /\ chain' \in [Chain -> ChainRow \cup {Nothing}]
    BY <1>0, <1>2, <1>7
  <2>2. collided' \in SUBSET Chain /\ outrun' \in SUBSET Client
    BY <1>0, <1>2 DEF Rivals
  <2>3. patching' \in [Client -> [chain : Chain \cup {Nothing}, read : ChainRow \cup {Nothing},
                                  definition : Definition \cup {Nothing}]]
    BY <1>0 DEF NoPatch
  <2> QED BY <1>0, <2>1, <2>2, <2>3
<1>11. PatchesKnow'
  <2> SUFFICES ASSUME NEW d \in Client, Patching(d)' PROVE PatchKnows(d)'
    BY DEF PatchesKnow
  <2>1. d # c /\ Patching(d) /\ patching'[d] = patching[d] /\ PatchKnows(d)
    BY <1>9 DEF PatchesKnow
  <2>2. patching[d].chain = i => d \in outrun'
    BY <1>0, <2>1 DEF Rivals, i
  <2> QED BY <1>0, <1>2, <2>1, <2>2 DEF PatchKnows
<1>12. ChainIds'
  BY <1>0, <1>2 DEF ChainIds
<1>13. VersionsGrow'
  <2> SUFFICES ASSUME NEW j \in Chain \ collided', NEW r \in ChainRow,
                      <<j, r>> \in stored', chain'[j] # Nothing
               PROVE  r.version <= chain'[j].version
    BY DEF VersionsGrow
  <2>1. CASE j # i
    BY <1>0, <2>1 DEF VersionsGrow
  <2>2. CASE j = i
    <3>1. c \notin outrun /\ j \notin collided
      BY <1>0, <2>2
    <3>2. chain'[j] = row
      BY <1>0, <1>2, <2>2
    <3>3. <<j, r>> \in stored => r.version <= chain[i].version
      BY <1>0, <2>2, <3>1 DEF VersionsGrow
    <3>4. r.version \in Nat /\ chain[i].version \in Nat /\ row.version \in Nat
      BY <1>2, <1>7 DEF ChainRow
    <3> QED BY <1>0, <1>8, <2>2, <3>1, <3>2, <3>3, <3>4
  <2> QED BY <2>1, <2>2
<1>14. PlansCounted'
  BY <1>0 DEF PlansCounted, PlanCounts
<1>15. StoredChainsCompile'
  BY <1>0, <1>2, <1>5 DEF StoredChainsCompile
<1>16. VersionNamesDefinition'
  <2> SUFFICES ASSUME NEW j \in Chain \ collided', NEW x \in ChainRow, NEW y \in ChainRow,
                      <<j, x>> \in stored', <<j, y>> \in stored', x.version = y.version
               PROVE  x = y
    BY DEF VersionNamesDefinition
  <2>1. CASE j # i
    BY <1>0, <2>1 DEF VersionNamesDefinition
  <2>2. CASE j = i
    <3>1. c \notin outrun /\ j \notin collided
      BY <1>0, <2>2
    <3>2. \A r \in ChainRow : <<j, r>> \in stored => r.version <= chain[i].version
      BY <1>0, <2>2, <3>1 DEF VersionsGrow
    <3>3. \A r \in ChainRow : r.version \in Nat
      BY DEF ChainRow
    <3>4. \A r \in ChainRow : <<j, r>> \in stored => r.version # row.version
      BY <1>2, <1>8, <3>1, <3>2, <3>3
    <3>5. \A r \in ChainRow : <<j, r>> \in stored' => <<j, r>> \in stored \/ r = row
      BY <1>0
    <3> QED BY <3>1, <3>4, <3>5 DEF VersionNamesDefinition
  <2> QED BY <2>1, <2>2
<1> QED BY <1>10, <1>11, <1>12, <1>13, <1>14, <1>15, <1>16

\* A PATCH that fails, or a DELETE, writes no version.
LEMMA PatchFailsStep ==
  ASSUME ChainsInv, NEW c \in Client, PatchFails(c) PROVE ChainsInv'
<1> USE ChainsConstantsOK, RequestsConstantsOK DEF ChainsInv, PatchFails
<1>1. ChainsTypeOK'
  BY DEF ChainsTypeOK, NoPatch
<1>2. PatchesKnow'
  BY DEF ChainsTypeOK, PatchesKnow, PatchKnows, Patching
<1>3. ChainIds' /\ VersionsGrow'
  BY DEF ChainIds, VersionsGrow
<1>4. PlansCounted' /\ StoredChainsCompile' /\ VersionNamesDefinition'
  BY DEF PlansCounted, PlanCounts, StoredChainsCompile, VersionNamesDefinition
<1> QED BY <1>1, <1>2, <1>3, <1>4

\* A DELETE leaves the id issued.
LEMMA ChainDeleteStep ==
  ASSUME ChainsInv, NEW i \in Chain, ChainDelete(i) PROVE ChainsInv'
<1> USE ChainsConstantsOK, RequestsConstantsOK DEF ChainsInv, ChainDelete
<1>1. ChainsTypeOK'
  BY DEF ChainsTypeOK
<1>2. PatchesKnow'
  BY DEF ChainsTypeOK, PatchesKnow, PatchKnows, Patching
<1>3. ChainIds' /\ VersionsGrow'
  BY DEF ChainsTypeOK, ChainIds, VersionsGrow
<1>4. PlansCounted' /\ StoredChainsCompile' /\ VersionNamesDefinition'
  BY DEF ChainsTypeOK, PlansCounted, PlanCounts, StoredChainsCompile, VersionNamesDefinition
<1> QED BY <1>1, <1>2, <1>3, <1>4

\* A step of the planner that stores nothing.
LEMMA PlannerKeeps ==
  ASSUME ChainsInv, NEW q \in Planner, UNCHANGED <<chain, issued, patching, stored, outrun, collided>>,
         NEW p \in [pc : {"idle", "structured", "corrected", "planned"},
                    confirm : BOOLEAN, asked : 0..3, repairs : 0..2,
                    answer : Definition \cup {Malformed, Nothing}],
         planner' = [planner EXCEPT ![q] = p],
         PlanCounts(q)'
  PROVE  ChainsInv'
<1> USE DEF ChainsInv
<1>1. ChainsTypeOK'
  BY DEF ChainsTypeOK
<1>2. PatchesKnow'
  BY DEF PatchesKnow, PatchKnows, Patching
<1>3. ChainIds' /\ VersionsGrow' /\ StoredChainsCompile' /\ VersionNamesDefinition'
  BY DEF ChainIds, VersionsGrow, StoredChainsCompile, VersionNamesDefinition
<1>4. PlansCounted'
  BY DEF ChainsTypeOK, PlansCounted, PlanCounts
<1> QED BY <1>1, <1>2, <1>3, <1>4

\* The planner asks the model once more.
LEMMA ProgressStep ==
  ASSUME ChainsInv, NEW q \in Planner, planner[q].pc \in {"structured", "corrected"},
         NEW pc \in {"structured", "corrected", "planned"},
         NEW repairs \in 0..RetryLimit, NEW answer \in Definition \cup {Malformed},
         pc = "planned" => answer \in Compiles /\ repairs = planner[q].repairs,
         pc # "planned" => repairs = planner[q].repairs + 1,
         Progress(q, pc, repairs, answer)
  PROVE  ChainsInv'
<1> USE ChainsConstantsOK DEF ChainsInv
<1>1. PlanCounts(q)
  BY DEF PlansCounted
<1>2. planner[q].asked = planner[q].repairs /\ planner[q].repairs \in 0..1 /\ RetryLimit \in 0..1
  BY <1>1 DEF PlanCounts, ChainsTypeOK
<1> DEFINE p == [pc |-> pc, confirm |-> planner[q].confirm, asked |-> planner[q].asked + 1,
                 repairs |-> repairs, answer |-> answer]
<1>a. planner[q].confirm \in BOOLEAN
  BY DEF ChainsTypeOK
<1>3. /\ p.pc = pc /\ p.asked = planner[q].asked + 1 /\ p.repairs = repairs /\ p.answer = answer
      /\ p \in [pc : {"idle", "structured", "corrected", "planned"},
                confirm : BOOLEAN, asked : 0..3, repairs : 0..2,
                answer : Definition \cup {Malformed, Nothing}]
  BY <1>2, <1>a
<1>4. planner' = [planner EXCEPT ![q] = p] /\ planner'[q] = p
  BY DEF Progress, ChainsTypeOK
<1> HIDE DEF p
<1>5. PlanCounts(q)'
  BY <1>2, <1>3, <1>4 DEF PlanCounts
<1> QED BY <1>3, <1>4, <1>5, PlannerKeeps DEF Progress

\* The planner begins.
LEMMA PlanStartStep ==
  ASSUME ChainsInv, NEW q \in Planner, PlanStart(q) PROVE ChainsInv'
<1>1. PICK confirm \in BOOLEAN :
        planner' = [planner EXCEPT ![q] = [pc |-> "structured", confirm |-> confirm, asked |-> 0,
                                           repairs |-> 0, answer |-> Nothing]]
  BY DEF PlanStart
<1> DEFINE p == [pc |-> "structured", confirm |-> confirm, asked |-> 0, repairs |-> 0, answer |-> Nothing]
<1>2. planner[q] = NoPlan /\ planner \in [Planner -> [pc : {"idle", "structured", "corrected", "planned"},
                               confirm : BOOLEAN, asked : 0..3, repairs : 0..2,
                               answer : Definition \cup {Malformed, Nothing}]]
  BY DEF PlanStart, ChainsInv, ChainsTypeOK
<1>3. planner' = [planner EXCEPT ![q] = p] /\ planner'[q] = p
  BY <1>1, <1>2
<1>4. /\ p \in [pc : {"idle", "structured", "corrected", "planned"},
                confirm : BOOLEAN, asked : 0..3, repairs : 0..2,
                answer : Definition \cup {Malformed, Nothing}]
      /\ p.pc = "structured" /\ p.asked = 0 /\ p.repairs = 0
  OBVIOUS
<1> HIDE DEF p
<1>5. PlanCounts(q)'
  BY <1>3, <1>4, ChainsConstantsOK DEF PlanCounts
<1> QED BY <1>3, <1>4, <1>5, PlannerKeeps DEF PlanStart

\* The planner ends without a plan, or forgets the one it returns.
LEMMA PlanForgotten ==
  ASSUME ChainsInv, NEW q \in Planner, planner' = [planner EXCEPT ![q] = NoPlan]
  PROVE  /\ planner' \in [Planner -> [pc : {"idle", "structured", "corrected", "planned"},
                                      confirm : BOOLEAN, asked : 0..3, repairs : 0..2,
                                      answer : Definition \cup {Malformed, Nothing}]]
         /\ PlansCounted'
  BY ChainsConstantsOK DEF ChainsInv, ChainsTypeOK, PlansCounted, PlanCounts, NoPlan

\* Every step of the chain handlers keeps the invariant.
THEOREM ChainsInvNext == ChainsInv /\ [ChainsNext]_chainVars => ChainsInv'
<1> SUFFICES ASSUME ChainsInv, [ChainsNext]_chainVars PROVE ChainsInv'
  OBVIOUS
<1>1. ASSUME NEW i \in Chain, NEW d \in Definition, ChainCreate(i, d) PROVE ChainsInv'
  <2>1. PlansCounted' /\ planner' = planner
    BY <1>1 DEF ChainCreate, ChainsInv, PlansCounted, PlanCounts
  <2> QED BY <1>1, <2>1, InsertKeeps DEF ChainCreate, ChainsInv, ChainsTypeOK
<1>2. ASSUME NEW i \in Chain, ChainDelete(i) PROVE ChainsInv'
  BY <1>2, ChainDeleteStep
<1>3. ASSUME NEW c \in Client, NEW i \in Chain, NEW d \in Definition \cup {Nothing}, PatchRead(c, i, d)
      PROVE  ChainsInv'
  BY <1>3, PatchReadStep
<1>4. ASSUME NEW c \in Client, PatchCommit(c) \/ PatchFails(c) PROVE ChainsInv'
  BY <1>4, PatchCommitStep, PatchFailsStep
<1>5. ASSUME NEW q \in Planner, PlanStart(q) PROVE ChainsInv'
  BY <1>5, PlanStartStep
<1>6. ASSUME NEW q \in Planner, PlanAccepted(q) PROVE ChainsInv'
  <2>1. PICK d \in Compiles : Progress(q, "planned", planner[q].repairs, d)
    BY <1>6 DEF PlanAccepted
  <2>2. planner[q].repairs \in 0..RetryLimit
    BY ChainsConstantsOK DEF ChainsInv, ChainsTypeOK, PlansCounted, PlanCounts
  <2>3. d \in Definition \cup {Malformed}
    BY ChainsConstantsOK
  <2> QED BY <1>6, <2>1, <2>2, <2>3, ProgressStep DEF PlanAccepted
<1>7. ASSUME NEW q \in Planner, PlanRepaired(q) PROVE ChainsInv'
  <2>1. planner[q].pc = "structured" /\ planner[q].repairs + 1 \in 0..RetryLimit
    BY <1>7, ChainsConstantsOK DEF PlanRepaired, ChainsInv, ChainsTypeOK
  <2>2. CASE Progress(q, "structured", planner[q].repairs + 1, Malformed)
    BY <2>1, <2>2, ProgressStep
  <2>3. CASE \E d \in Definition \ Compiles : Progress(q, "corrected", planner[q].repairs + 1, d)
    BY <2>1, <2>3, ProgressStep
  <2> QED BY <1>7, <2>2, <2>3 DEF PlanRepaired
<1>8. ASSUME NEW q \in Planner, PlanFails(q) PROVE ChainsInv'
  <2>1. planner' = [planner EXCEPT ![q] = NoPlan] /\ PlansCounted'
    BY <1>8, PlanForgotten DEF PlanFails
  <2>2. PlanCounts(q)'
    BY <2>1 DEF PlansCounted
  <2>3. NoPlan \in [pc : {"idle", "structured", "corrected", "planned"},
                    confirm : BOOLEAN, asked : 0..3, repairs : 0..2,
                    answer : Definition \cup {Malformed, Nothing}]
    BY DEF NoPlan
  <2> QED BY <1>8, <2>1, <2>2, <2>3, PlannerKeeps DEF PlanFails
<1>9. ASSUME NEW q \in Planner, PlanReturns(q) PROVE ChainsInv'
  <2>1. /\ planner' = [planner EXCEPT ![q] = NoPlan]
        /\ UNCHANGED <<patching, outrun, collided>>
        /\ planner[q].answer \in Compiles
    BY <1>9 DEF PlanReturns, ChainsInv, PlansCounted, PlanCounts
  <2>2. CASE UNCHANGED <<chain, issued, stored>>
    <3>1. PlanCounts(q)' /\ NoPlan \in [pc : {"idle", "structured", "corrected", "planned"},
                    confirm : BOOLEAN, asked : 0..3, repairs : 0..2,
                    answer : Definition \cup {Malformed, Nothing}]
      BY <2>1, PlanForgotten DEF PlansCounted, NoPlan
    <3> QED BY <2>1, <2>2, <3>1, PlannerKeeps
  <2>3. CASE \E i \in Chain : Insert(i, planner[q].answer)
    BY <2>1, <2>3, PlanForgotten, InsertKeeps
  <2> QED BY <1>9, <2>2, <2>3 DEF PlanReturns
<1>10. CASE UNCHANGED chainVars
  BY <1>10 DEF chainVars, ChainsInv, ChainsTypeOK, PatchesKnow, Patching, PatchKnows, Rivals, ChainIds,
       VersionsGrow, PlansCounted, PlanCounts, StoredChainsCompile, VersionNamesDefinition
<1> QED BY <1>1, <1>2, <1>3, <1>4, <1>5, <1>6, <1>7, <1>8, <1>9, <1>10 DEF ChainsNext

\* The invariant of the chain handlers.
THEOREM ChainsInvariant == ChainsSpec => []ChainsInv
<1> QED BY ChainsInvInit, ChainsInvNext, PTL DEF ChainsSpec

\* Chain rows and the handlers on them keep their types.
THEOREM ChainsTypeCorrect == ChainsSpec => []ChainsTypeOK
<1>1. ChainsInv => ChainsTypeOK
  BY DEF ChainsInv
<1> QED BY <1>1, ChainsInvariant, PTL

\* Every stored chain compiles.
THEOREM ChainsCompile == ChainsSpec => []StoredChainsCompile
<1>1. ChainsInv => StoredChainsCompile
  BY DEF ChainsInv
<1> QED BY <1>1, ChainsInvariant, PTL

\* A version names one definition, but for overlapping patches.
THEOREM VersionsName == ChainsSpec => []VersionNamesDefinition
<1>1. ChainsInv => VersionNamesDefinition
  BY DEF ChainsInv
<1> QED BY <1>1, ChainsInvariant, PTL

\* The planner stays within its repairs.
THEOREM PlannerStaysInBudget == ChainsSpec => []PlannerBudget
<1>1. ChainsInv => PlannerBudget
  BY DEF ChainsInv, PlansCounted, PlanCounts, PlannerBudget
<1> QED BY <1>1, ChainsInvariant, PTL

-----------------------------------------------------------------------------
(* The context.                                                            *)

\* A PUT under way asks for a column, and knows the row it found.
PutTyped == \A c \in Client : putting[c] # NoPut =>
    /\ putting[c].ask \in Column
    /\ putting[c].id # Nothing => putting[c].read \in Column

\* The row that a PUT found is as it read it, if no PUT was committed since.
PutsKnow == \A c \in Client :
    putting[c].id # Nothing /\ c \notin outpaced /\ entry = putting[c].id =>
        content = putting[c].read

\* The row has content, and its id is used up.
RowHere ==
    /\ entry = Nothing => content = Nothing
    /\ entry # Nothing => content \in Column /\ entry \in usedIds
    /\ \A c \in Client : putting[c].id # Nothing => putting[c].id \in usedIds

\* The inductive invariant.
ContextInv ==
    /\ ContextTypeOK
    /\ PutTyped
    /\ PutsKnow
    /\ RowHere
    /\ RowIsLastPut

\* Without a row there is nothing to say.
LEMMA ContextInvInit == ContextInit => ContextInv
<1> SUFFICES ASSUME ContextInit PROVE ContextInv
  OBVIOUS
<1> USE ContextConstantsOK, RequestsConstantsOK DEF ContextInit
<1>1. ContextTypeOK
  BY DEF ContextTypeOK, NoPut
<1>2. PutTyped /\ PutsKnow /\ RowHere /\ RowIsLastPut
  BY DEF PutTyped, PutsKnow, RowHere, RowIsLastPut, NoPut
<1> QED BY <1>1, <1>2 DEF ContextInv

\* A PUT that reads knows the row.
LEMMA PutReadStep ==
  ASSUME ContextInv, NEW c \in Client, PutRead(c) PROVE ContextInv'
<1> USE ContextConstantsOK, RequestsConstantsOK DEF ContextInv
<1>1. PICK ask \in Column :
        putting' = [putting EXCEPT ![c] = [ask |-> ask, id |-> entry, read |-> content]]
  BY DEF PutRead
<1>2. UNCHANGED <<entry, content, usedIds, wanted, outpaced, blended>>
  BY DEF PutRead
<1>3. /\ putting'[c].ask = ask /\ putting'[c].id = entry /\ putting'[c].read = content
      /\ \A d \in Client : d # c => putting'[d] = putting[d]
  BY <1>1 DEF ContextTypeOK
<1>4. ContextTypeOK'
  BY <1>1, <1>2 DEF ContextTypeOK
<1>5. PutTyped'
  BY <1>2, <1>3 DEF PutTyped, RowHere
<1>6. PutsKnow' /\ RowHere'
  BY <1>2, <1>3 DEF PutsKnow, RowHere
<1>7. RowIsLastPut'
  BY <1>2 DEF RowIsLastPut
<1> QED BY <1>4, <1>5, <1>6, <1>7

\* The commit of a PUT that found the row: each of its columns is as asked,
\* unless it was as asked when it was read and another PUT changed it since.
LEMMA PutUpdatesStep ==
  ASSUME ContextInv, NEW c \in Client, PutUpdates(c) PROVE ContextInv'
<1> USE ContextConstantsOK, RequestsConstantsOK DEF ContextInv
<1> DEFINE p == putting[c]
<1>0. /\ p.id # Nothing /\ entry = p.id
      /\ content' = [value |-> Written(content.value, p.read.value, p.ask.value),
                     type  |-> Written(content.type, p.read.type, p.ask.type)]
      /\ wanted' = p.ask
      /\ outpaced' = (outpaced \cup Waiting(c)) \ {c}
      /\ blended' = (c \in outpaced)
      /\ putting' = [putting EXCEPT ![c] = NoPut]
      /\ UNCHANGED <<entry, usedIds>>
  BY DEF PutUpdates, Committed
<1>1. p # NoPut
  BY <1>0 DEF NoPut
<1>2. p.ask \in Column /\ p.read \in Column /\ content \in Column
  BY <1>0, <1>1 DEF PutTyped, RowHere
<1>3. content' \in Column
  BY <1>0, <1>2 DEF Column, Written
<1>4. c \notin outpaced => content' = p.ask
  <2>1. c \notin outpaced => content = p.read
    BY <1>0 DEF PutsKnow
  <2>2. c \notin outpaced => content' = [value |-> p.ask.value, type |-> p.ask.type]
    BY <1>0, <2>1 DEF Written
  <2> QED BY <1>2, <2>2 DEF Column
<1>5. /\ putting'[c] = NoPut
      /\ \A d \in Client : d # c => putting'[d] = putting[d]
  BY <1>0 DEF ContextTypeOK
<1> HIDE DEF p
<1>6. ContextTypeOK'
  BY <1>0, <1>2, <1>3 DEF ContextTypeOK, NoPut, Waiting
<1>7. PutTyped'
  BY <1>5 DEF PutTyped
<1>8. PutsKnow'
  BY <1>0, <1>5 DEF PutsKnow, NoPut, Waiting
<1>9. RowHere'
  BY <1>0, <1>3, <1>5 DEF RowHere, NoPut
<1>10. RowIsLastPut'
  BY <1>0, <1>4 DEF RowIsLastPut
<1> QED BY <1>6, <1>7, <1>8, <1>9, <1>10

\* The commit of a PUT that found no row: a new row, as asked.
LEMMA PutInsertsStep ==
  ASSUME ContextInv, NEW c \in Client, PutInserts(c) PROVE ContextInv'
<1> USE ContextConstantsOK, RequestsConstantsOK DEF ContextInv
<1>0. /\ putting[c] # NoPut /\ entry = Nothing
      /\ content' = putting[c].ask
      /\ wanted' = putting[c].ask
      /\ outpaced' = (outpaced \cup Waiting(c)) \ {c}
      /\ blended' = (c \in outpaced)
      /\ putting' = [putting EXCEPT ![c] = NoPut]
  BY DEF PutInserts, Committed
<1>1. PICK id \in Entry \ usedIds : entry' = id /\ usedIds' = usedIds \cup {id}
  BY DEF PutInserts
<1>2. putting[c].ask \in Column
  BY <1>0 DEF PutTyped
<1>5. /\ putting'[c] = NoPut
      /\ \A d \in Client : d # c => putting'[d] = putting[d]
  BY <1>0 DEF ContextTypeOK
<1>6. ContextTypeOK'
  BY <1>0, <1>1, <1>2 DEF ContextTypeOK, NoPut, Waiting
<1>7. PutTyped'
  BY <1>5 DEF PutTyped
<1>8. PutsKnow'
  BY <1>1, <1>5 DEF PutsKnow, NoPut, RowHere
<1>9. RowHere'
  BY <1>0, <1>1, <1>2, <1>5 DEF RowHere, NoPut
<1>10. RowIsLastPut'
  BY <1>0 DEF RowIsLastPut
<1> QED BY <1>6, <1>7, <1>8, <1>9, <1>10

\* A PUT that fails writes nothing.
LEMMA PutFailsStep ==
  ASSUME ContextInv, NEW c \in Client, PutFails(c) PROVE ContextInv'
<1> USE ContextConstantsOK, RequestsConstantsOK DEF ContextInv, PutFails
<1>5. /\ putting'[c] = NoPut
      /\ \A d \in Client : d # c => putting'[d] = putting[d]
  BY DEF ContextTypeOK
<1>6. ContextTypeOK'
  BY DEF ContextTypeOK, NoPut
<1>7. PutTyped'
  BY <1>5 DEF PutTyped
<1>8. PutsKnow' /\ RowHere'
  BY <1>5 DEF PutsKnow, NoPut, RowHere
<1>9. RowIsLastPut'
  BY DEF RowIsLastPut
<1> QED BY <1>6, <1>7, <1>8, <1>9

\* A DELETE leaves no row, and its id used.
LEMMA ContextDeleteStep ==
  ASSUME ContextInv, ContextDelete PROVE ContextInv'
<1> USE ContextConstantsOK, RequestsConstantsOK DEF ContextInv, ContextDelete
<1>1. ContextTypeOK'
  BY DEF ContextTypeOK
<1>2. PutTyped' /\ PutsKnow' /\ RowHere' /\ RowIsLastPut'
  BY DEF PutTyped, PutsKnow, RowHere, RowIsLastPut
<1> QED BY <1>1, <1>2

\* Every step of the context handlers keeps the invariant.
THEOREM ContextInvNext == ContextInv /\ [ContextNext]_contextVars => ContextInv'
<1>1. CASE ContextNext
  BY <1>1, PutReadStep, PutUpdatesStep, PutInsertsStep, PutFailsStep, ContextDeleteStep DEF ContextNext
<1>2. CASE UNCHANGED contextVars
  BY <1>2 DEF contextVars, ContextInv, ContextTypeOK, PutTyped, PutsKnow, RowHere, RowIsLastPut
<1> QED BY <1>1, <1>2

\* The invariant of the context handlers.
THEOREM ContextInvariant == ContextSpec => []ContextInv
<1> QED BY ContextInvInit, ContextInvNext, PTL DEF ContextSpec

\* The key's row and the handlers on it keep their types.
THEOREM ContextTypeCorrect == ContextSpec => []ContextTypeOK
<1>1. ContextInv => ContextTypeOK
  BY DEF ContextInv
<1> QED BY <1>1, ContextInvariant, PTL

\* A PUT that was not overtaken leaves the row as it asked.
THEOREM LastPutHolds == ContextSpec => []RowIsLastPut
<1>1. ContextInv => RowIsLastPut
  BY DEF ContextInv
<1> QED BY <1>1, ContextInvariant, PTL

-----------------------------------------------------------------------------
(* Groups and members.                                                     *)

\* A handler that joins or disbands is about a group.
DeskOK == \A c \in Client :
    /\ desk[c].call # "none" => desk[c].group \in Group
    /\ desk[c].call = "join" => desk[c].user \in User

\* The inductive invariant.
GroupsInv == GroupsTypeOK /\ DeskOK

\* No handler is under way at first.
LEMMA GroupsInvInit == GroupsInit => GroupsInv
  BY DEF GroupsInit, GroupsInv, GroupsTypeOK, DeskOK, Free

\* The rows of joining and disbanding.
LEMMA WaitsKeeps ==
  ASSUME GroupsInv, NEW c \in Client, NEW call \in {"join", "disband"}, NEW u \in User \cup {Nothing},
         NEW g \in Group, NEW rows \in SUBSET User, Waits(c, call, u, g, rows),
         call = "join" => u \in User
  PROVE  GroupsInv'
  BY DEF GroupsInv, GroupsTypeOK, DeskOK, Waits

\* A handler that ends.
LEMMA AnsweredKeeps ==
  ASSUME GroupsInv, NEW c \in Client, Answered(c), member' \in SUBSET (User \X Group),
         group' \in [Group -> {"none", "there", "gone"}]
  PROVE  GroupsInv'
  BY DEF GroupsInv, GroupsTypeOK, DeskOK, Answered, Free

\* Every step of the group handlers keeps the invariant.
THEOREM GroupsInvNext == GroupsInv /\ [GroupsNext]_groupVars => GroupsInv'
<1> SUFFICES ASSUME GroupsInv, [GroupsNext]_groupVars PROVE GroupsInv'
  OBVIOUS
<1> USE GroupsConstantsOK
<1>1. ASSUME NEW u \in User \ enrolled, UserEnrolled(u) PROVE GroupsInv'
  BY <1>1 DEF UserEnrolled, GroupsInv, GroupsTypeOK, DeskOK
<1>2. ASSUME NEW g \in Group, GroupCreated(g) PROVE GroupsInv'
  BY <1>2 DEF GroupCreated, GroupsInv, GroupsTypeOK, DeskOK
<1>3. ASSUME NEW u \in User, NEW g \in Group, MemberRemoved(u, g) PROVE GroupsInv'
  BY <1>3 DEF MemberRemoved, GroupsInv, GroupsTypeOK, DeskOK
<1>4. ASSUME NEW c \in Client, NEW u \in User, NEW g \in Group, JoinReads(c, u, g) PROVE GroupsInv'
  BY <1>4, WaitsKeeps DEF JoinReads
<1>5. ASSUME NEW c \in Client, NEW g \in Group, DisbandReads(c, g) PROVE GroupsInv'
  <2>1. Members(g) \in SUBSET User
    BY DEF Members
  <2> QED BY <1>5, <2>1, WaitsKeeps DEF DisbandReads
<1>6. ASSUME NEW c \in Client, JoinCommits(c) PROVE GroupsInv'
  <2>1. desk[c].group \in Group /\ desk[c].user \in User
    BY <1>6 DEF JoinCommits, GroupsInv, DeskOK, GroupsTypeOK
  <2> QED BY <1>6, <2>1, AnsweredKeeps DEF JoinCommits, GroupsInv, GroupsTypeOK
<1>7. ASSUME NEW c \in Client, JoinFails(c) \/ DisbandFails(c) PROVE GroupsInv'
  BY <1>7, AnsweredKeeps DEF JoinFails, DisbandFails, GroupsInv, GroupsTypeOK
<1>8. ASSUME NEW c \in Client, DisbandCommits(c) PROVE GroupsInv'
  BY <1>8, AnsweredKeeps DEF DisbandCommits, GroupsInv, GroupsTypeOK
<1>9. CASE UNCHANGED groupVars
  BY <1>9 DEF groupVars, GroupsInv, GroupsTypeOK, DeskOK
<1> QED BY <1>1, <1>2, <1>3, <1>4, <1>5, <1>6, <1>7, <1>8, <1>9 DEF GroupsNext

\* The invariant of the group handlers.
THEOREM GroupsInvariant == GroupsSpec => []GroupsInv
<1> QED BY GroupsInvInit, GroupsInvNext, PTL DEF GroupsSpec

\* Groups, members and the handlers on them keep their types.
THEOREM GroupsTypeCorrect == GroupsSpec => []GroupsTypeOK
<1>1. GroupsInv => GroupsTypeOK
  BY DEF GroupsInv
<1> QED BY <1>1, GroupsInvariant, PTL

\* Only a handler that commits a disbanding, or one that removes a member, takes
\* anyone out of a group.
LEMMA MembersLeaveStep ==
  ASSUME GroupsInv, [GroupsNext]_groupVars, NEW u \in User, NEW g \in Group, <<u, g>> \in member \ member'
  PROVE  group'[g] = "gone" \/ MemberRemoved(u, g)
<1>1. PICK v \in User, h \in Group : MemberRemoved(v, h) \/ \E c \in Client : DisbandCommits(c)
  <2>1. member' # member
    OBVIOUS
  <2>2. ASSUME NEW c \in Client, JoinCommits(c) PROVE FALSE
    BY <2>2 DEF JoinCommits
  <2> QED
    BY <2>1, <2>2 DEF GroupsNext, groupVars, UserEnrolled, GroupCreated, JoinReads, DisbandReads, Waits,
         JoinFails, DisbandFails
<1>2. CASE MemberRemoved(v, h)
  BY <1>2 DEF MemberRemoved
<1>3. ASSUME NEW c \in Client, DisbandCommits(c) PROVE group'[g] = "gone"
  <2>1. g = desk[c].group
    BY <1>3 DEF DisbandCommits
  <2> QED BY <1>3, <2>1 DEF DisbandCommits, GroupsInv, GroupsTypeOK
<1> QED BY <1>1, <1>2, <1>3

\* No member loses a group to a DELETE that fails.
THEOREM MembersStay == GroupsSpec => MembersLeaveOnPurpose
<1>1. GroupsInv /\ [GroupsNext]_groupVars =>
        [\A u \in User, g \in Group : <<u, g>> \in member \ member' =>
            group'[g] = "gone" \/ MemberRemoved(u, g)]_groupVars
  BY MembersLeaveStep
<1> QED BY <1>1, GroupsInvariant, PTL DEF GroupsSpec, MembersLeaveOnPurpose

-----------------------------------------------------------------------------
(* Accounts and keys.                                                      *)

\* Unless two bootstraps crossed, one process runs one at a time, and a key it
\* is to insert is the first.
BootAlone == ~crossed =>
    /\ \A n, p \in Process : boot[n] # Running /\ boot[p] # Running => n = p
    /\ \A n \in Process : boot[n].key # Nothing => BootKeys = {}
    /\ \A k, l \in BootKeys : k = l

\* A process about to commit has a key to insert, or found one.
BootHasKey ==
    /\ \A n \in Process : boot[n].key # Nothing => boot[n].pc = "key"
    /\ \A n \in Process : boot[n].pc = "key" => boot[n].key # Nothing \/ BootKeys # {}
    /\ booted => BootKeys # {}

\* The inductive invariant.
KeysInv ==
    /\ KeysTypeOK
    /\ BootAlone
    /\ BootHasKey

\* Nobody has started yet.
LEMMA KeysInvInit == KeysInit => KeysInv
<1> SUFFICES ASSUME KeysInit PROVE KeysInv
  OBVIOUS
<1>1. KeysTypeOK
  BY DEF KeysInit, KeysTypeOK, Unissued, Running
<1>2. BootKeys = {} /\ ~booted /\ \A n \in Process : boot[n].key = Nothing /\ boot[n].pc = "up" /\ boot[n] = Running
  BY DEF KeysInit, BootKeys, Unissued, Running
<1>3. BootAlone /\ BootHasKey
  BY <1>2 DEF BootAlone, BootHasKey
<1> QED BY <1>1, <1>3 DEF KeysInv

\* A step that leaves the bootstraps alone and issues no key of theirs.
LEMMA BootUntouched ==
  ASSUME KeysInv, KeysTypeOK', UNCHANGED <<boot, booted, crossed>>,
         \A k \in Key : key'[k].boot = key[k].boot
  PROVE  KeysInv'
<1>1. BootKeys' = BootKeys
  BY DEF BootKeys
<1> QED BY <1>1 DEF KeysInv, BootAlone, BootHasKey

\* Accounts come and are renamed: no key changes.
LEMMA AccountStep ==
  ASSUME KeysInv, NEW u \in Account, AccountCreated(u) \/ AccountRenamed(u) PROVE KeysInv'
<1>1. KeysTypeOK' /\ UNCHANGED <<key, boot, booted, crossed>>
  BY DEF KeysInv, KeysTypeOK, AccountCreated, AccountRenamed, AccountNamed
<1> QED BY <1>1, BootUntouched

\* /admin/api-keys writes statuses.
LEMMA KeyStep ==
  ASSUME KeysInv, NEW k \in Key, NEW successor \in Key,
         KeyCreated(k) \/ KeyRevoked(k) \/ KeyRotated(k, successor)
  PROVE  KeysInv'
<1> USE DEF KeysInv, KeysTypeOK, KeysWritten
<1>1. CASE KeyCreated(k)
  BY <1>1, BootUntouched DEF KeyCreated
<1>2. CASE KeyRevoked(k)
  BY <1>2, BootUntouched DEF KeyRevoked
<1>3. CASE KeyRotated(k, successor)
  <2>1. k # successor
    BY <1>3 DEF KeyRotated, NewKey
  <2> QED BY <1>3, <2>1, BootUntouched DEF KeyRotated
<1> QED BY <1>1, <1>2, <1>3

\* A bootstrap begins; it crosses any other under way.
LEMMA BootReadsAccountStep ==
  ASSUME KeysInv, NEW n \in Process, BootReadsAccount(n) PROVE KeysInv'
<1> USE KeysConstantsOK DEF KeysInv
<1>1. PICK u \in Account : boot' = [boot EXCEPT ![n] = [Running EXCEPT !.pc = "account", !.account = u]]
                           /\ UNCHANGED <<username, key>>
  BY DEF BootReadsAccount, Boots
<1>2. /\ crossed' = (crossed \/ \E p \in Process : boot[p] # Running)
      /\ booted' = booted /\ boot[n] = Running /\ BootKeys' = BootKeys
  BY <1>1 DEF BootReadsAccount, BootKeys
<1>3. /\ boot'[n].pc = "account" /\ boot'[n].key = Nothing
      /\ \A p \in Process : p # n => boot'[p] = boot[p]
  BY <1>1 DEF Running, KeysTypeOK
<1>4. KeysTypeOK'
  BY <1>1, <1>2 DEF KeysTypeOK, Running
<1>5. BootAlone'
  BY <1>2, <1>3 DEF BootAlone
<1>6. BootHasKey'
  BY <1>2, <1>3 DEF BootHasKey
<1> QED BY <1>4, <1>5, <1>6

\* A bootstrap looks for the token's key, and is to insert one only if there is
\* none.
LEMMA BootReadsKeyStep ==
  ASSUME KeysInv, NEW n \in Process, BootReadsKey(n) PROVE KeysInv'
<1> USE KeysConstantsOK DEF KeysInv
<1>1. /\ boot[n].pc = "account" /\ boot[n].key = Nothing /\ boot[n] # Running
      /\ UNCHANGED <<username, key, booted, crossed>> /\ BootKeys' = BootKeys
  <2>1. boot[n].pc = "account" /\ UNCHANGED <<username, key, booted, crossed>>
    BY DEF BootReadsKey, Boots
  <2>2. boot[n].key = Nothing /\ boot[n] # Running
    BY <2>1 DEF BootHasKey, Running
  <2> QED BY <2>1, <2>2 DEF BootKeys
<1>2. CASE BootKeys # {}
  <2>1. boot' = [boot EXCEPT ![n] = [boot[n] EXCEPT !.pc = "key"]]
    BY <1>2 DEF BootReadsKey, Boots
  <2>2. /\ boot'[n].pc = "key" /\ boot'[n].key = Nothing
        /\ \A p \in Process : p # n => boot'[p] = boot[p]
    BY <1>1, <2>1 DEF KeysTypeOK
  <2>3. KeysTypeOK'
    BY <1>1, <2>1 DEF KeysTypeOK
  <2>4. BootAlone' /\ BootHasKey'
    BY <1>1, <1>2, <2>2 DEF BootAlone, BootHasKey
  <2> QED BY <2>3, <2>4
<1>3. CASE BootKeys = {}
  <2>1. PICK k \in Key : boot' = [boot EXCEPT ![n] = [boot[n] EXCEPT !.pc = "key", !.key = k]]
    BY <1>3 DEF BootReadsKey, Boots
  <2>2. /\ boot'[n].pc = "key" /\ boot'[n].key = k
        /\ \A p \in Process : p # n => boot'[p] = boot[p]
    BY <1>1, <2>1 DEF KeysTypeOK
  <2>3. KeysTypeOK'
    BY <1>1, <2>1 DEF KeysTypeOK
  <2>4. BootAlone' /\ BootHasKey'
    BY <1>1, <1>3, <2>2 DEF BootAlone, BootHasKey
  <2> QED BY <2>3, <2>4
<1> QED BY <1>2, <1>3

\* The commit of a bootstrap: the key it inserts, if any, is the only one unless
\* it was crossed.
LEMMA BootCommitsStep ==
  ASSUME KeysInv, NEW n \in Process, BootCommits(n) PROVE KeysInv'
<1> USE KeysConstantsOK DEF KeysInv
<1>1. /\ boot[n].pc = "key" /\ boot[n] # Running
      /\ booted' = TRUE /\ crossed' = crossed
      /\ boot'[n] = Running
      /\ \A p \in Process : p # n => boot'[p] = boot[p]
      /\ \A k \in Key : k # boot[n].key => key'[k] = key[k]
      /\ \A k \in Key : k = boot[n].key => key'[k] = [status |-> "active", boot |-> TRUE]
  BY DEF BootCommits, Running, KeysTypeOK
<1>2. KeysTypeOK'
  BY DEF KeysTypeOK, BootCommits, Running
<1>3. BootKeys' = BootKeys \cup ({boot[n].key} \cap Key)
  BY <1>1 DEF BootKeys
<1>4. boot[n].key # Nothing => boot[n].key \in Key
  BY DEF KeysTypeOK
<1>5. BootKeys' # {}
  BY <1>1, <1>3, <1>4 DEF BootHasKey
<1>6. BootHasKey'
  BY <1>1, <1>3, <1>5 DEF BootHasKey, Running
<1>7. ASSUME ~crossed PROVE BootAlone'
  <2>1. \A p \in Process : boot'[p] = Running
    BY <1>1, <1>7 DEF BootAlone
  <2>2. \A k, l \in BootKeys' : k = l
    BY <1>3, <1>7 DEF BootAlone
  <2> QED BY <2>1, <2>2 DEF BootAlone, Running
<1>8. BootAlone'
  BY <1>1, <1>7 DEF BootAlone
<1> QED BY <1>2, <1>6, <1>8

\* A bootstrap that fails leaves nothing behind.
LEMMA BootFailsStep ==
  ASSUME KeysInv, NEW n \in Process, BootFails(n) PROVE KeysInv'
<1>1. /\ boot'[n] = Running /\ UNCHANGED <<username, key, booted, crossed>> /\ BootKeys' = BootKeys
      /\ \A p \in Process : p # n => boot'[p] = boot[p]
  BY DEF BootFails, Boots, KeysInv, KeysTypeOK, BootKeys
<1>2. KeysTypeOK'
  BY DEF KeysInv, KeysTypeOK, BootFails, Boots, Running
<1>3. BootAlone' /\ BootHasKey'
  BY <1>1 DEF KeysInv, BootAlone, BootHasKey, Running
<1> QED BY <1>2, <1>3 DEF KeysInv

\* Every step on accounts and keys keeps the invariant.
THEOREM KeysInvNext == KeysInv /\ [KeysNext]_keyVars => KeysInv'
<1>1. CASE KeysNext
  BY <1>1, AccountStep, KeyStep, BootReadsAccountStep, BootReadsKeyStep, BootCommitsStep, BootFailsStep
     DEF KeysNext
<1>2. CASE UNCHANGED keyVars
  BY <1>2 DEF keyVars, KeysInv, KeysTypeOK, BootAlone, BootHasKey, BootKeys
<1> QED BY <1>1, <1>2

\* The invariant of accounts and keys.
THEOREM KeysInvariant == KeysSpec => []KeysInv
<1> QED BY KeysInvInit, KeysInvNext, PTL DEF KeysSpec

\* Accounts, keys and bootstraps keep their types.
THEOREM KeysTypeCorrect == KeysSpec => []KeysTypeOK
<1>1. KeysInv => KeysTypeOK
  BY DEF KeysInv
<1> QED BY <1>1, KeysInvariant, PTL

\* However often processes start, one key has the token's hash.
THEOREM BootstrapIdempotent == KeysSpec => []BootstrapLeavesOneKey
<1>1. KeysInv => BootstrapLeavesOneKey
  <2> SUFFICES ASSUME KeysInv, booted, ~crossed PROVE Cardinality(BootKeys) = 1
    BY DEF BootstrapLeavesOneKey
  <2>1. PICK k \in BootKeys : BootKeys = {k}
    BY DEF KeysInv, BootAlone, BootHasKey
  <2> QED BY <2>1, FS_Singleton
<1> QED BY <1>1, KeysInvariant, PTL

-----------------------------------------------------------------------------
(* The audit trail.                                                        *)

\* A row that a client paging through the trail is owed and has not got is not
\* behind its offset.
PagesAhead == reader.via = "list" /\ reader.pc = "reading" =>
    /\ reader.owed \subseteq MatchesOf(reader.wants)
    /\ \A i \in reader.owed \ reader.got : IndexOf(reader, i) >= reader.offset

\* The inductive invariant.
AuditInv ==
    /\ AuditTrailTypeOK
    /\ PagesAhead
    /\ PagingMissesNothing

\* The trail is empty.
LEMMA AuditInvInit == AuditTrailInit => AuditInv
<1> SUFFICES ASSUME AuditTrailInit PROVE AuditInv
  OBVIOUS
<1> USE AuditTrailConstantsOK DEF AuditTrailInit
<1>1. AuditTrailTypeOK
  BY DEF AuditTrailTypeOK, Line, Silent, Reading, AtRest
<1>2. PagesAhead /\ PagingMissesNothing
  BY DEF PagesAhead, PagingMissesNothing, AtRest
<1> QED BY <1>1, <1>2 DEF AuditInv

\* What a filter matches is finitely many rows of the file.
LEMMA MatchesFinite ==
  ASSUME AuditTrailTypeOK, NEW wants
  PROVE  /\ IsFiniteSet(MatchesOf(wants))
         /\ MatchesOf(wants) \subseteq 1..MaxRows
         /\ MatchesOf(wants) \subseteq 1..Len(trail)
<1>1. Len(trail) \in Nat /\ Len(trail) <= MaxRows /\ MaxRows \in Nat
  BY AuditTrailConstantsOK DEF AuditTrailTypeOK
<1>2. MatchesOf(wants) \subseteq 1..Len(trail)
  BY DEF MatchesOf, AuditTrailTypeOK
<1>3. IsFiniteSet(1..Len(trail))
  BY <1>1, FS_Interval
<1> QED BY <1>1, <1>2, <1>3, FS_Subset

\* A row of the matches has fewer of them before it than there are.
LEMMA IndexBound ==
  ASSUME AuditTrailTypeOK, NEW r, NEW i \in MatchesOf(r.wants)
  PROVE  /\ IndexOf(r, i) \in Nat
         /\ IndexOf(r, i) < Cardinality(MatchesOf(r.wants))
<1> DEFINE M == MatchesOf(r.wants)
           B == {j \in M : Before(r, j, i)}
<1>1. IsFiniteSet(M)
  BY MatchesFinite
<1>2. trail[i].at \in Nat
  <2>1. trail[i] \in Line
    BY MatchesFinite DEF AuditTrailTypeOK
  <2> QED BY <2>1, AuditTrailConstantsOK DEF Line
<1>3. ~Before(r, i, i)
  <2>1. i \in Nat
    BY MatchesFinite
  <2> QED BY <1>2, <2>1 DEF Before
<1>4. B \subseteq M /\ B # M
  BY <1>3
<1> HIDE DEF M, B
<1>5. IsFiniteSet(B) /\ Cardinality(B) <= Cardinality(M) /\ Cardinality(B) # Cardinality(M)
  BY <1>1, <1>4, FS_Subset
<1>6. Cardinality(B) \in Nat /\ Cardinality(M) \in Nat
  BY <1>1, <1>5, FS_CardinalityType
<1> QED BY <1>5, <1>6 DEF IndexOf, B, M

\* Rows appended to the file put no row further ahead, whatever their timestamps.
LEMMA AppendedRows ==
  ASSUME AuditInv, NEW x \in Line, Len(trail) < MaxRows, trail' = Append(trail, x), reader' = reader
  PROVE  /\ trail' \in Seq(Line) /\ Len(trail') <= MaxRows
         /\ PagesAhead' /\ PagingMissesNothing'
<1> USE DEF AuditInv
<1>1. /\ trail' \in Seq(Line) /\ Len(trail') = Len(trail) + 1
      /\ \A i \in 1..Len(trail) : trail'[i] = trail[i]
  BY DEF AuditTrailTypeOK
<1>2. Len(trail') <= MaxRows
  BY <1>1, AuditTrailConstantsOK DEF AuditTrailTypeOK
<1>4. \A wants : MatchesOf(wants) \subseteq MatchesOf(wants)'
  BY <1>1 DEF MatchesOf, AuditTrailTypeOK
<1>5. \A wants : IsFiniteSet(MatchesOf(wants)')
  <2> SUFFICES ASSUME NEW wants PROVE IsFiniteSet(MatchesOf(wants)')
    OBVIOUS
  <2>1. MatchesOf(wants)' \subseteq 1..Len(trail')
    BY <1>1 DEF MatchesOf
  <2>2. IsFiniteSet(1..Len(trail'))
    BY <1>1, FS_Interval
  <2> QED BY <2>1, <2>2, FS_Subset
<1>6. ASSUME reader.via = "list", reader.pc = "reading", NEW i \in reader.owed \ reader.got
      PROVE  IndexOf(reader, i)' >= reader.offset
  <2> DEFINE B == {j \in MatchesOf(reader.wants) : Before(reader, j, i)}
             C == {j \in MatchesOf(reader.wants)' : Before(reader, j, i)'}
  <2>1. i \in MatchesOf(reader.wants) /\ IndexOf(reader, i) >= reader.offset
    BY <1>6 DEF PagesAhead
  <2>2. \A j \in MatchesOf(reader.wants) : trail'[j] = trail[j]
    BY <1>1, MatchesFinite
  <2>3. B \subseteq C
    BY <1>4, <2>1, <2>2 DEF Before
  <2>4. IsFiniteSet(MatchesOf(reader.wants)')
    BY <1>5
  <2>5. C \subseteq MatchesOf(reader.wants)'
    OBVIOUS
  <2> HIDE DEF B, C
  <2>6. IsFiniteSet(C)
    BY <2>4, <2>5, FS_Subset
  <2>7. IsFiniteSet(B) /\ Cardinality(B) <= Cardinality(C) /\ Cardinality(B) \in Nat /\ Cardinality(C) \in Nat
    BY <2>3, <2>6, FS_Subset, FS_CardinalityType
  <2>8. IndexOf(reader, i) = Cardinality(B) /\ IndexOf(reader, i)' = Cardinality(C)
    BY DEF IndexOf, B, C
  <2>9. reader.offset \in Nat
    BY DEF AuditTrailTypeOK, Reading
  <2> QED BY <2>1, <2>7, <2>8, <2>9
<1>7. PagesAhead'
  BY <1>4, <1>6 DEF PagesAhead
<1>8. PagingMissesNothing'
  BY DEF PagingMissesNothing
<1> QED BY <1>1, <1>2, <1>7, <1>8

\* A reader that starts is owed what matches, from the first row on.
LEMMA ReaderStartsStep ==
  ASSUME AuditInv, NEW via \in {"list", "export"}, NEW wants \in SUBSET Subject, NEW newest \in BOOLEAN,
         ReaderStarts(via, wants, newest)
  PROVE  AuditInv'
<1> USE DEF AuditInv
<1> DEFINE r == [pc |-> "reading", via |-> via, wants |-> wants, newest |-> newest,
                  offset |-> 0, got |-> {}, owed |-> MatchesOf(wants)]
<1>1. reader' = r /\ UNCHANGED <<trail, emitted, stamp>>
  BY DEF ReaderStarts
<1>2. r \in Reading
  BY MatchesFinite DEF Reading
<1>3. r.pc = "reading" /\ r.wants = wants /\ r.owed = MatchesOf(wants) /\ r.offset = 0
  OBVIOUS
<1> HIDE DEF r
<1>4. AuditTrailTypeOK'
  BY <1>1, <1>2 DEF AuditTrailTypeOK
<1>5. MatchesOf(reader.wants)' = MatchesOf(wants)
  BY <1>1, <1>3 DEF MatchesOf
<1>6. \A i \in MatchesOf(wants) : IndexOf(reader, i)' = IndexOf(r, i)
  BY <1>1 DEF IndexOf, MatchesOf, Before
<1>7. \A i \in MatchesOf(wants) : IndexOf(r, i) \in Nat
  BY <1>3, IndexBound
<1>8. PagesAhead'
  BY <1>1, <1>3, <1>5, <1>6, <1>7 DEF PagesAhead
<1>9. PagingMissesNothing'
  BY <1>1, <1>3 DEF PagingMissesNothing
<1> QED BY <1>4, <1>8, <1>9

\* What a page holds are rows of the file.
LEMMA PageTyped ==
  ASSUME AuditTrailTypeOK, NEW limit PROVE PageOf(reader, limit) \in SUBSET (1..MaxRows)
  BY MatchesFinite DEF PageOf

\* What a reader is after it has read some rows.
LEMMA ReadKeeps ==
  ASSUME AuditTrailTypeOK, NEW via, NEW rows \in SUBSET (1..MaxRows), NEW offset \in Nat,
         NEW ends \in BOOLEAN, Read(via, rows, offset, ends)
  PROVE  /\ AuditTrailTypeOK'
         /\ UNCHANGED trail
         /\ reader'.via = reader.via /\ reader'.wants = reader.wants /\ reader'.newest = reader.newest
         /\ reader'.owed = reader.owed /\ reader'.got = reader.got \cup rows /\ reader'.offset = offset
         /\ reader'.pc = IF ends THEN "done" ELSE "reading"
<1>1. /\ reader \in Reading /\ reader.pc = "reading"
      /\ reader' = [reader EXCEPT !.got = @ \cup rows, !.offset = offset, !.pc = IF ends THEN "done" ELSE @]
      /\ UNCHANGED <<trail, emitted, stamp>>
  BY DEF Read, AuditTrailTypeOK
<1>2. /\ reader'.via = reader.via /\ reader'.wants = reader.wants /\ reader'.newest = reader.newest
      /\ reader'.owed = reader.owed /\ reader'.got = reader.got \cup rows /\ reader'.offset = offset
      /\ reader'.pc = IF ends THEN "done" ELSE "reading"
  BY <1>1 DEF Reading
<1>3. reader' \in Reading
  BY <1>1 DEF Reading
<1> QED BY <1>1, <1>2, <1>3 DEF AuditTrailTypeOK

\* A page of a client: what it still owes is behind the page, and nothing is
\* behind the last one.
LEMMA ListPageStep ==
  ASSUME AuditInv, ListPage PROVE AuditInv'
<1> USE DEF AuditInv
<1> DEFINE next == reader.offset + PageSize
           ends == next >= Cardinality(MatchesOf(reader.wants))
           rows == PageOf(reader, PageSize)
<1>1. reader.offset \in Nat /\ PageSize \in Nat /\ PageSize <= ReaderLimit /\ ReaderLimit \in Nat
  BY AuditTrailConstantsOK DEF AuditTrailTypeOK, Reading
<1>2. /\ reader.via = "list" /\ reader.pc = "reading"
      /\ Read("list", rows, next, ends)
  BY DEF ListPage, Read
<1>3. /\ AuditTrailTypeOK'
      /\ trail' = trail
      /\ reader'.via = reader.via /\ reader'.wants = reader.wants /\ reader'.newest = reader.newest
      /\ reader'.owed = reader.owed /\ reader'.got = reader.got \cup rows /\ reader'.offset = next
      /\ reader'.pc = IF ends THEN "done" ELSE "reading"
  <2>1. rows \in SUBSET (1..MaxRows) /\ next \in Nat /\ ends \in BOOLEAN
    BY <1>1, PageTyped
  <2> HIDE DEF next, ends, rows
  <2> QED BY <1>2, <2>1, ReadKeeps
<1>4. ASSUME NEW i \in reader.owed, i \notin reader.got, i \notin rows
      PROVE  IndexOf(reader, i) >= next /\ ~ends
  <2>1. i \in MatchesOf(reader.wants) /\ IndexOf(reader, i) >= reader.offset
    BY <1>2, <1>4 DEF PagesAhead
  <2>2. IndexOf(reader, i) \in Nat /\ IndexOf(reader, i) < Cardinality(MatchesOf(reader.wants))
    BY <2>1, IndexBound
  <2>3. IndexOf(reader, i) \notin reader.offset .. (reader.offset + PageSize - 1)
    BY <1>1, <1>4, <2>1 DEF PageOf
  <2>4. IndexOf(reader, i) >= next
    BY <1>1, <2>1, <2>2, <2>3
  <2>5. Cardinality(MatchesOf(reader.wants)) \in Nat
    BY MatchesFinite, FS_CardinalityType
  <2> QED BY <1>1, <2>2, <2>4, <2>5
<1> HIDE DEF next, ends, rows
<1>5. \A i \in reader.owed : IndexOf(reader, i)' = IndexOf(reader, i)
  BY <1>3 DEF IndexOf, MatchesOf, Before
<1>6. MatchesOf(reader.wants)' = MatchesOf(reader.wants)
  BY <1>3 DEF MatchesOf
<1>7. PagesAhead'
  BY <1>2, <1>3, <1>4, <1>5, <1>6 DEF PagesAhead
<1>8. PagingMissesNothing'
  BY <1>3, <1>4 DEF PagingMissesNothing
<1> QED BY <1>3, <1>7, <1>8

\* An export makes no such promise.
LEMMA ExportRoundStep ==
  ASSUME AuditInv, ExportRound PROVE AuditInv'
<1> USE DEF AuditInv
<1> DEFINE rows == PageOf(reader, ExportBatch)
           seen == reader.offset + Cardinality(rows)
           ends == Cardinality(rows) < ExportBatch \/ seen >= Cardinality(MatchesOf(reader.wants))
<1>1. rows \in SUBSET (1..MaxRows)
  BY PageTyped
<1>2. IsFiniteSet(1..MaxRows)
  BY AuditTrailConstantsOK, FS_Interval
<1>3. seen \in Nat
  <2>1. Cardinality(rows) \in Nat
    BY <1>1, <1>2, FS_Subset, FS_CardinalityType
  <2> QED BY <2>1 DEF AuditTrailTypeOK, Reading
<1>4. reader.via = "export" /\ Read("export", rows, seen, ends)
  BY DEF ExportRound, Read
<1> HIDE DEF rows, seen
<1>5. AuditTrailTypeOK' /\ reader'.via = reader.via
  BY <1>1, <1>3, <1>4, ReadKeeps
<1> QED BY <1>4, <1>5 DEF PagesAhead, PagingMissesNothing

\* Every step of emitters and readers keeps the invariant.
THEOREM AuditInvNext == AuditInv /\ [AuditTrailNext]_auditVars => AuditInv'
<1> SUFFICES ASSUME AuditInv, [AuditTrailNext]_auditVars PROVE AuditInv'
  OBVIOUS
<1> USE DEF AuditInv
<1>1. ASSUME UNCHANGED <<trail, reader>>, emitted' \in [Emitter -> Line], stamp' \in 0..LastStamp
      PROVE  AuditInv'
  BY <1>1 DEF AuditTrailTypeOK, PagesAhead, PagingMissesNothing, IndexOf, MatchesOf, Before
<1>2. CASE StampPasses
  BY <1>1, <1>2, AuditTrailConstantsOK DEF StampPasses, AuditTrailTypeOK
<1>3. Silent \in Line
  BY AuditTrailConstantsOK DEF Silent, Line
<1>4. CASE ForeignLine
  BY <1>3, <1>4, AppendedRows DEF ForeignLine, AuditTrailTypeOK
<1>5. ASSUME NEW e \in Emitter, RowWritten(e) PROVE AuditInv'
  <2>1. emitted[e] \in Line /\ emitted' \in [Emitter -> Line]
    BY <1>3, <1>5 DEF RowWritten, AuditTrailTypeOK
  <2> QED BY <1>5, <2>1, AppendedRows DEF RowWritten, AuditTrailTypeOK
<1>6. ASSUME NEW e \in Emitter, RowLost(e) PROVE AuditInv'
  BY <1>1, <1>3, <1>6 DEF RowLost, AuditTrailTypeOK
<1>7. ASSUME NEW e \in Emitter, NEW s \in Subject, RowStamped(e, s) PROVE AuditInv'
  <2>1. emitted' \in [Emitter -> Line]
    BY <1>7 DEF RowStamped, AuditTrailTypeOK, Line
  <2> QED BY <1>1, <1>7, <2>1 DEF RowStamped, AuditTrailTypeOK
<1>8. CASE UNCHANGED auditVars
  BY <1>1, <1>8 DEF auditVars, AuditTrailTypeOK
<1> QED
  BY <1>2, <1>4, <1>5, <1>6, <1>7, <1>8, ListPageStep, ExportRoundStep, ReaderStartsStep DEF AuditTrailNext

\* The invariant of the audit trail.
THEOREM AuditInvariant == AuditTrailSpec => []AuditInv
<1> QED BY AuditInvInit, AuditInvNext, PTL DEF AuditTrailSpec

\* The file, its emitters and its reader keep their types.
THEOREM AuditTrailTypeCorrect == AuditTrailSpec => []AuditTrailTypeOK
<1>1. AuditInv => AuditTrailTypeOK
  BY DEF AuditInv
<1> QED BY <1>1, AuditInvariant, PTL

\* A client that pages by offset misses no row it was owed.
THEOREM PagingComplete == AuditTrailSpec => []PagingMissesNothing
<1>1. AuditInv => PagingMissesNothing
  BY DEF AuditInv
<1> QED BY <1>1, AuditInvariant, PTL
=============================================================================
