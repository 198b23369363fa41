------------------------------- MODULE Context -------------------------------
(***************************************************************************)
(* The scheduler's key-value context: PUT is a select and then an update   *)
(* or an insert, under a unique constraint on (scope, key).  One key is    *)
(* followed; keys share no row.                                            *)
(***************************************************************************)
EXTENDS Requests

CONSTANTS
    Entry,      \* context_entry ids, each issued at most once (uuid4)
    Value,
    ValueType,
    Unknown     \* a value_type that is no member of the enum: stored, but not readable

ASSUME ContextConstantsOK ==
    /\ Unknown \notin ValueType
    /\ Nothing \notin Entry \cup Value \cup ValueType \cup {Unknown}

VARIABLES
    entry,      \* the id of the key's row
    content,    \* its columns value and value_type
    usedIds,
    putting,    \* PUT handlers between their select and their commit
    wanted,     \* ghost: what the last PUT to commit asked for
    outpaced,   \* ghost: handlers whose key was written meanwhile
    blended     \* ghost: the last PUT to commit was one of those

contextVars == <<entry, content, usedIds, putting, wanted, outpaced, blended>>

-----------------------------------------------------------------------------
Column   == [value : Value, type : ValueType \cup {Unknown}]
NoPut    == [ask |-> Nothing, id |-> Nothing, read |-> Nothing]
Readable == entry # Nothing => content.type # Unknown
Waiting(c) == {d \in Client \ {c} : putting[d] # NoPut}

ContextTypeOK ==
    /\ entry \in Entry \cup {Nothing}
    /\ content \in Column \cup {Nothing}
    /\ usedIds \in SUBSET Entry
    /\ putting \in [Client -> [ask : Column \cup {Nothing}, id : Entry \cup {Nothing},
                               read : Column \cup {Nothing}]]
    /\ wanted \in Column \cup {Nothing}
    /\ outpaced \in SUBSET Client
    /\ blended \in BOOLEAN

ContextInit ==
    /\ entry = Nothing
    /\ content = Nothing
    /\ usedIds = {}
    /\ putting = [c \in Client |-> NoPut]
    /\ wanted = Nothing
    /\ outpaced = {}
    /\ blended = FALSE

\* PUT /context, after the size quota: selects the key's row.
PutRead(c) ==
    /\ putting[c] = NoPut
    /\ Readable
    /\ \E ask \in Column :
         putting' = [putting EXCEPT ![c] = [ask |-> ask, id |-> entry, read |-> content]]
    /\ UNCHANGED <<entry, content, usedIds, wanted, outpaced, blended>>

Committed(c) ==
    /\ wanted' = putting[c].ask
    /\ outpaced' = (outpaced \cup Waiting(c)) \ {c}
    /\ blended' = (c \in outpaced)
    /\ putting' = [putting EXCEPT ![c] = NoPut]

\* Mutant of PutUpdates: leaves value_type as it was.
PutValueOnly(c) ==
    LET p == putting[c] IN
    /\ p.id # Nothing
    /\ entry = p.id
    /\ content' = [content EXCEPT !.value = Written(@, p.read.value, p.ask.value)]
    /\ Committed(c)
    /\ UNCHANGED <<entry, usedIds>>

\* It found a row: each column is written if it differs from what was read.
PutUpdates(c) ==
    LET p == putting[c] IN
    /\ p.id # Nothing
    /\ entry = p.id
    /\ content' = [value |-> Written(content.value, p.read.value, p.ask.value),
                   type  |-> Written(content.type, p.read.type, p.ask.type)]
    /\ Committed(c)
    /\ UNCHANGED <<entry, usedIds>>

\* It found none: a new row, if the key still has none.
PutInserts(c) ==
    LET p == putting[c] IN
    /\ p # NoPut
    /\ p.id = Nothing
    /\ entry = Nothing
    /\ \E id \in Entry \ usedIds :
         /\ entry' = id
         /\ usedIds' = usedIds \cup {id}
    /\ content' = p.ask
    /\ Committed(c)

\* 500: the unique constraint refuses a second row, or the row to be updated is
\* no longer there.
PutFails(c) ==
    /\ putting[c] # NoPut
    /\ entry # putting[c].id
    /\ putting' = [putting EXCEPT ![c] = NoPut]
    /\ outpaced' = outpaced \ {c}
    /\ UNCHANGED <<entry, content, usedIds, wanted, blended>>

\* DELETE /context/{id} loads the row before it deletes it.
ContextDelete ==
    /\ entry # Nothing
    /\ Readable
    /\ entry' = Nothing
    /\ content' = Nothing
    /\ UNCHANGED <<usedIds, putting, wanted, outpaced, blended>>

ContextNext ==
    \/ ContextDelete
    \/ \E c \in Client : PutRead(c) \/ PutUpdates(c) \/ PutInserts(c) \/ PutFails(c)

ContextSpec == ContextInit /\ [][ContextNext]_contextVars

-----------------------------------------------------------------------------
\* The row is what the last PUT asked for, value and type together, unless that
\* PUT had been overtaken by another (put_context writes changed columns only).
RowIsLastPut == entry # Nothing /\ ~blended => content = wanted
=============================================================================
