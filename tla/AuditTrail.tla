----------------------------- MODULE AuditTrail -----------------------------
(***************************************************************************)
(* The audit trail: rows appended to a JSONL file by audit_event, and read *)
(* back by GET /audit page by page or by POST /audit/export.  Every page   *)
(* reads the whole file again, keeps what the filter matches, sorts it by  *)
(* timestamp and cuts the page out, while more rows are appended.          *)
(*                                                                         *)
(* Abstracted: a row is its timestamp and what the filter tells apart of   *)
(* it; its event_id is its line in the file.  Output formats are left out. *)
(***************************************************************************)
EXTENDS Naturals, FiniteSets, Sequences

CONSTANTS
    Emitter,     \* threads that emit rows
    Subject,     \* what filters tell apart of a row
    Foreign,     \* a line that is no audit row, skipped by the parser
    ReaderLimit, \* the most rows query returns, 200
    PageSize,    \* the page a client of GET /audit asks for
    ExportBatch, \* _EXPORT_PAGE, 500
    LastStamp,   \* bound on time
    MaxRows      \* bound on the file

ASSUME AuditTrailConstantsOK ==
    /\ Foreign \notin Subject
    /\ ReaderLimit \in Nat \ {0}
    /\ PageSize \in 1..ReaderLimit
    /\ ExportBatch \in Nat \ {0}
    /\ LastStamp \in Nat
    /\ MaxRows \in Nat

VARIABLES
    trail,   \* the file
    emitted, \* rows stamped and not yet written
    stamp,   \* the time
    reader   \* a client that pages through GET /audit, or a POST /audit/export

auditVars == <<trail, emitted, stamp, reader>>

-----------------------------------------------------------------------------
Line   == [at : 0..LastStamp, subject : Subject \cup {Foreign}]
Silent == [at |-> 0, subject |-> Foreign]
AtRest == [pc |-> "idle", via |-> "none", wants |-> {}, newest |-> FALSE, offset |-> 0, got |-> {}, owed |-> {}]
Reading == [pc : {"idle", "reading", "done"}, via : {"none", "list", "export"},
            wants : SUBSET Subject, newest : BOOLEAN, offset : Nat,
            got : SUBSET (1..MaxRows), owed : SUBSET (1..MaxRows)]

AuditTrailTypeOK ==
    /\ trail \in Seq(Line)
    /\ Len(trail) <= MaxRows
    /\ emitted \in [Emitter -> Line]
    /\ stamp \in 0..LastStamp
    /\ reader \in Reading

AuditTrailInit ==
    /\ trail = <<>>
    /\ emitted = [e \in Emitter |-> Silent]
    /\ stamp = 0
    /\ reader = AtRest

-----------------------------------------------------------------------------
(* audit_event.                                                            *)

StampPasses ==
    /\ stamp < LastStamp
    /\ stamp' = stamp + 1
    /\ UNCHANGED <<trail, emitted, reader>>

RowStamped(e, s) ==
    /\ emitted[e] = Silent
    /\ emitted' = [emitted EXCEPT ![e] = [at |-> stamp, subject |-> s]]
    /\ UNCHANGED <<trail, stamp, reader>>

RowWritten(e) ==
    /\ emitted[e] # Silent
    /\ Len(trail) < MaxRows
    /\ trail' = Append(trail, emitted[e])
    /\ emitted' = [emitted EXCEPT ![e] = Silent]
    /\ UNCHANGED <<stamp, reader>>

\* A write that fails is only logged.
RowLost(e) ==
    /\ emitted[e] # Silent
    /\ emitted' = [emitted EXCEPT ![e] = Silent]
    /\ UNCHANGED <<trail, stamp, reader>>

\* The integrity checks of the logging library share the file.
ForeignLine ==
    /\ Len(trail) < MaxRows
    /\ trail' = Append(trail, Silent)
    /\ UNCHANGED <<emitted, stamp, reader>>

-----------------------------------------------------------------------------
(* AuditReader.query.                                                      *)

MatchesOf(wants) == {i \in DOMAIN trail : trail[i].subject \in wants}

\* How the matches are sorted: by timestamp, and stably even when reversed.
Before(r, i, j) ==
    \/ IF r.newest THEN trail[i].at > trail[j].at ELSE trail[i].at < trail[j].at
    \/ trail[i].at = trail[j].at /\ i < j

\* A row's index in the sorted matches.
IndexOf(r, i) == Cardinality({j \in MatchesOf(r.wants) : Before(r, j, i)})

\* Mutant of PageOf: the cut ends one row short.
PageOfLess(r, limit) ==
    LET cap == IF limit > ReaderLimit THEN ReaderLimit ELSE limit
    IN  {i \in MatchesOf(r.wants) : IndexOf(r, i) \in r.offset .. (r.offset + cap - 2)}

PageOf(r, limit) ==
    LET cap == IF limit > ReaderLimit THEN ReaderLimit ELSE limit
    IN  {i \in MatchesOf(r.wants) : IndexOf(r, i) \in r.offset .. (r.offset + cap - 1)}

ReaderStarts(via, wants, newest) ==
    /\ reader = AtRest
    /\ reader' = [pc |-> "reading", via |-> via, wants |-> wants, newest |-> newest,
                  offset |-> 0, got |-> {}, owed |-> MatchesOf(wants)]
    /\ UNCHANGED <<trail, emitted, stamp>>

Read(via, rows, offset, ends) ==
    /\ reader.pc = "reading"
    /\ reader.via = via
    /\ reader' = [reader EXCEPT !.got = @ \cup rows, !.offset = offset,
                                !.pc = IF ends THEN "done" ELSE @]
    /\ UNCHANGED <<trail, emitted, stamp>>

\* A client asks for page after page until the total is behind it.
ListPage ==
    LET next == reader.offset + PageSize
    IN  Read("list", PageOf(reader, PageSize), next, next >= Cardinality(MatchesOf(reader.wants)))

\* One round of _iter_all_matching: it ends on an empty page, with total rows
\* yielded, or on a page shorter than the batch.
ExportRound ==
    LET rows == PageOf(reader, ExportBatch)
        seen == reader.offset + Cardinality(rows)
    IN  Read("export", rows, seen,
             Cardinality(rows) < ExportBatch \/ seen >= Cardinality(MatchesOf(reader.wants)))

AuditTrailNext ==
    \/ StampPasses
    \/ ForeignLine
    \/ ListPage
    \/ ExportRound
    \/ \E e \in Emitter : RowWritten(e) \/ RowLost(e)
    \/ \E e \in Emitter, s \in Subject : RowStamped(e, s)
    \/ \E via \in {"list", "export"}, wants \in SUBSET Subject \ {{}}, newest \in BOOLEAN :
         ReaderStarts(via, wants, newest)

AuditTrailSpec == AuditTrailInit /\ [][AuditTrailNext]_auditVars

-----------------------------------------------------------------------------
\* A client that pages through the trail by offset gets every row that matched
\* when it started, whatever is appended meanwhile, even with earlier timestamps
\* and newest first (list_audit, AuditReader.query).
PagingMissesNothing ==
    reader.via = "list" /\ reader.pc = "done" => reader.owed \subseteq reader.got

\* An export that ended holds every row that matched when it started: "Page
\* through AuditReader for the full match set" (_iter_all_matching).
ExportComplete ==
    reader.via = "export" /\ reader.pc = "done" => reader.owed \subseteq reader.got
=============================================================================
