------------------------------ MODULE Requests ------------------------------
(***************************************************************************)
(* What the modules of the REST surface share.  A handler opens a session, *)
(* reads rows, decides, and commits.  The database runs the handlers of    *)
(* different requests concurrently and locks nothing between the two, so   *)
(* every handler that writes is a read step and a commit step.  SQLAlchemy *)
(* puts into the UPDATE only the columns whose value differs from what the *)
(* session read.                                                           *)
(***************************************************************************)
CONSTANTS
    Client,     \* requests in progress at once
    Nothing,    \* no row, no value, no request
    FKEnforced  \* does the database enforce foreign keys?

ASSUME RequestsConstantsOK ==
    /\ Nothing \notin Client
    /\ FKEnforced \in BOOLEAN

\* A column after an UPDATE: the row's own value unless the handler changed it.
Written(current, read, new) == IF new = read THEN current ELSE new
=============================================================================
