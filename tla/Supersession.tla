---------------------------- MODULE Supersession ----------------------------
(***************************************************************************)
(* Which memories a search drops because a later one corrects them:        *)
(* _suppress_superseded and _is_later of app/service.py, over rows as the  *)
(* two stores really number them.                                          *)
(*                                                                         *)
(* What the texts say is left open: of the pairs whose first row is later, *)
(* a search may find any to be a correction and the fact it corrects.      *)
(***************************************************************************)
EXTENDS Naturals, FiniteSets, Corrections

CONSTANTS
    Requests,    \* the request_ids of one user
    Timestamps,  \* what a message's optional timestamp may be
    Clock,       \* the values created_at takes: wall clock readings
    Messages,    \* how many messages a request may have
    Stores,      \* of "sqlite" and "postgres", the stores to look at
    RowLimit,    \* bound: rows ever stored
    None         \* no timestamp

ASSUME SupersessionAssumption ==
    /\ Timestamps \subseteq Nat \cup {None}
    /\ None \notin Nat
    /\ Clock \subseteq Nat
    /\ Messages \subseteq Nat
    /\ Stores \subseteq {"sqlite", "postgres"}

VARIABLES
    store,      \* the one the service was started over
    rows,       \* the stored rows
    corrects,   \* the <<newer, older>> pairs the last search acted on
    kept        \* the rows it kept

vars == <<store, rows, corrects, kept>>

MemoryRows ==
    [request : Requests, ordinal : Nat, occurred : Nat \cup {None}, created : Nat, row_id : Nat]

Init ==
    /\ store \in Stores
    /\ rows = {}
    /\ corrects = {}
    /\ kept = {}

-----------------------------------------------------------------------------
\* SQLite numbers its rows from 1 up; a row read from Postgres has row_id 0.
RowId(i) == IF store = "sqlite" THEN Cardinality(rows) + i + 1 ELSE 0

\* One Add.  created_at is read before the write lock is taken, so it need not
\* follow the order of commits, and two requests may read the same value; the
\* messages of a request share it and are numbered in order.
Add(request, created, n) ==
    /\ \A row \in rows : row.request # request
    /\ Cardinality(rows) + n <= RowLimit
    /\ \E stamps \in [0 .. n - 1 -> Timestamps] :
        rows' = rows \cup
            {[request |-> request, ordinal |-> i, occurred |-> stamps[i], created |-> created,
              row_id |-> RowId(i)] : i \in 0 .. n - 1}
    /\ corrects' = {}
    /\ kept' = {}
    /\ UNCHANGED store

\* Mutant: rows created at once are each later than the other.
IsLaterOrEqual(newer, older) ==
    IF None \notin {newer.occurred, older.occurred} /\ newer.occurred # older.occurred
    THEN newer.occurred > older.occurred
    ELSE newer.created >= older.created

\* _is_later: the first of these that both rows have and that tells them apart.
IsLater(newer, older) ==
    IF None \notin {newer.occurred, older.occurred} /\ newer.occurred # older.occurred
    THEN newer.occurred > older.occurred
    ELSE IF newer.created # older.created THEN newer.created > older.created
    ELSE IF newer.request = older.request /\ newer.ordinal # older.ordinal
         THEN newer.ordinal > older.ordinal
    ELSE 0 \notin {newer.row_id, older.row_id} /\ newer.row_id > older.row_id

\* A correction that is itself superseded still drops what it corrects.
Suppressed(candidates, pairs) ==
    {row \in candidates : ~ \E newer \in candidates : <<newer, row>> \in pairs}

Search ==
    /\ \E pairs \in SUBSET {pair \in rows \X rows : IsLater(pair[1], pair[2])} :
        /\ corrects' = pairs
        /\ kept' = Suppressed(rows, pairs)
    /\ UNCHANGED <<store, rows>>

Next ==
    \/ \E request \in Requests, created \in Clock, n \in Messages : Add(request, created, n)
    \/ Search

Spec == Init /\ [][Next]_vars

-----------------------------------------------------------------------------
TypeOK ==
    /\ store \in Stores
    /\ rows \subseteq MemoryRows
    /\ corrects \subseteq rows \X rows
    /\ kept \subseteq rows

\* All rows have a timestamp or none has.
Homogeneous ==
    \A x, y \in rows : x.occurred = None <=> y.occurred = None

\* "Later" is a strict order on the rows of a user, as long as all of them have a
\* timestamp or none has, whatever ties the clock leaves (service.py 338-348).
LaterIsAnOrder ==
    Homogeneous =>
        \A a, b, c \in rows : IsLater(a, b) =>
            /\ ~ IsLater(b, a)
            /\ IsLater(b, c) => IsLater(a, c)

\* A row is dropped only for a row that is shown and corrects it, if through other
\* rows that are dropped too; so a search that had candidates has an answer, again
\* with timestamps on all rows or on none (service.py 285-335).
DroppedRowsAreCorrected ==
    Homogeneous /\ corrects # {} =>
        \A row \in rows \ kept : kept \cap Correctors(row, rows, corrects) # {}

\* Corrections stay searchable: a search never drops every candidate
\* (service.py 285-335).
CorrectionsStaySearchable ==
    kept # {} \/ corrects = {}
=============================================================================
