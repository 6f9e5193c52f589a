--------------------------- MODULE SessionWindows ---------------------------
(***************************************************************************)
(* The context a search shows around a memory: neighbors and               *)
(* neighbor_windows of the two stores, which order the rows of a session   *)
(* each in its own way and cut out the rows next to one; and _windows of   *)
(* app/service.py, which shows them in a third order, source_order of      *)
(* app/db.py.  Every caller asks for a radius of one row.                  *)
(***************************************************************************)
EXTENDS Supersession, Functions

CONSTANTS
    SessionOf,  \* the session each request adds to
    ChunkOf,    \* the chunk number a request_id names; a great number if none
    IdRank      \* where the hash ids of the rows fall in string order

Ordinals == UNION {0 .. n - 1 : n \in Messages}

ASSUME WindowAssumption ==
    /\ SessionOf \in [Requests -> Nat]
    /\ ChunkOf \in [Requests -> Nat]
    /\ IdRank \in Injection(Requests \X Ordinals, Nat)

Chunk(row) == ChunkOf[row.request]

\* Both orders take a row without a timestamp as one of the time 0.
Stamp(row) == IF row.occurred = None THEN 0 ELSE row.occurred

Id(row) == IdRank[<<row.request, row.ordinal>>]

-----------------------------------------------------------------------------
\* ORDER BY COALESCE(occurred_at, 0), ordinal, rowid: the chunk does not count.
SqliteBefore(x, y) ==
    IF Stamp(x) # Stamp(y) THEN Stamp(x) < Stamp(y)
    ELSE IF x.ordinal # y.ordinal THEN x.ordinal < y.ordinal
    ELSE x.row_id < y.row_id

\* Mutant: the SQL order of the query, which knows no chunks.
PostgresBeforeUnsorted(x, y) ==
    IF Stamp(x) # Stamp(y) THEN Stamp(x) < Stamp(y)
    ELSE IF x.created # y.created THEN x.created < y.created
    ELSE IF x.ordinal # y.ordinal THEN x.ordinal < y.ordinal
    ELSE Id(x) < Id(y)

\* Mutant: the messages of a request in the order of their hash ids.
PostgresBeforeById(x, y) ==
    IF Chunk(x) # Chunk(y) THEN Chunk(x) < Chunk(y)
    ELSE IF Stamp(x) # Stamp(y) THEN Stamp(x) < Stamp(y)
    ELSE IF x.created # y.created THEN x.created < y.created
    ELSE Id(x) < Id(y)

\* The rows are sorted again by chunk, timestamp, created_at, ordinal and id.
PostgresBefore(x, y) ==
    IF Chunk(x) # Chunk(y) THEN Chunk(x) < Chunk(y)
    ELSE IF Stamp(x) # Stamp(y) THEN Stamp(x) < Stamp(y)
    ELSE IF x.created # y.created THEN x.created < y.created
    ELSE IF x.ordinal # y.ordinal THEN x.ordinal < y.ordinal
    ELSE Id(x) < Id(y)

StoredBefore(x, y) ==
    IF store = "sqlite" THEN SqliteBefore(x, y) ELSE PostgresBefore(x, y)

SessionRows(seed) == {row \in rows : SessionOf[row.request] = SessionOf[seed.request]}

\* The seed and the rows on either side of it, in the order of the store.
Window(seed) ==
    {row \in SessionRows(seed) :
        ~ \E between \in SessionRows(seed) :
            \/ StoredBefore(row, between) /\ StoredBefore(between, seed)
            \/ StoredBefore(seed, between) /\ StoredBefore(between, row)}

\* source_order, which reads Postgres' row_id as 0; the sort is stable, so the
\* order of the store decides between rows it does not tell apart.
ShownBefore(x, y) ==
    IF Chunk(x) # Chunk(y) THEN Chunk(x) < Chunk(y)
    ELSE IF Stamp(x) # Stamp(y) THEN Stamp(x) < Stamp(y)
    ELSE IF x.ordinal # y.ordinal THEN x.ordinal < y.ordinal
    ELSE IF x.row_id # y.row_id THEN x.row_id < y.row_id
    ELSE StoredBefore(x, y)

-----------------------------------------------------------------------------
\* The store, the display and the judgement of corrections each order the rows of a
\* request in a way of their own; between two rows that have both a timestamp or
\* neither they agree, so that a reader sees a correction after what it corrects
\* (service.py 338-348, db.py 38-42, postgres_db.py 367-369).
OrdersAgreeWithinARequest ==
    \A x, y \in rows :
        x.request = y.request /\ (x.occurred = None <=> y.occurred = None) =>
            /\ IsLater(y, x) <=> ShownBefore(x, y)
            /\ IsLater(y, x) <=> StoredBefore(x, y)

\* A window that shows two rows and hides one that belongs between them spans two
\* chunks, over SQLite; over Postgres, the hidden row is of another request, with the
\* chunk and the timestamp of one of the two and another created_at
\* (service.py 417-444, db.py 369-417, postgres_db.py 315-369).
WindowsHideOnlyOtherRequests ==
    \A seed \in rows : \A x, y \in Window(seed) : \A hidden \in SessionRows(seed) \ Window(seed) :
        ShownBefore(x, hidden) /\ ShownBefore(hidden, y) =>
            IF store = "sqlite" THEN Chunk(x) # Chunk(y)
            ELSE \E row \in {x, y} :
                    /\ row.created # hidden.created
                    /\ Chunk(row) = Chunk(hidden)
                    /\ Stamp(row) = Stamp(hidden)
=============================================================================
