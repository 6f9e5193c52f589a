----------------------------- MODULE SqliteAdd ------------------------------
(***************************************************************************)
(* POST /add over SQLite: MemoryDatabase.add of app/db.py, one statement   *)
(* per step.  In WAL mode readers see the last commit (db) while the one   *)
(* connection that holds the write lock works on its own image (tx) of the *)
(* tables; COMMIT publishes it, ROLLBACK or a crash drops it.              *)
(***************************************************************************)
EXTENDS AddHandler

VARIABLES
    writer,      \* the handler that holds the write lock, or None
    tx,          \* the tables as that handler's transaction sees them
    next         \* the ordinal of the message a handler inserts next

storeVars == <<writer, tx, next>>
vars == <<db, pc, req, known, finite, outcome, freeSlots, acked, writer, tx, next>>

ASSUME NoneIsNoHandler == None \notin Handlers

TxStates == {"check", "insert", "commit"}
Rows == Keys \X Nat
Tables ==
    [requests : [Keys -> Payloads \cup {None}], memories : SUBSET Rows,
     memory_fts : SUBSET Rows, embeddings : SUBSET Rows, revision : [Users -> Nat]]

EmptyTables ==
    [requests |-> [key \in Keys |-> None], memories |-> {}, memory_fts |-> {},
     embeddings |-> {}, revision |-> [user \in Users |-> 0]]

Init ==
    /\ HandlerInit
    /\ db = EmptyTables
    /\ writer = None
    /\ tx = EmptyTables
    /\ next = [h \in Handlers |-> 0]

-----------------------------------------------------------------------------
\* BEGIN IMMEDIATE takes the write lock and the current image of the tables.
BeginImmediate(h) ==
    /\ pc[h] = "store"
    /\ writer = None
    /\ writer' = h
    /\ tx' = db
    /\ Goto(h, "check")
    /\ UNCHANGED <<db, req, known, finite, outcome, freeSlots, acked, next>>

\* The busy timeout runs out, as it may while another connection holds the lock, or
\* the database cannot be opened.
BeginFails(h) ==
    /\ pc[h] = "store"
    /\ Finish(h, 500)
    /\ UNCHANGED <<db, req, known, finite, acked>> /\ UNCHANGED storeVars

\* The lock is released and the private image dropped.
EndTransaction(h) ==
    /\ writer' = None
    /\ tx' = EmptyTables
    /\ next' = [next EXCEPT ![h] = 0]

\* ROLLBACK, or the COMMIT of a transaction that wrote nothing.
EndUnchanged(h, status) ==
    /\ EndTransaction(h)
    /\ Finish(h, status)
    /\ UNCHANGED <<db, req, known, finite, acked>>

\* Mutant: a retry found under the lock counts as a write of its user.
CheckExistingBumps(h) ==
    LET key == req[h].key
        payload == req[h].payload
    IN  /\ pc[h] = "check"
        /\ \/ /\ tx.requests[key] = payload
              /\ db' = [tx EXCEPT !.revision[UserOf[key]] = @ + 1]
              /\ EndTransaction(h)
              /\ Finish(h, 200)
              /\ UNCHANGED <<req, known, finite, acked>>
           \/ /\ tx.requests[key] \notin {None, payload}
              /\ EndUnchanged(h, 409)
           \/ /\ tx.requests[key] = None
              /\ tx' = [tx EXCEPT !.requests[key] = payload]
              /\ Goto(h, "insert")
              /\ next' = [next EXCEPT ![h] = 0]
              /\ UNCHANGED <<db, req, known, finite, outcome, freeSlots, acked, writer>>

\* Mutant: whatever is found under the lock is a conflict, as it would be if the
\* primary key alone told.
CheckExistingConflicts(h) ==
    LET key == req[h].key
    IN  /\ pc[h] = "check"
        /\ \/ /\ tx.requests[key] # None
              /\ EndUnchanged(h, 409)
           \/ /\ tx.requests[key] = None
              /\ tx' = [tx EXCEPT !.requests[key] = req[h].payload]
              /\ Goto(h, "insert")
              /\ next' = [next EXCEPT ![h] = 0]
              /\ UNCHANGED <<db, req, known, finite, outcome, freeSlots, acked, writer>>

\* Mutant: the early look at the status is trusted, and the row replaced.
CheckExistingOverwrites(h) ==
    /\ pc[h] = "check"
    /\ tx' = [tx EXCEPT !.requests[req[h].key] = req[h].payload]
    /\ Goto(h, "insert")
    /\ next' = [next EXCEPT ![h] = 0]
    /\ UNCHANGED <<db, req, known, finite, outcome, freeSlots, acked, writer>>

\* The key was free when its status was read; it is looked up again under the
\* lock, and the request row is the first one written.
CheckExisting(h) ==
    LET key == req[h].key
        payload == req[h].payload
    IN  /\ pc[h] = "check"
        /\ \/ /\ tx.requests[key] = payload
              /\ EndUnchanged(h, 200)
           \/ /\ tx.requests[key] \notin {None, payload}
              /\ EndUnchanged(h, 409)
           \/ /\ tx.requests[key] = None
              /\ tx' = [tx EXCEPT !.requests[key] = payload]
              /\ Goto(h, "insert")
              /\ next' = [next EXCEPT ![h] = 0]
              /\ UNCHANGED <<db, req, known, finite, outcome, freeSlots, acked, writer>>

\* The three rows of one message.
InsertMessage(h) ==
    LET row == <<req[h].key, next[h]>>
    IN  /\ pc[h] = "insert"
        /\ next[h] < finite[h]
        /\ tx' = [tx EXCEPT !.memories = @ \cup {row},
                            !.memory_fts = @ \cup {row},
                            !.embeddings = @ \cup {row}]
        /\ next' = [next EXCEPT ![h] = @ + 1]
        /\ UNCHANGED <<db, pc, req, known, finite, outcome, freeSlots, acked, writer>>

\* The vector of the next message is unusable: its memory and index rows are
\* already written, and go with the transaction.
RejectVector(h) ==
    /\ pc[h] = "insert"
    /\ next[h] = finite[h]
    /\ next[h] < MessageCount[req[h].payload]
    /\ EndUnchanged(h, 409)

BumpRevision(h) ==
    /\ pc[h] = "insert"
    /\ next[h] = MessageCount[req[h].payload]
    /\ tx' = [tx EXCEPT !.revision[UserOf[req[h].key]] = @ + 1]
    /\ Goto(h, "commit")
    /\ UNCHANGED <<db, req, known, finite, outcome, freeSlots, acked, writer, next>>

\* Mutant: the connection is closed without a COMMIT.
CommitForgotten(h) ==
    /\ pc[h] = "commit"
    /\ EndUnchanged(h, 200)

Commit(h) ==
    /\ pc[h] = "commit"
    /\ db' = tx
    /\ EndTransaction(h)
    /\ Finish(h, 200)
    /\ UNCHANGED <<req, known, finite, acked>>

\* Mutant: a failure keeps the rows written so far.
StatementFailsKeepsRows(h) ==
    /\ pc[h] \in TxStates
    /\ db' = tx
    /\ EndTransaction(h)
    /\ Finish(h, 500)
    /\ UNCHANGED <<req, known, finite, acked>>

\* Any statement of the transaction raises: disk full, I/O error.
StatementFails(h) ==
    /\ pc[h] \in TxStates
    /\ EndUnchanged(h, 500)

\* A crash of the writer's process drops the transaction with its connection.
ProcessCrash(p) ==
    /\ Crash(p)
    /\ next' = [h \in Handlers |-> IF ProcessOf[h] = p THEN 0 ELSE next[h]]
    /\ IF \E h \in Handlers : writer = h /\ ProcessOf[h] = p
       THEN writer' = None /\ tx' = EmptyTables
       ELSE UNCHANGED <<writer, tx>>

StoreStep(h) ==
    \/ BeginImmediate(h)
    \/ BeginFails(h)
    \/ CheckExisting(h)
    \/ InsertMessage(h)
    \/ RejectVector(h)
    \/ BumpRevision(h)
    \/ Commit(h)
    \/ StatementFails(h)

HandlerStep(h) ==
    \/ FrontStep(h) /\ UNCHANGED storeVars
    \/ StoreStep(h)

Next ==
    \/ \E h \in Handlers :
        \/ Receive(h) /\ UNCHANGED storeVars
        \/ AcquireSlot(h) /\ UNCHANGED storeVars
        \/ HandlerStep(h)
    \/ \E p \in Processes : ProcessCrash(p)

Spec == Init /\ [][Next]_vars

\* A thread that can run does; a model call ends (its attempts and timeouts
\* are bounded); a thread that waits for a slot or for the write lock gets it
\* or times out.  Nothing obliges a client to send, a process to crash.
Fairness ==
    \A h \in Handlers :
        /\ WF_vars(HandlerStep(h))
        /\ SF_vars(AcquireSlot(h) /\ UNCHANGED storeVars)

FairSpec == Spec /\ Fairness

-----------------------------------------------------------------------------
TypeOK ==
    /\ db \in Tables
    /\ tx \in Tables
    /\ pc \in [Handlers -> FrontStates \cup {"store"} \cup TxStates]
    /\ req \in [Handlers -> Requests \cup {None}]
    /\ known \in [Handlers -> BOOLEAN]
    /\ finite \in [Handlers -> Nat]
    /\ outcome \in [Handlers -> Statuses]
    /\ freeSlots \in [Processes -> Nat]
    /\ acked \in SUBSET Requests
    /\ writer \in Handlers \cup {None}
    /\ next \in [Handlers -> Nat]

\* An Add is all or nothing: what any reader can see of the memory, full-text
\* and embedding tables is exactly the messages of the stored requests,
\* whatever failed, timed out or crashed half way (db.py 149-230).
AllOrNothing ==
    /\ db.memories = StoredRows(db.requests)
    /\ db.memory_fts = db.memories
    /\ db.embeddings = db.memories

\* The revision that keys the search cache ticks once per stored request, and
\* neither a retry nor a failed attempt moves it (db.py 220-224).
RevisionCountsRequests ==
    \A user \in Users :
        db.revision[user] =
            Cardinality({key \in Keys : UserOf[key] = user /\ db.requests[key] # None})

\* A client that saw 200 has its own payload in the database, for good: through
\* crashes, retries and conflicting requests (main.py 325-336).
AckedIsStored == \A r \in acked : db.requests[r.key] = r.payload

\* 409 is answered only when another payload owns the key, or the request's own
\* vectors were unusable; racing first attempts of one request never conflict
\* with each other (db.py 154-159, main.py 330).
ConflictIsJustified ==
    \A h \in Handlers :
        pc[h] = "done" /\ outcome[h] = 409 =>
            \/ db.requests[req[h].key] \notin {None, req[h].payload}
            \/ finite[h] < MessageCount[req[h].payload]

\* A retry of a request that was already stored when it arrived never reaches a
\* model endpoint or the store's transaction, however long it waited for its
\* slot, and is told so unless the store cannot be read (service.py 106-113).
ReplaySkipsModels ==
    \A h \in Handlers :
        known[h] =>
            \/ pc[h] \in {"queued", "status"}
            \/ pc[h] = "done" /\ outcome[h] \in {200, 500}

\* At most AddConcurrency handlers of a process are past the semaphore, and every
\* slot comes back, on each way out of the handler and after a crash
\* (service.py 91, 101-103).
SlotsConserved ==
    \A p \in Processes : freeSlots[p] + Cardinality(InSlot(p)) = AddConcurrency

\* SqliteAdd implements the request ledger: a key's payload, rows and revision
\* tick appear in one step, once, and only a stored payload is acknowledged.
Ledger ==
    INSTANCE RequestLedger WITH ledger <- db.requests, rows <- db.memories, revision <- db.revision

ImplementsLedger == Ledger!Spec

\* Whatever its request meets, a handler answers or dies with its process: no
\* slot leaks, no lock is kept, nobody waits for ever (service.py 101-113).
EveryAddAnswered ==
    \A h \in Handlers : pc[h] # "idle" ~> pc[h] = "idle"
=============================================================================
