---------------------------- MODULE PostgresAdd -----------------------------
(***************************************************************************)
(* POST /add over Postgres: PostgresMemoryDatabase.add of                  *)
(* app/postgres_db.py at READ COMMITTED, one statement per step.  Several  *)
(* transactions run at once; what orders them is the unique index on       *)
(* requests, where an INSERT waits for another's uncommitted row, and the  *)
(* row lock on user_revisions.  Connections come from a pool per process.  *)
(***************************************************************************)
EXTENDS AddHandler

CONSTANT PoolSize       \* DB_POOL_MAX

ASSUME PoolAssumption == PoolSize \in Nat \ {0} /\ None \notin Handlers

VARIABLES
    connections,  \* the free connections of each process's pool
    keyHolder,    \* the handler whose uncommitted request row holds a key
    userHolder,   \* the handler that has locked a user's revision row
    next          \* how many messages a handler's transaction has inserted

storeVars == <<connections, keyHolder, userHolder, next>>
vars == <<db, pc, req, known, finite, outcome, freeSlots, acked,
          connections, keyHolder, userHolder, next>>

TxStates == {"claim", "compare", "insert", "commit"}
Tables ==
    [requests : [Keys -> Payloads \cup {None}], memories : SUBSET (Keys \X Nat),
     embeddings : SUBSET (Keys \X Nat), revision : [Users -> Nat]]

EmptyTables ==
    [requests |-> [key \in Keys |-> None], memories |-> {}, embeddings |-> {},
     revision |-> [user \in Users |-> 0]]

Init ==
    /\ HandlerInit
    /\ db = EmptyTables
    /\ connections = [p \in Processes |-> PoolSize]
    /\ keyHolder = [key \in Keys |-> None]
    /\ userHolder = [user \in Users |-> None]
    /\ next = [h \in Handlers |-> 0]

-----------------------------------------------------------------------------
\* request_status holds a connection for its one SELECT.
CheckStatusPooled(h) ==
    /\ connections[ProcessOf[h]] > 0
    /\ CheckStatus(h)
    /\ UNCHANGED storeVars

\* The pool gives no connection within its timeout: all are lent, or the server
\* cannot be reached.
PoolTimeout(h) ==
    /\ pc[h] \in {"status", "store"}
    /\ Finish(h, 500)
    /\ UNCHANGED <<db, req, known, finite, acked>> /\ UNCHANGED storeVars

\* Mutant: the pool lends more connections than it has.
BorrowUnguarded(h) ==
    /\ pc[h] = "store"
    /\ connections' = [connections EXCEPT ![ProcessOf[h]] = @ - 1]
    /\ Goto(h, "claim")
    /\ UNCHANGED <<db, req, known, finite, outcome, freeSlots, acked,
                   keyHolder, userHolder, next>>

Borrow(h) ==
    /\ pc[h] = "store"
    /\ connections[ProcessOf[h]] > 0
    /\ connections' = [connections EXCEPT ![ProcessOf[h]] = @ - 1]
    /\ Goto(h, "claim")
    /\ UNCHANGED <<db, req, known, finite, outcome, freeSlots, acked,
                   keyHolder, userHolder, next>>

\* Mutant: the insert does not wait for another transaction's row.
ClaimKeyUnlocked(h) ==
    LET key == req[h].key
    IN  /\ pc[h] = "claim"
        /\ \/ /\ db.requests[key] = None
              /\ keyHolder' = [keyHolder EXCEPT ![key] = h]
              /\ Goto(h, "insert")
           \/ /\ db.requests[key] # None
              /\ Goto(h, "compare")
              /\ UNCHANGED keyHolder
        /\ UNCHANGED <<db, req, known, finite, outcome, freeSlots, acked,
                       connections, userHolder, next>>

\* INSERT INTO requests ... ON CONFLICT DO NOTHING waits until no other
\* transaction holds the key; then the row is new, or nothing is inserted.
ClaimKey(h) ==
    LET key == req[h].key
    IN  /\ pc[h] = "claim"
        /\ keyHolder[key] = None
        /\ \/ /\ db.requests[key] = None
              /\ keyHolder' = [keyHolder EXCEPT ![key] = h]
              /\ Goto(h, "insert")
           \/ /\ db.requests[key] # None
              /\ Goto(h, "compare")
              /\ UNCHANGED keyHolder
        /\ UNCHANGED <<db, req, known, finite, outcome, freeSlots, acked,
                       connections, userHolder, next>>

\* Mutant: leaving the "with" block forgets the connection.
EndTransactionLeaks(h) ==
    /\ keyHolder' = [key \in Keys |-> IF keyHolder[key] = h THEN None ELSE keyHolder[key]]
    /\ userHolder' = [u \in Users |-> IF userHolder[u] = h THEN None ELSE userHolder[u]]
    /\ next' = [next EXCEPT ![h] = 0]
    /\ UNCHANGED connections

\* Mutant: the connection goes back with its transaction, and its locks, open.
EndTransactionOpen(h) ==
    /\ connections' = [connections EXCEPT ![ProcessOf[h]] = @ + 1]
    /\ next' = [next EXCEPT ![h] = 0]
    /\ UNCHANGED <<keyHolder, userHolder>>

\* The "with" blocks end: commit or rollback frees the locks, and the connection
\* goes back to the pool.
EndTransaction(h) ==
    /\ connections' = [connections EXCEPT ![ProcessOf[h]] = @ + 1]
    /\ keyHolder' = [key \in Keys |-> IF keyHolder[key] = h THEN None ELSE keyHolder[key]]
    /\ userHolder' = [u \in Users |-> IF userHolder[u] = h THEN None ELSE userHolder[u]]
    /\ next' = [next EXCEPT ![h] = 0]

EndUnchanged(h, status) ==
    /\ EndTransaction(h)
    /\ Finish(h, status)
    /\ UNCHANGED <<db, req, known, finite, acked>>

\* Mutant: a key that is taken is a conflict, whatever it was taken with.
CompareNothing(h) ==
    /\ pc[h] = "compare"
    /\ EndUnchanged(h, 409)

\* Nothing was inserted: the stored payload tells a retry from a conflict.
Compare(h) ==
    /\ pc[h] = "compare"
    /\ EndUnchanged(h, IF db.requests[req[h].key] = req[h].payload THEN 200 ELSE 409)

\* The two rows of one message.
InsertMessage(h) ==
    /\ pc[h] = "insert"
    /\ next[h] < finite[h]
    /\ next' = [next EXCEPT ![h] = @ + 1]
    /\ UNCHANGED <<db, pc, req, known, finite, outcome, freeSlots, acked,
                   connections, keyHolder, userHolder>>

RejectVector(h) ==
    /\ pc[h] = "insert"
    /\ next[h] = finite[h]
    /\ next[h] < MessageCount[req[h].payload]
    /\ EndUnchanged(h, 409)

\* The upsert of the revision waits for the row lock; it reads the committed
\* revision once it has it.
BumpRevision(h) ==
    LET user == UserOf[req[h].key]
    IN  /\ pc[h] = "insert"
        /\ next[h] = MessageCount[req[h].payload]
        /\ userHolder[user] = None
        /\ userHolder' = [userHolder EXCEPT ![user] = h]
        /\ Goto(h, "commit")
        /\ UNCHANGED <<db, req, known, finite, outcome, freeSlots, acked,
                       connections, keyHolder, next>>

\* What the tables are with a handler's transaction in them.
Committed(h) ==
    LET key == req[h].key
        rows == {key} \X (0 .. next[h] - 1)
    IN  [db EXCEPT !.requests[key] = req[h].payload,
                   !.memories = @ \cup rows,
                   !.embeddings = @ \cup rows,
                   !.revision[UserOf[key]] = @ + 1]

\* Mutant: the pool's connections never commit by themselves.
CommitForgotten(h) ==
    /\ pc[h] = "commit"
    /\ EndUnchanged(h, 200)

\* The commit at the end of the "with" block, whose answer may be lost with the
\* connection.
Commit(h) ==
    /\ pc[h] = "commit"
    /\ db' = Committed(h)
    /\ EndTransaction(h)
    /\ \E status \in {200, 500} : Finish(h, status)
    /\ UNCHANGED <<req, known, finite, acked>>

\* Mutant: statements commit one by one, so a failure leaves what went before.
StatementFailsKeepsRows(h) ==
    /\ pc[h] \in TxStates
    /\ db' = IF pc[h] = "insert" THEN Committed(h) ELSE db
    /\ EndTransaction(h)
    /\ Finish(h, 500)
    /\ UNCHANGED <<req, known, finite, acked>>

\* A statement, also one that waits for a lock, fails: the connection or the
\* server is lost.
StatementFails(h) ==
    /\ pc[h] \in TxStates
    /\ EndUnchanged(h, 500)

\* A process dies: the server rolls its transactions back, the new pool is full.
ProcessCrash(p) ==
    LET dead == {h \in Handlers : ProcessOf[h] = p}
    IN  /\ Crash(p)
        /\ connections' = [connections EXCEPT ![p] = PoolSize]
        /\ keyHolder' = [key \in Keys |->
                            IF keyHolder[key] \in dead THEN None ELSE keyHolder[key]]
        /\ userHolder' = [user \in Users |->
                            IF userHolder[user] \in dead THEN None ELSE userHolder[user]]
        /\ next' = [h \in Handlers |-> IF h \in dead THEN 0 ELSE next[h]]

StoreStep(h) ==
    \/ CheckStatusPooled(h)
    \/ PoolTimeout(h)
    \/ Borrow(h)
    \/ ClaimKey(h)
    \/ Compare(h)
    \/ InsertMessage(h)
    \/ RejectVector(h)
    \/ BumpRevision(h)
    \/ Commit(h)

HandlerStep(h) ==
    \/ Annotate(h) /\ UNCHANGED storeVars
    \/ Embed(h) /\ UNCHANGED storeVars
    \/ ModelUnavailable(h) /\ UNCHANGED storeVars
    \/ Respond(h) /\ UNCHANGED storeVars
    \/ StoreStep(h)

Next ==
    \/ \E h \in Handlers :
        \/ Receive(h) /\ UNCHANGED storeVars
        \/ AcquireSlot(h) /\ UNCHANGED storeVars
        \/ HandlerStep(h)
        \/ StatementFails(h)
    \/ \E p \in Processes : ProcessCrash(p)

Spec == Init /\ [][Next]_vars

\* A thread that can take its next step again and again takes it: the semaphore wakes
\* those who wait for it, the server queues those who wait for a lock, and nothing
\* makes a statement fail.
Fairness ==
    \A h \in Handlers : SF_vars(HandlerStep(h) \/ (AcquireSlot(h) /\ UNCHANGED storeVars))

FairSpec == Spec /\ Fairness

-----------------------------------------------------------------------------
TypeOK ==
    /\ db \in Tables
    /\ pc \in [Handlers -> FrontStates \cup {"store"} \cup TxStates]
    /\ req \in [Handlers -> Requests \cup {None}]
    /\ known \in [Handlers -> BOOLEAN]
    /\ finite \in [Handlers -> Nat]
    /\ outcome \in [Handlers -> Statuses]
    /\ freeSlots \in [Processes -> Nat]
    /\ acked \in SUBSET Requests
    /\ connections \in [Processes -> Nat]
    /\ keyHolder \in [Keys -> Handlers \cup {None}]
    /\ userHolder \in [Users -> Handlers \cup {None}]
    /\ next \in [Handlers -> Nat]

\* The rows any connection can read are those of the stored requests, all of
\* them, with an embedding each (postgres_db.py 60-146).
AllOrNothing ==
    /\ db.memories = StoredRows(db.requests)
    /\ db.embeddings = db.memories

\* A user's revision ticks once for each stored request, though Adds of that user,
\* and attempts of one request, run side by side (postgres_db.py 72-97, 141-146).
RevisionCountsRequests ==
    \A user \in Users :
        db.revision[user] =
            Cardinality({key \in Keys : UserOf[key] = user /\ db.requests[key] # None})

\* As over SQLite, what was answered 200 is stored and stays.
AckedIsStored == \A r \in acked : db.requests[r.key] = r.payload

\* Of identical Adds that race for a key, none is told of a conflict
\* (postgres_db.py 72-97).
ConflictIsJustified ==
    \A h \in Handlers :
        pc[h] = "done" /\ outcome[h] = 409 =>
            \/ db.requests[req[h].key] \notin {None, req[h].payload}
            \/ finite[h] < MessageCount[req[h].payload]

\* A handler holds one connection at most, and each one comes back
\* (postgres_db.py 21-35, 71).
ConnectionsConserved ==
    \A p \in Processes :
        connections[p] + Cardinality({h \in Handlers : ProcessOf[h] = p /\ pc[h] \in TxStates})
            = PoolSize

\* A handler cannot go on before another one, or it itself, gives something back.
WaitsFor(h, g) ==
    \/ /\ pc[h] = "queued"
       /\ freeSlots[ProcessOf[h]] = 0
       /\ g \in InSlot(ProcessOf[h])
    \/ /\ pc[h] \in {"status", "store"}
       /\ connections[ProcessOf[h]] = 0
       /\ ProcessOf[g] = ProcessOf[h]
       /\ pc[g] \in TxStates
    \/ pc[h] = "claim" /\ keyHolder[req[h].key] = g
    \/ /\ pc[h] = "insert"
       /\ next[h] = MessageCount[req[h].payload]
       /\ userHolder[UserOf[req[h].key]] = g

\* Handlers that wait for slots, connections, request keys and revisions never wait
\* for each other in a circle: among any of them one waits for none of the others
\* (service.py 98-151, postgres_db.py 21-35, 60-146).
NobodyWaitsInACircle ==
    \A S \in (SUBSET Handlers) \ {{}} : \E h \in S : \A g \in S : ~ WaitsFor(h, g)

\* PostgresAdd implements the same ledger as SqliteAdd does.
Ledger ==
    INSTANCE RequestLedger WITH ledger <- db.requests, rows <- db.memories, revision <- db.revision

ImplementsLedger == Ledger!Spec

\* Whatever a handler has to wait for, it answers in the end (service.py 98-151,
\* postgres_db.py 60-146).
EveryAddAnswered ==
    \A h \in Handlers : pc[h] # "idle" ~> pc[h] = "idle"
=============================================================================
