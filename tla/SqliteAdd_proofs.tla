-------------------------- MODULE SqliteAdd_proofs --------------------------
(***************************************************************************)
(* The safety of SqliteAdd for any handlers, processes, keys and payloads, *)
(* and its implementation of RequestLedger.                                *)
(***************************************************************************)
EXTENDS SqliteAdd, FiniteSetTheorems, TLAPS

\* The image of a transaction against the committed tables: equal until the
\* request row is written, then ahead by that row and the messages inserted so
\* far, and at the end by the whole request and one tick of its user's revision.
Ahead(h, count) ==
    LET key == req[h].key
        inserted == {key} \X (0 .. count - 1)
    IN  /\ db.requests[key] = None
        /\ tx.requests = [db.requests EXCEPT ![key] = req[h].payload]
        /\ tx.memories = db.memories \cup inserted
        /\ tx.memory_fts = db.memory_fts \cup inserted
        /\ tx.embeddings = db.embeddings \cup inserted

TxImage(h) ==
    /\ pc[h] = "check" => tx = db
    /\ pc[h] = "insert" =>
        /\ Ahead(h, next[h])
        /\ next[h] <= MessageCount[req[h].payload]
        /\ tx.revision = db.revision
    /\ pc[h] = "commit" =>
        /\ Ahead(h, MessageCount[req[h].payload])
        /\ tx.revision = [db.revision EXCEPT ![UserOf[req[h].key]] = @ + 1]

Stored(h) == db.requests[req[h].key] = req[h].payload

\* What a handler knows where it stands.
HandlerInv(h) ==
    /\ pc[h] # "idle" => req[h] \in Requests
    /\ known[h] =>
        /\ Stored(h)
        /\ \/ pc[h] \in {"queued", "status"}
           \/ pc[h] = "done" /\ outcome[h] \in {200, 500}
    /\ pc[h] \in {"store"} \cup TxStates => finite[h] <= MessageCount[req[h].payload]
    /\ pc[h] = "done" /\ outcome[h] = 200 => Stored(h)
    /\ pc[h] = "done" /\ outcome[h] = 409 =>
        \/ db.requests[req[h].key] \notin {None, req[h].payload}
        \/ finite[h] < MessageCount[req[h].payload]

\* Exactly the holder of the write lock is inside a transaction.
LockInv == \A h \in Handlers : pc[h] \in TxStates <=> writer = h

IInv ==
    /\ TypeOK
    /\ LockInv
    /\ \A h \in Handlers : HandlerInv(h)
    /\ \A h \in Handlers : TxImage(h)
    /\ AllOrNothing
    /\ AckedIsStored

-----------------------------------------------------------------------------
(***************************************************************************)
(* Types                                                                   *)
(***************************************************************************)
LEMMA EmptyTablesType == EmptyTables \in Tables
BY DEF EmptyTables, Tables

\* Handlers that forget their request are idle; the others keep their types.
LEMMA ForgetTypes ==
    ASSUME TypeOK, NEW hs, Forget(hs)
    PROVE  /\ pc' \in [Handlers -> FrontStates \cup {"store"} \cup TxStates]
           /\ req' \in [Handlers -> Requests \cup {None}]
           /\ known' \in [Handlers -> BOOLEAN]
           /\ finite' \in [Handlers -> Nat]
           /\ outcome' \in [Handlers -> Statuses]
<1>1. pc' \in [Handlers -> FrontStates \cup {"store"} \cup TxStates]
  BY DEF TypeOK, Forget, FrontStates
<1>2. req' \in [Handlers -> Requests \cup {None}]
  BY DEF TypeOK, Forget
<1>3. known' \in [Handlers -> BOOLEAN]
  BY DEF TypeOK, Forget
<1>4. finite' \in [Handlers -> Nat] /\ outcome' \in [Handlers -> Statuses]
  BY DEF TypeOK, Forget, Statuses
<1> QED BY <1>1, <1>2, <1>3, <1>4

\* Every step keeps every variable in its type, when a handler that is not idle
\* holds a request.
LEMMA TypeStep ==
    ASSUME TypeOK, \A h \in Handlers : HandlerInv(h), [Next]_vars
    PROVE  TypeOK'
<1> USE HandlersAssumption, RequestsAssumption
<1>1. ASSUME NEW h \in Handlers, Receive(h), UNCHANGED storeVars PROVE TypeOK'
  BY <1>1 DEF TypeOK, Receive, Goto, storeVars, FrontStates
<1>2. ASSUME NEW h \in Handlers, AcquireSlot(h), UNCHANGED storeVars PROVE TypeOK'
  BY <1>2 DEF TypeOK, AcquireSlot, Goto, storeVars, FrontStates
<1>3. ASSUME NEW h \in Handlers, CheckStatus(h), UNCHANGED storeVars PROVE TypeOK'
  BY <1>3 DEF TypeOK, CheckStatus, Finish, Goto, storeVars, FrontStates, Statuses
<1>4. ASSUME NEW h \in Handlers, Annotate(h), UNCHANGED storeVars PROVE TypeOK'
  BY <1>4 DEF TypeOK, Annotate, Goto, storeVars, FrontStates
<1>5. ASSUME NEW h \in Handlers, Embed(h), UNCHANGED storeVars PROVE TypeOK'
  BY <1>5 DEF TypeOK, HandlerInv, Requests, Embed, Goto, storeVars, FrontStates
<1>6. ASSUME NEW h \in Handlers, ModelUnavailable(h), UNCHANGED storeVars PROVE TypeOK'
  BY <1>6 DEF TypeOK, ModelUnavailable, Finish, Goto, storeVars, FrontStates, Statuses
<1>7. ASSUME NEW h \in Handlers, Respond(h), UNCHANGED storeVars PROVE TypeOK'
  <2>1. acked' \in SUBSET Requests
    BY <1>7 DEF TypeOK, HandlerInv, Respond
  <2>2. UNCHANGED <<db, freeSlots, storeVars>>
    BY <1>7 DEF Respond
  <2> QED BY <1>7, <2>1, <2>2, ForgetTypes DEF TypeOK, Respond, storeVars
<1>8. ASSUME NEW h \in Handlers, BeginImmediate(h) PROVE TypeOK'
  BY <1>8 DEF TypeOK, BeginImmediate, Goto, TxStates
<1>9. ASSUME NEW h \in Handlers, BeginFails(h) PROVE TypeOK'
  BY <1>9 DEF TypeOK, BeginFails, Finish, Goto, storeVars, FrontStates, Statuses
<1>10. ASSUME NEW h \in Handlers, NEW status \in Statuses, EndUnchanged(h, status)
       PROVE TypeOK'
  BY <1>10, EmptyTablesType
     DEF TypeOK, EndUnchanged, EndTransaction, Finish, Goto, FrontStates
<1>11. ASSUME NEW h \in Handlers, CheckExisting(h) PROVE TypeOK'
  <2>1. CASE tx.requests[req[h].key] # None
    BY <1>11, <1>10, <2>1 DEF CheckExisting, Statuses
  <2>2. CASE tx.requests[req[h].key] = None
    <3>1. req[h] \in Requests /\ req[h].payload \in Payloads
      BY <1>11 DEF CheckExisting, HandlerInv, Requests
    <3>2. tx' = [tx EXCEPT !.requests[req[h].key] = req[h].payload]
          /\ pc' = [pc EXCEPT ![h] = "insert"]
          /\ next' = [next EXCEPT ![h] = 0]
          /\ UNCHANGED <<db, req, known, finite, outcome, freeSlots, acked, writer>>
      BY <1>11, <2>2, <3>1 DEF CheckExisting, Goto
    <3>3. tx' \in Tables
      BY <3>1, <3>2 DEF TypeOK, Tables
    <3> QED BY <3>2, <3>3 DEF TypeOK, TxStates
  <2> QED BY <2>1, <2>2
<1>12. ASSUME NEW h \in Handlers, InsertMessage(h) PROVE TypeOK'
  <2>1. <<req[h].key, next[h]>> \in Rows
    BY <1>12 DEF InsertMessage, HandlerInv, Requests, Rows, TypeOK
  <2>2. tx' \in Tables
    BY <1>12, <2>1 DEF InsertMessage, TypeOK, Tables
  <2> QED BY <1>12, <2>2 DEF InsertMessage, TypeOK
<1>13. ASSUME NEW h \in Handlers, BumpRevision(h) PROVE TypeOK'
  <2>1. tx' \in Tables
    <3>1. UserOf[req[h].key] \in Users
      BY <1>13 DEF BumpRevision, HandlerInv, Requests
    <3>2. tx' = [tx EXCEPT !.revision[UserOf[req[h].key]] = @ + 1]
      BY <1>13 DEF BumpRevision
    <3> DEFINE bumped == [tx.revision EXCEPT ![UserOf[req[h].key]] = @ + 1]
    <3>3. tx \in Tables
      BY DEF TypeOK
    <3>4. tx.revision \in [Users -> Nat]
      BY <3>3 DEF Tables
    <3>5. bumped \in [Users -> Nat]
      BY <3>1, <3>4
    <3>6. tx' = [tx EXCEPT !.revision = bumped]
      BY <3>2
    <3> HIDE DEF bumped
    <3> QED BY <3>3, <3>5, <3>6 DEF Tables
  <2> QED BY <1>13, <2>1 DEF BumpRevision, Goto, TypeOK, TxStates
<1>14. ASSUME NEW h \in Handlers, Commit(h) PROVE TypeOK'
  BY <1>14, EmptyTablesType DEF TypeOK, Commit, EndTransaction, Finish, Goto, FrontStates, Statuses
<1>15. ASSUME NEW p \in Processes, ProcessCrash(p) PROVE TypeOK'
  <2>1. writer' \in Handlers \cup {None} /\ tx' \in Tables /\ next' \in [Handlers -> Nat]
    BY <1>15, EmptyTablesType DEF TypeOK, ProcessCrash
  <2>2. freeSlots' \in [Processes -> Nat] /\ UNCHANGED <<db, acked>>
    BY <1>15 DEF TypeOK, ProcessCrash, Crash
  <2> QED BY <1>15, <2>1, <2>2, ForgetTypes DEF TypeOK, ProcessCrash, Crash
<1>16. CASE UNCHANGED vars
  BY <1>16 DEF TypeOK, vars
<1> QED
  BY <1>1, <1>2, <1>3, <1>4, <1>5, <1>6, <1>7, <1>8, <1>9, <1>10, <1>11, <1>12, <1>13,
     <1>14, <1>15, <1>16
     DEF Next, HandlerStep, FrontStep, StoreStep, RejectVector, StatementFails, Statuses

-----------------------------------------------------------------------------
(***************************************************************************)
(* The write lock                                                          *)
(***************************************************************************)

\* The lock is held by the one handler inside a transaction, and by no other.
LEMMA LockStep ==
    ASSUME TypeOK, LockInv, [Next]_vars
    PROVE  LockInv'
<1> USE NoneIsNoHandler DEF TypeOK, LockInv, TxStates
<1>1. ASSUME NEW h \in Handlers, Receive(h) \/ AcquireSlot(h) \/ FrontStep(h),
             UNCHANGED storeVars
      PROVE  LockInv'
  <2>1. CASE Receive(h)
    BY <1>1, <2>1 DEF Receive, Goto, storeVars
  <2>2. CASE AcquireSlot(h)
    BY <1>1, <2>2 DEF AcquireSlot, Goto, storeVars
  <2>3. CASE CheckStatus(h)
    BY <1>1, <2>3 DEF CheckStatus, Finish, Goto, storeVars
  <2>4. CASE Annotate(h)
    BY <1>1, <2>4 DEF Annotate, Goto, storeVars
  <2>5. CASE Embed(h)
    BY <1>1, <2>5 DEF Embed, Goto, storeVars
  <2>6. CASE ModelUnavailable(h)
    BY <1>1, <2>6 DEF ModelUnavailable, Finish, Goto, storeVars
  <2>7. CASE Respond(h)
    BY <1>1, <2>7 DEF Respond, Forget, storeVars
  <2> QED BY <1>1, <2>1, <2>2, <2>3, <2>4, <2>5, <2>6, <2>7 DEF FrontStep
<1>2. ASSUME NEW h \in Handlers, BeginImmediate(h) PROVE LockInv'
  BY <1>2 DEF BeginImmediate, Goto
<1>3. ASSUME NEW h \in Handlers, BeginFails(h) PROVE LockInv'
  BY <1>3 DEF BeginFails, Finish, Goto, storeVars
<1>4. ASSUME NEW h \in Handlers, NEW status, pc[h] \in TxStates,
             EndTransaction(h), Finish(h, status)
      PROVE  LockInv'
  BY <1>4 DEF EndTransaction, Finish, Goto
<1>5. ASSUME NEW h \in Handlers,
             CheckExisting(h) \/ RejectVector(h) \/ Commit(h) \/ StatementFails(h)
      PROVE  LockInv'
  <2>1. CASE \E status : EndTransaction(h) /\ Finish(h, status)
    BY <1>5, <1>4, <2>1 DEF CheckExisting, RejectVector, Commit, StatementFails
  <2>2. CASE Goto(h, "insert") /\ UNCHANGED writer /\ pc[h] = "check"
    BY <2>2 DEF Goto
  <2> QED
    BY <1>5, <2>1, <2>2
       DEF CheckExisting, RejectVector, Commit, StatementFails, EndUnchanged
<1>6. ASSUME NEW h \in Handlers, InsertMessage(h) \/ BumpRevision(h) PROVE LockInv'
  BY <1>6 DEF InsertMessage, BumpRevision, Goto
<1>7. ASSUME NEW p \in Processes, ProcessCrash(p) PROVE LockInv'
  BY <1>7 DEF ProcessCrash, Crash, Forget
<1>8. CASE UNCHANGED vars
  BY <1>8 DEF vars
<1> QED
  BY <1>1, <1>2, <1>3, <1>5, <1>6, <1>7, <1>8 DEF Next, HandlerStep, StoreStep

-----------------------------------------------------------------------------
(***************************************************************************)
(* What a commit publishes, and what it cannot disturb                     *)
(***************************************************************************)

\* Storing a payload under a free key adds exactly its messages.
LEMMA StoredRowsAdd ==
    ASSUME NEW requests \in [Keys -> Payloads \cup {None}], NEW key \in Keys,
           NEW payload \in Payloads, requests[key] = None
    PROVE  StoredRows([requests EXCEPT ![key] = payload])
               = StoredRows(requests) \cup RowsOf(key, payload)
<1> DEFINE after == [requests EXCEPT ![key] = payload]
<1>1. ASSUME NEW row PROVE row \in StoredRows(after)
          <=> row \in StoredRows(requests) \cup RowsOf(key, payload)
  <2>1. row \in StoredRows(after)
            <=> \E k \in Keys : after[k] # None /\ row \in RowsOf(k, after[k])
    BY DEF StoredRows
  <2>2. row \in StoredRows(requests)
            <=> \E k \in Keys : requests[k] # None /\ row \in RowsOf(k, requests[k])
    BY DEF StoredRows
  <2>3. after[key] = payload /\ payload # None
    BY RequestsAssumption
  <2>4. \A k \in Keys : k # key => after[k] = requests[k]
    OBVIOUS
  <2> HIDE DEF after
  <2> QED BY <2>1, <2>2, <2>3, <2>4
<1> QED BY <1>1

\* A committing transaction publishes one whole request under a free key.
LEMMA CommitPublishes ==
    ASSUME TypeOK, NEW h \in Handlers, HandlerInv(h), TxImage(h), Commit(h)
    PROVE  LET key == req[h].key
               payload == req[h].payload
           IN  /\ key \in Keys /\ payload \in Payloads
               /\ db.requests[key] = None
               /\ db'.requests = [db.requests EXCEPT ![key] = payload]
               /\ db'.memories = db.memories \cup RowsOf(key, payload)
               /\ db'.memory_fts = db.memory_fts \cup RowsOf(key, payload)
               /\ db'.embeddings = db.embeddings \cup RowsOf(key, payload)
               /\ db'.revision = [db.revision EXCEPT ![UserOf[key]] = @ + 1]
<1>1. pc[h] = "commit" /\ db' = tx
  BY DEF Commit
<1>2. req[h] \in Requests
  BY <1>1 DEF HandlerInv
<1> QED BY <1>1, <1>2 DEF TxImage, Ahead, RowsOf, Requests

\* Every step but a commit leaves the committed tables alone.
LEMMA OnlyCommitWrites ==
    ASSUME [Next]_vars
    PROVE  UNCHANGED db \/ \E h \in Handlers : Commit(h)
<1>1. ASSUME NEW h \in Handlers, StoreStep(h) PROVE UNCHANGED db \/ Commit(h)
  BY <1>1 DEF StoreStep, BeginImmediate, BeginFails, CheckExisting, InsertMessage,
              RejectVector, BumpRevision, StatementFails, EndUnchanged
<1>2. ASSUME NEW h \in Handlers, Receive(h) \/ AcquireSlot(h) \/ FrontStep(h)
      PROVE  UNCHANGED db
  BY <1>2 DEF Receive, AcquireSlot, FrontStep, CheckStatus, Annotate, Embed,
              ModelUnavailable, Respond
<1>3. ASSUME NEW p \in Processes, ProcessCrash(p) PROVE UNCHANGED db
  BY <1>3 DEF ProcessCrash, Crash
<1> QED BY <1>1, <1>2, <1>3 DEF Next, HandlerStep, vars

\* The first payload stored under a key stays.
FirstWriterWins ==
    \A key \in Keys : db.requests[key] # None => db'.requests[key] = db.requests[key]

\* No step replaces the payload of a key that has one.
LEMMA StoredStays ==
    ASSUME TypeOK, \A h \in Handlers : HandlerInv(h) /\ TxImage(h), [Next]_vars
    PROVE  FirstWriterWins
<1>1. CASE UNCHANGED db
  BY <1>1 DEF FirstWriterWins
<1>2. ASSUME NEW h \in Handlers, Commit(h) PROVE FirstWriterWins
  BY <1>2, CommitPublishes DEF FirstWriterWins, TypeOK, Tables
<1> QED BY <1>1, <1>2, OnlyCommitWrites

-----------------------------------------------------------------------------
(***************************************************************************)
(* What a handler knows                                                    *)
(***************************************************************************)

\* A handler that does not move keeps what it knows: a stored payload stays.
LEMMA Unmoved ==
    ASSUME TypeOK, NEW i \in Handlers, HandlerInv(i), FirstWriterWins,
           pc'[i] = pc[i], req'[i] = req[i], known'[i] = known[i],
           finite'[i] = finite[i], outcome'[i] = outcome[i]
    PROVE  HandlerInv(i)'
<1>1. req[i] \in Requests /\ Stored(i) => Stored(i)'
  BY RequestsAssumption DEF Stored, FirstWriterWins, Requests
<1>2. req[i] \in Requests /\ db.requests[req[i].key] \notin {None, req[i].payload}
      => db'.requests[req'[i].key] \notin {None, req'[i].payload}
  BY DEF FirstWriterWins, Requests
<1>3. known[i] => pc[i] # "idle"
  BY DEF HandlerInv
<1> QED BY <1>1, <1>2, <1>3 DEF HandlerInv

\* A handler that forgets its request has nothing left to know.
LEMMA Forgotten ==
    ASSUME NEW hs, Forget(hs), NEW i \in Handlers, i \in hs
    PROVE  HandlerInv(i)'
BY DEF Forget, HandlerInv, TxStates

\* What a handler knows stays true, whoever takes the step.
LEMMA HandlerInvStep ==
    ASSUME TypeOK, TypeOK', LockInv,
           \A h \in Handlers : HandlerInv(h) /\ TxImage(h), [Next]_vars,
           NEW i \in Handlers
    PROVE  HandlerInv(i)'
<1> USE RequestsAssumption
<1>0. FirstWriterWins
  BY StoredStays
<1>1. ASSUME NEW h \in Handlers, Receive(h) PROVE HandlerInv(i)'
  <2>1. CASE i = h
    <3>1. pc'[i] = "queued" /\ req'[i] \in Requests
          /\ known'[i] = (db'.requests[req'[i].key] = req'[i].payload)
      BY <1>1, <2>1 DEF Receive, Goto, TypeOK
    <3> QED BY <3>1 DEF HandlerInv, TxStates, Stored
  <2>2. CASE i # h
    BY <1>0, <1>1, <2>2, Unmoved DEF Receive, Goto, TypeOK
  <2> QED BY <2>1, <2>2
<1>2. ASSUME NEW h \in Handlers, AcquireSlot(h) PROVE HandlerInv(i)'
  <2>1. CASE i = h
    BY <1>2, <2>1 DEF AcquireSlot, Goto, TypeOK, HandlerInv, TxStates, Stored
  <2>2. CASE i # h
    BY <1>0, <1>2, <2>2, Unmoved DEF AcquireSlot, Goto, TypeOK
  <2> QED BY <2>1, <2>2
<1>3. ASSUME NEW h \in Handlers, CheckStatus(h) PROVE HandlerInv(i)'
  <2>1. CASE i = h
    <3>1. req[h] \in Requests /\ pc[h] = "status" /\ UNCHANGED <<db, req, known, finite>>
      BY <1>3 DEF CheckStatus, HandlerInv
    <3>2. CASE Stored(h)
      BY <1>3, <2>1, <3>1, <3>2
         DEF CheckStatus, RequestStatus, Finish, Goto, TypeOK, HandlerInv, TxStates, Stored, Requests
    <3>3. CASE ~Stored(h)
      BY <1>3, <2>1, <3>1, <3>3
         DEF CheckStatus, RequestStatus, Finish, Goto, TypeOK, HandlerInv, TxStates, Stored, Requests
    <3> QED BY <3>2, <3>3
  <2>2. CASE i # h
    BY <1>0, <1>3, <2>2, Unmoved DEF CheckStatus, Finish, Goto, TypeOK
  <2> QED BY <2>1, <2>2
<1>4. ASSUME NEW h \in Handlers, Annotate(h) PROVE HandlerInv(i)'
  <2>1. CASE i = h
    BY <1>4, <2>1 DEF Annotate, Goto, TypeOK, HandlerInv, TxStates, Stored
  <2>2. CASE i # h
    BY <1>0, <1>4, <2>2, Unmoved DEF Annotate, Goto, TypeOK
  <2> QED BY <2>1, <2>2
<1>5. ASSUME NEW h \in Handlers, Embed(h) PROVE HandlerInv(i)'
  <2>1. CASE i = h
    <3>1. req[h] \in Requests /\ pc[h] = "embed" /\ ~known[h]
      BY <1>5 DEF Embed, HandlerInv
    <3>2. pc'[h] = "store" /\ finite'[h] \in 0 .. MessageCount[req[h].payload]
          /\ UNCHANGED <<db, req, known, outcome>>
      BY <1>5 DEF Embed, Goto, TypeOK
    <3> QED BY <2>1, <3>1, <3>2 DEF HandlerInv, Requests
  <2>2. CASE i # h
    BY <1>0, <1>5, <2>2, Unmoved DEF Embed, Goto, TypeOK
  <2> QED BY <2>1, <2>2
<1>6. ASSUME NEW h \in Handlers, ModelUnavailable(h) PROVE HandlerInv(i)'
  <2>1. CASE i = h
    BY <1>6, <2>1 DEF ModelUnavailable, Finish, Goto, TypeOK, HandlerInv, TxStates, Stored
  <2>2. CASE i # h
    BY <1>0, <1>6, <2>2, Unmoved DEF ModelUnavailable, Finish, Goto, TypeOK
  <2> QED BY <2>1, <2>2
<1>7. ASSUME NEW h \in Handlers, Respond(h) PROVE HandlerInv(i)'
  <2>1. CASE i = h
    BY <1>7, <2>1, Forgotten DEF Respond
  <2>2. CASE i # h
    BY <1>0, <1>7, <2>2, Unmoved DEF Respond, Forget, TypeOK
  <2> QED BY <2>1, <2>2
<1>8. ASSUME NEW h \in Handlers, BeginImmediate(h) PROVE HandlerInv(i)'
  <2>1. CASE i = h
    BY <1>8, <2>1 DEF BeginImmediate, Goto, TypeOK, HandlerInv, TxStates, Stored
  <2>2. CASE i # h
    BY <1>0, <1>8, <2>2, Unmoved DEF BeginImmediate, Goto, TypeOK
  <2> QED BY <2>1, <2>2
<1>9. ASSUME NEW h \in Handlers, BeginFails(h) PROVE HandlerInv(i)'
  <2>1. CASE i = h
    BY <1>9, <2>1 DEF BeginFails, Finish, Goto, TypeOK, HandlerInv, TxStates, Stored
  <2>2. CASE i # h
    BY <1>0, <1>9, <2>2, Unmoved DEF BeginFails, Finish, Goto, TypeOK
  <2> QED BY <2>1, <2>2
<1>10. ASSUME NEW h \in Handlers, InsertMessage(h) \/ BumpRevision(h) PROVE HandlerInv(i)'
  <2>1. CASE i = h
    BY <1>10, <2>1 DEF InsertMessage, BumpRevision, Goto, TypeOK, HandlerInv, TxStates, Stored
  <2>2. CASE i # h
    BY <1>0, <1>10, <2>2, Unmoved DEF InsertMessage, BumpRevision, Goto, TypeOK
  <2> QED BY <2>1, <2>2
<1>11. ASSUME NEW h \in Handlers, CheckExisting(h) PROVE HandlerInv(i)'
  <2>1. CASE i = h
    <3>1. req[h] \in Requests /\ pc[h] = "check" /\ tx = db /\ ~known[h]
      <4>1. pc[h] = "check" /\ HandlerInv(h)
        BY <1>11 DEF CheckExisting
      <4>2. req[h] \in Requests /\ ~known[h]
        BY <4>1 DEF HandlerInv, TxStates
      <4>3. tx = db
        BY <4>1 DEF TxImage
      <4> QED BY <4>1, <4>2, <4>3
    <3> QED
      BY <1>11, <2>1, <3>1
         DEF CheckExisting, EndUnchanged, Finish, Goto, TypeOK, HandlerInv, TxStates, Stored
  <2>2. CASE i # h
    BY <1>0, <1>11, <2>2, Unmoved DEF CheckExisting, EndUnchanged, Finish, Goto, TypeOK
  <2> QED BY <2>1, <2>2
<1>12. ASSUME NEW h \in Handlers, RejectVector(h) PROVE HandlerInv(i)'
  <2>1. CASE i = h
    BY <1>12, <2>1
       DEF RejectVector, EndUnchanged, Finish, Goto, TypeOK, HandlerInv, TxStates, Stored
  <2>2. CASE i # h
    BY <1>0, <1>12, <2>2, Unmoved DEF RejectVector, EndUnchanged, Finish, Goto, TypeOK
  <2> QED BY <2>1, <2>2
<1>13. ASSUME NEW h \in Handlers, Commit(h) PROVE HandlerInv(i)'
  <2>1. CASE i = h
    <3>1. Stored(h)' /\ req[h] \in Requests /\ ~known[h]
      BY <1>13, CommitPublishes DEF Commit, Stored, TypeOK, Tables, HandlerInv, TxStates
    <3> QED
      BY <1>13, <2>1, <3>1 DEF Commit, Finish, Goto, TypeOK, HandlerInv, TxStates
  <2>2. CASE i # h
    BY <1>0, <1>13, <2>2, Unmoved DEF Commit, Finish, Goto, TypeOK
  <2> QED BY <2>1, <2>2
<1>14. ASSUME NEW h \in Handlers, StatementFails(h) PROVE HandlerInv(i)'
  <2>1. CASE i = h
    BY <1>14, <2>1
       DEF StatementFails, EndUnchanged, Finish, Goto, TypeOK, HandlerInv, TxStates, Stored
  <2>2. CASE i # h
    BY <1>0, <1>14, <2>2, Unmoved DEF StatementFails, EndUnchanged, Finish, Goto, TypeOK
  <2> QED BY <2>1, <2>2
<1>15. ASSUME NEW p \in Processes, ProcessCrash(p) PROVE HandlerInv(i)'
  <2>1. CASE ProcessOf[i] = p
    BY <1>15, <2>1, Forgotten DEF ProcessCrash, Crash
  <2>2. CASE ProcessOf[i] # p
    BY <1>0, <1>15, <2>2, Unmoved DEF ProcessCrash, Crash, Forget, TypeOK
  <2> QED BY <2>1, <2>2
<1>16. CASE UNCHANGED vars
  BY <1>0, <1>16, Unmoved DEF vars
<1> QED
  BY <1>1, <1>2, <1>3, <1>4, <1>5, <1>6, <1>7, <1>8, <1>9, <1>10, <1>11, <1>12, <1>13,
     <1>14, <1>15, <1>16
     DEF Next, HandlerStep, FrontStep, StoreStep

-----------------------------------------------------------------------------
(***************************************************************************)
(* The image of the open transaction                                       *)
(***************************************************************************)

\* Only the holder of the lock moves its image: everyone else's steps leave the
\* tables, the image and the position of a handler inside a transaction alone.
LEMMA OthersLeaveImage ==
    ASSUME TypeOK, LockInv, [Next]_vars, NEW i \in Handlers, TxImage(i),
           pc[i] \in TxStates, pc'[i] = pc[i], req'[i] = req[i],
           ~ (CheckExisting(i) \/ InsertMessage(i) \/ BumpRevision(i))
    PROVE  TxImage(i)'
<1> SUFFICES UNCHANGED <<db, tx>> /\ next'[i] = next[i]
  BY DEF TxImage, Ahead
<1> USE NoneIsNoHandler DEF TypeOK
<1>1. \A h \in Handlers : h # i => pc[h] \notin TxStates
  BY DEF LockInv
<1>2. writer = i
  BY DEF LockInv
<1>3. ASSUME NEW h \in Handlers, Receive(h) \/ AcquireSlot(h) \/ FrontStep(h),
             UNCHANGED storeVars
      PROVE  UNCHANGED <<db, tx>> /\ next'[i] = next[i]
  BY <1>3 DEF Receive, AcquireSlot, FrontStep, CheckStatus, Annotate, Embed,
              ModelUnavailable, Respond, storeVars
<1>4. ASSUME NEW h \in Handlers, StoreStep(h), h # i
      PROVE  UNCHANGED <<db, tx>> /\ next'[i] = next[i]
  BY <1>1, <1>2, <1>4
     DEF StoreStep, BeginImmediate, BeginFails, CheckExisting, InsertMessage,
         RejectVector, BumpRevision, Commit, StatementFails, storeVars, TxStates
<1>5. ASSUME StoreStep(i) PROVE FALSE
  <2>1. pc'[i] \in TxStates
    OBVIOUS
  <2>2. ~ \E status : Finish(i, status)
    BY <2>1 DEF Finish, Goto, TxStates
  <2>3. ~ BeginImmediate(i)
    BY DEF BeginImmediate, TxStates
  <2> QED
    BY <1>5, <2>2, <2>3
       DEF StoreStep, BeginFails, RejectVector, Commit, StatementFails, EndUnchanged
<1>6. ASSUME NEW p \in Processes, ProcessCrash(p)
      PROVE  UNCHANGED <<db, tx>> /\ next'[i] = next[i]
  <2>1. ProcessOf[i] # p
    BY <1>6 DEF ProcessCrash, Crash, Forget, TxStates
  <2> QED BY <1>2, <1>6, <2>1 DEF ProcessCrash, Crash
<1>7. CASE UNCHANGED vars
  BY <1>7 DEF vars
<1> QED BY <1>3, <1>4, <1>5, <1>6, <1>7 DEF Next, HandlerStep

\* Only its own store steps move a handler to another place in a transaction.
LEMMA StaysInTransaction ==
    ASSUME TypeOK, [Next]_vars, NEW i \in Handlers, pc'[i] \in TxStates,
           ~ BeginImmediate(i), ~ CheckExisting(i), ~ InsertMessage(i), ~ BumpRevision(i)
    PROVE  pc'[i] = pc[i] /\ req'[i] = req[i]
<1> USE DEF TypeOK, TxStates
<1>1. ASSUME NEW h \in Handlers, Receive(h) PROVE pc'[i] = pc[i] /\ req'[i] = req[i]
  BY <1>1 DEF Receive, Goto
<1>2. ASSUME NEW h \in Handlers, AcquireSlot(h) PROVE pc'[i] = pc[i] /\ req'[i] = req[i]
  BY <1>2 DEF AcquireSlot, Goto
<1>3. ASSUME NEW h \in Handlers, FrontStep(h) PROVE pc'[i] = pc[i] /\ req'[i] = req[i]
  <2>1. CASE CheckStatus(h)
    BY <2>1 DEF CheckStatus, Finish, Goto
  <2>2. CASE Annotate(h) \/ Embed(h) \/ ModelUnavailable(h)
    BY <2>2 DEF Annotate, Embed, ModelUnavailable, Finish, Goto
  <2>3. CASE Respond(h)
    BY <2>3 DEF Respond, Forget
  <2> QED BY <1>3, <2>1, <2>2, <2>3 DEF FrontStep
<1>4. ASSUME NEW h \in Handlers, BeginImmediate(h) \/ InsertMessage(h) \/ BumpRevision(h)
      PROVE  pc'[i] = pc[i] /\ req'[i] = req[i]
  BY <1>4 DEF BeginImmediate, InsertMessage, BumpRevision, Goto
<1>5. ASSUME NEW h \in Handlers, NEW status, Finish(h, status), UNCHANGED req
      PROVE  pc'[i] = pc[i] /\ req'[i] = req[i]
  BY <1>5 DEF Finish, Goto
<1>6. ASSUME NEW h \in Handlers, CheckExisting(h) PROVE pc'[i] = pc[i] /\ req'[i] = req[i]
  BY <1>5, <1>6 DEF CheckExisting, EndUnchanged, Goto
<1>7. ASSUME NEW h \in Handlers,
             BeginFails(h) \/ RejectVector(h) \/ Commit(h) \/ StatementFails(h)
      PROVE  pc'[i] = pc[i] /\ req'[i] = req[i]
  BY <1>5, <1>7 DEF BeginFails, RejectVector, Commit, StatementFails, EndUnchanged
<1>8. ASSUME NEW p \in Processes, ProcessCrash(p) PROVE pc'[i] = pc[i] /\ req'[i] = req[i]
  BY <1>8 DEF ProcessCrash, Crash, Forget
<1>9. CASE UNCHANGED vars
  BY <1>9 DEF vars
<1> QED
  BY <1>1, <1>2, <1>3, <1>4, <1>6, <1>7, <1>8, <1>9 DEF Next, HandlerStep, StoreStep

\* The image a transaction works on stays what the committed tables make it.
LEMMA TxImageStep ==
    ASSUME TypeOK, TypeOK', LockInv, LockInv', [Next]_vars,
           \A h \in Handlers : HandlerInv(h) /\ TxImage(h), NEW i \in Handlers
    PROVE  TxImage(i)'
<1>1. CASE BeginImmediate(i)
  BY <1>1 DEF BeginImmediate, Goto, TypeOK, TxImage
<1>2. ASSUME CheckExisting(i), pc'[i] = "insert" PROVE TxImage(i)'
  <2>1. pc[i] = "check" /\ req[i] \in Requests
    BY <1>2 DEF CheckExisting, HandlerInv
  <2>2. tx = db
    BY <2>1 DEF TxImage
  <2>3. /\ tx.requests[req[i].key] = None
        /\ tx' = [tx EXCEPT !.requests[req[i].key] = req[i].payload]
        /\ next'[i] = 0
        /\ UNCHANGED <<db, req>>
    BY <1>2 DEF CheckExisting, EndUnchanged, Finish, Goto, TypeOK
  <2>4. /\ tx'.requests = [db.requests EXCEPT ![req[i].key] = req[i].payload]
        /\ tx'.memories = db.memories /\ tx'.memory_fts = db.memory_fts
        /\ tx'.embeddings = db.embeddings /\ tx'.revision = db.revision
    BY <2>2, <2>3 DEF TypeOK, Tables
  <2>5. {req[i].key} \X (0 .. next'[i] - 1) = {}
    BY <2>3
  <2>6. MessageCount[req[i].payload] \in Nat
    BY <2>1, RequestsAssumption DEF Requests
  <2> QED BY <1>2, <2>2, <2>3, <2>4, <2>5, <2>6 DEF TxImage, Ahead
<1>3. ASSUME InsertMessage(i) PROVE TxImage(i)'
  <2> DEFINE key == req[i].key
             n == next[i]
  <2>1. pc[i] = "insert" /\ req[i] \in Requests /\ n \in Nat
        /\ MessageCount[req[i].payload] \in Nat /\ finite[i] \in Nat
    BY <1>3, RequestsAssumption DEF InsertMessage, HandlerInv, TypeOK, Requests
  <2>2. n < finite[i] /\ finite[i] <= MessageCount[req[i].payload]
    BY <1>3, <2>1 DEF InsertMessage, HandlerInv, TxStates
  <2>3. Ahead(i, n) /\ tx.revision = db.revision
    BY <2>1 DEF TxImage
  <2>4. next'[i] = n + 1 /\ pc'[i] = "insert" /\ UNCHANGED <<db, req>>
    BY <1>3, <2>1 DEF InsertMessage, TypeOK
  <2>5. /\ tx'.memories = tx.memories \cup {<<key, n>>}
        /\ tx'.memory_fts = tx.memory_fts \cup {<<key, n>>}
        /\ tx'.embeddings = tx.embeddings \cup {<<key, n>>}
        /\ tx'.requests = tx.requests /\ tx'.revision = tx.revision
    BY <1>3 DEF InsertMessage, TypeOK, Tables
  <2>6. {key} \X (0 .. (n + 1) - 1) = ({key} \X (0 .. n - 1)) \cup {<<key, n>>}
    BY <2>1
  <2>7. Ahead(i, next[i])'
    BY <2>3, <2>4, <2>5, <2>6 DEF Ahead
  <2> QED BY <2>1, <2>2, <2>3, <2>4, <2>5, <2>7 DEF TxImage
<1>4. ASSUME BumpRevision(i) PROVE TxImage(i)'
  <2>1. pc[i] = "insert" /\ next[i] = MessageCount[req[i].payload]
    BY <1>4 DEF BumpRevision
  <2>2. Ahead(i, MessageCount[req[i].payload]) /\ tx.revision = db.revision
    BY <2>1 DEF TxImage
  <2>3. pc'[i] = "commit" /\ UNCHANGED <<db, req>>
    BY <1>4 DEF BumpRevision, Goto, TypeOK
  <2>4. /\ tx'.memories = tx.memories /\ tx'.memory_fts = tx.memory_fts
        /\ tx'.embeddings = tx.embeddings /\ tx'.requests = tx.requests
        /\ tx'.revision = [tx.revision EXCEPT ![UserOf[req[i].key]] = @ + 1]
    BY <1>4 DEF BumpRevision, TypeOK, Tables
  <2>5. Ahead(i, MessageCount[req[i].payload])'
    BY <2>2, <2>3, <2>4 DEF Ahead
  <2> QED BY <2>2, <2>3, <2>4, <2>5 DEF TxImage
<1>5. CASE pc'[i] \notin TxStates
  BY <1>5 DEF TxImage, TxStates
<1>6. ASSUME pc'[i] \in TxStates, ~ BeginImmediate(i), ~ CheckExisting(i),
             ~ InsertMessage(i), ~ BumpRevision(i)
      PROVE  TxImage(i)'
  <2>1. pc'[i] = pc[i] /\ req'[i] = req[i]
    BY <1>6, StaysInTransaction
  <2> QED BY <1>6, <2>1, OthersLeaveImage
<1>7. ASSUME CheckExisting(i), pc'[i] \in TxStates PROVE pc'[i] = "insert"
  BY <1>7 DEF CheckExisting, EndUnchanged, Finish, Goto, TxStates, TypeOK
<1> QED BY <1>1, <1>2, <1>3, <1>4, <1>5, <1>6, <1>7

-----------------------------------------------------------------------------
(***************************************************************************)
(* The inductive invariant and the theorems                                *)
(***************************************************************************)
LEMMA AllOrNothingStep ==
    ASSUME IInv, [Next]_vars
    PROVE  AllOrNothing'
<1>1. CASE UNCHANGED db
  BY <1>1 DEF IInv, AllOrNothing, StoredRows
<1>2. ASSUME NEW h \in Handlers, Commit(h) PROVE AllOrNothing'
  <2> DEFINE key == req[h].key
             payload == req[h].payload
  <2>1. /\ key \in Keys /\ payload \in Payloads
        /\ db.requests[key] = None
        /\ db'.requests = [db.requests EXCEPT ![key] = payload]
        /\ db'.memories = db.memories \cup RowsOf(key, payload)
        /\ db'.memory_fts = db.memory_fts \cup RowsOf(key, payload)
        /\ db'.embeddings = db.embeddings \cup RowsOf(key, payload)
    BY <1>2, CommitPublishes DEF IInv
  <2>2. db.requests \in [Keys -> Payloads \cup {None}]
    BY DEF IInv, TypeOK, Tables
  <2>3. StoredRows(db'.requests) = StoredRows(db.requests) \cup RowsOf(key, payload)
    BY <2>1, <2>2, StoredRowsAdd
  <2> QED BY <2>1, <2>3 DEF IInv, AllOrNothing
<1> QED BY <1>1, <1>2, OnlyCommitWrites

\* Acknowledgements are added by Respond only, for a stored payload.
LEMMA AckedStep ==
    ASSUME IInv, [Next]_vars
    PROVE  acked' = acked \/ \E h \in Handlers :
               /\ Respond(h) /\ UNCHANGED storeVars
               /\ req[h] \in Requests /\ Stored(h)
               /\ acked' = acked \cup {req[h]}
<1>1. ASSUME NEW h \in Handlers, Respond(h), UNCHANGED storeVars, acked' # acked
      PROVE  req[h] \in Requests /\ Stored(h) /\ acked' = acked \cup {req[h]}
  <2>1. pc[h] = "done" /\ outcome[h] = 200 /\ acked' = acked \cup {req[h]}
    BY <1>1 DEF Respond
  <2> QED BY <2>1 DEF IInv, HandlerInv
<1>2. ASSUME NEW h \in Handlers, Receive(h) \/ AcquireSlot(h) \/ StoreStep(h)
      PROVE  acked' = acked
  BY <1>2
     DEF Receive, AcquireSlot, StoreStep, BeginImmediate, BeginFails, CheckExisting,
         InsertMessage, RejectVector, BumpRevision, Commit, StatementFails, EndUnchanged
<1>3. ASSUME NEW h \in Handlers, CheckStatus(h) \/ Annotate(h) \/ Embed(h) \/ ModelUnavailable(h)
      PROVE  acked' = acked
  BY <1>3 DEF CheckStatus, Annotate, Embed, ModelUnavailable
<1>4. ASSUME NEW p \in Processes, ProcessCrash(p) PROVE acked' = acked
  BY <1>4 DEF ProcessCrash, Crash
<1> QED BY <1>1, <1>2, <1>3, <1>4 DEF Next, HandlerStep, FrontStep, vars

\* The empty tables and idle handlers satisfy the inductive invariant,
LEMMA InitIInv == Init => IInv
<1> SUFFICES ASSUME Init PROVE IInv
  OBVIOUS
<1> USE DEF Init, HandlerInit
<1>1. TypeOK
  BY EmptyTablesType, HandlersAssumption DEF TypeOK, FrontStates, Statuses
<1>2. LockInv /\ \A h \in Handlers : HandlerInv(h) /\ TxImage(h)
  BY NoneIsNoHandler DEF LockInv, HandlerInv, TxImage, TxStates
<1>3. AllOrNothing /\ AckedIsStored
  BY DEF AllOrNothing, AckedIsStored, StoredRows, EmptyTables
<1> QED BY <1>1, <1>2, <1>3 DEF IInv

\* and every step keeps it.
LEMMA NextIInv == IInv /\ [Next]_vars => IInv'
<1> SUFFICES ASSUME IInv, [Next]_vars PROVE IInv'
  OBVIOUS
<1>1. TypeOK'
  BY TypeStep DEF IInv
<1>2. LockInv'
  BY LockStep DEF IInv
<1>3. \A h \in Handlers : HandlerInv(h)'
  BY <1>1, HandlerInvStep DEF IInv
<1>4. \A h \in Handlers : TxImage(h)'
  BY <1>1, <1>2, TxImageStep DEF IInv
<1>5. AllOrNothing'
  BY AllOrNothingStep
<1>6. AckedIsStored'
  <2>1. FirstWriterWins
    BY StoredStays DEF IInv
  <2>2. ASSUME NEW r \in Requests, db.requests[r.key] = r.payload
        PROVE  db'.requests[r.key] = r.payload
    BY <2>1, <2>2, RequestsAssumption DEF FirstWriterWins, Requests
  <2>3. acked \subseteq Requests
    BY DEF IInv, TypeOK
  <2>4. acked' = acked \/ \E r \in Requests :
            db.requests[r.key] = r.payload /\ acked' = acked \cup {r}
    BY AckedStep DEF Stored
  <2> QED BY <2>2, <2>3, <2>4 DEF IInv, AckedIsStored
<1> QED BY <1>1, <1>2, <1>3, <1>4, <1>5, <1>6 DEF IInv

\* IInv is an invariant of every interleaving of handlers and crashes.
THEOREM SpecIInv == Spec => []IInv
BY InitIInv, NextIInv, PTL DEF Spec

\* Every variable keeps its type, whatever the numbers of threads, processes,
\* keys and payloads.
THEOREM TypeCorrect == Spec => []TypeOK
<1>1. IInv => TypeOK
  BY DEF IInv
<1> QED BY <1>1, SpecIInv, PTL

\* No reader ever sees part of a request (db.py 149-230).
THEOREM Atomicity == Spec => []AllOrNothing
<1>1. IInv => AllOrNothing
  BY DEF IInv
<1> QED BY <1>1, SpecIInv, PTL

\* A client that saw 200 has its payload stored, for good (main.py 325-336).
THEOREM Durability == Spec => []AckedIsStored
<1>1. IInv => AckedIsStored
  BY DEF IInv
<1> QED BY <1>1, SpecIInv, PTL

\* 409 has a reason (db.py 154-159, 206-208).
THEOREM ConflictJustified == Spec => []ConflictIsJustified
<1>1. IInv => ConflictIsJustified
  BY DEF IInv, ConflictIsJustified, HandlerInv
<1> QED BY <1>1, SpecIInv, PTL

\* A retry of a stored request stops at its status (service.py 106-113).
THEOREM ReplayIsFree == Spec => []ReplaySkipsModels
<1>1. IInv => ReplaySkipsModels
  BY DEF IInv, ReplaySkipsModels, HandlerInv
<1> QED BY <1>1, SpecIInv, PTL

\* The revision of a user counts its stored requests (db.py 220-224).  It needs
\* IInv for what a commit publishes, and counting: one more key, one more tick.
THEOREM RevisionCorrect == Spec => []RevisionCountsRequests
<1> DEFINE stored(requests, user) ==
             {key \in Keys : UserOf[key] = user /\ requests[key] # None}
<1>1. Init => RevisionCountsRequests
  <2> SUFFICES ASSUME Init, NEW user \in Users
               PROVE  db.revision[user] = Cardinality(stored(db.requests, user))
    BY DEF RevisionCountsRequests
  <2>1. stored(db.requests, user) = {} /\ db.revision[user] = 0
    BY DEF Init, EmptyTables
  <2> QED BY <2>1, FS_EmptySet
<1>2. IInv /\ RevisionCountsRequests /\ [Next]_vars => RevisionCountsRequests'
  <2> SUFFICES ASSUME IInv, RevisionCountsRequests, [Next]_vars
               PROVE  RevisionCountsRequests'
    OBVIOUS
  <2>1. CASE UNCHANGED db
    BY <2>1 DEF RevisionCountsRequests
  <2>2. ASSUME NEW h \in Handlers, Commit(h), NEW user \in Users
        PROVE  db'.revision[user] = Cardinality(stored(db'.requests, user))
    <3> DEFINE key == req[h].key
               payload == req[h].payload
               before == stored(db.requests, user)
    <3>1. /\ key \in Keys /\ payload \in Payloads /\ payload # None
          /\ db.requests[key] = None
          /\ db'.requests = [db.requests EXCEPT ![key] = payload]
          /\ db'.revision = [db.revision EXCEPT ![UserOf[key]] = @ + 1]
      BY <2>2, CommitPublishes, RequestsAssumption DEF IInv
    <3>2. /\ db.requests \in [Keys -> Payloads \cup {None}]
          /\ db.revision \in [Users -> Nat]
          /\ UserOf[key] \in Users
      BY <3>1, RequestsAssumption DEF IInv, TypeOK, Tables
    <3>3. IsFiniteSet(before) /\ db.revision[user] = Cardinality(before)
      BY FS_Subset, RequestsAssumption DEF RevisionCountsRequests
    <3>4. CASE UserOf[key] = user
      <4>1. stored(db'.requests, user) = before \cup {key}
        BY <3>1, <3>2, <3>4
      <4>2. key \notin before
        BY <3>1
      <4>3. Cardinality(before \cup {key}) = Cardinality(before) + 1
        BY <3>3, <4>2, FS_AddElement
      <4>4. db'.revision[user] = db.revision[user] + 1
        BY <3>1, <3>2, <3>4
      <4> QED BY <3>3, <4>1, <4>3, <4>4
    <3>5. CASE UserOf[key] # user
      <4>1. stored(db'.requests, user) = before
        BY <3>1, <3>2, <3>5
      <4>2. db'.revision[user] = db.revision[user]
        BY <3>1, <3>2, <3>5
      <4> QED BY <3>3, <4>1, <4>2
    <3> QED BY <3>4, <3>5
  <2> QED BY <2>1, <2>2, OnlyCommitWrites DEF RevisionCountsRequests
<1> QED BY <1>1, <1>2, SpecIInv, PTL DEF Spec

-----------------------------------------------------------------------------
(***************************************************************************)
(* The add slots                                                           *)
(***************************************************************************)
Outside == {"idle", "queued", "done"}

\* A handler that enters takes a slot,
LEMMA SlotTaken ==
    ASSUME TypeOK, SlotsConserved, NEW h \in Handlers, AcquireSlot(h)
    PROVE  SlotsConserved'
<1> SUFFICES ASSUME NEW p \in Processes
             PROVE  freeSlots'[p] + Cardinality(InSlot(p)') = AddConcurrency
  BY DEF SlotsConserved
<1>1. /\ pc[h] = "queued" /\ freeSlots \in [Processes -> Nat] /\ ProcessOf[h] \in Processes
      /\ freeSlots' = [freeSlots EXCEPT ![ProcessOf[h]] = @ - 1]
      /\ pc' = [pc EXCEPT ![h] = "status"] /\ h \in DOMAIN pc
  BY HandlersAssumption DEF AcquireSlot, Goto, TypeOK
<1>2. /\ IsFiniteSet(InSlot(p)) /\ Cardinality(InSlot(p)) \in Nat
      /\ freeSlots[p] + Cardinality(InSlot(p)) = AddConcurrency
  BY HandlersAssumption, FS_Subset, FS_CardinalityType DEF InSlot, SlotsConserved
<1>3. CASE ProcessOf[h] = p
  <2>1. InSlot(p)' = InSlot(p) \cup {h} /\ h \notin InSlot(p)
    BY <1>1, <1>3 DEF InSlot, TypeOK
  <2>2. Cardinality(InSlot(p)') = Cardinality(InSlot(p)) + 1
    BY <1>2, <2>1, FS_AddElement
  <2> QED BY <1>1, <1>2, <1>3, <2>2
<1>4. CASE ProcessOf[h] # p
  <2>1. InSlot(p)' = InSlot(p) /\ freeSlots'[p] = freeSlots[p]
    BY <1>1, <1>4 DEF InSlot, TypeOK
  <2> QED BY <1>2, <2>1
<1> QED BY <1>3, <1>4

\* one that finishes, in whatever way, gives it back,
LEMMA SlotReturned ==
    ASSUME TypeOK, SlotsConserved, NEW h \in Handlers, pc[h] \notin Outside,
           NEW status, Finish(h, status)
    PROVE  SlotsConserved'
<1> SUFFICES ASSUME NEW p \in Processes
             PROVE  freeSlots'[p] + Cardinality(InSlot(p)') = AddConcurrency
  BY DEF SlotsConserved
<1>1. /\ freeSlots \in [Processes -> Nat] /\ ProcessOf[h] \in Processes
      /\ freeSlots' = [freeSlots EXCEPT ![ProcessOf[h]] = @ + 1]
      /\ pc' = [pc EXCEPT ![h] = "done"]
  BY HandlersAssumption DEF Finish, Goto, TypeOK
<1>2. /\ IsFiniteSet(InSlot(p)) /\ Cardinality(InSlot(p)) \in Nat
      /\ freeSlots[p] + Cardinality(InSlot(p)) = AddConcurrency
  BY HandlersAssumption, FS_Subset, FS_CardinalityType DEF InSlot, SlotsConserved
<1>3. CASE ProcessOf[h] = p
  <2>1. InSlot(p)' = InSlot(p) \ {h} /\ h \in InSlot(p)
    BY <1>1, <1>3 DEF InSlot, TypeOK, Outside
  <2>2. Cardinality(InSlot(p)') = Cardinality(InSlot(p)) - 1
    BY <1>2, <2>1, FS_RemoveElement
  <2> QED BY <1>1, <1>2, <1>3, <2>2
<1>4. CASE ProcessOf[h] # p
  <2>1. InSlot(p)' = InSlot(p) /\ freeSlots'[p] = freeSlots[p]
    BY <1>1, <1>4 DEF InSlot, TypeOK
  <2> QED BY <1>2, <2>1
<1> QED BY <1>3, <1>4

\* and no other step touches one.
LEMMA SlotKept ==
    ASSUME SlotsConserved, UNCHANGED freeSlots,
           \A i \in Handlers : pc'[i] \in Outside <=> pc[i] \in Outside
    PROVE  SlotsConserved'
<1> SUFFICES ASSUME NEW p \in Processes
             PROVE  freeSlots'[p] + Cardinality(InSlot(p)') = AddConcurrency
  BY DEF SlotsConserved
<1>1. InSlot(p)' = InSlot(p)
  BY DEF InSlot, Outside
<1> QED BY <1>1 DEF SlotsConserved

\* A process that starts again has all its slots and nobody in them.
LEMMA SlotsRestarted ==
    ASSUME TypeOK, SlotsConserved, NEW dead \in Processes, ProcessCrash(dead)
    PROVE  SlotsConserved'
<1> SUFFICES ASSUME NEW p \in Processes
             PROVE  freeSlots'[p] + Cardinality(InSlot(p)') = AddConcurrency
  BY DEF SlotsConserved
<1>1. /\ freeSlots' = [freeSlots EXCEPT ![dead] = AddConcurrency]
      /\ freeSlots \in [Processes -> Nat]
      /\ pc' = [h \in Handlers |-> IF ProcessOf[h] = dead THEN "idle" ELSE pc[h]]
  BY DEF ProcessCrash, Crash, Forget, TypeOK
<1>2. CASE p = dead
  <2>1. InSlot(p)' = {}
    BY <1>1, <1>2 DEF InSlot
  <2>2. Cardinality(InSlot(p)') = 0
    BY <2>1, FS_EmptySet
  <2> QED BY <1>1, <1>2, <2>2, HandlersAssumption
<1>3. CASE p # dead
  <2>1. InSlot(p)' = InSlot(p) /\ freeSlots'[p] = freeSlots[p]
    BY <1>1, <1>3 DEF InSlot
  <2> QED BY <2>1 DEF SlotsConserved
<1> QED BY <1>2, <1>3

\* Every slot comes back, on each way out of the handler and after a crash
\* (service.py 91, 101-103).
THEOREM SlotsCorrect == Spec => []SlotsConserved
<1>1. Init => SlotsConserved
  <2> SUFFICES ASSUME Init, NEW p \in Processes
               PROVE  freeSlots[p] + Cardinality(InSlot(p)) = AddConcurrency
    BY DEF SlotsConserved
  <2>1. InSlot(p) = {} /\ freeSlots[p] = AddConcurrency
    BY DEF Init, HandlerInit, InSlot
  <2>2. Cardinality(InSlot(p)) = 0
    BY <2>1, FS_EmptySet
  <2> QED BY <2>1, <2>2, HandlersAssumption
<1>2. TypeOK /\ SlotsConserved /\ [Next]_vars => SlotsConserved'
  <2> SUFFICES ASSUME TypeOK, SlotsConserved, [Next]_vars PROVE SlotsConserved'
    OBVIOUS
  <2> USE DEF Outside
  <2>1. ASSUME NEW h \in Handlers, Receive(h) \/ Annotate(h) \/ Embed(h) PROVE SlotsConserved'
    BY <2>1, SlotKept DEF Receive, Annotate, Embed, Goto, TypeOK
  <2>2. ASSUME NEW h \in Handlers, AcquireSlot(h) PROVE SlotsConserved'
    BY <2>2, SlotTaken
  <2>3. ASSUME NEW h \in Handlers, Respond(h) PROVE SlotsConserved'
    BY <2>3, SlotKept DEF Respond, Forget, TypeOK
  <2>4. ASSUME NEW h \in Handlers, CheckStatus(h) PROVE SlotsConserved'
    <3>1. CASE \E status : Finish(h, status)
      BY <2>4, <3>1, SlotReturned DEF CheckStatus
    <3>2. CASE Goto(h, "annotate") /\ UNCHANGED freeSlots
      BY <2>4, <3>2, SlotKept DEF CheckStatus, Goto, TypeOK
    <3> QED BY <2>4, <3>1, <3>2 DEF CheckStatus
  <2>5. ASSUME NEW h \in Handlers,
               ModelUnavailable(h) \/ BeginFails(h) \/ RejectVector(h) \/ Commit(h)
                 \/ StatementFails(h)
        PROVE  SlotsConserved'
    <3>1. pc[h] \notin Outside /\ \E status : Finish(h, status)
      BY <2>5
         DEF ModelUnavailable, BeginFails, RejectVector, Commit, StatementFails, EndUnchanged,
             TxStates
    <3> QED BY <3>1, SlotReturned
  <2>6. ASSUME NEW h \in Handlers, BeginImmediate(h) \/ InsertMessage(h) \/ BumpRevision(h)
        PROVE  SlotsConserved'
    BY <2>6, SlotKept DEF BeginImmediate, InsertMessage, BumpRevision, Goto, TypeOK
  <2>7. ASSUME NEW h \in Handlers, CheckExisting(h) PROVE SlotsConserved'
    <3>1. CASE \E status : Finish(h, status)
      BY <2>7, <3>1, SlotReturned DEF CheckExisting
    <3>2. CASE Goto(h, "insert") /\ UNCHANGED freeSlots
      BY <2>7, <3>2, SlotKept DEF CheckExisting, Goto, TypeOK
    <3> QED BY <2>7, <3>1, <3>2 DEF CheckExisting, EndUnchanged
  <2>8. ASSUME NEW p \in Processes, ProcessCrash(p) PROVE SlotsConserved'
    BY <2>8, SlotsRestarted
  <2>9. CASE UNCHANGED vars
    BY <2>9, SlotKept DEF vars
  <2> QED
    BY <2>1, <2>2, <2>3, <2>4, <2>5, <2>6, <2>7, <2>8, <2>9
       DEF Next, HandlerStep, FrontStep, StoreStep
<1> QED BY <1>1, <1>2, TypeCorrect, PTL DEF Spec

-----------------------------------------------------------------------------
(***************************************************************************)
(* Implementation of the request ledger                                    *)
(***************************************************************************)
LEMMA CommitIsStore ==
    ASSUME IInv, NEW h \in Handlers, Commit(h)
    PROVE  Ledger!Store(req[h].key, req[h].payload)
BY CommitPublishes DEF IInv, Commit, Ledger!Store, Ledger!RowsOf, RowsOf

\* A step of the handlers is a step of the ledger or a stutter.
LEMMA StepImplements ==
    ASSUME IInv, [Next]_vars
    PROVE  [Ledger!Next]_Ledger!vars
<1>1. ASSUME NEW h \in Handlers, Commit(h) PROVE Ledger!Next
  <2>1. req[h].key \in Keys /\ req[h].payload \in Payloads
    BY <1>1, CommitPublishes DEF IInv
  <2> QED BY <1>1, <2>1, CommitIsStore DEF Ledger!Next
<1>2. CASE UNCHANGED db
  <2>1. ASSUME NEW h \in Handlers, req[h] \in Requests, Stored(h), acked' = acked \cup {req[h]}
        PROVE  Ledger!Next
    <3>1. req[h] = [key |-> req[h].key, payload |-> req[h].payload]
          /\ req[h].key \in Keys /\ req[h].payload \in Payloads
      BY <2>1 DEF Requests
    <3>2. Ledger!Acknowledge(req[h].key, req[h].payload)
      BY <1>2, <2>1, <3>1 DEF Ledger!Acknowledge, Stored
    <3> QED BY <3>1, <3>2 DEF Ledger!Next
  <2>2. CASE acked' = acked
    BY <1>2, <2>2 DEF Ledger!vars
  <2> QED BY <2>1, <2>2, AckedStep
<1> QED BY <1>1, <1>2, OnlyCommitWrites

\* Add over SQLite is the request ledger: crashes, lock timeouts, failed models,
\* failed statements and racing retries are all stutters of it.
THEOREM LedgerImplemented == Spec => ImplementsLedger
<1>1. Init => Ledger!Init
  BY DEF Init, HandlerInit, EmptyTables, Ledger!Init
<1> QED BY <1>1, StepImplements, SpecIInv, PTL DEF Spec, ImplementsLedger, Ledger!Spec
=============================================================================
