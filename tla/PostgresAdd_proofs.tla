------------------------ MODULE PostgresAdd_proofs --------------------------
(***************************************************************************)
(* The safety of PostgresAdd for any handlers, processes, keys, payloads   *)
(* and pool sizes, and its implementation of RequestLedger.  Transactions  *)
(* overlap here; what keeps two of them apart is that the row of a key has *)
(* one holder, from its insert to the end of the transaction.              *)
(***************************************************************************)
EXTENDS PostgresAdd, FiniteSetTheorems, TLAPS

\* A transaction that has inserted its request row.
Writing == {"insert", "commit"}

\* The uncommitted row of a key belongs to the one transaction that inserted it.
KeyInv ==
    \A h \in Handlers, key \in Keys :
        keyHolder[key] = h <=> pc[h] \in Writing /\ req[h].key = key

Stored(h) == db.requests[req[h].key] = req[h].payload

\* What a handler knows where it stands.
HandlerInv(h) ==
    /\ pc[h] # "idle" => req[h] \in Requests
    /\ pc[h] \in {"store"} \cup TxStates => finite[h] <= MessageCount[req[h].payload]
    /\ pc[h] \notin Writing => next[h] = 0
    /\ pc[h] = "compare" => db.requests[req[h].key] # None
    /\ pc[h] \in Writing =>
        /\ db.requests[req[h].key] = None
        /\ next[h] <= MessageCount[req[h].payload]
    /\ pc[h] = "commit" => next[h] = MessageCount[req[h].payload]
    /\ pc[h] = "done" /\ outcome[h] = 200 => Stored(h)
    /\ pc[h] = "done" /\ outcome[h] = 409 =>
        \/ db.requests[req[h].key] \notin {None, req[h].payload}
        \/ finite[h] < MessageCount[req[h].payload]

IInv ==
    /\ TypeOK
    /\ KeyInv
    /\ \A h \in Handlers : HandlerInv(h)
    /\ AllOrNothing
    /\ AckedIsStored

-----------------------------------------------------------------------------
(***************************************************************************)
(* Who moves, and who writes                                               *)
(***************************************************************************)

\* The steps a handler takes itself.
Moves(h) ==
    \/ Receive(h) /\ UNCHANGED storeVars
    \/ AcquireSlot(h) /\ UNCHANGED storeVars
    \/ HandlerStep(h)
    \/ StatementFails(h)

Kept(i) ==
    pc'[i] = pc[i] /\ req'[i] = req[i] /\ finite'[i] = finite[i]
        /\ outcome'[i] = outcome[i] /\ next'[i] = next[i]

\* Handlers that forget their request are idle; the others keep their types.
LEMMA ForgetTypes ==
    ASSUME TypeOK, NEW hs, Forget(hs)
    PROVE  /\ pc' \in [Handlers -> FrontStates \cup {"store"} \cup TxStates]
           /\ req' \in [Handlers -> Requests \cup {None}]
           /\ known' \in [Handlers -> BOOLEAN]
           /\ finite' \in [Handlers -> Nat]
           /\ outcome' \in [Handlers -> Statuses]
<1>1. pc' \in [Handlers -> FrontStates \cup {"store"} \cup TxStates]
  BY DEF TypeOK, Forget, FrontStates
<1>2. req' \in [Handlers -> Requests \cup {None}]
  BY DEF TypeOK, Forget
<1>3. known' \in [Handlers -> BOOLEAN]
  BY DEF TypeOK, Forget
<1>4. finite' \in [Handlers -> Nat] /\ outcome' \in [Handlers -> Statuses]
  BY DEF TypeOK, Forget, Statuses
<1> QED BY <1>1, <1>2, <1>3, <1>4

LEMMA EndTransactionTypes ==
    ASSUME TypeOK, NEW h \in Handlers, EndTransaction(h)
    PROVE  /\ connections' \in [Processes -> Nat]
           /\ keyHolder' \in [Keys -> Handlers \cup {None}]
           /\ userHolder' \in [Users -> Handlers \cup {None}]
           /\ next' \in [Handlers -> Nat]
<1>1. connections' \in [Processes -> Nat]
  <2>1. /\ connections \in [Processes -> Nat] /\ ProcessOf[h] \in Processes
        /\ connections' = [connections EXCEPT ![ProcessOf[h]] = @ + 1]
    BY HandlersAssumption DEF TypeOK, EndTransaction
  <2> QED BY <2>1
<1>2. keyHolder' \in [Keys -> Handlers \cup {None}]
  BY DEF TypeOK, EndTransaction
<1>3. userHolder' \in [Users -> Handlers \cup {None}]
  BY DEF TypeOK, EndTransaction
<1>4. next' \in [Handlers -> Nat]
  BY DEF TypeOK, EndTransaction
<1> QED BY <1>1, <1>2, <1>3, <1>4

\* Every step keeps every variable in its type, when a handler that is not idle
\* holds a request.
LEMMA TypeStep ==
    ASSUME TypeOK, \A h \in Handlers : HandlerInv(h), [Next]_vars
    PROVE  TypeOK'
<1> USE HandlersAssumption, RequestsAssumption, PoolAssumption
<1>1. ASSUME NEW h \in Handlers, Receive(h), UNCHANGED storeVars PROVE TypeOK'
  BY <1>1 DEF TypeOK, Receive, Goto, storeVars, FrontStates
<1>2. ASSUME NEW h \in Handlers, AcquireSlot(h), UNCHANGED storeVars PROVE TypeOK'
  BY <1>2 DEF TypeOK, AcquireSlot, Goto, storeVars, FrontStates
<1>3. ASSUME NEW h \in Handlers, CheckStatusPooled(h) PROVE TypeOK'
  BY <1>3 DEF TypeOK, CheckStatusPooled, CheckStatus, Finish, Goto, storeVars, FrontStates, Statuses
<1>4. ASSUME NEW h \in Handlers, Annotate(h), UNCHANGED storeVars PROVE TypeOK'
  BY <1>4 DEF TypeOK, Annotate, Goto, storeVars, FrontStates
<1>5. ASSUME NEW h \in Handlers, Embed(h), UNCHANGED storeVars PROVE TypeOK'
  BY <1>5 DEF TypeOK, HandlerInv, Requests, Embed, Goto, storeVars, FrontStates
<1>6. ASSUME NEW h \in Handlers, ModelUnavailable(h), UNCHANGED storeVars PROVE TypeOK'
  BY <1>6 DEF TypeOK, ModelUnavailable, Finish, Goto, storeVars, FrontStates, Statuses
<1>7. ASSUME NEW h \in Handlers, Respond(h), UNCHANGED storeVars PROVE TypeOK'
  <2>1. acked' \in SUBSET Requests
    BY <1>7 DEF TypeOK, HandlerInv, Respond
  <2>2. UNCHANGED <<db, freeSlots, storeVars>>
    BY <1>7 DEF Respond
  <2> QED BY <1>7, <2>1, <2>2, ForgetTypes DEF TypeOK, Respond, storeVars
<1>8. ASSUME NEW h \in Handlers, PoolTimeout(h) PROVE TypeOK'
  BY <1>8 DEF TypeOK, PoolTimeout, Finish, Goto, storeVars, FrontStates, Statuses
<1>9. ASSUME NEW h \in Handlers, Borrow(h) PROVE TypeOK'
  BY <1>9 DEF TypeOK, Borrow, Goto, TxStates
<1>10. ASSUME NEW h \in Handlers, ClaimKey(h) PROVE TypeOK'
  <2>1. req[h].key \in Keys
    BY <1>10 DEF ClaimKey, HandlerInv, Requests
  <2> QED BY <1>10, <2>1 DEF TypeOK, ClaimKey, Goto, TxStates
<1>11. ASSUME NEW h \in Handlers, NEW status \in Statuses, EndTransaction(h), Finish(h, status),
              db' \in Tables, UNCHANGED <<req, known, finite, acked>>
       PROVE  TypeOK'
  BY <1>11, EndTransactionTypes DEF TypeOK, Finish, Goto, FrontStates
<1>12. ASSUME NEW h \in Handlers, NEW status \in Statuses, EndUnchanged(h, status)
       PROVE  TypeOK'
  BY <1>11, <1>12 DEF TypeOK, EndUnchanged
<1>13. ASSUME NEW h \in Handlers, InsertMessage(h) PROVE TypeOK'
  BY <1>13 DEF InsertMessage, TypeOK
<1>14. ASSUME NEW h \in Handlers, BumpRevision(h) PROVE TypeOK'
  <2>1. UserOf[req[h].key] \in Users
    BY <1>14 DEF BumpRevision, HandlerInv, Requests
  <2> QED BY <1>14, <2>1 DEF TypeOK, BumpRevision, Goto, TxStates
<1>15. ASSUME NEW h \in Handlers, Commit(h) PROVE TypeOK'
  <2>1. Committed(h) \in Tables
    <3>1. /\ req[h].key \in Keys /\ req[h].payload \in Payloads
          /\ UserOf[req[h].key] \in Users
      BY <1>15 DEF Commit, HandlerInv, Requests
    <3>2. db \in Tables /\ next[h] \in Nat
      BY DEF TypeOK
    <3>3. {req[h].key} \X (0 .. next[h] - 1) \in SUBSET (Keys \X Nat)
      BY <3>1, <3>2
    <3> DEFINE requests == [db.requests EXCEPT ![req[h].key] = req[h].payload]
               revision == [db.revision EXCEPT ![UserOf[req[h].key]] = @ + 1]
               rows == {req[h].key} \X (0 .. next[h] - 1)
    <3>4. requests \in [Keys -> Payloads \cup {None}] /\ revision \in [Users -> Nat]
      BY <3>1, <3>2 DEF Tables
    <3>5. Committed(h) = [db EXCEPT !.requests = requests, !.memories = @ \cup rows,
                                    !.embeddings = @ \cup rows, !.revision = revision]
      BY <3>2 DEF Committed, Tables
    <3>6. rows \in SUBSET (Keys \X Nat)
      BY <3>3
    <3> HIDE DEF requests, revision, rows
    <3>7. Committed(h) = [requests |-> requests, memories |-> db.memories \cup rows,
                          embeddings |-> db.embeddings \cup rows, revision |-> revision]
      BY <3>2, <3>5 DEF Tables
    <3>8. db.memories \cup rows \in SUBSET (Keys \X Nat)
          /\ db.embeddings \cup rows \in SUBSET (Keys \X Nat)
      BY <3>2, <3>6 DEF Tables
    <3> QED BY <3>4, <3>7, <3>8 DEF Tables
  <2>2. PICK status \in {200, 500} : Finish(h, status)
    BY <1>15 DEF Commit
  <2> QED BY <1>11, <1>15, <2>1, <2>2 DEF Commit, Statuses
<1>16. ASSUME NEW p \in Processes, ProcessCrash(p) PROVE TypeOK'
  <2>1. /\ connections' \in [Processes -> Nat]
        /\ keyHolder' \in [Keys -> Handlers \cup {None}]
        /\ userHolder' \in [Users -> Handlers \cup {None}]
        /\ next' \in [Handlers -> Nat]
    BY <1>16 DEF TypeOK, ProcessCrash
  <2>2. freeSlots' \in [Processes -> Nat] /\ UNCHANGED <<db, acked>>
    BY <1>16 DEF TypeOK, ProcessCrash, Crash
  <2> QED BY <1>16, <2>1, <2>2, ForgetTypes DEF TypeOK, ProcessCrash, Crash
<1>17. CASE UNCHANGED vars
  BY <1>17 DEF TypeOK, vars
<1>18. ASSUME NEW h \in Handlers, Compare(h) \/ RejectVector(h) \/ StatementFails(h)
       PROVE  TypeOK'
  BY <1>12, <1>18 DEF Compare, RejectVector, StatementFails, Statuses
<1> QED
  BY <1>1, <1>2, <1>3, <1>4, <1>5, <1>6, <1>7, <1>8, <1>9, <1>10, <1>13, <1>14, <1>15,
     <1>16, <1>17, <1>18
     DEF Next, HandlerStep, StoreStep

\* Only a commit changes the tables that others read.
LEMMA OnlyCommitWrites ==
    ASSUME [Next]_vars
    PROVE  UNCHANGED db \/ \E h \in Handlers : Commit(h)
<1>1. ASSUME NEW h \in Handlers, Moves(h), ~ Commit(h) PROVE UNCHANGED db
  <2>1. CASE Receive(h) \/ AcquireSlot(h) \/ Annotate(h) \/ Embed(h)
             \/ ModelUnavailable(h) \/ Respond(h)
    BY <2>1 DEF Receive, AcquireSlot, Annotate, Embed, ModelUnavailable, Respond
  <2>2. CASE StoreStep(h) \/ StatementFails(h)
    BY <1>1, <2>2
       DEF StoreStep, CheckStatusPooled, CheckStatus, PoolTimeout, Borrow, ClaimKey, Compare,
           InsertMessage, RejectVector, BumpRevision, StatementFails, EndUnchanged
  <2> QED BY <1>1, <2>1, <2>2 DEF Moves, HandlerStep
<1>2. ASSUME NEW p \in Processes, ProcessCrash(p) PROVE UNCHANGED db
  BY <1>2 DEF ProcessCrash, Crash
<1> QED BY <1>1, <1>2 DEF Next, Moves, vars

\* A committing transaction publishes one whole request under a free key.
LEMMA CommitPublishes ==
    ASSUME TypeOK, NEW h \in Handlers, HandlerInv(h), Commit(h)
    PROVE  LET key == req[h].key
               payload == req[h].payload
           IN  /\ key \in Keys /\ payload \in Payloads
               /\ db.requests[key] = None
               /\ db'.requests = [db.requests EXCEPT ![key] = payload]
               /\ db'.memories = db.memories \cup RowsOf(key, payload)
               /\ db'.embeddings = db.embeddings \cup RowsOf(key, payload)
               /\ db'.revision = [db.revision EXCEPT ![UserOf[key]] = @ + 1]
<1>1. pc[h] = "commit" /\ db' = Committed(h) /\ req[h] \in Requests
  BY DEF Commit, HandlerInv
<1>2. next[h] = MessageCount[req[h].payload] /\ db.requests[req[h].key] = None
  BY <1>1 DEF HandlerInv, Writing
<1>3. db \in Tables
  BY DEF TypeOK
<1> QED BY <1>1, <1>2, <1>3 DEF Committed, Tables, Requests, RowsOf

\* What is stored under a key stays there.
LEMMA StoredStays ==
    ASSUME TypeOK, \A h \in Handlers : HandlerInv(h), [Next]_vars,
           NEW key \in Keys, db.requests[key] # None
    PROVE  db'.requests[key] = db.requests[key]
<1>1. ASSUME NEW h \in Handlers, Commit(h) PROVE db'.requests[key] = db.requests[key]
  <2>1. /\ req[h].key \in Keys /\ db.requests[req[h].key] = None
        /\ db'.requests = [db.requests EXCEPT ![req[h].key] = req[h].payload]
    BY <1>1, CommitPublishes
  <2>2. db.requests \in [Keys -> Payloads \cup {None}]
    BY DEF TypeOK, Tables
  <2> QED BY <2>1, <2>2
<1> QED BY <1>1, OnlyCommitWrites

\* In a step, a handler moves, or dies with its process, or is left alone.
LEMMA MovesOrKept ==
    ASSUME TypeOK, [Next]_vars, NEW i \in Handlers
    PROVE  Moves(i) \/ (pc'[i] = "idle" /\ next'[i] = 0) \/ Kept(i)
<1>1. ASSUME NEW h \in Handlers, Moves(h), h # i PROVE Kept(i)
  <2> USE DEF TypeOK, Goto, Finish, Kept, storeVars
  <2>1. CASE (Receive(h) \/ AcquireSlot(h)) /\ UNCHANGED storeVars
    BY <1>1, <2>1 DEF Receive, AcquireSlot
  <2>2. CASE (Annotate(h) \/ Embed(h) \/ ModelUnavailable(h)) /\ UNCHANGED storeVars
    BY <1>1, <2>2 DEF Annotate, Embed, ModelUnavailable
  <2>3. CASE Respond(h) /\ UNCHANGED storeVars
    BY <1>1, <2>3 DEF Respond, Forget
  <2>4. CASE CheckStatusPooled(h) \/ PoolTimeout(h) \/ Borrow(h)
    BY <1>1, <2>4 DEF CheckStatusPooled, CheckStatus, PoolTimeout, Borrow
  <2>5. CASE ClaimKey(h) \/ InsertMessage(h) \/ BumpRevision(h)
    BY <1>1, <2>5 DEF ClaimKey, InsertMessage, BumpRevision
  <2>6. CASE Compare(h) \/ RejectVector(h) \/ StatementFails(h)
    BY <1>1, <2>6 DEF Compare, RejectVector, StatementFails, EndUnchanged, EndTransaction
  <2>7. CASE Commit(h)
    BY <1>1, <2>7 DEF Commit, EndTransaction
  <2> QED BY <1>1, <2>1, <2>2, <2>3, <2>4, <2>5, <2>6, <2>7 DEF Moves, HandlerStep, StoreStep
<1>2. ASSUME NEW p \in Processes, ProcessCrash(p)
      PROVE  (pc'[i] = "idle" /\ next'[i] = 0) \/ Kept(i)
  <2>1. CASE ProcessOf[i] = p
    BY <1>2, <2>1 DEF ProcessCrash, Crash, Forget
  <2>2. CASE ProcessOf[i] # p
    BY <1>2, <2>2 DEF ProcessCrash, Crash, Forget, Kept
  <2> QED BY <2>1, <2>2
<1>3. CASE UNCHANGED vars
  BY <1>3 DEF vars, Kept
<1> QED BY <1>1, <1>2, <1>3 DEF Next, Moves

-----------------------------------------------------------------------------
(***************************************************************************)
(* The holder of a key                                                     *)
(***************************************************************************)

\* A step that leaves the keys alone and moves nobody into a transaction's writes
\* or out of them.
LEMMA KeysKept ==
    ASSUME KeyInv, UNCHANGED keyHolder, NEW h \in Handlers, pc[h] \notin Writing,
           pc'[h] \notin Writing,
           \A i \in Handlers \ {h} : pc'[i] = pc[i] /\ req'[i] = req[i]
    PROVE  KeyInv'
BY DEF KeyInv

\* The end of a transaction frees its key and no other.
LEMMA KeyFreed ==
    ASSUME TypeOK, KeyInv, NEW h \in Handlers, NEW status,
           EndTransaction(h), Finish(h, status), UNCHANGED req
    PROVE  KeyInv'
BY PoolAssumption DEF TypeOK, KeyInv, EndTransaction, Finish, Goto, Writing

LEMMA KeyStep ==
    ASSUME TypeOK, KeyInv, \A h \in Handlers : HandlerInv(h), [Next]_vars
    PROVE  KeyInv'
<1> USE DEF TypeOK, Goto, Finish, storeVars, Writing
<1>1. ASSUME NEW h \in Handlers, Receive(h) \/ AcquireSlot(h), UNCHANGED storeVars
      PROVE  KeyInv'
  BY <1>1, KeysKept DEF Receive, AcquireSlot
<1>2. ASSUME NEW h \in Handlers, Annotate(h) \/ Embed(h) \/ ModelUnavailable(h),
             UNCHANGED storeVars
      PROVE  KeyInv'
  BY <1>2, KeysKept DEF Annotate, Embed, ModelUnavailable
<1>3. ASSUME NEW h \in Handlers, Respond(h), UNCHANGED storeVars PROVE KeyInv'
  BY <1>3, KeysKept DEF Respond, Forget
<1>4. ASSUME NEW h \in Handlers, CheckStatusPooled(h) \/ PoolTimeout(h) PROVE KeyInv'
  BY <1>4, KeysKept DEF CheckStatusPooled, CheckStatus, PoolTimeout
<1>5. ASSUME NEW h \in Handlers, Borrow(h) PROVE KeyInv'
  BY <1>5, KeysKept DEF Borrow
<1>6. ASSUME NEW h \in Handlers, ClaimKey(h) PROVE KeyInv'
  <2>1. req[h].key \in Keys /\ pc[h] = "claim" /\ keyHolder[req[h].key] = None
    BY <1>6 DEF ClaimKey, HandlerInv, Requests, TxStates
  <2>2. CASE db.requests[req[h].key] # None
    BY <1>6, <2>1, <2>2, KeysKept DEF ClaimKey
  <2>3. CASE db.requests[req[h].key] = None
    <3>1. /\ keyHolder' = [keyHolder EXCEPT ![req[h].key] = h]
          /\ pc' = [pc EXCEPT ![h] = "insert"] /\ req' = req
      BY <1>6, <2>3 DEF ClaimKey
    <3> QED BY <2>1, <3>1, PoolAssumption DEF KeyInv
  <2> QED BY <2>2, <2>3
<1>7. ASSUME NEW h \in Handlers, InsertMessage(h) \/ BumpRevision(h) PROVE KeyInv'
  BY <1>7 DEF InsertMessage, BumpRevision, KeyInv
<1>8. ASSUME NEW h \in Handlers, Compare(h) \/ RejectVector(h) \/ StatementFails(h)
      PROVE  KeyInv'
  BY <1>8, KeyFreed DEF Compare, RejectVector, StatementFails, EndUnchanged
<1>9. ASSUME NEW h \in Handlers, Commit(h) PROVE KeyInv'
  BY <1>9, KeyFreed DEF Commit
<1>10. ASSUME NEW p \in Processes, ProcessCrash(p) PROVE KeyInv'
  BY <1>10, PoolAssumption DEF ProcessCrash, Crash, Forget, KeyInv
<1>11. CASE UNCHANGED vars
  BY <1>11 DEF vars, KeyInv
<1> QED
  BY <1>1, <1>2, <1>3, <1>4, <1>5, <1>6, <1>7, <1>8, <1>9, <1>10, <1>11
     DEF Next, HandlerStep, StoreStep

-----------------------------------------------------------------------------
(***************************************************************************)
(* What a handler knows                                                    *)
(***************************************************************************)

\* A handler that is left alone still knows it: what another commits lies under
\* another key, or it would hold the same row.
LEMMA KeptHandlerInv ==
    ASSUME TypeOK, KeyInv, \A h \in Handlers : HandlerInv(h), [Next]_vars,
           NEW i \in Handlers, Kept(i)
    PROVE  HandlerInv(i)'
<1>1. CASE pc[i] = "idle"
  BY <1>1 DEF Kept, HandlerInv, TxStates, Writing
<1>2. CASE pc[i] # "idle"
  <2>1. req[i] \in Requests /\ req[i].key \in Keys
    BY <1>2 DEF HandlerInv, Requests
  <2>2. db.requests[req[i].key] # None => db'.requests[req[i].key] = db.requests[req[i].key]
    BY <2>1, StoredStays
  <2>3. ASSUME pc[i] \in Writing PROVE db'.requests[req[i].key] = None
    <3>1. db.requests[req[i].key] = None /\ keyHolder[req[i].key] = i
      BY <2>1, <2>3 DEF HandlerInv, KeyInv
    <3>2. ASSUME NEW h \in Handlers, Commit(h) PROVE db'.requests[req[i].key] = None
      <4>1. h # i
        BY <2>3, <3>2 DEF Commit, Finish, Goto, Kept, Writing, TypeOK
      <4>2. /\ req[h].key \in Keys
            /\ db'.requests = [db.requests EXCEPT ![req[h].key] = req[h].payload]
        BY <3>2, CommitPublishes
      <4>3. keyHolder[req[h].key] = h
        BY <3>2, <4>2 DEF Commit, KeyInv, Writing
      <4>4. req[h].key # req[i].key
        BY <3>1, <4>1, <4>3
      <4> QED BY <2>1, <3>1, <4>2, <4>4 DEF TypeOK, Tables
    <3> QED BY <3>1, <3>2, OnlyCommitWrites
  <2>4. req[i].payload # None
    BY <2>1, RequestsAssumption DEF Requests
  <2> QED BY <2>2, <2>3, <2>4 DEF HandlerInv, Kept, Stored
<1> QED BY <1>1, <1>2

\* A handler that moves knows what its step tells it.
LEMMA MovedHandlerInv ==
    ASSUME TypeOK, KeyInv, NEW i \in Handlers, HandlerInv(i), Moves(i)
    PROVE  HandlerInv(i)'
<1> USE DEF TypeOK, Goto, storeVars, TxStates, Writing
<1>1. CASE Receive(i) /\ UNCHANGED storeVars
  BY <1>1 DEF Receive, HandlerInv
<1>2. CASE AcquireSlot(i) /\ UNCHANGED storeVars
  BY <1>2 DEF AcquireSlot, HandlerInv
<1>3. CASE CheckStatusPooled(i)
  <2>1. req[i] \in Requests /\ pc[i] = "status" /\ UNCHANGED <<db, req, known, finite, storeVars>>
    BY <1>3 DEF CheckStatusPooled, CheckStatus, HandlerInv
  <2>2. \/ RequestStatus(req[i]) = "existing" /\ Finish(i, 200)
        \/ RequestStatus(req[i]) = "conflict" /\ Finish(i, 409)
        \/ pc'[i] = "annotate"
        \/ Finish(i, 500)
    BY <1>3 DEF CheckStatusPooled, CheckStatus
  <2>3. next'[i] = 0
    BY <2>1 DEF HandlerInv
  <2>4. CASE RequestStatus(req[i]) = "existing" /\ Finish(i, 200)
    BY <2>1, <2>3, <2>4 DEF Finish, RequestStatus, HandlerInv, Stored
  <2>5. CASE RequestStatus(req[i]) = "conflict" /\ Finish(i, 409)
    BY <2>1, <2>3, <2>5 DEF Finish, RequestStatus, HandlerInv
  <2>6. CASE pc'[i] = "annotate" \/ Finish(i, 500)
    BY <2>1, <2>3, <2>6 DEF Finish, HandlerInv
  <2> QED BY <2>2, <2>4, <2>5, <2>6
<1>4. CASE Annotate(i) /\ UNCHANGED storeVars
  BY <1>4 DEF Annotate, HandlerInv
<1>5. CASE Embed(i) /\ UNCHANGED storeVars
  <2>1. pc'[i] = "store" /\ finite'[i] \in 0 .. MessageCount[req[i].payload]
        /\ req[i] \in Requests /\ next[i] = 0 /\ UNCHANGED <<db, req, outcome, next>>
    BY <1>5 DEF Embed, HandlerInv
  <2>2. MessageCount[req[i].payload] \in Nat
    BY <2>1, RequestsAssumption DEF Requests
  <2> QED BY <2>1, <2>2 DEF HandlerInv
<1>6. CASE ModelUnavailable(i) /\ UNCHANGED storeVars
  BY <1>6 DEF ModelUnavailable, Finish, HandlerInv
<1>7. CASE Respond(i) /\ UNCHANGED storeVars
  BY <1>7 DEF Respond, Forget, HandlerInv
<1>8. CASE PoolTimeout(i)
  BY <1>8 DEF PoolTimeout, Finish, HandlerInv
<1>9. CASE Borrow(i)
  BY <1>9 DEF Borrow, HandlerInv
<1>10. CASE ClaimKey(i)
  <2>1. /\ pc[i] = "claim" /\ req[i] \in Requests /\ next[i] = 0
        /\ finite[i] <= MessageCount[req[i].payload]
        /\ MessageCount[req[i].payload] \in Nat
        /\ UNCHANGED <<db, req, finite, outcome, next>>
    BY <1>10, RequestsAssumption DEF ClaimKey, HandlerInv, Requests
  <2>2. \/ db.requests[req[i].key] = None /\ pc'[i] = "insert"
        \/ db.requests[req[i].key] # None /\ pc'[i] = "compare"
    BY <1>10 DEF ClaimKey
  <2> QED BY <2>1, <2>2 DEF HandlerInv
<1>11. CASE Compare(i)
  <2>1. pc[i] = "compare" /\ req[i] \in Requests /\ db.requests[req[i].key] # None
    BY <1>11 DEF Compare, HandlerInv
  <2>2. /\ pc'[i] = "done" /\ next'[i] = 0 /\ UNCHANGED <<db, req, finite>>
        /\ outcome'[i] = IF db.requests[req[i].key] = req[i].payload THEN 200 ELSE 409
    BY <1>11 DEF Compare, EndUnchanged, EndTransaction, Finish
  <2> QED BY <2>1, <2>2 DEF HandlerInv, Stored
<1>12. CASE InsertMessage(i)
  <2>1. /\ pc[i] = "insert" /\ next[i] < finite[i] /\ next'[i] = next[i] + 1
        /\ UNCHANGED <<db, pc, req, finite, outcome>>
    BY <1>12 DEF InsertMessage
  <2>2. /\ finite[i] <= MessageCount[req[i].payload] /\ req[i] \in Requests
        /\ db.requests[req[i].key] = None
    BY <2>1 DEF HandlerInv
  <2>3. MessageCount[req[i].payload] \in Nat /\ finite[i] \in Nat /\ next[i] \in Nat
    BY <2>2, RequestsAssumption DEF Requests
  <2> QED BY <2>1, <2>2, <2>3 DEF HandlerInv
<1>13. CASE RejectVector(i)
  <2>1. /\ pc[i] = "insert" /\ finite[i] < MessageCount[req[i].payload] /\ req[i] \in Requests
    BY <1>13 DEF RejectVector, HandlerInv
  <2>2. pc'[i] = "done" /\ next'[i] = 0 /\ outcome'[i] = 409 /\ UNCHANGED <<db, req, finite>>
    BY <1>13 DEF RejectVector, EndUnchanged, EndTransaction, Finish
  <2> QED BY <2>1, <2>2 DEF HandlerInv
<1>14. CASE BumpRevision(i)
  BY <1>14 DEF BumpRevision, HandlerInv
<1>15. CASE Commit(i)
  <2>1. /\ req[i].key \in Keys
        /\ db'.requests = [db.requests EXCEPT ![req[i].key] = req[i].payload]
        /\ req[i] \in Requests
    <3>1. HandlerInv(i) /\ pc[i] = "commit"
      BY <1>15 DEF Commit
    <3>2. req[i] \in Requests
      BY <3>1 DEF HandlerInv
    <3> QED BY <1>15, <3>1, <3>2, CommitPublishes
  <2>2. pc'[i] = "done" /\ next'[i] = 0 /\ outcome'[i] \in {200, 500} /\ req' = req
    BY <1>15 DEF Commit, EndTransaction, Finish
  <2>3. db'.requests[req[i].key] = req[i].payload
    BY <2>1 DEF Tables
  <2> QED BY <2>1, <2>2, <2>3 DEF HandlerInv, Stored
<1>16. CASE StatementFails(i)
  BY <1>16 DEF StatementFails, EndUnchanged, EndTransaction, Finish, HandlerInv
<1> QED
  BY <1>1, <1>2, <1>3, <1>4, <1>5, <1>6, <1>7, <1>8, <1>9, <1>10, <1>11, <1>12, <1>13,
     <1>14, <1>15, <1>16
     DEF Moves, HandlerStep, StoreStep

LEMMA HandlerInvStep ==
    ASSUME TypeOK, KeyInv, \A h \in Handlers : HandlerInv(h), [Next]_vars, NEW i \in Handlers
    PROVE  HandlerInv(i)'
<1>1. CASE pc'[i] = "idle" /\ next'[i] = 0
  BY <1>1 DEF HandlerInv, TxStates, Writing
<1> QED BY <1>1, MovesOrKept, KeptHandlerInv, MovedHandlerInv

-----------------------------------------------------------------------------
(***************************************************************************)
(* The tables and the acknowledgements                                     *)
(***************************************************************************)

\* Storing a payload under a free key adds exactly its messages.
LEMMA StoredRowsAdd ==
    ASSUME NEW requests \in [Keys -> Payloads \cup {None}], NEW key \in Keys,
           NEW payload \in Payloads, requests[key] = None
    PROVE  StoredRows([requests EXCEPT ![key] = payload])
               = StoredRows(requests) \cup RowsOf(key, payload)
<1> DEFINE after == [requests EXCEPT ![key] = payload]
<1>1. ASSUME NEW row PROVE row \in StoredRows(after)
          <=> row \in StoredRows(requests) \cup RowsOf(key, payload)
  <2>1. row \in StoredRows(after)
            <=> \E k \in Keys : after[k] # None /\ row \in RowsOf(k, after[k])
    BY DEF StoredRows
  <2>2. row \in StoredRows(requests)
            <=> \E k \in Keys : requests[k] # None /\ row \in RowsOf(k, requests[k])
    BY DEF StoredRows
  <2>3. after[key] = payload /\ payload # None
    BY RequestsAssumption
  <2>4. \A k \in Keys : k # key => after[k] = requests[k]
    OBVIOUS
  <2> HIDE DEF after
  <2> QED BY <2>1, <2>2, <2>3, <2>4
<1> QED BY <1>1

LEMMA AllOrNothingStep ==
    ASSUME IInv, [Next]_vars
    PROVE  AllOrNothing'
<1>1. CASE UNCHANGED db
  BY <1>1 DEF IInv, AllOrNothing, StoredRows
<1>2. ASSUME NEW h \in Handlers, Commit(h) PROVE AllOrNothing'
  <2> DEFINE key == req[h].key
             payload == req[h].payload
  <2>1. /\ key \in Keys /\ payload \in Payloads
        /\ db.requests[key] = None
        /\ db'.requests = [db.requests EXCEPT ![key] = payload]
        /\ db'.memories = db.memories \cup RowsOf(key, payload)
        /\ db'.embeddings = db.embeddings \cup RowsOf(key, payload)
    BY <1>2, CommitPublishes DEF IInv
  <2>2. db.requests \in [Keys -> Payloads \cup {None}]
    BY DEF IInv, TypeOK, Tables
  <2>3. StoredRows(db'.requests) = StoredRows(db.requests) \cup RowsOf(key, payload)
    BY <2>1, <2>2, StoredRowsAdd
  <2> QED BY <2>1, <2>3 DEF IInv, AllOrNothing
<1> QED BY <1>1, <1>2, OnlyCommitWrites

\* Acknowledgements are added by Respond only, for a stored payload.
LEMMA AckedStep ==
    ASSUME IInv, [Next]_vars
    PROVE  acked' = acked \/ \E h \in Handlers :
               /\ UNCHANGED db
               /\ req[h] \in Requests /\ Stored(h)
               /\ acked' = acked \cup {req[h]}
<1>1. ASSUME NEW h \in Handlers, Respond(h), acked' # acked
      PROVE  UNCHANGED db /\ req[h] \in Requests /\ Stored(h) /\ acked' = acked \cup {req[h]}
  <2>1. pc[h] = "done" /\ outcome[h] = 200 /\ acked' = acked \cup {req[h]} /\ UNCHANGED db
    BY <1>1 DEF Respond
  <2> QED BY <2>1 DEF IInv, HandlerInv
<1>2. ASSUME NEW h \in Handlers, Receive(h) \/ AcquireSlot(h) \/ StoreStep(h) \/ StatementFails(h)
      PROVE  acked' = acked
  BY <1>2
     DEF Receive, AcquireSlot, StoreStep, CheckStatusPooled, CheckStatus, PoolTimeout, Borrow,
         ClaimKey, Compare, InsertMessage, RejectVector, BumpRevision, Commit, StatementFails,
         EndUnchanged
<1>3. ASSUME NEW h \in Handlers, Annotate(h) \/ Embed(h) \/ ModelUnavailable(h)
      PROVE  acked' = acked
  BY <1>3 DEF Annotate, Embed, ModelUnavailable
<1>4. ASSUME NEW p \in Processes, ProcessCrash(p) PROVE acked' = acked
  BY <1>4 DEF ProcessCrash, Crash
<1> QED BY <1>1, <1>2, <1>3, <1>4 DEF Next, HandlerStep, vars

-----------------------------------------------------------------------------
(***************************************************************************)
(* The inductive invariant and the theorems                                *)
(***************************************************************************)

\* The empty tables and idle handlers satisfy the inductive invariant,
LEMMA InitIInv == Init => IInv
<1> SUFFICES ASSUME Init PROVE IInv
  OBVIOUS
<1> USE DEF Init, HandlerInit
<1>1. TypeOK
  <2>1. EmptyTables \in Tables
    BY DEF EmptyTables, Tables
  <2> QED BY <2>1, HandlersAssumption, PoolAssumption DEF TypeOK, FrontStates, Statuses
<1>2. KeyInv /\ \A h \in Handlers : HandlerInv(h)
  BY PoolAssumption DEF KeyInv, HandlerInv, TxStates, Writing
<1>3. AllOrNothing /\ AckedIsStored
  BY DEF AllOrNothing, AckedIsStored, StoredRows, EmptyTables
<1> QED BY <1>1, <1>2, <1>3 DEF IInv

\* and every step keeps it.
LEMMA NextIInv == IInv /\ [Next]_vars => IInv'
<1> SUFFICES ASSUME IInv, [Next]_vars PROVE IInv'
  OBVIOUS
<1>1. TypeOK'
  BY TypeStep DEF IInv
<1>2. KeyInv'
  BY KeyStep DEF IInv
<1>3. \A h \in Handlers : HandlerInv(h)'
  BY HandlerInvStep DEF IInv
<1>4. AllOrNothing'
  BY AllOrNothingStep
<1>5. AckedIsStored'
  <2>1. ASSUME NEW r \in Requests, db.requests[r.key] = r.payload
        PROVE  db'.requests[r.key] = r.payload
    BY <2>1, StoredStays, RequestsAssumption DEF Requests, IInv
  <2>2. acked \subseteq Requests
    BY DEF IInv, TypeOK
  <2>3. acked' = acked \/ \E r \in Requests :
            db.requests[r.key] = r.payload /\ acked' = acked \cup {r}
    BY AckedStep DEF Stored
  <2> QED BY <2>1, <2>2, <2>3 DEF IInv, AckedIsStored
<1> QED BY <1>1, <1>2, <1>3, <1>4, <1>5 DEF IInv

\* IInv is an invariant of every interleaving of transactions and crashes.
THEOREM SpecIInv == Spec => []IInv
BY InitIInv, NextIInv, PTL DEF Spec

\* Every variable keeps its type, whatever the numbers of threads, processes, keys
\* and connections.
THEOREM TypeCorrect == Spec => []TypeOK
<1>1. IInv => TypeOK
  BY DEF IInv
<1> QED BY <1>1, SpecIInv, PTL

\* No connection ever reads part of a request (postgres_db.py 60-146).
THEOREM Atomicity == Spec => []AllOrNothing
<1>1. IInv => AllOrNothing
  BY DEF IInv
<1> QED BY <1>1, SpecIInv, PTL

\* A client that saw 200 has its payload stored, for good (main.py 325-336).
THEOREM Durability == Spec => []AckedIsStored
<1>1. IInv => AckedIsStored
  BY DEF IInv
<1> QED BY <1>1, SpecIInv, PTL

\* Of identical Adds that race for a key none is told of a conflict
\* (postgres_db.py 72-97).
THEOREM ConflictJustified == Spec => []ConflictIsJustified
<1>1. IInv => ConflictIsJustified
  BY DEF IInv, ConflictIsJustified, HandlerInv
<1> QED BY <1>1, SpecIInv, PTL

\* The revision of a user counts its stored requests though Adds of
\* the user run side by side: one more key, one more tick (postgres_db.py 141-146).
THEOREM RevisionCorrect == Spec => []RevisionCountsRequests
<1> DEFINE stored(requests, user) ==
             {key \in Keys : UserOf[key] = user /\ requests[key] # None}
<1>1. Init => RevisionCountsRequests
  <2> SUFFICES ASSUME Init, NEW user \in Users
               PROVE  db.revision[user] = Cardinality(stored(db.requests, user))
    BY DEF RevisionCountsRequests
  <2>1. stored(db.requests, user) = {} /\ db.revision[user] = 0
    BY DEF Init, EmptyTables
  <2> QED BY <2>1, FS_EmptySet
<1>2. IInv /\ RevisionCountsRequests /\ [Next]_vars => RevisionCountsRequests'
  <2> SUFFICES ASSUME IInv, RevisionCountsRequests, [Next]_vars
               PROVE  RevisionCountsRequests'
    OBVIOUS
  <2>1. CASE UNCHANGED db
    BY <2>1 DEF RevisionCountsRequests
  <2>2. ASSUME NEW h \in Handlers, Commit(h), NEW user \in Users
        PROVE  db'.revision[user] = Cardinality(stored(db'.requests, user))
    <3> DEFINE key == req[h].key
               payload == req[h].payload
               before == stored(db.requests, user)
    <3>1. /\ key \in Keys /\ payload \in Payloads /\ payload # None
          /\ db.requests[key] = None
          /\ db'.requests = [db.requests EXCEPT ![key] = payload]
          /\ db'.revision = [db.revision EXCEPT ![UserOf[key]] = @ + 1]
      BY <2>2, CommitPublishes, RequestsAssumption DEF IInv
    <3>2. /\ db.requests \in [Keys -> Payloads \cup {None}]
          /\ db.revision \in [Users -> Nat]
          /\ UserOf[key] \in Users
      BY <3>1, RequestsAssumption DEF IInv, TypeOK, Tables
    <3>3. IsFiniteSet(before) /\ db.revision[user] = Cardinality(before)
      BY FS_Subset, RequestsAssumption DEF RevisionCountsRequests
    <3>4. CASE UserOf[key] = user
      <4>1. stored(db'.requests, user) = before \cup {key}
        BY <3>1, <3>2, <3>4
      <4>2. key \notin before
        BY <3>1
      <4>3. Cardinality(before \cup {key}) = Cardinality(before) + 1
        BY <3>3, <4>2, FS_AddElement
      <4>4. db'.revision[user] = db.revision[user] + 1
        BY <3>1, <3>2, <3>4
      <4> QED BY <3>3, <4>1, <4>3, <4>4
    <3>5. CASE UserOf[key] # user
      <4>1. stored(db'.requests, user) = before
        BY <3>1, <3>2, <3>5
      <4>2. db'.revision[user] = db.revision[user]
        BY <3>1, <3>2, <3>5
      <4> QED BY <3>3, <4>1, <4>2
    <3> QED BY <3>4, <3>5
  <2> QED BY <2>1, <2>2, OnlyCommitWrites DEF RevisionCountsRequests
<1> QED BY <1>1, <1>2, SpecIInv, PTL DEF Spec

-----------------------------------------------------------------------------
(***************************************************************************)
(* The pool                                                                *)
(***************************************************************************)

\* The handlers of a process that hold a connection.
Borrowers(p) == {h \in Handlers : ProcessOf[h] = p /\ pc[h] \in TxStates}

\* A handler that enters a transaction takes a connection, and one that leaves gives
\* it back.
LEMMA PoolEntered ==
    ASSUME TypeOK, ConnectionsConserved, NEW h \in Handlers, Borrow(h)
    PROVE  ConnectionsConserved'
<1> SUFFICES ASSUME NEW p \in Processes
             PROVE  connections'[p] + Cardinality(Borrowers(p)') = PoolSize
  BY DEF ConnectionsConserved, Borrowers
<1>1. /\ pc[h] = "store" /\ connections \in [Processes -> Nat] /\ ProcessOf[h] \in Processes
      /\ connections' = [connections EXCEPT ![ProcessOf[h]] = @ - 1]
      /\ pc' = [pc EXCEPT ![h] = "claim"] /\ pc \in [Handlers -> FrontStates \cup {"store"} \cup TxStates]
  BY HandlersAssumption DEF Borrow, Goto, TypeOK
<1>2. IsFiniteSet(Borrowers(p)) /\ Cardinality(Borrowers(p)) \in Nat
  BY HandlersAssumption, FS_Subset, FS_CardinalityType DEF Borrowers
<1>3. connections[p] + Cardinality(Borrowers(p)) = PoolSize
  BY DEF ConnectionsConserved, Borrowers
<1>4. CASE ProcessOf[h] = p
  <2>1. Borrowers(p)' = Borrowers(p) \cup {h} /\ h \notin Borrowers(p)
    BY <1>1, <1>4 DEF Borrowers, TxStates
  <2>2. Cardinality(Borrowers(p)') = Cardinality(Borrowers(p)) + 1
    BY <1>2, <2>1, FS_AddElement
  <2> QED BY <1>1, <1>2, <1>3, <1>4, <2>2
<1>5. CASE ProcessOf[h] # p
  <2>1. Borrowers(p)' = Borrowers(p) /\ connections'[p] = connections[p]
    BY <1>1, <1>5 DEF Borrowers
  <2> QED BY <1>3, <2>1
<1> QED BY <1>4, <1>5

LEMMA PoolLeft ==
    ASSUME TypeOK, ConnectionsConserved, NEW h \in Handlers, pc[h] \in TxStates,
           EndTransaction(h), NEW status, Finish(h, status)
    PROVE  ConnectionsConserved'
<1> SUFFICES ASSUME NEW p \in Processes
             PROVE  connections'[p] + Cardinality(Borrowers(p)') = PoolSize
  BY DEF ConnectionsConserved, Borrowers
<1>1. /\ connections \in [Processes -> Nat] /\ ProcessOf[h] \in Processes
      /\ connections' = [connections EXCEPT ![ProcessOf[h]] = @ + 1]
      /\ pc' = [pc EXCEPT ![h] = "done"] /\ pc \in [Handlers -> FrontStates \cup {"store"} \cup TxStates]
  BY HandlersAssumption DEF EndTransaction, Finish, Goto, TypeOK
<1>2. IsFiniteSet(Borrowers(p)) /\ Cardinality(Borrowers(p)) \in Nat
  BY HandlersAssumption, FS_Subset, FS_CardinalityType DEF Borrowers
<1>3. connections[p] + Cardinality(Borrowers(p)) = PoolSize
  BY DEF ConnectionsConserved, Borrowers
<1>4. CASE ProcessOf[h] = p
  <2>1. Borrowers(p)' = Borrowers(p) \ {h} /\ h \in Borrowers(p)
    BY <1>1, <1>4 DEF Borrowers, TxStates
  <2>2. Cardinality(Borrowers(p)') = Cardinality(Borrowers(p)) - 1
    BY <1>2, <2>1, FS_RemoveElement
  <2> QED BY <1>1, <1>2, <1>3, <1>4, <2>2
<1>5. CASE ProcessOf[h] # p
  <2>1. Borrowers(p)' = Borrowers(p) /\ connections'[p] = connections[p]
    BY <1>1, <1>5 DEF Borrowers
  <2> QED BY <1>3, <2>1
<1> QED BY <1>4, <1>5

LEMMA PoolKept ==
    ASSUME ConnectionsConserved, UNCHANGED connections,
           \A i \in Handlers : pc'[i] \in TxStates <=> pc[i] \in TxStates
    PROVE  ConnectionsConserved'
<1> SUFFICES ASSUME NEW p \in Processes
             PROVE  connections'[p] + Cardinality(Borrowers(p)') = PoolSize
  BY DEF ConnectionsConserved, Borrowers
<1>1. Borrowers(p)' = Borrowers(p)
  BY DEF Borrowers
<1>2. connections[p] + Cardinality(Borrowers(p)) = PoolSize
  BY DEF ConnectionsConserved, Borrowers
<1> QED BY <1>1, <1>2

\* A process that starts again has a full pool and no transactions.
LEMMA PoolRestarted ==
    ASSUME TypeOK, ConnectionsConserved, NEW dead \in Processes, ProcessCrash(dead)
    PROVE  ConnectionsConserved'
<1> SUFFICES ASSUME NEW p \in Processes
             PROVE  connections'[p] + Cardinality(Borrowers(p)') = PoolSize
  BY DEF ConnectionsConserved, Borrowers
<1>1. /\ connections' = [connections EXCEPT ![dead] = PoolSize] /\ connections \in [Processes -> Nat]
      /\ pc' = [h \in Handlers |-> IF ProcessOf[h] = dead THEN "idle" ELSE pc[h]]
  BY DEF ProcessCrash, Crash, Forget, TypeOK
<1>2. connections[p] + Cardinality(Borrowers(p)) = PoolSize
  BY DEF ConnectionsConserved, Borrowers
<1>3. CASE p = dead
  <2>1. Borrowers(p)' = {}
    BY <1>1, <1>3 DEF Borrowers, TxStates
  <2>2. Cardinality(Borrowers(p)') = 0
    BY <2>1, FS_EmptySet
  <2> QED BY <1>1, <1>3, <2>2, PoolAssumption
<1>4. CASE p # dead
  <2>1. Borrowers(p)' = Borrowers(p) /\ connections'[p] = connections[p]
    BY <1>1, <1>4 DEF Borrowers
  <2> QED BY <1>2, <2>1
<1> QED BY <1>3, <1>4

\* Every connection comes back, by a commit, a rollback or a crash
\* (postgres_db.py 21-35, 71).
THEOREM PoolConserved == Spec => []ConnectionsConserved
<1>1. Init => ConnectionsConserved
  <2> SUFFICES ASSUME Init, NEW p \in Processes
               PROVE  connections[p] + Cardinality(Borrowers(p)) = PoolSize
    BY DEF ConnectionsConserved, Borrowers
  <2>1. Borrowers(p) = {} /\ connections[p] = PoolSize
    BY DEF Init, HandlerInit, Borrowers, TxStates
  <2>2. Cardinality(Borrowers(p)) = 0
    BY <2>1, FS_EmptySet
  <2> QED BY <2>1, <2>2, PoolAssumption
<1>2. TypeOK /\ ConnectionsConserved /\ [Next]_vars => ConnectionsConserved'
  <2> SUFFICES ASSUME TypeOK, ConnectionsConserved, [Next]_vars PROVE ConnectionsConserved'
    OBVIOUS
  <2> USE DEF Goto, Finish, storeVars, TxStates
  <2>1. ASSUME NEW h \in Handlers, Receive(h) \/ AcquireSlot(h), UNCHANGED storeVars
        PROVE  ConnectionsConserved'
    BY <2>1, PoolKept DEF Receive, AcquireSlot, TypeOK
  <2>2. ASSUME NEW h \in Handlers, Annotate(h) \/ Embed(h) \/ ModelUnavailable(h),
               UNCHANGED storeVars
        PROVE  ConnectionsConserved'
    BY <2>2, PoolKept DEF Annotate, Embed, ModelUnavailable, TypeOK
  <2>3. ASSUME NEW h \in Handlers, Respond(h), UNCHANGED storeVars
        PROVE  ConnectionsConserved'
    BY <2>3, PoolKept DEF Respond, Forget, TypeOK
  <2>4. ASSUME NEW h \in Handlers, CheckStatusPooled(h) \/ PoolTimeout(h)
        PROVE  ConnectionsConserved'
    BY <2>4, PoolKept DEF CheckStatusPooled, CheckStatus, PoolTimeout, TypeOK
  <2>5. ASSUME NEW h \in Handlers, ClaimKey(h) \/ InsertMessage(h) \/ BumpRevision(h)
        PROVE  ConnectionsConserved'
    BY <2>5, PoolKept DEF ClaimKey, InsertMessage, BumpRevision, TypeOK
  <2>6. ASSUME NEW h \in Handlers, Borrow(h) PROVE ConnectionsConserved'
    BY <2>6, PoolEntered
  <2>7. ASSUME NEW h \in Handlers,
               Compare(h) \/ RejectVector(h) \/ StatementFails(h) \/ Commit(h)
        PROVE  ConnectionsConserved'
    <3>1. pc[h] \in TxStates /\ EndTransaction(h) /\ \E status : Finish(h, status)
      BY <2>7 DEF Compare, RejectVector, StatementFails, Commit, EndUnchanged
    <3> QED BY <3>1, PoolLeft
  <2>8. ASSUME NEW p \in Processes, ProcessCrash(p) PROVE ConnectionsConserved'
    BY <2>8, PoolRestarted
  <2>9. CASE UNCHANGED vars
    BY <2>9, PoolKept DEF vars
  <2> QED
    BY <2>1, <2>2, <2>3, <2>4, <2>5, <2>6, <2>7, <2>8, <2>9 DEF Next, HandlerStep, StoreStep
<1> QED BY <1>1, <1>2, TypeCorrect, PTL DEF Spec

-----------------------------------------------------------------------------
(***************************************************************************)
(* Waiting                                                                 *)
(***************************************************************************)
\* A revision is locked only by a transaction that has nothing left but its commit.
UserInv == \A h \in Handlers, user \in Users : userHolder[user] = h => pc[h] = "commit"

LEMMA UserStep == TypeOK /\ UserInv /\ [Next]_vars => UserInv'
<1> SUFFICES ASSUME TypeOK, UserInv, [Next]_vars,
                    NEW i \in Handlers, NEW user \in Users, userHolder'[user] = i
             PROVE  pc'[i] = "commit"
  BY DEF UserInv
<1> USE DEF TypeOK, UserInv
<1>1. ASSUME NEW h \in Handlers, UNCHANGED userHolder, pc[h] # "commit",
             \A g \in Handlers \ {h} : pc'[g] = pc[g]
      PROVE  pc'[i] = "commit"
  BY <1>1
<1>2. ASSUME NEW h \in Handlers, EndTransaction(h), NEW status, Finish(h, status)
      PROVE  pc'[i] = "commit"
  BY <1>2, PoolAssumption DEF EndTransaction, Finish, Goto
<1>3. ASSUME NEW h \in Handlers,
             \/ Receive(h) /\ UNCHANGED storeVars
             \/ AcquireSlot(h) /\ UNCHANGED storeVars
             \/ Annotate(h) /\ UNCHANGED storeVars
             \/ Embed(h) /\ UNCHANGED storeVars
             \/ ModelUnavailable(h) /\ UNCHANGED storeVars
             \/ Respond(h) /\ UNCHANGED storeVars
             \/ CheckStatusPooled(h) \/ PoolTimeout(h)
             \/ Borrow(h) \/ ClaimKey(h) \/ InsertMessage(h)
      PROVE  pc'[i] = "commit"
  <2>1. UNCHANGED userHolder /\ pc[h] # "commit"
    BY <1>3 DEF storeVars, Receive, AcquireSlot, Annotate, Embed, ModelUnavailable, Respond,
                CheckStatusPooled, CheckStatus, PoolTimeout, Borrow, ClaimKey, InsertMessage
  <2>2. \A g \in Handlers \ {h} : pc'[g] = pc[g]
    <3>1. \/ \E label : Goto(h, label)
          \/ \E status : Finish(h, status)
          \/ Forget({h})
          \/ UNCHANGED pc
      BY <1>3 DEF Receive, AcquireSlot, Annotate, Embed, ModelUnavailable, Respond,
                  CheckStatusPooled, CheckStatus, PoolTimeout, Borrow, ClaimKey, InsertMessage
    <3> QED BY <3>1 DEF Forget, Finish, Goto
  <2> QED BY <1>1, <2>1, <2>2
<1>4. ASSUME NEW h \in Handlers,
             Compare(h) \/ RejectVector(h) \/ StatementFails(h) \/ Commit(h)
      PROVE  pc'[i] = "commit"
  <2>1. EndTransaction(h) /\ \E status : Finish(h, status)
    BY <1>4 DEF Compare, RejectVector, StatementFails, Commit, EndUnchanged
  <2> QED BY <1>2, <2>1
<1>5. ASSUME NEW h \in Handlers, BumpRevision(h) PROVE pc'[i] = "commit"
  BY <1>5 DEF BumpRevision, Goto
<1>6. ASSUME NEW p \in Processes, ProcessCrash(p) PROVE pc'[i] = "commit"
  BY <1>6, PoolAssumption DEF ProcessCrash, Crash, Forget
<1>7. CASE UNCHANGED vars
  BY <1>7 DEF vars
<1> QED BY <1>3, <1>4, <1>5, <1>6, <1>7 DEF Next, HandlerStep, StoreStep

\* How much a handler holds already where it may have to wait.
Depth(h) ==
    CASE pc[h] = "queued" -> 0
      [] pc[h] \in {"status", "store"} -> 1
      [] pc[h] = "claim" -> 2
      [] pc[h] = "insert" -> 3
      [] OTHER -> 4

\* Who waits, waits for one that holds more.
LEMMA WaitsForDeeper ==
    ASSUME IInv, UserInv, NEW h \in Handlers, NEW g \in Handlers, WaitsFor(h, g)
    PROVE  Depth(h) < Depth(g)
<1>1. pc[h] # "idle" => req[h].key \in Keys /\ UserOf[req[h].key] \in Users
  BY RequestsAssumption DEF IInv, HandlerInv, Requests
<1>2. CASE pc[h] = "queued"
  BY <1>2 DEF WaitsFor, InSlot, Depth
<1>3. CASE pc[h] \in {"status", "store"}
  BY <1>3 DEF WaitsFor, TxStates, Depth
<1>4. CASE pc[h] = "claim"
  <2>1. keyHolder[req[h].key] = g /\ req[h].key \in Keys
    BY <1>1, <1>4 DEF WaitsFor
  <2>2. pc[g] \in Writing
    BY <2>1 DEF IInv, KeyInv
  <2> QED BY <1>4, <2>2 DEF Writing, Depth
<1>5. CASE pc[h] = "insert"
  <2>1. userHolder[UserOf[req[h].key]] = g /\ UserOf[req[h].key] \in Users
    BY <1>1, <1>5 DEF WaitsFor
  <2>2. pc[g] = "commit"
    BY <2>1 DEF UserInv
  <2> QED BY <1>5, <2>2 DEF Depth
<1> QED BY <1>2, <1>3, <1>4, <1>5 DEF WaitsFor

LEMMA DeepestWaitsForNone == IInv /\ UserInv => NobodyWaitsInACircle
<1> SUFFICES ASSUME IInv, UserInv, NEW S \in SUBSET Handlers, S # {}
             PROVE  \E h \in S : \A g \in S : ~ WaitsFor(h, g)
  BY DEF NobodyWaitsInACircle
<1>1. \A h \in S : Depth(h) \in 0 .. 4
  BY DEF Depth
<1>2. \E h \in S : \A g \in S : Depth(g) <= Depth(h)
  <2> HIDE DEF Depth
  <2> QED BY <1>1
<1>3. PICK h \in S : \A g \in S : Depth(g) <= Depth(h)
  BY <1>2
<1>4. ASSUME NEW g \in S, WaitsFor(h, g) PROVE FALSE
  <2>1. Depth(h) < Depth(g)
    BY <1>4, WaitsForDeeper
  <2> QED BY <1>1, <1>3, <2>1
<1> QED BY <1>4

\* Adds over Postgres never wait for each other in a circle, whatever the numbers of
\* slots, connections, keys and users are: who waits holds less than whom it waits for.
THEOREM NoCircle == Spec => []NobodyWaitsInACircle
<1>1. Init => UserInv
  BY PoolAssumption DEF Init, UserInv
<1> QED BY <1>1, UserStep, DeepestWaitsForNone, SpecIInv, TypeCorrect, PTL DEF Spec

-----------------------------------------------------------------------------
(***************************************************************************)
(* Implementation of the request ledger                                    *)
(***************************************************************************)
LEMMA CommitIsStore ==
    ASSUME IInv, NEW h \in Handlers, Commit(h)
    PROVE  Ledger!Store(req[h].key, req[h].payload)
BY CommitPublishes DEF IInv, Commit, Ledger!Store, Ledger!RowsOf, RowsOf

\* A step of the handlers is a step of the ledger or a stutter.
LEMMA StepImplements ==
    ASSUME IInv, [Next]_vars
    PROVE  [Ledger!Next]_Ledger!vars
<1>1. ASSUME NEW h \in Handlers, Commit(h) PROVE Ledger!Next
  <2>1. req[h].key \in Keys /\ req[h].payload \in Payloads
    BY <1>1, CommitPublishes DEF IInv
  <2> QED BY <1>1, <2>1, CommitIsStore DEF Ledger!Next
<1>2. CASE UNCHANGED db
  <2>1. ASSUME NEW h \in Handlers, req[h] \in Requests, Stored(h), acked' = acked \cup {req[h]}
        PROVE  Ledger!Next
    <3>1. req[h] = [key |-> req[h].key, payload |-> req[h].payload]
          /\ req[h].key \in Keys /\ req[h].payload \in Payloads
      BY <2>1 DEF Requests
    <3>2. Ledger!Acknowledge(req[h].key, req[h].payload)
      BY <1>2, <2>1, <3>1 DEF Ledger!Acknowledge, Stored
    <3> QED BY <3>1, <3>2 DEF Ledger!Next
  <2>2. CASE acked' = acked
    BY <1>2, <2>2 DEF Ledger!vars
  <2> QED BY <2>1, <2>2, AckedStep
<1> QED BY <1>1, <1>2, OnlyCommitWrites

\* Add over Postgres is the same ledger as over SQLite: waits for keys and pools,
\* lost commits' answers and racing retries are all stutters of it.
THEOREM LedgerImplemented == Spec => ImplementsLedger
<1>1. Init => Ledger!Init
  BY DEF Init, HandlerInit, EmptyTables, Ledger!Init
<1> QED BY <1>1, StepImplements, SpecIInv, PTL DEF Spec, ImplementsLedger, Ledger!Spec
=============================================================================
