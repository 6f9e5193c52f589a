----------------------------- MODULE AddHandler -----------------------------
(***************************************************************************)
(* The part of POST /add both stores share: handle_add of app/main.py and  *)
(* MemoryService.add / _add_unlocked of app/service.py, one thread of the  *)
(* request pool per handler.  A handler takes one of its process's add     *)
(* slots, looks the request up, asks the model endpoints for annotations   *)
(* and embeddings, and hands the rows to the store; the store's own steps  *)
(* are in the modules that extend this one.  Nothing here holds a database *)
(* lock, so everything another handler commits in between is in play.      *)
(***************************************************************************)
EXTENDS Naturals, FiniteSets

CONSTANTS
    Handlers,        \* request threads
    Processes,       \* server processes sharing the database
    ProcessOf,       \* the process a handler belongs to
    AddConcurrency,  \* settings.add_concurrency
    Keys, Users, UserOf, Payloads, MessageCount, None

ASSUME HandlersAssumption ==
    /\ IsFiniteSet(Handlers)
    /\ ProcessOf \in [Handlers -> Processes]
    /\ AddConcurrency \in Nat \ {0}

\* AddRequest.messages has min_length 1; identifiers are strings of bounded
\* length, so there are finitely many; None marks an absent value.
ASSUME RequestsAssumption ==
    /\ IsFiniteSet(Keys)
    /\ UserOf \in [Keys -> Users]
    /\ MessageCount \in [Payloads -> Nat \ {0}]
    /\ None \notin Payloads

VARIABLES
    db,          \* the committed tables, the only thing another connection reads
    pc,          \* where a handler is
    req,         \* the request a handler serves
    known,       \* whether that request was stored before the handler received it
    finite,      \* how many of its leading embedding vectors are usable
    outcome,     \* the HTTP status a handler is about to send
    freeSlots,   \* the free add slots of each process
    acked        \* the requests some client saw answered with 200

Requests == [key : Keys, payload : Payloads]
RowsOf(key, payload) == {key} \X (0 .. MessageCount[payload] - 1)
StoredRows(requests) ==
    UNION {RowsOf(key, requests[key]) : key \in {k \in Keys : requests[k] # None}}

FrontStates == {"idle", "queued", "status", "annotate", "embed", "done"}
Statuses == {0, 200, 409, 500, 503}

HandlerInit ==
    /\ pc = [h \in Handlers |-> "idle"]
    /\ req = [h \in Handlers |-> None]
    /\ known = [h \in Handlers |-> FALSE]
    /\ finite = [h \in Handlers |-> 0]
    /\ outcome = [h \in Handlers |-> 0]
    /\ freeSlots = [p \in Processes |-> AddConcurrency]
    /\ acked = {}

-----------------------------------------------------------------------------
\* The handlers of a process that are inside "with self._add_slots".
InSlot(p) ==
    {h \in Handlers : ProcessOf[h] = p /\ pc[h] \notin {"idle", "queued", "done"}}

Goto(h, label) == pc' = [pc EXCEPT ![h] = label]

\* Leaving "with self._add_slots", by a return or by an exception that
\* handle_add turns into a status code.
Finish(h, status) ==
    /\ Goto(h, "done")
    /\ outcome' = [outcome EXCEPT ![h] = status]
    /\ freeSlots' = [freeSlots EXCEPT ![ProcessOf[h]] = @ + 1]

\* A client sends a request, for the first time or again.
Receive(h) ==
    /\ pc[h] = "idle"
    /\ \E r \in Requests :
        /\ req' = [req EXCEPT ![h] = r]
        /\ known' = [known EXCEPT ![h] = db.requests[r.key] = r.payload]
    /\ Goto(h, "queued")
    /\ UNCHANGED <<db, finite, outcome, freeSlots, acked>>

\* Mutant: the semaphore never makes anyone wait.
AcquireSlotUnguarded(h) ==
    /\ pc[h] = "queued"
    /\ freeSlots' = [freeSlots EXCEPT ![ProcessOf[h]] = @ - 1]
    /\ Goto(h, "status")
    /\ UNCHANGED <<db, req, known, finite, outcome, acked>>

\* Mutant: the slot is entered but never counted as taken.
AcquireSlotUncounted(h) ==
    /\ pc[h] = "queued"
    /\ freeSlots[ProcessOf[h]] > 0
    /\ Goto(h, "status")
    /\ UNCHANGED <<db, req, known, finite, outcome, freeSlots, acked>>

AcquireSlot(h) ==
    /\ pc[h] = "queued"
    /\ freeSlots[ProcessOf[h]] > 0
    /\ freeSlots' = [freeSlots EXCEPT ![ProcessOf[h]] = @ - 1]
    /\ Goto(h, "status")
    /\ UNCHANGED <<db, req, known, finite, outcome, acked>>

\* Mutant: the status tells a stored payload from no payload no more.
RequestStatusConflictOnly(r) ==
    IF db.requests[r.key] \in {None, r.payload} THEN "new" ELSE "conflict"

\* request_status: one read of the committed tables.
RequestStatus(r) ==
    CASE db.requests[r.key] = None      -> "new"
      [] db.requests[r.key] = r.payload -> "existing"
      [] OTHER                          -> "conflict"

\* The read may fail: an I/O error, a lost connection.
CheckStatus(h) ==
    /\ pc[h] = "status"
    /\ \/ RequestStatus(req[h]) = "existing" /\ Finish(h, 200)
       \/ RequestStatus(req[h]) = "conflict" /\ Finish(h, 409)
       \/ RequestStatus(req[h]) = "new" /\ Goto(h, "annotate") /\ UNCHANGED <<outcome, freeSlots>>
       \/ Finish(h, 500)
    /\ UNCHANGED <<db, req, known, finite, acked>>

Annotate(h) ==
    /\ pc[h] = "annotate"
    /\ Goto(h, "embed")
    /\ UNCHANGED <<db, req, known, finite, outcome, freeSlots, acked>>

\* One vector per message comes back.  Chunked messages are averaged without
\* a check of the average, so the store may still find a vector unusable.
Embed(h) ==
    /\ pc[h] = "embed"
    /\ \E n \in 0 .. MessageCount[req[h].payload] :
        finite' = [finite EXCEPT ![h] = n]
    /\ Goto(h, "store")
    /\ UNCHANGED <<db, req, known, outcome, freeSlots, acked>>

\* Mutant: an exception of the model client skips the release of the slot.
ModelUnavailableLeaksSlot(h) ==
    /\ pc[h] \in {"annotate", "embed"}
    /\ Goto(h, "done")
    /\ outcome' = [outcome EXCEPT ![h] = 503]
    /\ UNCHANGED <<db, req, known, finite, freeSlots, acked>>

\* Either model call gives up with LLMUnavailable.
ModelUnavailable(h) ==
    /\ pc[h] \in {"annotate", "embed"}
    /\ Finish(h, 503)
    /\ UNCHANGED <<db, req, known, finite, acked>>

\* What a handler remembers of its request goes with the response.
Forget(hs) ==
    /\ pc' = [h \in Handlers |-> IF h \in hs THEN "idle" ELSE pc[h]]
    /\ req' = [h \in Handlers |-> IF h \in hs THEN None ELSE req[h]]
    /\ known' = [h \in Handlers |-> IF h \in hs THEN FALSE ELSE known[h]]
    /\ finite' = [h \in Handlers |-> IF h \in hs THEN 0 ELSE finite[h]]
    /\ outcome' = [h \in Handlers |-> IF h \in hs THEN 0 ELSE outcome[h]]

\* The response is sent; it reaches the client or the connection is gone.
Respond(h) ==
    /\ pc[h] = "done"
    /\ \/ acked' = acked \cup IF outcome[h] = 200 THEN {req[h]} ELSE {}
       \/ UNCHANGED acked
    /\ Forget({h})
    /\ UNCHANGED <<db, freeSlots>>

\* A process dies and its replacement starts: its threads and semaphores are
\* gone, the database and what clients were told are not.
Crash(p) ==
    /\ Forget({h \in Handlers : ProcessOf[h] = p})
    /\ freeSlots' = [freeSlots EXCEPT ![p] = AddConcurrency]
    /\ UNCHANGED <<db, acked>>

\* The steps a handler takes by itself before and after the store's.
FrontStep(h) ==
    \/ CheckStatus(h)
    \/ Annotate(h)
    \/ Embed(h)
    \/ ModelUnavailable(h)
    \/ Respond(h)
=============================================================================
