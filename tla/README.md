# A formal model of AgentKiln Memory

AgentKiln Memory is a long-term memory service for agents: `POST /add` stores the
messages of a session, `POST /search` returns the stored messages that answer a query.
It is a synchronous FastAPI application; every request runs on a thread of the request
pool, several server processes may share one database (SQLite in a volume, or Postgres),
and models for annotation, embedding, query analysis and reranking are called over HTTP.

This directory holds TLA+ modules translated from the code under `app/`, TLC
configurations that check them on small instances, and proofs that TLAPS checks for every
instance. Paths below are relative to the repository's root.

## 1. The system

| Component | State it keeps | Operations | What is hard, and what makes it correct |
|---|---|---|---|
| Add handler (`app/main.py:325`, `app/service.py:101-113`) | a semaphore of add slots per process | take a slot, read the request's status, annotate, embed, store, answer | the status is read seconds before the store is written; the client retries; each exception must give the slot back. A retry costs nothing, a conflict has a reason, every Add is answered |
| SQLite store, writes (`app/db.py:66-242`) | `requests`, `memories`, `memory_fts`, `embeddings`, `user_revisions`; the write lock | `add`, `request_status`, `initialize` | failure or a crash between two statements; the busy timeout; two processes. An Add is all or nothing, stored once, and moves the revision by one |
| Postgres store, writes (`app/postgres_db.py:21-146`, `app/postgres_schema.py`) | the same tables; a pool of connections per process; row locks | the same | READ COMMITTED: a duplicate key waits for an uncommitted row, the revision row is locked, a commit's answer can be lost. As for SQLite, and no connection is lost, no circle of waiting |
| Stores, reads (`app/db.py:244-430`, `app/postgres_db.py`) | none; a connection per read | lexical, vector and date retrieval, neighbours, revision | each read sees another state of the store. Only rows of the user asked about |
| Search service (`app/service.py:81-282`) | search slots, a cache of 512 answers per process | the pipeline of a search, `_store_cache` | reads interleave with commits; the cache key holds a revision read earlier. Nothing added before a search is missed; a cached answer is as complete as its key says |
| Supersession (`app/service.py:285-348`) | none | `_suppress_superseded`, `_is_later` | "later" falls back pair by pair from timestamp to clock to number. It is an order; what is dropped is corrected by something shown |
| Window packing (`app/pack.py`, `app/text.py`) | none | `pack_windows`, `truncate_line`, `estimate_tokens` | windows overlap, lines are cut, estimates round up. Budget respected, no row shown twice, matches are not lost |
| Session windows (`app/db.py:369-417`, `app/postgres_db.py:293-380`, `app/service.py:417-444`) | none | `neighbors`, `neighbor_windows`, `_windows` | three orders over the rows of a session, by different keys. A correction is shown after what it corrects; what a window leaves out is of another Add |
| Fusion, ranking, diversity (`app/service.py:169-255`, `:351-415`, `app/diversity.py`) | none | `_fuse`, `_rank`, `_expand_neighbors`, reranking, diversity selection | ties, scales and limits decide what is seen. Fusion respects its lists, evidence is in score order, a summary loses nothing by spreading over sessions |
| Model client (`app/llm.py`) | the pieces, batches and attempts of a call | `_post` with retries, batches of embeddings and annotations, rerank, analysis | repeated calls, results in any order, texts cut over several batches. Requests keep their limits, every vector and cue reaches its text, every call ends |
| Text analysis (`app/text.py`, `app/service.py:46-79`) | none | terms, markers, the day a query names | string processing; month and year boundaries |
| Life cycle and schema (`app/main.py:275-320`, `initialize` of both stores) | the schema version, the index | create, migrate, rebuild the index | two processes starting at once |
| Schemas, configuration, logging (`app/schemas.py`, `app/config.py`, `app/logging_setup.py`) | none | validate, parse, format | |
| Evaluation and scripts (`eval/`, `scripts/`) | none | offline scoring, clients | not part of the service |

Components interact by calls within a thread and through two kinds of shared state: the
database, shared by all processes, and the slots and the cache, shared by the threads of a
process. The revision of a user is the link between the write side and the read side: Add
moves it in the transaction that stores the rows, Search reads it before anything else and
puts it in the cache key.

The hazards that follow, each at its line, are in `PROJECT.json` with the properties that
would catch them.

## 2. Modules

```
RequestLedger <---- refined by ---- SqliteAdd ----> AddHandler (shared front half)
      ^---------- refined by ---- PostgresAdd ----> AddHandler
ModelClient     what AddHandler's Annotate, Embed and ModelUnavailable stand for
SearchPath      reads what the stores commit; its AddCommits is RequestLedger's Store
Supersession    what SearchPath's constant Corrects stands for
SessionWindows  extends Supersession: the orders of a session's rows, over the same rows
Ranking         what SearchPath leaves out of a search: the order of rows and their limits
WindowPacking   what SearchPath's Complete leaves out: the token and item budget
Corrections     the words in which Supersession and SearchPath speak of chains of corrections
```

**RequestLedger** is the promise of Add, without a mechanism: the first payload stored
under a `(user_id, request_id)` key is stored in one step with all its rows and one tick of
its user's revision, and only a stored payload is acknowledged.

**AddHandler** is the half of Add both stores share. `pc[h]` is where thread `h` is in
`handle_add`/`_add_unlocked`; `freeSlots` is `self._add_slots`; `db` is the committed
tables. `Receive` is a request arriving, for the first time or again; `AcquireSlot` enters
the `with` block; `CheckStatus` is `request_status` with the three ways on and a read
error; `Annotate`, `Embed` and `ModelUnavailable` are the model calls; `Respond` sends the
answer, which may get lost; `Crash` kills a process. A payload stands for what
`payload_hash` covers; SHA-256 is taken to be free of collisions. `finite` is how many
leading vectors of the batch are usable: `_pack_vector` rejects a vector only inside the
transaction.

**SqliteAdd** adds `MemoryDatabase.add`, a step per statement: `BeginImmediate` takes the
write lock (`writer`) and an image of the tables (`tx`), `CheckExisting` looks the request
up again under the lock, `InsertMessage` writes the three rows of a message,
`RejectVector` is the `ValueError` of an unusable vector, `BumpRevision`, `Commit`, and
`BeginFails`, `StatementFails` and `ProcessCrash` for what goes wrong. Readers see `db`
only, as in WAL mode. The process dies, the disk does not: with `synchronous=NORMAL` a
power failure may take back the last commits, and it is out of scope.

**PostgresAdd** is the same for `PostgresMemoryDatabase.add`: `Borrow` takes a connection,
`ClaimKey` is the `INSERT ... ON CONFLICT DO NOTHING` that waits for another transaction's
row (`keyHolder`), `Compare` is the `SELECT` after it, `BumpRevision` waits for the row
lock on `user_revisions` (`userHolder`). A transaction's own rows are determined by `req`
and `next`, so `Committed(h)` publishes them. `Commit` may succeed without its answer. The
branch that raises "request row disappeared" cannot be reached, since nothing deletes
requests, and is left out.

**ModelClient** is `annotate_messages` followed by `embed_texts`, over `_post`. Both
cut texts into pieces (`_annotation_fragments`, `_embedding_chunks`) and send the stream of
pieces in batches; the module has one such machine, run for both with limits of their own
(`Limits`, `Framing`). The next piece is a place in the stream (`owner`, `at`). `SendBatch`
is the flush, `RequestFails` a failed attempt with the retry or the end, `AnnotationsAnswered`
and `EmbeddingsAnswered` match an answer with the batch by its indexes, which come in any
order, and `sums` records what each average is made of. Of a character only its width
and its length in JSON matter, so a text is its size, the places where its characters end
and what the characters up to each such place take in JSON (`escaped`). The endpoint is
trusted in one thing: the vector it gives index i is that of the i-th input.

The two calls measure a request differently. `embed_texts` counts the bytes of its texts.
`annotate_messages` compares `len(json.dumps(payload_for(candidate)))`, the size of a JSON
body that holds the transcript as a JSON string: the inner encoding escapes quotes,
backslashes and control characters, the outer one escapes those escapes and everything that
is not plain ASCII. A quote or a backslash takes 4 bytes, a newline 3, other control
characters up to 7, a CJK character 6 for its 3, an emoji 12 for its 4. `JsonLength` is what
a fragment adds (its `frame` is its role and punctuation), `Envelope` the rest of the body,
which depends on the number of fragments by their indexes, separators and `max_tokens`. A
single fragment over the limit ends the call ("annotation request exceeds size limit"):
`RefuseFragment`. With 2048 bytes a fragment takes at most 7 * 2048 = 14336 of the 32768
bytes, so the code gets there only if the configured model name is enormous; the module does
not rely on it. In an embedding request a piece always fits (4096 of 8000). The two checks
after the loop that a text has a vector cannot fail and are left out.

**SearchPath** is the whole control of `_search_unlocked`: revision, cache lookup, analysis,
lexical retrieval, query embedding, vector retrieval, date retrieval, neighbours,
supersession, rerank, windows, cache. Each database read is a step of its own that sees the
last commit, so the reads of one search are torn. Which rows a query matches, which are
similar, dated or correct one another are constants; `Plans` holds what the analysis may
return. The instance is taken to stay below the candidate limit, the 24 expanded rows,
`top_k` and the budget, so an answer is a set of rows; Ranking has the limits. Corrections
may be any pairs of rows. Where those of a row go round in a circle, `_suppress_superseded`
can drop it with all that corrects it: such rows are `Circular`, and the promises of a
search (`IsShown`) except them. Finding 1 shows that they occur where some messages have a
timestamp and others have none, `SearchableIfHomogeneous` that they do not otherwise.

**Supersession** has the rows as the stores really number them: `created_at` is read before
the lock, so it may disagree with the order of commits; all messages of a request share
it; `row_id` is the insertion number over SQLite and always 0 over Postgres (`store`,
`RowId`). `IsLater` is `_is_later` in full. Which pairs are corrections is free among the
pairs whose first row is later.

**Corrections** defines what it means that a row is corrected through others: `Correctors`
is the least set closed under "corrected by". It is a set of sets' common members rather
than the library's `TransitiveClosure`, because nothing can be proved about a function of
two arguments here.

**SessionWindows** puts the other orders over the same rows: `SqliteBefore` is the ORDER BY
of SQLite's `neighbors`, `PostgresBefore` the sort of `_session_rows`, `ShownBefore` the
`source_order` by which `_windows` sorts what it shows (a stable sort, so `StoredBefore`
breaks its ties). `Chunk` is the number a `request_id` names, `Id` the place of the hash id
in string order.

**Ranking** is the order of a search's rows from the retrievals to the selected evidence,
a call per step: `FuseAndFilter` (`_fuse`, and the filter by word overlap), `Expand`,
`Suppress`, `Rank`, `Rerank` and `Select`. What the retrievals find is any triple of
rankings, a row's rule score and the reranker's answer are free. Scores are hundredths;
those of the fusion are multiplied by `FusionScale`, a common multiple of the denominators
60 + rank, so that they are exact. A sort is stated by its result (`InOrder`): at place i
stands the member that i - 1 others come before. `MetBefore` is the order in which the
fusion's dictionary meets its rows, which decides ties. `room` is the number of places the
selection was asked to fill.

**WindowPacking** is `pack_windows`, an iteration per step. A line is its counts of CJK and
of other characters, which is all `estimate_tokens` looks at; `Truncated` gives what
`truncate_line` may leave for any order of these characters. A window is a row and the rows
stored next to it in its session, shown in source order as `_windows` sorts them. The two
orders are by different keys (SessionWindows), so where the rows are in the store (`stored`)
is free: a window need not be contiguous in source order, and the rows shown before a match
may be later turns of another Add.

Definitions whose comment begins with "Mutant:" are not part of a model. Each is the form
a plausible bug would give the definition that follows it, and `PROJECT.json` names the
property that finds it.

## 3. What the runs check

| Run (`.cfg`) | Instance | Question |
|---|---|---|
| sqlite_add (`MCSqliteAdd`) | 3 handlers, 2 in one process and 1 in another; 2 keys of one user; payloads of 1 and 2 messages; 1 slot per process; 1,020,022 states | Are Adds atomic, counted once, durable, justified in their conflicts, free when retried; do slots come back; is the ledger implemented? |
| sqlite_add_live (`MCSqliteAddLive`) | the same with 1 key; 94,170 states | Is every Add answered? |
| postgres_add (`MCPostgresAdd`) | 3 handlers in 2 processes, 2 slots but 1 connection each; payloads of 1 message; 1,449,659 states | The same over row locks and a pool; does a circle of waiting arise? |
| postgres_add_live (`MCPostgresAddLive`) | 4 handlers, 3 in one process and 1 in another; 2 slots and 1 connection each; 1 key, one payload of 1 message; 33,472 states under a view | Do slots, connections and locks ever make Adds wait for ever? |
| search_path (`MCSearchPath`) | 1 searcher, 2 queries, 4 rows of 2 users in 3 requests; 67,642 states | Is everything added before a search answered or corrected; are users apart; does every search end? |
| search_cache (`MCSearchCache`) | 2 searchers of one process, a fact and its correction, a cache of 2 entries; 291,396 states | Is the cache sound and bounded? |
| session_rows (`MCSupersession`) | up to 3 rows of 3 requests in 2 chunks, timestamps or none, 3 clock readings, both stores; 83,594 states | Is "later" an order; is a dropped row corrected by a shown one; where do the orders of store, window and display differ? |
| supersession_mixed (`MCSupersessionMixed`) | 3 rows, timestamps on some, Postgres numbering | Violated: see finding 1 |
| window_packing (`MCWindowPacking`) | 4 rows of 2 sessions in 3 orders of the store, 3 kinds of lines, up to 3 anchors, budget 5; 2,128,902 states | Budget, no repetition, no match lost without cause |
| window_packing_cut (`MCWindowPackingCut`) | the same | Violated: see finding 2 |
| model_client (`MCModelClient`) | up to 3 messages: empty, of 4 or of 5 bytes with characters of 1 and 2 of which one is escaped, or too large in JSON; requests of 3 items; 3 attempts; 111,860 states | Limits kept, cues and vectors with their own messages, every call ends? |
| ranking (`MCRanking`) | 4 rows of 3 sessions, every ranking of up to 3, 3 and 2 rows, rerank pool of 3, 3 rerank scores; 90,637 states | Does fusion respect its lists, is evidence in score order, do summaries spread? |

The bounds, and why they are enough to meet the interesting cases:

- *Adds.* Three handlers over two processes give a race inside a process, one across
  processes, and a third party that waits; two payloads under one key give conflicts, the
  same payload gives a retry, two keys of one user give a race for the revision. A payload
  of two messages can fail between them. One slot per process makes handlers queue; one
  connection under two slots makes the Postgres pool the bottleneck, as `DB_POOL_MAX = 5`
  under `AML_ADD_CONCURRENCY = 16` does. The number of attempts is not bounded: a handler
  goes back to idle, and the tables are finite. The handlers of one process, and the keys,
  are symmetric; symmetry is not used where liveness is checked.
- *Waiting over Postgres.* In `postgres_add_live` three handlers of a process share two slots
  and one connection, so one waits for a slot, one with a slot waits for the connection, and
  the one that has it may wait for the key's row, which the other process's handler holds.
  With one key nobody waits for a revision row; in `postgres_add` two keys of one user
  contend for it, and `NobodyWaitsInACircle` is checked there and proved for any number of
  each. The run's `VIEW` leaves out `known`, `outcome` and `acked`: no guard, no fairness
  condition and not the property depends on them, so states that differ in nothing else
  behave alike.
- *Searches.* A fact, its correction in a second Add of two messages, a note the query does
  not match, and a stranger's row in a session of the same name. `CacheLimit` is 2 instead
  of 512, so that eviction happens. In `search_path` one searcher has one slot, so a slot
  that does not come back stops its next search; searchers that wait for each other would
  wait on the same kind of semaphore as the handlers of `sqlite_add_live`. Revisions are
  bounded by the number of requests.
- *Sessions.* A circle of an order needs three rows, which is also the least a window can
  hide something in: its two rows at the edge of a session and one between them. With three
  clock readings and two timestamps every tie of three rows occurs. The first two requests
  name the same chunk, the third an earlier one. `RowLimit` bounds the rows ever stored. The
  theorems about these orders have no bounds.
- *Model client.* Pieces of 2 and 3 bytes and requests of 15 and 5 stand for 2048, 4096,
  32768 and 8000. The envelope is 3 to 6 bytes and does not grow evenly. One text is two
  control characters, 7 bytes each in JSON, and is refused. A text of 4 or 5 bytes is cut in two or three, at a place that depends on its
  characters; batches end by number and by size, in the middle of a text and at its end; an
  empty text is a piece of its own. Two dimensions let an answer disagree with the last.
- *Ranking.* A row may be found by one, two or three lists; two rows of one session compete
  with one of each other session; the places asked for may be fewer than the rows; the pool leaves a row unscored; rerank scores are below 0,
  above 1 and between. `Seeds` is 2 instead of 24.
- *Packing.* The lines are a short one, one mostly CJK, and one that is over the budget
  alone; three adjacent turns make windows overlap. The store has a session in the order in
  which it is shown, with its first two turns the other way round, or with the turn that is
  shown first behind the others, so that a window may show a row in front of its match that
  is not the turn before it.

A call of `pack_windows` or of the model client returns, so their runs do not check for
deadlock; all others do.

**Fairness.** `WF(HandlerStep)` and `WF(SearchStep)`: a thread that can run does. A model
call ends, because it makes at most three attempts with a timeout each (`app/llm.py:363`;
the timeout is per socket operation, so an endpoint that trickles its answer could hold a
call for longer, and is out of scope);
a writer that waits for SQLite's lock ends, because its busy timeout is 60 s
(`app/db.py:52`), which is why `BeginFails` belongs to the step. `SF(AcquireSlot)`: a
released semaphore wakes a waiter, so a thread is not passed over for ever. Over Postgres
all of a thread's steps are strongly fair together: the pool and the server queue those who
wait for a connection or a row lock. `StatementFails` is not among them, so the run does not
rely on failures to break a wait for a lock. A thread that waits for a connection may give
up (`PoolTimeout`, 15 s); that nobody waits in a circle does not depend on it. No
client is obliged to send, no process to crash. `WF(Next)` in ModelClient: each request has
a timeout, so it is answered or fails (with the same exception), and everything else is the thread's own work.

## 4. What is proved

TLAPS checks the following for every value of the constants, under the named assumptions
(`HandlersAssumption`, `RequestsAssumption`, `NoneIsNoHandler`, `SearchersAssumption`,
`CorpusAssumption`, `SupersessionAssumption`, `WindowAssumption`,
`PackingAssumption`, `TextsAssumption`, `LimitsAssumption`, `RankingAssumption`). They say
that constants have their types, that limits are positive, that threads, keys and a user's
rows are finitely many (an identifier has at most 512 characters), that a line starts with
its header, that rows have ids of their own, that a retrieval lists a row once, that every
character fits in a piece and every piece in an embedding request. Every safety property and both refinements that the passing runs check are theorems.

| Module | Theorems | Argument |
|---|---|---|
| `SqliteAdd_proofs` | `TypeCorrect`, `Atomicity`, `Durability`, `ConflictJustified`, `ReplayIsFree`, `RevisionCorrect`, `SlotsCorrect`, `LedgerImplemented` | see below |
| `PostgresAdd_proofs` | `TypeCorrect`, `Atomicity`, `Durability`, `ConflictJustified`, `RevisionCorrect`, `PoolConserved`, `NoCircle`, `LedgerImplemented` | see below |
| `ModelClient_proofs` | `TypeCorrect`, `BoundsHold`, `AnnotationsHold`, `VectorsHold` | see below |
| `SearchPath_proofs` | `TypeCorrect`, `EarlierAnswered`, `CacheIsSound`, `Isolation`, `CacheBounded` | see below |
| `SessionWindows_proofs` | `LaterOrdersRows`, `DroppedAreCorrected`, `SearchableIfHomogeneous`, `OrdersAgree`, `WindowsHide` | see below; for windows, each store's order is transitive and tells any two rows apart (`row_id` over SQLite, ids over Postgres), so a row between two of a window is in the window; where display and store disagree, the first key that differs names the cause |
| `WindowPacking_proofs` | `TypeCorrect`, `ResponseWithinBudget`, `ShownOnce`, `AnchorsAreKept` | `OpenInv` says what has become of the anchor of the window being packed, `OutputInv` that shown rows are in `seen`, `RankedInv` that earlier anchors are settled, `UsedInv` that `used` is what the windows packed so far add up to |
| `Ranking_proofs` | `FusionKeepsTheOrder`, `EvidenceInOrder`, `SummariesShowSessions` | see below |
| `OrderLemmas` | lemmas only | induction, orders, sums and sorting, used by the four modules above |

*SqliteAdd.* `AllOrNothing` alone is not inductive: it says nothing of the image a
transaction is about to publish. `IInv` adds `LockInv` (exactly the holder of the lock is
in a transaction), `TxImage` (the image is the committed tables, then ahead of them by the
request row and the messages inserted so far, at the end by the whole request and one
tick) and `HandlerInv` (what a handler knows at its place). The lemma `OnlyCommitWrites`
reduces the rest to `Commit`, where `TxImage` says that all of one new request appears.
`StoredStays` (nothing stored is ever replaced) carries `AckedIsStored`, `known` and
justified conflicts through everybody else's steps. `RevisionCorrect` counts keys with the
cardinality theorems. `StepImplements` maps each step to the ledger: `Commit` is `Store`,
`Respond` with 200 is `Acknowledge` or a stutter, everything else is a stutter. Slots are
counted: the handlers inside a process's `with` block grow or shrink by one with the slots
it has, and a restart empties both.

*PostgresAdd.* Transactions overlap, so there is no lock holder to hang the invariant on.
What keeps two of them apart is `KeyInv`: the uncommitted row of a key belongs to exactly
one transaction, from its insert to its end. With it a handler past `ClaimKey` knows that
the key is still free (`HandlerInv`), whatever else commits meanwhile, so a commit adds one
new request and nothing is replaced. The revision is right because the tick is applied to
the committed value in the same step. `PoolConserved` counts connections as `SlotsCorrect`
counts slots; there the restart of a process and each end of a transaction are a lemma.
`NoCircle` gives each handler a depth: 0 where it waits for a slot, 1 for a connection, 2
for its key's row, 3 for the revision row, 4 where it waits for nothing. Whoever waits, waits for somebody deeper (`WaitsForDeeper`, by `KeyInv` and its
counterpart `UserInv` for the revision row), so of any handlers a deepest one waits for none
of the others.

*ModelClient.* The properties speak of the end of a call. `IInv` follows the stream: what
was answered and what is in the batch make up exactly the bytes before the place the stream
stands at (`Complete`, with `Read`). `TilesAppend` prolongs that by a piece, an answer moves
pieces from one side to the other, and at the end of the stream it covers the whole text.
That the answer's rows are a permutation of the batch comes from `IndexesMatch`, by
counting.

*SearchPath.* `CacheMatchesRevision` depends on everything between the read of the revision
and the write of the cache. `JobInv` follows the promised rows (those stored at the
revision read that match the query) from the lexical result through fusion, neighbours,
supersession and windows to the answer. The store only grows and `AddCommits` stamps new
rows with a later revision, so another user's or a later Add never adds to the promise
(`CommitsGrow`). `EntryInv` is the same for what is cached.

The same invariant gives `EarlierAddsAreAnswered`: at a search's arrival what is owed is
stored at no later revision than it reads, so the owed rows are among the promised ones.
Each call may replace a promised row by one that corrects it, and the replacement may be
corrected in turn; `IsShown` follows the chain, and where the corrections of a row do not go
round, the chain ends among the candidates at a row that stays (`LastCorrector`). The rows of
which this is not so are the exception the properties state (`Circular`). The instances of
the runs have no such rows.

*SessionWindows.* With timestamps on all rows or on none, "later" is lexicographic on
(timestamp,) clock, request and number; rows of a request share the clock and are numbered
in order (`Numbered`), which makes it a strict order. A strict order on a finite set has a
first member (`StrictOrderHasFirst`), so corrections that follow it do not go round:
whatever a search drops is corrected, if through others, by a row it keeps, and some
candidate is kept. That is the counterpart of finding 1: under that condition `SearchPath`
excepts no row.

*WindowPacking.* The code compares a counter with the budget; the property is about the
response. `UsedInv` ties the two, and `OneMoreWindow` adds a window to the sum of those
packed before it.

*Ranking.* `IInv` says that what is found are rankings, that candidates are one too, and
that scored rows are in the order `InScoreOrder`: by falling score, except that the rows
behind the reranker's pool score 0 and may follow negative ones. This is what survives the
reranking; clamping makes it the order of the answer. `FusionAgrees` shows a row that is
ahead in every list to be ahead in the fusion: each list gives it no less (`GainGrows`), so
the sum is no smaller, and if it ties the row was met first. `DiversePlaces` counts: the
first row, at most limit - 1 first rows of other sessions, and as many others as are
missing make exactly limit places; and either no two of them share a session or every
comparable row's session has its first row among them.

*OrderLemmas.* The library's induction theorems take a predicate as an argument, which the
provers cannot instantiate, so induction is stated of sets: a nonempty set of naturals has a
least member (`LeastNatural`, from the well-foundedness of <), a set of subsets of a finite
set has one with nothing of it below (`SmallestSubset`). From these come the existence of
what a recursion defines (`IterationExists`), hence the sum that the library's `SumFunction`
chooses (`SumOverSet`, `SumIsMonotone`), and the ranks of a finite total order
(`RanksOfAnOrder`), hence what a sort returns (`InOrderSorts`).

Only model-checked: liveness (`EveryAddAnswered`, `EverySearchAnswered`, `EveryCallEnds`),
because fairness and ENABLED are beyond the prover.

## 5. Findings

1. **A search can drop every candidate** (`supersession_mixed`, `app/service.py:338`).
   `_is_later` compares timestamps if both rows have one, else `created_at`. With rows
   `x` (timestamp 1), `y` (none) and `z` (timestamp 2) created in the order z, y, x, each is
   later than another in a circle: `z` over `x` by timestamp, `x` over `y` and `y` over `z`
   by clock. If their texts correct one another, `_suppress_superseded` drops all three and
   the search is empty. `CHANGELOG.md:7` says "Kept untimed corrections searchable". The
   theorem `LaterOrdersRows` and the run `session_rows` show that the mixture is the cause.
2. **An oversized match is dropped instead of truncated** (`window_packing_cut`,
   `app/pack.py:68`). Only the first line of a window is cut; if another row of the window
   is shown before the match, the match ends the window and is missing, though
   `docs/TECHNICAL_REPORT.md:104` says that a "single oversized source is truncated within
   budget rather than dropped". In the run's trace the turn before the match is itself over
   the budget: it is cut and takes all of it. `AnchorsAreKept` says what remains true: a
   match is lost only when the budget is spent, or when a row that its window shows before
   it is in the response. That row is the turn before it where store and display order a
   session alike; where they do not, it may be a later turn of another Add.

Both can be replayed with the functions themselves. Without a run of their own, other
places where the models show the code to do less than one may expect:

- Two first attempts of one request that overlap both call the model endpoints
  (`app/service.py:106-112`), so "retries are free" is true of stored requests only, which
  is what `ReplaySkipsModels` states.
- SQLite cuts windows by timestamp and ordinal and ignores the chunk (`app/db.py:388`),
  while evidence is shown by chunk first, and `docs/TECHNICAL_REPORT.md:21` says of the
  windows that they are "ordered by a source-order key that combines chunk index, timestamp,
  and ordinal". Untimed messages of several Adds interleave by ordinal. So a window
  of three rows can be shown with others belonging between them;
  `WindowsHideOnlyOtherRequests` says when.
- Over Postgres the windows of untimed messages follow `created_at`, the display does not:
  with messages a0, a1 of one Add and b0 of the next, the window of a1 is a0, a1, b0 and is
  shown as a0, b0, a1.
- The scores of a rerank are not bounded below, and rows behind its pool get 0.0
  (`app/service.py:246`). With negative scores a summary may show fewer sessions than a
  plain selection; hence the condition in `SummariesSpread`.
- `_post` catches `http.client.IncompleteRead` but not its superclass `HTTPException`, so a
  malformed status line ends the request with an internal error instead of a retry; for
  slots and store this is a failure like any other.

## 6. Not modelled

- *Text.* Terms, markers, correction phrases, rendering and the day a query names are pure
  string processing; what they decide is a constant or a free choice of the models, so the
  properties hold whatever they decide. Which texts correct one another is free in
  Supersession for the same reason, and so are the rule scores in Ranking.
- *Retrieval inside the databases.* FTS5, `tsvector` and the arithmetic of similarity; a
  retrieval is any ranking (Ranking) or a fixed match (SearchPath).
- *The set-up of an old database.* The modules start from a set-up database. The two counts
  of `app/db.py:129-130` are separate statements, so a process that starts while another one
  commits the first Add of a database would index that row twice; the container runs one
  worker (`Dockerfile:26`), whose set-up ends before it serves.
- *The surface.* HTML pages, the API key check, validation by pydantic, configuration,
  logging, mock mode: no state, or state fixed at start.
- *Power failure*, as said under SqliteAdd, and the loss of the database server's disk.
- *Evaluation and scripts* are run by hand and are not part of the service.

## 7. Where it could go on

The core is modelled: both stores' writes with their refinement of the ledger, the search
with its cache, the model client, the order of evidence, windows and packing. What a next
step could add, by what it would show:

1. The set-up as actions of `ProcessCrash`'s other half, with the index as a table of its
   own, for more than one worker.
2. One module that composes SqliteAdd with SearchPath, in place of `AddCommits`; its state
   space needs a coarser SqliteAdd, for which the ledger is the candidate.
3. The date range of a query (`app/service.py:46-79`) and the sampling of options
   (`app/llm.py:345-361`) as operators, against a reference definition.
