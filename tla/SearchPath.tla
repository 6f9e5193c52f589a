----------------------------- MODULE SearchPath -----------------------------
(***************************************************************************)
(* POST /search: MemoryService.search of app/service.py, one database read *)
(* or model call per step, while Adds commit in between.                   *)
(*                                                                         *)
(* Nothing ties the reads of one search together: the revision, the three  *)
(* retrievals, the neighbours and each window are read on connections of   *)
(* their own, so one answer may mix several states of the store.  What     *)
(* makes the cache safe is the order: the revision is read first and is    *)
(* part of the cache key, and the store only grows.                        *)
(*                                                                         *)
(* Rows are the messages of both stores.  How a query matches them is      *)
(* given by constants; the instance is assumed to stay below the candidate *)
(* limit, the 24 expanded rows, top_k and the token budget, so that an     *)
(* answer is the set of rows its windows show (WindowPacking is about the  *)
(* other case).                                                            *)
(***************************************************************************)
EXTENDS Naturals, FiniteSets, Sequences, Corrections

CONSTANTS
    Users, Queries, Rows,
    UserOf,             \* the user_id of a row
    SessionOf,          \* its session_id
    Requests,           \* the Adds: the rows of each, all of one user
    Place,              \* its place in its session's source order
    Matches,            \* rows the query's own terms match
    Similar, Strong,    \* rows over vector_min_similarity, vector_only_min_similarity
    Overlapping,        \* rows with enough of the query's terms in them
    Dated,              \* rows on the day the query asks about, if it names one
    Plans,              \* what analyze_query may make of a query
    Corrects,           \* <<newer, older>> pairs _suppress_superseded acts on
    Searchers, Processes, ProcessOf,
    SearchConcurrency,  \* settings.search_concurrency
    CacheLimit,         \* 512
    RerankConfigured    \* competition mode with a rerank model and key

ASSUME SearchersAssumption ==
    /\ ProcessOf \in [Searchers -> Processes]
    /\ SearchConcurrency \in Nat \ {0}
    /\ CacheLimit \in Nat \ {0}
    /\ RerankConfigured \in BOOLEAN

Intents == {"none", "earliest", "latest"}
Statuses == {0, 200, 500, 503}

ASSUME CorpusAssumption ==
    /\ UserOf \in [Rows -> Users]
    /\ Requests \subseteq SUBSET Rows
    /\ Place \in [Rows -> Nat]
    /\ Matches \in [Queries -> SUBSET Rows]
    /\ Similar \in [Queries -> SUBSET Rows]
    /\ Strong \in [Queries -> SUBSET Rows]
    /\ Overlapping \in [Queries -> SUBSET Rows]
    /\ Dated \in [Queries -> SUBSET Rows]
    /\ Plans \in [Queries -> SUBSET [extra : SUBSET Rows, intent : STRING]]
    /\ Corrects \subseteq Rows \X Rows

VARIABLES
    added,      \* the revision of its user each row was stored at, 0 if it is not
    revision,   \* user_revisions
    cache,      \* the cached answers of each process, by key
    order,      \* the keys of each cache, oldest first (a dict keeps that order)
    freeSlots,  \* the free search slots of each process
    job         \* what each searcher knows of the search it serves

\* The states of a search inside "with self._search_slots".
Running ==
    {"revision", "lookup", "analyze", "lexical", "embed", "vector", "date", "expand",
     "rerank", "windows"}

vars == <<added, revision, cache, order, freeSlots, job>>

\* The rows of a user, all of them and those of its first n commits.
Stored(user) == {row \in Rows : UserOf[row] = user /\ added[row] # 0}
StoredAt(user, n) == {row \in Stored(user) : added[row] <= n}

\* owed is no variable of the code: the user's rows that were stored when the
\* search arrived.  A field goes back to its value here after its last use.
NoJob ==
    [pc |-> "idle", user |-> "-", query |-> "-", owed |-> {}, rev |-> 0,
     extra |-> {}, intent |-> "none", lex |-> {}, vec |-> {}, found |-> {},
     dated |-> FALSE, due |-> FALSE, reranked |-> FALSE, todo |-> {}, answer |-> {},
     status |-> 0]

Init ==
    /\ added = [row \in Rows |-> 0]
    /\ revision = [user \in Users |-> 0]
    /\ cache = [p \in Processes |-> <<>>]
    /\ order = [p \in Processes |-> <<>>]
    /\ freeSlots = [p \in Processes |-> SearchConcurrency]
    /\ job = [s \in Searchers |-> NoJob]

-----------------------------------------------------------------------------
\* A whole Add commits: rows and revision in one step, once (SqliteAdd).
AddCommits(user, rows) ==
    /\ rows # {}
    /\ rows \subseteq {row \in Rows : UserOf[row] = user} \ Stored(user)
    /\ revision' = [revision EXCEPT ![user] = @ + 1]
    /\ added' = [row \in Rows |-> IF row \in rows THEN revision'[user] ELSE added[row]]
    /\ UNCHANGED <<cache, order, freeSlots, job>>

-----------------------------------------------------------------------------
\* A searcher's step that touches nothing but what it knows.
Learn(s, knowledge) ==
    /\ job' = [job EXCEPT ![s] = knowledge]
    /\ UNCHANGED <<added, revision, cache, order, freeSlots>>

\* Leaving "with self._search_slots".
Finish(s, status, rows) ==
    /\ job' = [job EXCEPT ![s] = [NoJob EXCEPT !.pc = "done", !.user = job[s].user,
                                     !.query = job[s].query, !.owed = job[s].owed,
                                     !.status = status, !.answer = rows]]
    /\ freeSlots' = [freeSlots EXCEPT ![ProcessOf[s]] = @ + 1]

Receive(s, user, query) ==
    /\ job[s].pc = "idle"
    /\ Learn(s, [NoJob EXCEPT !.pc = "queued", !.user = user, !.query = query,
                              !.owed = Stored(user)])

AcquireSlot(s) ==
    /\ job[s].pc = "queued"
    /\ freeSlots[ProcessOf[s]] > 0
    /\ freeSlots' = [freeSlots EXCEPT ![ProcessOf[s]] = @ - 1]
    /\ job' = [job EXCEPT ![s].pc = "revision"]
    /\ UNCHANGED <<added, revision, cache, order>>

ReadRevision(s) ==
    /\ job[s].pc = "revision"
    /\ Learn(s, [job[s] EXCEPT !.pc = "lookup", !.rev = revision[job[s].user]])

\* Mutant: an answer is good for any later revision.
CacheKeyUnversioned(j) == [user |-> j.user, query |-> j.query, revision |-> 0]

CacheKey(j) == [user |-> j.user, query |-> j.query, revision |-> j.rev]

LookUp(s) ==
    LET mine == cache[ProcessOf[s]]
        key == CacheKey(job[s])
    IN  /\ job[s].pc = "lookup"
        /\ \/ /\ key \in DOMAIN mine
              /\ Finish(s, 200, mine[key])
              /\ UNCHANGED <<added, revision, cache, order>>
           \/ /\ key \notin DOMAIN mine
              /\ Learn(s, [job[s] EXCEPT !.pc = "analyze"])

\* Mutant: the intent is taken as the model words it.
UnderstoodVerbatim(word) == word

\* Whatever else the model answers for the intent counts as none.
Understood(word) == IF word \in Intents THEN word ELSE "none"

\* analyze_query adds terms, which match extra rows, and sets the intent.
Analyze(s) ==
    /\ job[s].pc = "analyze"
    /\ \E plan \in Plans[job[s].query] :
        Learn(s, [job[s] EXCEPT !.pc = "lexical", !.extra = plan.extra,
                                !.intent = Understood(plan.intent)])

LexicalSearch(s) ==
    LET j == job[s]
    IN  /\ j.pc = "lexical"
        /\ Learn(s, [j EXCEPT !.pc = "embed", !.extra = {},
                              !.lex = (Matches[j.query] \cup j.extra) \cap Stored(j.user)])

EmbedQuery(s) ==
    /\ job[s].pc = "embed"
    /\ Learn(s, [job[s] EXCEPT !.pc = "vector"])

\* Mutant: an exception of the model client skips the release of the slot.
ModelUnavailableLeaksSlot(s) ==
    /\ job[s].pc \in {"analyze", "embed"}
    /\ Learn(s, [job[s] EXCEPT !.pc = "done", !.status = 503])

\* The query embedding or the analysis ends in LLMUnavailable.
ModelUnavailable(s) ==
    /\ job[s].pc \in {"analyze", "embed"}
    /\ Finish(s, 503, {})
    /\ UNCHANGED <<added, revision, cache, order>>

\* Without lexical evidence the similarity threshold is the stronger one.
VectorSearch(s) ==
    LET j == job[s]
        near == IF j.lex # {} THEN Similar[j.query] ELSE Strong[j.query]
    IN  /\ j.pc = "vector"
        /\ Learn(s, [j EXCEPT !.pc = "date", !.vec = near \cap Stored(j.user)])

\* Fusion, with the overlap filter that lexical evidence puts on vector rows.
Fused(j, dates) ==
    IF j.lex # {} THEN j.lex \cup dates \cup (j.vec \cap Overlapping[j.query])
    ELSE j.vec \cup dates

DateSearch(s) ==
    LET j == job[s]
        dates == Dated[j.query] \cap Stored(j.user)
        fused == Fused(j, dates)
    IN  /\ j.pc = "date"
        /\ IF fused = {}
           THEN Finish(s, 200, {}) /\ UNCHANGED <<added, revision, cache, order>>
           ELSE Learn(s, [j EXCEPT !.pc = "expand", !.found = fused, !.dated = dates # {},
                                   !.lex = {}, !.vec = {}])

\* Mutant: a session is looked up by its id alone.
WindowAnyUser(user, row) ==
    LET session == {x \in Rows : added[x] # 0 /\ SessionOf[x] = SessionOf[row]}
        between(x, y) == \/ Place[row] < Place[y] /\ Place[y] < Place[x]
                         \/ Place[x] < Place[y] /\ Place[y] < Place[row]
    IN  {x \in session : \A y \in session : ~ between(x, y)}

\* A statement on the store raises: I/O error, lost connection, pool timeout.
ReadFails(s) ==
    /\ \/ job[s].pc \in {"revision", "lexical", "vector", "date", "expand"}
       \/ job[s].pc = "windows" /\ job[s].todo # {}
    /\ Finish(s, 500, {})
    /\ UNCHANGED <<added, revision, cache, order>>

\* The stored rows next to a row in its session, itself included.
Window(user, row) ==
    LET session == {x \in Stored(user) : SessionOf[x] = SessionOf[row]}
        between(x, y) == \/ Place[row] < Place[y] /\ Place[y] < Place[x]
                         \/ Place[x] < Place[y] /\ Place[y] < Place[row]
    IN  {x \in session : \A y \in session : ~ between(x, y)}

\* Rows a later row of the candidates corrects are dropped, unless the query is
\* about the earliest state or a day.
Unsuperseded(j, rows) ==
    IF j.intent = "earliest" \/ j.dated THEN rows
    ELSE {row \in rows : ~ \E newer \in rows : <<newer, row>> \in Corrects}

ExpandNeighbors(s) ==
    LET j == job[s]
        expanded == j.found \cup UNION {Window(j.user, row) : row \in j.found}
        kept == Unsuperseded(j, expanded)
    IN  /\ j.pc = "expand"
        /\ Learn(s, [j EXCEPT !.pc = "rerank", !.found = kept,
                              !.intent = "none", !.dated = FALSE,
                              !.due = RerankConfigured /\ j.intent = "none" /\ ~ j.dated])

\* The reranker, when it is due, scores every document or counts for nothing.
Rerank(s) ==
    LET j == job[s]
    IN  /\ j.pc = "rerank"
        /\ \E scored \in (IF j.due THEN BOOLEAN ELSE {FALSE}) :
            Learn(s, [j EXCEPT !.pc = "windows", !.reranked = scored,
                                   !.todo = j.found, !.found = {}])

\* The windows of the selected rows, one read after the other.
ReadWindow(s) ==
    LET j == job[s]
    IN  /\ j.pc = "windows"
        /\ \E row \in j.todo :
            Learn(s, [j EXCEPT !.answer = @ \cup Window(j.user, row), !.todo = @ \ {row}])

\* Mutant: the size is tested before the entry goes in.
StoreCacheLate(p, key, entry) ==
    LET stored == [k \in DOMAIN cache[p] \cup {key} |->
                      IF k = key THEN entry ELSE cache[p][k]]
        keys == IF key \in DOMAIN cache[p] THEN order[p] ELSE Append(order[p], key)
    IN  IF Len(order[p]) > CacheLimit
        THEN /\ cache' = [cache EXCEPT ![p] =
                             [k \in DOMAIN stored \ {Head(keys)} |-> stored[k]]]
             /\ order' = [order EXCEPT ![p] = Tail(keys)]
        ELSE /\ cache' = [cache EXCEPT ![p] = stored]
             /\ order' = [order EXCEPT ![p] = keys]

\* _store_cache: a key written again keeps its place; over the limit the oldest
\* key goes.
StoreCache(p, key, entry) ==
    LET stored == [k \in DOMAIN cache[p] \cup {key} |->
                      IF k = key THEN entry ELSE cache[p][k]]
        keys == IF key \in DOMAIN cache[p] THEN order[p] ELSE Append(order[p], key)
    IN  IF Len(keys) > CacheLimit
        THEN /\ cache' = [cache EXCEPT ![p] =
                             [k \in DOMAIN stored \ {Head(keys)} |-> stored[k]]]
             /\ order' = [order EXCEPT ![p] = Tail(keys)]
        ELSE /\ cache' = [cache EXCEPT ![p] = stored]
             /\ order' = [order EXCEPT ![p] = keys]

Cacheable(j) == j.reranked \/ ~ j.due

\* Mutant: the key is built when the answer is stored, from the revision of then.
CompleteAtLastRevision(s) ==
    LET j == job[s]
        key == CacheKey([j EXCEPT !.rev = revision[j.user]])
    IN  /\ j.pc = "windows"
        /\ j.todo = {}
        /\ IF Cacheable(j) THEN StoreCache(ProcessOf[s], key, j.answer)
           ELSE UNCHANGED <<cache, order>>
        /\ Finish(s, 200, j.answer)
        /\ UNCHANGED <<added, revision>>

\* The answer is cached under the revision read first, unless a due rerank
\* failed, and returned.
Complete(s) ==
    LET j == job[s]
    IN  /\ j.pc = "windows"
        /\ j.todo = {}
        /\ IF Cacheable(j) THEN StoreCache(ProcessOf[s], CacheKey(j), j.answer)
           ELSE UNCHANGED <<cache, order>>
        /\ Finish(s, 200, j.answer)
        /\ UNCHANGED <<added, revision>>

Respond(s) ==
    /\ job[s].pc = "done"
    /\ Learn(s, NoJob)

\* A process dies and restarts: searches, slots and cache go with it.
Crash(p) ==
    /\ job' = [s \in Searchers |-> IF ProcessOf[s] = p THEN NoJob ELSE job[s]]
    /\ freeSlots' = [freeSlots EXCEPT ![p] = SearchConcurrency]
    /\ cache' = [cache EXCEPT ![p] = <<>>]
    /\ order' = [order EXCEPT ![p] = <<>>]
    /\ UNCHANGED <<added, revision>>

SearchStep(s) ==
    \/ ReadRevision(s)
    \/ LookUp(s)
    \/ Analyze(s)
    \/ LexicalSearch(s)
    \/ EmbedQuery(s)
    \/ ModelUnavailable(s)
    \/ VectorSearch(s)
    \/ DateSearch(s)
    \/ ExpandNeighbors(s)
    \/ Rerank(s)
    \/ ReadWindow(s)
    \/ ReadFails(s)
    \/ Complete(s)
    \/ Respond(s)

Next ==
    \/ \E user \in Users, rows \in Requests : AddCommits(user, rows)
    \/ \E s \in Searchers :
        \/ \E user \in Users, query \in Queries : Receive(s, user, query)
        \/ AcquireSlot(s)
        \/ SearchStep(s)
    \/ \E p \in Processes : Crash(p)

Spec == Init /\ [][Next]_vars

\* As for Add: a search that runs goes on, model calls end, slots come round.
Fairness ==
    \A s \in Searchers : WF_vars(SearchStep(s)) /\ SF_vars(AcquireSlot(s))

FairSpec == Spec /\ Fairness

-----------------------------------------------------------------------------
CacheKeys == [user : Users, query : Queries, revision : Nat]
Jobs ==
    [pc : {"idle", "queued", "done"} \cup Running, user : Users \cup {"-"},
     query : Queries \cup {"-"}, owed : SUBSET Rows, rev : Nat,
     extra : SUBSET Rows, intent : Intents, lex : SUBSET Rows, vec : SUBSET Rows,
     found : SUBSET Rows, dated : BOOLEAN, due : BOOLEAN, reranked : BOOLEAN,
     todo : SUBSET Rows, answer : SUBSET Rows, status : Statuses]

TypeOK ==
    /\ added \in [Rows -> Nat]
    /\ revision \in [Users -> Nat]
    /\ freeSlots \in [Processes -> Nat]
    /\ job \in [Searchers -> Jobs]
    /\ DOMAIN cache = Processes
    /\ \A p \in Processes : \A key \in DOMAIN cache[p] :
        key \in CacheKeys /\ cache[p][key] \subseteq Rows
    /\ order \in [Processes -> Seq(CacheKeys)]

\* A row and the rows that correct it, directly or through rows corrected themselves.
CorrectedBy == [row \in Rows |-> Correctors(row, Rows, Corrects)]

\* Rows whose corrections go round in a circle somewhere: _suppress_superseded can drop
\* them together with all that corrects them (Supersession's counterexample).
Circular == {row \in Rows : ~ IsAcyclic(CorrectedBy[row], Corrects)}

\* Some of the rows shown says what a row says, or what has become of it.
IsShown(row, rows) == CorrectedBy[row] \cap rows # {} \/ row \in Circular

\* Whatever was committed before a search arrived and matches its own terms is in
\* the answer, or what corrects it is, or its corrections go round: fresh or cached,
\* torn reads, concurrent commits and restarts included (service.py 119-277).
EarlierAddsAreAnswered ==
    \A s \in Searchers :
        job[s].status = 200 =>
            \A row \in job[s].owed \cap Matches[job[s].query] : IsShown(row, job[s].answer)

\* A cached answer is as complete as the revision in its key promises, circles aside,
\* which is what lets any later search that reads this revision take it
\* (service.py 126-148, 274-282).
CacheMatchesRevision ==
    \A p \in Processes : \A key \in DOMAIN cache[p] :
        \A row \in StoredAt(key.user, key.revision) \cap Matches[key.query] :
            IsShown(row, cache[p][key])

\* Nobody's answer, and no cache entry, shows another user's row (db.py 255, 361,
\* 387; service.py 126-144).
UsersAreIsolated ==
    /\ \A s \in Searchers : \A row \in job[s].answer : UserOf[row] = job[s].user
    /\ \A p \in Processes : \A key \in DOMAIN cache[p] :
        \A row \in cache[p][key] : UserOf[row] = key.user

\* The cache never outgrows its limit and its order lists exactly its keys, each
\* once, so that the oldest key can always be evicted (service.py 279-282).
CacheIsBounded ==
    \A p \in Processes :
        /\ Len(order[p]) <= CacheLimit
        /\ {order[p][i] : i \in DOMAIN order[p]} = DOMAIN cache[p]
        /\ \A i, j \in DOMAIN order[p] : order[p][i] = order[p][j] => i = j

\* A search ends in an answer, an error or its process's end (service.py 115-117).
EverySearchAnswered ==
    \A s \in Searchers : job[s].pc # "idle" ~> job[s].pc = "idle"
=============================================================================
