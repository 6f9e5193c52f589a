-------------------------- MODULE SearchPath_proofs --------------------------
(***************************************************************************)
(* What a search answers, what it caches and whose rows it shows, for any  *)
(* corpus, queries, searchers and processes.                               *)
(***************************************************************************)
EXTENDS SearchPath, OrderLemmas

\* The rows that the revision a search has read makes it answer for.
Promised(j) == StoredAt(j.user, j.rev) \cap Matches[j.query]

\* What a search knows where it stands: rows of its own user only, a revision the
\* store has reached, every promised row still on its way to the answer, and what it
\* owes among the promised rows as soon as it has read the revision.
JobInv(j) ==
    /\ j.pc # "idle" => j.user \in Users /\ j.query \in Queries
    /\ j.lex \cup j.vec \cup j.found \cup j.todo \cup j.answer \subseteq Stored(j.user)
    /\ j.owed \subseteq Stored(j.user)
    /\ j.pc \in Running \ {"revision"} =>
        j.rev <= revision[j.user] /\ j.owed \subseteq StoredAt(j.user, j.rev)
    /\ j.pc \in {"embed", "vector", "date"} => Promised(j) \subseteq j.lex
    /\ j.pc = "expand" => Promised(j) \subseteq j.found
    /\ j.pc = "rerank" => \A row \in Promised(j) : IsShown(row, j.found)
    /\ j.pc = "windows" => \A row \in Promised(j) : IsShown(row, j.todo \cup j.answer)
    /\ j.status = 200 => \A row \in j.owed \cap Matches[j.query] : IsShown(row, j.answer)

\* What a cache entry is worth, under its key.
EntryInv(key, entry) ==
    /\ key.revision <= revision[key.user]
    /\ entry \subseteq Stored(key.user)
    /\ \A row \in StoredAt(key.user, key.revision) \cap Matches[key.query] :
        IsShown(row, entry)

StoreInv == \A row \in Rows : added[row] <= revision[UserOf[row]]

IInv ==
    /\ TypeOK
    /\ StoreInv
    /\ \A s \in Searchers : JobInv(job[s])
    /\ \A p \in Processes : \A key \in DOMAIN cache[p] : EntryInv(key, cache[p][key])
    /\ CacheIsBounded

-----------------------------------------------------------------------------
(***************************************************************************)
(* What is shown                                                           *)
(***************************************************************************)
\* Showing more rows hides nothing,
LEMMA MoreIsShown ==
    ASSUME NEW rows, NEW more, rows \subseteq more, NEW row, IsShown(row, rows)
    PROVE  IsShown(row, more)
BY DEF IsShown

\* and a row speaks for itself.
LEMMA RowIsShown ==
    ASSUME NEW rows, NEW row \in Rows, row \in rows
    PROVE  IsShown(row, rows)
BY DEF IsShown, CorrectedBy, Correctors

\* Dropping superseded rows leaves, for each, one that corrects it, if through others,
\* unless its corrections go round.
LEMMA UnsupersededIsShown ==
    ASSUME NEW j, NEW rows \in SUBSET Rows, NEW row \in rows
    PROVE  IsShown(row, Unsuperseded(j, rows))
<1>1. CASE j.intent = "earliest" \/ j.dated
  <2>1. Unsuperseded(j, rows) = rows
    BY <1>1 DEF Unsuperseded
  <2> QED BY <2>1, RowIsShown
<1>2. CASE row \in Circular
  BY <1>2 DEF IsShown
<1>3. CASE ~ (j.intent = "earliest" \/ j.dated) /\ row \notin Circular
  <2>1. Correctors(row, rows, Corrects) \subseteq CorrectedBy[row]
    BY CorrectorsGrow DEF CorrectedBy
  <2>2. IsAcyclic(CorrectedBy[row], Corrects)
    BY <1>3 DEF Circular
  <2>3. IsAcyclic(Correctors(row, rows, Corrects), Corrects)
    BY <2>1, <2>2 DEF IsAcyclic
  <2>4. PICK last \in Correctors(row, rows, Corrects) :
          \A newer \in rows : <<newer, last>> \notin Corrects
    BY <2>3, LastCorrector
  <2>5. last \in rows
    BY DEF Correctors
  <2>6. last \in Unsuperseded(j, rows)
    BY <1>3, <2>4, <2>5 DEF Unsuperseded
  <2> QED BY <2>1, <2>4, <2>6 DEF IsShown
<1> QED BY <1>1, <1>2, <1>3

-----------------------------------------------------------------------------
(***************************************************************************)
(* Steps of the store                                                      *)
(***************************************************************************)
LEMMA NoJobIsAJob == NoJob \in Jobs /\ JobInv(NoJob)
<1>1. NoJob \in Jobs
  BY DEF NoJob, Jobs, Intents, Statuses
<1>2. JobInv(NoJob)
  BY DEF NoJob, JobInv, Running
<1> QED BY <1>1, <1>2

\* The initial states are sound: nothing stored, cached or searched.
LEMMA InitIInv == Init => IInv
<1> SUFFICES ASSUME Init PROVE IInv
  OBVIOUS
<1> USE DEF Init
<1>1. \A p \in Processes : DOMAIN cache[p] = {} /\ DOMAIN order[p] = {} /\ order[p] = << >>
  OBVIOUS
<1>2. TypeOK
  BY <1>1, NoJobIsAJob, SearchersAssumption DEF TypeOK
<1>3. StoreInv
  BY CorpusAssumption DEF StoreInv
<1>4. \A s \in Searchers : JobInv(job[s])
  BY NoJobIsAJob
<1>5. CacheIsBounded
  BY <1>1, SearchersAssumption DEF CacheIsBounded
<1> QED BY <1>1, <1>2, <1>3, <1>4, <1>5 DEF IInv

\* A commit adds rows at a revision nobody has read yet.
LEMMA CommitsGrow ==
    ASSUME IInv, NEW user \in Users, NEW rows \in Requests, AddCommits(user, rows)
    PROVE  /\ StoreInv'
           /\ \A u \in Users : revision[u] \in Nat /\ revision[u] <= revision'[u]
           /\ \A u : Stored(u) \subseteq Stored(u)'
           /\ \A u \in Users : \A n \in Nat :
                n <= revision[u] => StoredAt(u, n)' = StoredAt(u, n)
           /\ added' \in [Rows -> Nat] /\ revision' \in [Users -> Nat]
<1> USE DEF IInv, TypeOK, StoreInv, AddCommits
<1>1. revision' \in [Users -> Nat] /\ revision'[user] = revision[user] + 1
  OBVIOUS
<1>2. \A u \in Users : revision[u] \in Nat /\ revision[u] <= revision'[u]
  OBVIOUS
<1>3. \A row \in Rows : added'[row] = IF row \in rows THEN revision'[user] ELSE added[row]
  OBVIOUS
<1>4. \A row \in rows : row \in Rows /\ UserOf[row] = user /\ added[row] = 0
  BY DEF Stored
<1>5. added' \in [Rows -> Nat]
  BY <1>1
<1>6. StoreInv'
  BY <1>1, <1>2, <1>3, <1>4, <1>5, CorpusAssumption
<1>7. \A u : Stored(u) \subseteq Stored(u)'
  BY <1>3, <1>4 DEF Stored
<1>8. ASSUME NEW u \in Users, NEW n \in Nat, n <= revision[u]
      PROVE  StoredAt(u, n)' = StoredAt(u, n)
  <2>1. \A row \in rows : row \notin StoredAt(u, n)
    BY <1>4 DEF StoredAt, Stored
  <2>2. \A row \in rows : row \notin StoredAt(u, n)'
    <3> SUFFICES ASSUME NEW row \in rows, UserOf[row] = u PROVE ~ (added'[row] <= n)
      BY DEF StoredAt, Stored
    <3>1. u = user /\ added'[row] = revision[u] + 1
      BY <1>1, <1>3, <1>4
    <3> QED BY <3>1, <1>8
  <2>3. \A row \in Rows \ rows : row \in StoredAt(u, n)' <=> row \in StoredAt(u, n)
    BY <1>3 DEF StoredAt, Stored
  <2> QED BY <2>1, <2>2, <2>3 DEF StoredAt, Stored
<1> QED BY <1>1, <1>2, <1>5, <1>6, <1>7, <1>8

\* Nothing a search or a cache entry relies on is lost by a commit.
LEMMA AddPreserves ==
    ASSUME IInv, NEW user \in Users, NEW rows \in Requests, AddCommits(user, rows)
    PROVE  IInv'
<1>1. /\ UNCHANGED <<cache, order, freeSlots, job>>
      /\ StoreInv'
      /\ \A u \in Users : revision[u] \in Nat /\ revision[u] <= revision'[u]
      /\ \A u : Stored(u) \subseteq Stored(u)'
      /\ \A u \in Users : \A n \in Nat :
            n <= revision[u] => StoredAt(u, n)' = StoredAt(u, n)
      /\ added' \in [Rows -> Nat] /\ revision' \in [Users -> Nat]
  BY CommitsGrow DEF AddCommits
<1>2. TypeOK'
  BY <1>1 DEF TypeOK, IInv
<1>3. ASSUME NEW s \in Searchers PROVE JobInv(job[s])'
  <2> DEFINE j == job[s]
  <2>1. JobInv(j) /\ j \in Jobs /\ j' = j
    BY <1>1 DEF IInv, TypeOK
  <2>2. j.rev \in Nat
    BY <2>1 DEF Jobs
  <2>3. /\ (j.lex \cup j.vec \cup j.found \cup j.todo \cup j.answer \subseteq Stored(j.user))'
        /\ (j.owed \subseteq Stored(j.user))'
    <3>1. Stored(j.user) \subseteq Stored(j.user)'
      BY <1>1
    <3>2. /\ j.lex \cup j.vec \cup j.found \cup j.todo \cup j.answer \subseteq Stored(j.user)
          /\ j.owed \subseteq Stored(j.user)
      BY <2>1 DEF JobInv
    <3> QED BY <2>1, <3>1, <3>2
  <2>4. CASE j.pc \in Running \ {"revision"}
    <3>1. /\ j.user \in Users /\ j.query \in Queries /\ j.rev <= revision[j.user]
          /\ j.owed \subseteq StoredAt(j.user, j.rev)
      BY <2>1, <2>4 DEF JobInv, Running
    <3>2. StoredAt(j.user, j.rev)' = StoredAt(j.user, j.rev) /\ j.rev <= revision'[j.user]
      BY <3>1, <2>1, <2>2, <1>1
    <3>3. Promised(j)' = Promised(j) /\ Promised(j) \subseteq Rows
      BY <3>2, <2>1 DEF Promised, StoredAt, Stored
    <3>4. (j.owed \subseteq StoredAt(j.user, j.rev))'
      BY <3>1, <3>2, <2>1
    <3> QED BY <3>1, <3>2, <3>3, <3>4, <2>1, <2>3 DEF JobInv
  <2>5. CASE j.pc \notin Running \ {"revision"}
    <3>1. j.pc \notin {"embed", "vector", "date", "expand", "rerank", "windows"}
      BY <2>5 DEF Running
    <3> QED BY <2>5, <2>1, <2>3, <3>1 DEF JobInv
  <2> QED BY <2>4, <2>5
<1>4. ASSUME NEW p \in Processes, NEW key \in DOMAIN cache[p]
      PROVE  EntryInv(key, cache[p][key])'
  <2>1. EntryInv(key, cache[p][key]) /\ key \in CacheKeys /\ cache[p]' = cache[p]
    BY <1>1 DEF IInv, TypeOK
  <2>2. key.user \in Users /\ key.revision \in Nat
    BY <2>1 DEF CacheKeys
  <2>3. /\ StoredAt(key.user, key.revision)' = StoredAt(key.user, key.revision)
        /\ key.revision <= revision'[key.user]
        /\ StoredAt(key.user, key.revision) \subseteq Rows
    BY <2>1, <2>2, <1>1 DEF EntryInv, StoredAt, Stored
  <2> QED BY <2>1, <2>2, <2>3, <1>1 DEF EntryInv
<1>5. CacheIsBounded'
  BY <1>1 DEF CacheIsBounded, IInv
<1> QED BY <1>1, <1>2, <1>3, <1>4, <1>5 DEF IInv

-----------------------------------------------------------------------------
(***************************************************************************)
(* Steps of a search                                                       *)
(***************************************************************************)
\* While the store stands still, a search may come to know whatever JobInv allows.
LEMMA LearnPreserves ==
    ASSUME IInv, NEW s \in Searchers,
           job'[s] \in Jobs, JobInv(job'[s]),
           job' = [job EXCEPT ![s] = job'[s]],
           freeSlots' \in [Processes -> Nat],
           UNCHANGED <<added, revision, cache, order>>
    PROVE  IInv'
<1>1. TypeOK'
  BY DEF IInv, TypeOK
<1>2. StoreInv'
  BY DEF IInv, StoreInv
<1>3. ASSUME NEW t \in Searchers PROVE JobInv(job[t])'
  <2>1. \A u : Stored(u)' = Stored(u)
    BY DEF Stored
  <2>2. \A u, n : StoredAt(u, n)' = StoredAt(u, n)
    BY <2>1 DEF StoredAt
  <2>3. JobInv(job'[t])
    BY DEF IInv, TypeOK
  <2> QED BY <2>1, <2>2, <2>3 DEF JobInv, Promised
<1>4. ASSUME NEW p \in Processes, NEW key \in DOMAIN cache[p]
      PROVE  EntryInv(key, cache[p][key])'
  BY <1>4 DEF IInv, EntryInv, StoredAt, Stored
<1>5. CacheIsBounded'
  BY DEF IInv, CacheIsBounded
<1> QED BY <1>1, <1>2, <1>3, <1>4, <1>5 DEF IInv

\* A job stays a job when one of its fields takes another value of its type.
LEMMA JobPc ==
    ASSUME NEW j \in Jobs
    PROVE  /\ \A v \in {"idle", "queued", "done"} \cup Running : [j EXCEPT !.pc = v] \in Jobs
BY DEF Jobs

\* The fields of a job that hold rows keep their type when one of them changes.
LEMMA JobRows ==
    ASSUME NEW j \in Jobs
    PROVE  /\ \A v \in SUBSET Rows : [j EXCEPT !.owed = v] \in Jobs
           /\ \A v \in SUBSET Rows : [j EXCEPT !.extra = v] \in Jobs
           /\ \A v \in SUBSET Rows : [j EXCEPT !.lex = v] \in Jobs
           /\ \A v \in SUBSET Rows : [j EXCEPT !.vec = v] \in Jobs
           /\ \A v \in SUBSET Rows : [j EXCEPT !.found = v] \in Jobs
           /\ \A v \in SUBSET Rows : [j EXCEPT !.todo = v] \in Jobs
           /\ \A v \in SUBSET Rows : [j EXCEPT !.answer = v] \in Jobs
BY DEF Jobs

\* So do its flags,
LEMMA JobFlags ==
    ASSUME NEW j \in Jobs
    PROVE  /\ \A v \in BOOLEAN : [j EXCEPT !.dated = v] \in Jobs
           /\ \A v \in BOOLEAN : [j EXCEPT !.due = v] \in Jobs
           /\ \A v \in BOOLEAN : [j EXCEPT !.reranked = v] \in Jobs
BY DEF Jobs

\* the revision and the intent it holds,
LEMMA JobNumbers ==
    ASSUME NEW j \in Jobs
    PROVE  /\ \A v \in Nat : [j EXCEPT !.rev = v] \in Jobs
           /\ \A v \in Intents : [j EXCEPT !.intent = v] \in Jobs
BY DEF Jobs

\* its status,
LEMMA JobStatus ==
    ASSUME NEW j \in Jobs
    PROVE  \A v \in Statuses : [j EXCEPT !.status = v] \in Jobs
BY DEF Jobs

\* and its user and query.
LEMMA JobAddress ==
    ASSUME NEW j \in Jobs
    PROVE  /\ \A v \in Users : [j EXCEPT !.user = v] \in Jobs
           /\ \A v \in Queries : [j EXCEPT !.query = v] \in Jobs
BY DEF Jobs

\* The arrival of a search, its slot and its first read.
LEMMA ReceivePreserves ==
    ASSUME IInv, NEW s \in Searchers, NEW user \in Users, NEW query \in Queries,
           Receive(s, user, query)
    PROVE  IInv'
<1>1. job'[s] = [NoJob EXCEPT !.pc = "queued", !.user = user, !.query = query,
                              !.owed = Stored(user)]
  BY DEF Receive, Learn, IInv, TypeOK
<1>2. job'[s] \in Jobs
  <2> DEFINE k1 == [NoJob EXCEPT !.pc = "queued"]
             k2 == [k1 EXCEPT !.user = user]
             k3 == [k2 EXCEPT !.query = query]
  <2>1. k1 \in Jobs
    BY NoJobIsAJob, JobPc DEF Running
  <2> HIDE DEF k1
  <2>2. k2 \in Jobs
    BY <2>1, JobAddress
  <2> HIDE DEF k2
  <2>3. k3 \in Jobs
    BY <2>2, JobAddress
  <2> HIDE DEF k3
  <2>4. [k3 EXCEPT !.owed = Stored(user)] \in Jobs
    BY <2>3, JobRows DEF Stored
  <2> QED BY <1>1, <2>4 DEF k1, k2, k3
<1>3. JobInv(job'[s])
  BY <1>1 DEF JobInv, NoJob, Running
<1> QED BY <1>1, <1>2, <1>3, LearnPreserves DEF Receive, Learn, IInv, TypeOK

\* A search that enters knows nothing yet.
LEMMA AcquireSlotPreserves ==
    ASSUME IInv, NEW s \in Searchers, AcquireSlot(s)
    PROVE  IInv'
<1>1. job'[s] = [job[s] EXCEPT !.pc = "revision"] /\ job[s] \in Jobs /\ JobInv(job[s])
  BY DEF AcquireSlot, IInv, TypeOK
<1>2. job'[s] \in Jobs
  BY <1>1 DEF Jobs, Running
<1>3. JobInv(job'[s])
  BY <1>1 DEF JobInv, Jobs, AcquireSlot
<1>4. freeSlots' \in [Processes -> Nat]
  <2>1. freeSlots \in [Processes -> Nat] /\ ProcessOf[s] \in Processes
    BY SearchersAssumption DEF IInv, TypeOK
  <2> QED BY <2>1 DEF AcquireSlot
<1> QED BY <1>1, <1>2, <1>3, <1>4, LearnPreserves DEF AcquireSlot, IInv, TypeOK

\* The revision read is one the store has reached.
LEMMA ReadRevisionPreserves ==
    ASSUME IInv, NEW s \in Searchers, ReadRevision(s)
    PROVE  IInv'
<1>1. /\ job'[s] = [job[s] EXCEPT !.pc = "lookup", !.rev = revision[job[s].user]]
      /\ job[s] \in Jobs /\ JobInv(job[s]) /\ job[s].pc = "revision"
  BY DEF ReadRevision, Learn, IInv, TypeOK
<1>2. job[s].user \in Users /\ revision[job[s].user] \in Nat
  BY <1>1 DEF JobInv, IInv, TypeOK
<1>3. job'[s] \in Jobs
  <2> DEFINE k == [job[s] EXCEPT !.pc = "lookup"]
  <2>1. k \in Jobs
    BY <1>1, JobPc DEF Running
  <2> HIDE DEF k
  <2>2. [k EXCEPT !.rev = revision[job[s].user]] \in Jobs
    BY <1>2, <2>1, JobNumbers
  <2> QED BY <1>1, <2>2 DEF k
<1> DEFINE now == revision[job[s].user]
<1>4. job[s].owed \subseteq StoredAt(job[s].user, now)
  BY <1>1, <1>2 DEF JobInv, IInv, StoreInv, StoredAt, Stored
<1>5. JobInv(job'[s])
  <2> HIDE DEF now
  <2>1. now = revision[job[s].user]
    BY DEF now
  <2> QED BY <1>1, <1>2, <1>4, <2>1 DEF JobInv, Jobs
<1> QED BY <1>1, <1>3, <1>5, LearnPreserves DEF ReadRevision, Learn, IInv, TypeOK

\* The retrieval steps, which find every promised row.
LEMMA AnalyzePreserves ==
    ASSUME IInv, NEW s \in Searchers, Analyze(s)
    PROVE  IInv'
<1>1. PICK plan \in Plans[job[s].query] :
        job'[s] = [job[s] EXCEPT !.pc = "lexical", !.extra = plan.extra,
                                 !.intent = Understood(plan.intent)]
  BY DEF Analyze, Learn, IInv, TypeOK
<1>2. job[s] \in Jobs /\ JobInv(job[s]) /\ job[s].pc = "analyze"
  BY DEF Analyze, IInv, TypeOK
<1>3. plan.extra \subseteq Rows /\ Understood(plan.intent) \in Intents
  BY <1>2, CorpusAssumption DEF JobInv, Understood, Intents
<1>4. job'[s] \in Jobs
  <2> DEFINE k1 == [job[s] EXCEPT !.pc = "lexical"]
             k2 == [k1 EXCEPT !.extra = plan.extra]
  <2>1. k1 \in Jobs
    BY <1>2, JobPc, <1>3 DEF Running
  <2> HIDE DEF k1
  <2>2. k2 \in Jobs
    BY <2>1, JobRows, <1>3
  <2> HIDE DEF k2
  <2>3. [k2 EXCEPT !.intent = Understood(plan.intent)] \in Jobs
    BY <2>2, JobNumbers, <1>3
  <2> QED BY <1>1, <2>3 DEF k1, k2
<1>5. JobInv(job'[s])
  BY <1>1, <1>2 DEF JobInv, Jobs, Running
<1> QED BY <1>1, <1>4, <1>5, LearnPreserves DEF Analyze, Learn, IInv, TypeOK

\* Lexical search finds every promised row: it reads after the revision was read.
LEMMA LexicalSearchPreserves ==
    ASSUME IInv, NEW s \in Searchers, LexicalSearch(s)
    PROVE  IInv'
<1> DEFINE j == job[s]
           rows == (Matches[j.query] \cup j.extra) \cap Stored(j.user)
<1>1. /\ job'[s] = [j EXCEPT !.pc = "embed", !.extra = {}, !.lex = rows]
      /\ j \in Jobs /\ JobInv(j) /\ j.pc = "lexical"
  BY DEF LexicalSearch, Learn, IInv, TypeOK
<1>2. rows \subseteq Rows /\ rows \subseteq Stored(j.user)
  BY DEF Stored
<1>3. job'[s] \in Jobs
  <2> DEFINE k1 == [j EXCEPT !.pc = "embed"]
             k2 == [k1 EXCEPT !.extra = {}]
  <2>1. k1 \in Jobs
    BY <1>1, JobPc, <1>2 DEF Running
  <2> HIDE DEF k1
  <2>2. k2 \in Jobs
    BY <2>1, JobRows, <1>2
  <2> HIDE DEF k2
  <2>3. [k2 EXCEPT !.lex = rows] \in Jobs
    BY <2>2, JobRows, <1>2
  <2> QED BY <1>1, <2>3 DEF k1, k2
<1>4. StoredAt(j.user, j.rev) \cap Matches[j.query] \subseteq rows
  BY DEF StoredAt
<1>5. JobInv(job'[s])
  <2> HIDE DEF rows
  <2> QED BY <1>1, <1>2, <1>4 DEF JobInv, Jobs, Running, Promised
<1> QED BY <1>1, <1>3, <1>5, LearnPreserves DEF LexicalSearch, Learn, IInv, TypeOK

\* Embedding the query loses none of them,
LEMMA EmbedQueryPreserves ==
    ASSUME IInv, NEW s \in Searchers, EmbedQuery(s)
    PROVE  IInv'
<1>1. /\ job'[s] = [job[s] EXCEPT !.pc = "vector"]
      /\ job[s] \in Jobs /\ JobInv(job[s]) /\ job[s].pc = "embed"
  BY DEF EmbedQuery, Learn, IInv, TypeOK
<1>2. job'[s] \in Jobs
  BY <1>1 DEF Jobs, Running
<1>3. JobInv(job'[s])
  BY <1>1 DEF JobInv, Jobs, Running, Promised
<1> QED BY <1>1, <1>2, <1>3, LearnPreserves DEF EmbedQuery, Learn, IInv, TypeOK

\* nor does the vector search.
LEMMA VectorSearchPreserves ==
    ASSUME IInv, NEW s \in Searchers, VectorSearch(s)
    PROVE  IInv'
<1> DEFINE j == job[s]
           near == IF j.lex # {} THEN Similar[j.query] ELSE Strong[j.query]
           rows == near \cap Stored(j.user)
<1>1. /\ job'[s] = [j EXCEPT !.pc = "date", !.vec = rows]
      /\ j \in Jobs /\ JobInv(j) /\ j.pc = "vector"
  BY DEF VectorSearch, Learn, IInv, TypeOK
<1>2. rows \subseteq Rows /\ rows \subseteq Stored(j.user)
  BY DEF Stored
<1>3. job'[s] \in Jobs
  <2> HIDE DEF rows
  <2> DEFINE k1 == [j EXCEPT !.pc = "date"]
  <2>1. k1 \in Jobs
    BY <1>1, JobPc, <1>2 DEF Running
  <2> HIDE DEF k1
  <2>2. [k1 EXCEPT !.vec = rows] \in Jobs
    BY <2>1, JobRows, <1>2
  <2> QED BY <1>1, <2>2 DEF k1
<1>4. JobInv(job'[s])
  <2> HIDE DEF rows
  <2> QED BY <1>1, <1>2 DEF JobInv, Jobs, Running, Promised
<1> QED BY <1>1, <1>3, <1>4, LearnPreserves DEF VectorSearch, Learn, IInv, TypeOK

\* Fusion keeps whatever lexical search found.
LEMMA DateSearchFindsMore ==
    ASSUME IInv, NEW s \in Searchers, DateSearch(s),
           Fused(job[s], Dated[job[s].query] \cap Stored(job[s].user)) # {}
    PROVE  IInv'
<1> DEFINE j == job[s]
           dates == Dated[j.query] \cap Stored(j.user)
           fused == Fused(j, dates)
           dated == dates # {}
<1>1. /\ job'[s] = [j EXCEPT !.pc = "expand", !.found = fused, !.dated = dated,
                             !.lex = {}, !.vec = {}]
      /\ j \in Jobs /\ JobInv(j) /\ j.pc = "date"
  BY DEF DateSearch, Learn, IInv, TypeOK
<1>2. fused \subseteq Stored(j.user) /\ fused \subseteq Rows
  BY <1>1 DEF Fused, JobInv, Stored
<1>3. Promised(j) \subseteq fused
  BY <1>1 DEF Fused, JobInv
<1>4. dated \in BOOLEAN
  OBVIOUS
<1> HIDE DEF fused, dated
<1>5. job'[s] \in Jobs
  <2> DEFINE k1 == [j EXCEPT !.pc = "expand"]
             k2 == [k1 EXCEPT !.found = fused]
             k3 == [k2 EXCEPT !.dated = dated]
             k4 == [k3 EXCEPT !.lex = {}]
  <2>1. k1 \in Jobs
    BY <1>1, JobPc, <1>2, <1>4 DEF Running
  <2> HIDE DEF k1
  <2>2. k2 \in Jobs
    BY <2>1, JobRows, <1>2, <1>4
  <2> HIDE DEF k2
  <2>3. k3 \in Jobs
    BY <2>2, JobFlags, <1>2, <1>4
  <2> HIDE DEF k3
  <2>4. k4 \in Jobs
    BY <2>3, JobRows, <1>2, <1>4
  <2> HIDE DEF k4
  <2>5. [k4 EXCEPT !.vec = {}] \in Jobs
    BY <2>4, JobRows, <1>2, <1>4
  <2> QED BY <1>1, <2>5 DEF k1, k2, k3, k4
<1>6. JobInv(job'[s])
  BY <1>1, <1>2, <1>3 DEF JobInv, Jobs, Running, Promised
<1> QED BY <1>1, <1>5, <1>6, LearnPreserves DEF DateSearch, Learn, IInv, TypeOK, fused

\* A stored row is in its own window, and so is nothing of another user.
LEMMA WindowHasItsRow ==
    ASSUME NEW user, NEW row \in Stored(user)
    PROVE  row \in Window(user, row) /\ Window(user, row) \subseteq Stored(user)
<1>1. Place[row] \in Nat
  BY CorpusAssumption DEF Stored
<1>2. ASSUME NEW y \in Stored(user) PROVE ~ (Place[row] < Place[y] /\ Place[y] < Place[row])
  <2>1. Place[y] \in Nat
    BY CorpusAssumption DEF Stored
  <2> QED BY <1>1, <2>1
<1> QED BY <1>2 DEF Window

\* Dropping superseded rows hides no promised row that nothing shown corrects.
LEMMA ExpandNeighborsPreserves ==
    ASSUME IInv, NEW s \in Searchers, ExpandNeighbors(s)
    PROVE  IInv'
<1> DEFINE j == job[s]
           expanded == j.found \cup UNION {Window(j.user, row) : row \in j.found}
           kept == Unsuperseded(j, expanded)
           due == RerankConfigured /\ j.intent = "none" /\ ~ j.dated
<1>1. /\ job'[s] = [j EXCEPT !.pc = "rerank", !.found = kept, !.intent = "none",
                             !.dated = FALSE, !.due = due]
      /\ j \in Jobs /\ JobInv(j) /\ j.pc = "expand"
  BY DEF ExpandNeighbors, Learn, IInv, TypeOK
<1>2. j.found \subseteq Stored(j.user)
  BY <1>1 DEF JobInv
<1>3. expanded \subseteq Stored(j.user)
  BY <1>2, WindowHasItsRow
<1>4. kept \subseteq expanded /\ \A row \in expanded : IsShown(row, kept)
  <2>1. expanded \in SUBSET Rows
    BY <1>3 DEF Stored
  <2> HIDE DEF expanded
  <2> QED BY <2>1, UnsupersededIsShown DEF Unsuperseded
<1>5. kept \subseteq Stored(j.user) /\ kept \subseteq Rows
  BY <1>3, <1>4 DEF Stored
<1>6. \A row \in Promised(j) : IsShown(row, kept)
  BY <1>1, <1>4 DEF JobInv
<1>7. due \in BOOLEAN
  OBVIOUS
<1> HIDE DEF kept, due
<1>8. job'[s] \in Jobs
  <2> DEFINE k1 == [j EXCEPT !.pc = "rerank"]
             k2 == [k1 EXCEPT !.found = kept]
             k3 == [k2 EXCEPT !.intent = "none"]
             k4 == [k3 EXCEPT !.dated = FALSE]
  <2>1. k1 \in Jobs
    BY <1>1, JobPc, <1>5, <1>7 DEF Running
  <2> HIDE DEF k1
  <2>2. k2 \in Jobs
    BY <2>1, JobRows, <1>5, <1>7
  <2> HIDE DEF k2
  <2>3. k3 \in Jobs
    BY <2>2, JobNumbers DEF Intents
  <2> HIDE DEF k3
  <2>4. k4 \in Jobs
    BY <2>3, JobFlags, <1>5, <1>7
  <2> HIDE DEF k4
  <2>5. [k4 EXCEPT !.due = due] \in Jobs
    BY <2>4, JobFlags, <1>5, <1>7
  <2> QED BY <1>1, <2>5 DEF k1, k2, k3, k4
<1>9. JobInv(job'[s])
  BY <1>1, <1>5, <1>6 DEF JobInv, Jobs, Running, Promised
<1> QED BY <1>1, <1>8, <1>9, LearnPreserves DEF ExpandNeighbors, Learn, IInv, TypeOK, kept, due

\* Reranking orders rows and drops none.
LEMMA RerankPreserves ==
    ASSUME IInv, NEW s \in Searchers, Rerank(s)
    PROVE  IInv'
<1> DEFINE j == job[s]
<1>1. PICK scored \in BOOLEAN :
        job'[s] = [j EXCEPT !.pc = "windows", !.reranked = scored, !.todo = j.found, !.found = {}]
  BY DEF Rerank, Learn, IInv, TypeOK
<1>2. j \in Jobs /\ JobInv(j) /\ j.pc = "rerank"
  BY DEF Rerank, IInv, TypeOK
<1>3. j.found \in SUBSET Rows
  BY <1>2 DEF Jobs
<1>4. job'[s] \in Jobs
  <2> DEFINE k1 == [j EXCEPT !.pc = "windows"]
             k2 == [k1 EXCEPT !.reranked = scored]
             k3 == [k2 EXCEPT !.todo = j.found]
  <2>1. k1 \in Jobs
    BY <1>2, JobPc, <1>3 DEF Running
  <2> HIDE DEF k1
  <2>2. k2 \in Jobs
    BY <2>1, JobFlags, <1>3
  <2> HIDE DEF k2
  <2>3. k3 \in Jobs
    BY <2>2, JobRows, <1>3
  <2> HIDE DEF k3
  <2>4. [k3 EXCEPT !.found = {}] \in Jobs
    BY <2>3, JobRows, <1>3
  <2> QED BY <1>1, <2>4 DEF k1, k2, k3
<1>5. \A row \in Promised(j) : IsShown(row, j.found \cup j.answer)
  BY <1>2, MoreIsShown DEF JobInv
<1>6. JobInv(job'[s])
  <2>1. job'[s].pc = "windows" /\ job'[s].todo = j.found /\ Promised(job'[s]) = Promised(j)
    BY <1>1, <1>2 DEF Jobs, Promised
  <2> QED BY <1>1, <1>2, <1>5, <2>1 DEF JobInv, Jobs, Running
<1> QED BY <1>1, <1>4, <1>6, LearnPreserves DEF Rerank, Learn, IInv, TypeOK

\* A window shows the row it was read for.
LEMMA ReadWindowPreserves ==
    ASSUME IInv, NEW s \in Searchers, ReadWindow(s)
    PROVE  IInv'
<1> DEFINE j == job[s]
<1>1. PICK row \in j.todo :
        job'[s] = [j EXCEPT !.answer = @ \cup Window(j.user, row), !.todo = @ \ {row}]
  BY DEF ReadWindow, Learn, IInv, TypeOK
<1> DEFINE shown == j.answer \cup Window(j.user, row)
           left == j.todo \ {row}
<1>2. j \in Jobs /\ JobInv(j) /\ j.pc = "windows"
  BY DEF ReadWindow, IInv, TypeOK
<1>3. job'[s] = [j EXCEPT !.answer = shown, !.todo = left]
  BY <1>1
<1>4. row \in Stored(j.user)
  BY <1>2 DEF JobInv
<1>5. row \in shown /\ shown \subseteq Stored(j.user) /\ left \subseteq Stored(j.user)
  BY <1>2, <1>4, WindowHasItsRow DEF JobInv
<1>6. shown \subseteq Rows /\ left \subseteq Rows /\ shown \cup left = shown \cup j.todo
  BY <1>5 DEF Stored
<1>7. /\ \A x \in Promised(j) : IsShown(x, left \cup shown)
      /\ \A x : IsShown(x, j.answer) => IsShown(x, shown)
  <2>1. j.todo \cup j.answer \subseteq left \cup shown /\ j.answer \subseteq shown
    BY <1>5
  <2> HIDE DEF left, shown
  <2> QED BY <1>2, <2>1, MoreIsShown DEF JobInv
<1> HIDE DEF shown, left
<1>8. job'[s] \in Jobs
  <2> DEFINE k1 == [j EXCEPT !.answer = shown]
  <2>1. k1 \in Jobs
    BY <1>2, JobRows, <1>6
  <2> HIDE DEF k1
  <2>2. [k1 EXCEPT !.todo = left] \in Jobs
    BY <2>1, JobRows, <1>6
  <2> QED BY <1>3, <2>2 DEF k1
<1>9. JobInv(job'[s])
  <2> DEFINE k == job'[s]
  <2>1. /\ k.pc = "windows" /\ k.answer = shown /\ k.todo = left
        /\ k.user = j.user /\ k.query = j.query /\ k.rev = j.rev /\ k.owed = j.owed
        /\ k.lex = j.lex /\ k.vec = j.vec /\ k.found = j.found /\ k.status = j.status
    BY <1>2, <1>3 DEF Jobs
  <2>2. Promised(k) = Promised(j)
    BY <2>1 DEF Promised
  <2> HIDE DEF k, shown, left
  <2>3. JobInv(k)
    BY <1>2, <1>5, <1>7, <2>1, <2>2 DEF JobInv, Running
  <2> QED BY <2>3 DEF k
<1> QED BY <1>1, <1>8, <1>9, LearnPreserves DEF ReadWindow, Learn, IInv, TypeOK

-----------------------------------------------------------------------------
(***************************************************************************)
(* The ways out of a search                                                *)
(***************************************************************************)
\* A finished search shows rows of its own user and owes nothing more.
LEMMA FinishJob ==
    ASSUME IInv, NEW s \in Searchers, NEW status \in Statuses,
           NEW rows, rows \subseteq Stored(job[s].user),
           status = 200 =>
              \A row \in job[s].owed \cap Matches[job[s].query] : IsShown(row, rows),
           job[s].pc \in Running, Finish(s, status, rows)
    PROVE  /\ job'[s] \in Jobs /\ JobInv(job'[s])
           /\ job' = [job EXCEPT ![s] = job'[s]]
           /\ freeSlots' \in [Processes -> Nat]
<1>1. /\ job'[s] = [NoJob EXCEPT !.pc = "done", !.user = job[s].user,
                                 !.query = job[s].query, !.owed = job[s].owed,
                                 !.status = status, !.answer = rows]
      /\ job' = [job EXCEPT ![s] = job'[s]]
      /\ job[s] \in Jobs /\ JobInv(job[s])
  BY DEF Finish, IInv, TypeOK
<1>2. job[s].user \in Users /\ job[s].query \in Queries
  BY <1>1 DEF JobInv, Running
<1>3. job[s].owed \in SUBSET Rows /\ rows \in SUBSET Rows
  BY <1>1 DEF Jobs, Stored
<1>4. job'[s] \in Jobs
  <2> DEFINE k1 == [NoJob EXCEPT !.pc = "done"]
             k2 == [k1 EXCEPT !.user = job[s].user]
             k3 == [k2 EXCEPT !.query = job[s].query]
             k4 == [k3 EXCEPT !.owed = job[s].owed]
             k5 == [k4 EXCEPT !.status = status]
  <2>1. k1 \in Jobs
    BY NoJobIsAJob, JobPc
  <2> HIDE DEF k1
  <2>2. k2 \in Jobs
    BY <2>1, <1>2, JobAddress
  <2> HIDE DEF k2
  <2>3. k3 \in Jobs
    BY <2>2, <1>2, JobAddress
  <2> HIDE DEF k3
  <2>4. k4 \in Jobs
    BY <2>3, <1>3, JobRows
  <2> HIDE DEF k4
  <2>5. k5 \in Jobs
    BY <2>4, JobStatus
  <2> HIDE DEF k5
  <2>6. [k5 EXCEPT !.answer = rows] \in Jobs
    BY <2>5, <1>3, JobRows
  <2> QED BY <1>1, <2>6 DEF k1, k2, k3, k4, k5
<1>5. JobInv(job'[s])
  BY <1>1, <1>2 DEF JobInv, NoJob, Running
<1>6. freeSlots' \in [Processes -> Nat]
  <2>1. freeSlots \in [Processes -> Nat] /\ ProcessOf[s] \in Processes
    BY SearchersAssumption DEF IInv, TypeOK
  <2> QED BY <2>1 DEF Finish
<1> QED BY <1>1, <1>4, <1>5, <1>6

\* A finished search holds rows of its own user only.
LEMMA FinishPreserves ==
    ASSUME IInv, NEW s \in Searchers, NEW status \in Statuses,
           NEW rows, rows \subseteq Stored(job[s].user),
           status = 200 =>
              \A row \in job[s].owed \cap Matches[job[s].query] : IsShown(row, rows),
           job[s].pc \in Running, Finish(s, status, rows),
           UNCHANGED <<added, revision, cache, order>>
    PROVE  IInv'
BY FinishJob, LearnPreserves

\* An error, and the answer of a search that found nothing.
LEMMA ErrorsPreserve ==
    ASSUME IInv, NEW s \in Searchers, ModelUnavailable(s) \/ ReadFails(s)
    PROVE  IInv'
<1>1. PICK status \in Statuses \ {200} :
        Finish(s, status, {}) /\ UNCHANGED <<added, revision, cache, order>>
  BY DEF ModelUnavailable, ReadFails, Statuses
<1>2. job[s].pc \in Running
  BY DEF ModelUnavailable, ReadFails, Running
<1> QED BY <1>1, <1>2, FinishPreserves

\* A search goes on with what it has found, or ends.
LEMMA DateSearchPreserves ==
    ASSUME IInv, NEW s \in Searchers, DateSearch(s)
    PROVE  IInv'
<1> DEFINE fused == Fused(job[s], Dated[job[s].query] \cap Stored(job[s].user))
<1>1. CASE fused # {}
  BY <1>1, DateSearchFindsMore
<1>2. CASE fused = {}
  <2>1. Finish(s, 200, {}) /\ UNCHANGED <<added, revision, cache, order>>
    BY <1>2 DEF DateSearch
  <2>2. job[s].pc \in Running \ {"revision"} /\ JobInv(job[s])
    BY DEF DateSearch, Running, IInv
  <2>3. Promised(job[s]) = {}
    BY <1>2 DEF DateSearch, IInv, JobInv, Fused
  <2>4. job[s].owed \cap Matches[job[s].query] = {}
    BY <2>2, <2>3 DEF JobInv, Promised
  <2> QED BY <2>1, <2>2, <2>4, FinishPreserves DEF Statuses
<1> QED BY <1>1, <1>2

\* A cached answer shows rows of the user in its key, who is the searcher's.
LEMMA LookUpPreserves ==
    ASSUME IInv, NEW s \in Searchers, LookUp(s)
    PROVE  IInv'
<1> DEFINE mine == cache[ProcessOf[s]]
           key == CacheKey(job[s])
<1>1. job[s] \in Jobs /\ JobInv(job[s]) /\ job[s].pc = "lookup" /\ ProcessOf[s] \in Processes
  BY SearchersAssumption DEF LookUp, IInv, TypeOK
<1>2. CASE key \in DOMAIN mine
  <2>1. mine[key] \subseteq Stored(key.user) /\ key.user = job[s].user
    BY <1>1, <1>2 DEF IInv, EntryInv, CacheKey
  <2>2. Finish(s, 200, mine[key]) /\ UNCHANGED <<added, revision, cache, order>>
    BY <1>2 DEF LookUp
  <2>3. job[s].pc \in Running
    BY <1>1 DEF Running
  <2>4. \A row \in Promised(job[s]) : IsShown(row, mine[key])
    BY <1>1, <1>2 DEF IInv, EntryInv, CacheKey, Promised
  <2> HIDE DEF mine, key
  <2>5. mine[key] \subseteq Stored(job[s].user)
    BY <2>1
  <2>6. \A row \in job[s].owed \cap Matches[job[s].query] : IsShown(row, mine[key])
    BY <1>1, <2>4 DEF JobInv, Promised, Running
  <2> QED BY <2>2, <2>3, <2>5, <2>6, FinishPreserves DEF Statuses
<1>3. CASE key \notin DOMAIN mine
  <2>1. Learn(s, [job[s] EXCEPT !.pc = "analyze"])
    BY <1>3 DEF LookUp
  <2>2. job'[s] = [job[s] EXCEPT !.pc = "analyze"]
    BY <2>1 DEF Learn, IInv, TypeOK
  <2>3. "analyze" \in Running
    BY DEF Running
  <2>5. job'[s] \in Jobs
    BY <1>1, <2>2, <2>3, JobPc
  <2>4. JobInv(job'[s])
    BY <1>1, <2>2 DEF JobInv, Jobs, Running
  <2> QED BY <2>1, <2>2, <2>5, <2>4, LearnPreserves DEF Learn, IInv, TypeOK
<1> QED BY <1>2, <1>3

\* A response ends the search.
LEMMA RespondPreserves ==
    ASSUME IInv, NEW s \in Searchers, Respond(s)
    PROVE  IInv'
<1>1. job'[s] = NoJob
  BY DEF Respond, Learn, IInv, TypeOK
<1> QED BY <1>1, NoJobIsAJob, LearnPreserves DEF Respond, Learn, IInv, TypeOK

-----------------------------------------------------------------------------
(***************************************************************************)
(* The cache                                                               *)
(***************************************************************************)
\* _store_cache keeps a cache of good entries good, bounded and in order.
LEMMA StoreCachePreserves ==
    ASSUME IInv, NEW p \in Processes, NEW key \in CacheKeys, NEW entry \in SUBSET Rows,
           EntryInv(key, entry), StoreCache(p, key, entry)
    PROVE  /\ DOMAIN cache' = Processes
           /\ \A q \in Processes : \A k \in DOMAIN cache'[q] :
                /\ k \in CacheKeys /\ cache'[q][k] \subseteq Rows
                /\ EntryInv(k, cache'[q][k])
           /\ order' \in [Processes -> Seq(CacheKeys)]
           /\ CacheIsBounded'
<1> DEFINE stored == [k \in DOMAIN cache[p] \cup {key} |->
                        IF k = key THEN entry ELSE cache[p][k]]
           keys == IF key \in DOMAIN cache[p] THEN order[p] ELSE Append(order[p], key)
           full == Len(keys) > CacheLimit
           kept == IF full THEN [k \in DOMAIN stored \ {Head(keys)} |-> stored[k]] ELSE stored
           line == IF full THEN Tail(keys) ELSE keys
<1>1. cache' = [cache EXCEPT ![p] = kept] /\ order' = [order EXCEPT ![p] = line]
  BY DEF StoreCache
<1>2. \A k \in DOMAIN stored : k \in CacheKeys /\ stored[k] \subseteq Rows /\ EntryInv(k, stored[k])
  BY DEF IInv, TypeOK
<1>3. DOMAIN kept \subseteq DOMAIN stored /\ \A k \in DOMAIN kept : kept[k] = stored[k]
  OBVIOUS
<1>4. /\ order[p] \in Seq(CacheKeys)
      /\ Len(order[p]) <= CacheLimit
      /\ {order[p][i] : i \in DOMAIN order[p]} = DOMAIN cache[p]
      /\ \A i, j \in DOMAIN order[p] : order[p][i] = order[p][j] => i = j
  BY DEF IInv, TypeOK, CacheIsBounded
<1>5. /\ keys \in Seq(CacheKeys)
      /\ Len(keys) <= CacheLimit + 1
      /\ {keys[i] : i \in DOMAIN keys} = DOMAIN stored
      /\ \A i, j \in DOMAIN keys : keys[i] = keys[j] => i = j
  <2>1. CASE key \in DOMAIN cache[p]
    <3>1. keys = order[p] /\ DOMAIN stored = DOMAIN cache[p]
      BY <2>1
    <3> HIDE DEF keys, stored
    <3> QED BY <3>1, <1>4, SearchersAssumption
  <2>2. CASE key \notin DOMAIN cache[p]
    <3> DEFINE o == order[p]
    <3>1. keys = Append(o, key) /\ DOMAIN stored = DOMAIN cache[p] \cup {key}
      BY <2>2
    <3> HIDE DEF keys, stored, o
    <3>2. /\ keys \in Seq(CacheKeys) /\ Len(keys) = Len(o) + 1
          /\ DOMAIN keys = DOMAIN o \cup {Len(o) + 1} /\ DOMAIN o = 1 .. Len(o)
          /\ Len(o) \in Nat
          /\ keys[Len(o) + 1] = key /\ \A i \in DOMAIN o : keys[i] = o[i]
      BY <3>1, <1>4 DEF o
    <3>3. \A i \in DOMAIN o : o[i] # key
      BY <1>4, <2>2 DEF o
    <3>4. {keys[i] : i \in DOMAIN keys} = DOMAIN stored
      BY <3>1, <3>2, <1>4 DEF o
    <3>5. \A i, j \in DOMAIN keys : keys[i] = keys[j] => i = j
      BY <3>2, <3>3, <1>4 DEF o
    <3> QED BY <3>2, <3>4, <3>5, <1>4, SearchersAssumption DEF o
  <2> QED BY <2>1, <2>2
<1>6. /\ line \in Seq(CacheKeys)
      /\ Len(line) <= CacheLimit
      /\ {line[i] : i \in DOMAIN line} = DOMAIN kept
      /\ \A i, j \in DOMAIN line : line[i] = line[j] => i = j
  <2>1. CASE ~ full
    <3>1. line = keys /\ kept = stored
      BY <2>1
    <3> HIDE DEF keys, stored, kept, line
    <3>2. Len(keys) \in Nat
      BY <1>5
    <3> QED BY <2>1, <3>1, <3>2, <1>5, SearchersAssumption
  <2>2. CASE full
    <3>1. line = Tail(keys) /\ DOMAIN kept = DOMAIN stored \ {Head(keys)}
      BY <2>2
    <3>2. Len(keys) \in Nat \ {0}
      BY <2>2, <1>5, SearchersAssumption
    <3> HIDE DEF keys, stored, kept, line
    <3>3. /\ line \in Seq(CacheKeys) /\ Len(line) = Len(keys) - 1
          /\ DOMAIN line = 1 .. Len(keys) - 1 /\ DOMAIN keys = 1 .. Len(keys)
          /\ \A i \in DOMAIN line : i + 1 \in DOMAIN keys /\ line[i] = keys[i + 1]
          /\ Head(keys) = keys[1]
      BY <3>1, <3>2, <1>5
    <3>4. \A i \in DOMAIN keys : i # 1 => i - 1 \in DOMAIN line /\ line[i - 1] = keys[i]
      BY <3>2, <3>3
    <3>5. {line[i] : i \in DOMAIN line} = DOMAIN kept
      <4>1. ASSUME NEW i \in DOMAIN line PROVE line[i] \in DOMAIN kept
        BY <3>1, <3>2, <3>3, <1>5
      <4>2. ASSUME NEW k \in DOMAIN kept PROVE \E i \in DOMAIN line : line[i] = k
        <5>1. PICK i \in DOMAIN keys : keys[i] = k /\ i # 1
          BY <3>1, <3>3, <1>5
        <5> QED BY <5>1, <3>4
      <4> QED BY <4>1, <4>2
    <3>6. \A i, j \in DOMAIN line : line[i] = line[j] => i = j
      <4> SUFFICES ASSUME NEW i \in DOMAIN line, NEW j \in DOMAIN line, line[i] = line[j]
                   PROVE  i = j
        OBVIOUS
      <4>1. i + 1 = j + 1
        BY <3>3, <1>5
      <4> QED BY <4>1, <3>2, <3>3
    <3> QED BY <3>2, <3>3, <3>5, <3>6, <1>5, SearchersAssumption
  <2> QED BY <2>1, <2>2
<1> HIDE DEF stored, keys, full, kept, line
<1>7. \A q \in Processes : \A k \in DOMAIN cache'[q] :
        k \in CacheKeys /\ cache'[q][k] \subseteq Rows /\ EntryInv(k, cache'[q][k])
  <2> SUFFICES ASSUME NEW q \in Processes, NEW k \in DOMAIN cache'[q]
               PROVE  k \in CacheKeys /\ cache'[q][k] \subseteq Rows /\ EntryInv(k, cache'[q][k])
    OBVIOUS
  <2>1. CASE q = p
    <3>1. cache'[q] = kept
      BY <2>1, <1>1 DEF IInv, TypeOK
    <3> QED BY <3>1, <1>2, <1>3
  <2>2. CASE q # p
    <3>1. cache'[q] = cache[q]
      BY <2>2, <1>1 DEF IInv, TypeOK
    <3> QED BY <3>1 DEF IInv, TypeOK
  <2> QED BY <2>1, <2>2
<1>8. DOMAIN cache' = Processes /\ order' \in [Processes -> Seq(CacheKeys)]
  BY <1>1, <1>6 DEF IInv, TypeOK
<1>9. CacheIsBounded'
  <2> SUFFICES ASSUME NEW q \in Processes
               PROVE  /\ Len(order'[q]) <= CacheLimit
                      /\ {order'[q][i] : i \in DOMAIN order'[q]} = DOMAIN cache'[q]
                      /\ \A i, j \in DOMAIN order'[q] : order'[q][i] = order'[q][j] => i = j
    BY DEF CacheIsBounded
  <2>1. CASE q = p
    <3>1. cache'[q] = kept /\ order'[q] = line
      BY <2>1, <1>1 DEF IInv, TypeOK
    <3> QED BY <3>1, <1>6
  <2>2. CASE q # p
    <3>1. cache'[q] = cache[q] /\ order'[q] = order[q]
      BY <2>2, <1>1 DEF IInv, TypeOK
    <3> QED BY <3>1 DEF IInv, CacheIsBounded
  <2> QED BY <2>1, <2>2
<1> QED BY <1>7, <1>8, <1>9

\* The answer of a finished search is a good entry under the key it read first.
LEMMA CompletePreserves ==
    ASSUME IInv, NEW s \in Searchers, Complete(s)
    PROVE  IInv'
<1> DEFINE j == job[s]
           p == ProcessOf[s]
           key == CacheKey(j)
           entry == j.answer
<1>1. /\ j \in Jobs /\ JobInv(j) /\ j.pc = "windows" /\ j.todo = {}
      /\ p \in Processes /\ UNCHANGED <<added, revision>>
      /\ Finish(s, 200, j.answer)
  BY SearchersAssumption DEF Complete, IInv, TypeOK
<1>2. j.user \in Users /\ j.query \in Queries /\ j.answer \subseteq Stored(j.user)
  BY <1>1 DEF JobInv
<1>3. /\ job'[s] \in Jobs /\ JobInv(job'[s])
      /\ job' = [job EXCEPT ![s] = job'[s]]
      /\ freeSlots' \in [Processes -> Nat]
  <2>1. j.todo \cup j.answer = j.answer
    BY <1>1
  <2>2. \A row \in j.owed \cap Matches[j.query] : IsShown(row, j.answer)
    BY <1>1, <2>1 DEF JobInv, Promised, Running
  <2> QED BY <1>1, <1>2, <2>2, FinishJob DEF Running, Statuses
<1>4. CASE ~ Cacheable(j)
  <2>1. UNCHANGED <<cache, order>>
    BY <1>4 DEF Complete
  <2> QED BY <2>1, <1>1, <1>3, LearnPreserves
<1>5. CASE Cacheable(j)
  <2>1. StoreCache(p, key, entry)
    BY <1>5 DEF Complete
  <2>2. key \in CacheKeys /\ entry \in SUBSET Rows
    BY <1>1, <1>2 DEF CacheKey, CacheKeys, Jobs
  <2>3. EntryInv(key, entry)
    <3>1. key.revision <= revision[key.user] /\ entry \subseteq Stored(key.user)
      BY <1>1, <1>2 DEF JobInv, CacheKey, Running
    <3>2. \A row \in StoredAt(key.user, key.revision) \cap Matches[key.query] :
            IsShown(row, entry)
      <4>1. j.todo \cup j.answer = entry
        BY <1>1
      <4> QED BY <1>1, <4>1 DEF JobInv, Promised, CacheKey
    <3> QED BY <3>1, <3>2 DEF EntryInv
  <2> HIDE DEF key, entry, p
  <2>4. /\ DOMAIN cache' = Processes
        /\ \A q \in Processes : \A k \in DOMAIN cache'[q] :
            /\ k \in CacheKeys /\ cache'[q][k] \subseteq Rows
            /\ EntryInv(k, cache'[q][k])
        /\ order' \in [Processes -> Seq(CacheKeys)]
        /\ CacheIsBounded'
    BY <2>1, <2>2, <2>3, <1>1, StoreCachePreserves
  <2>5. \A u, n : Stored(u)' = Stored(u) /\ StoredAt(u, n)' = StoredAt(u, n)
    BY <1>1 DEF StoredAt, Stored
  <2>6. TypeOK'
    <3>1. job' \in [Searchers -> Jobs]
      BY <1>3 DEF IInv, TypeOK
    <3> QED BY <2>4, <3>1, <1>1, <1>3 DEF IInv, TypeOK
  <2>7. StoreInv'
    BY <1>1 DEF IInv, StoreInv
  <2>8. ASSUME NEW t \in Searchers PROVE JobInv(job[t])'
    <3>1. JobInv(job'[t])
      BY <1>3 DEF IInv, TypeOK
    <3> QED BY <3>1, <2>5, <1>1 DEF JobInv, Promised
  <2>9. ASSUME NEW q \in Processes, NEW k \in DOMAIN cache'[q]
        PROVE  EntryInv(k, cache[q][k])'
    <3>1. EntryInv(k, cache'[q][k])
      BY <2>4
    <3> QED BY <3>1, <2>5, <1>1 DEF EntryInv
  <2> QED BY <2>4, <2>6, <2>7, <2>8, <2>9 DEF IInv
<1> QED BY <1>4, <1>5

\* A restart begins with an empty cache and no searches.
LEMMA CrashPreserves ==
    ASSUME IInv, NEW p \in Processes, Crash(p)
    PROVE  IInv'
<1>1. /\ UNCHANGED <<added, revision>>
      /\ \A s \in Searchers : job'[s] = NoJob \/ job'[s] = job[s]
      /\ \A q \in Processes : \/ cache'[q] = << >> /\ order'[q] = << >>
                              \/ cache'[q] = cache[q] /\ order'[q] = order[q]
      /\ DOMAIN cache' = Processes
  BY DEF Crash, IInv, TypeOK
<1>2. << >> \in Seq(CacheKeys) /\ Len(<< >>) = 0 /\ DOMAIN << >> = {}
  OBVIOUS
<1>3. /\ job' \in [Searchers -> Jobs] /\ freeSlots' \in [Processes -> Nat]
      /\ order' \in [Processes -> Seq(CacheKeys)]
  BY <1>2, NoJobIsAJob, SearchersAssumption DEF Crash, IInv, TypeOK
<1>4. TypeOK'
  <2>1. \A q \in Processes : \A k \in DOMAIN cache'[q] :
            k \in CacheKeys /\ cache'[q][k] \subseteq Rows
    BY <1>1, <1>2 DEF IInv, TypeOK
  <2> QED BY <1>1, <1>3, <2>1 DEF IInv, TypeOK
<1>5. \A u, n : Stored(u)' = Stored(u) /\ StoredAt(u, n)' = StoredAt(u, n)
  BY <1>1 DEF StoredAt, Stored
<1>6. StoreInv'
  BY <1>1 DEF IInv, StoreInv
<1>7. ASSUME NEW s \in Searchers PROVE JobInv(job[s])'
  <2>1. JobInv(job'[s])
    BY <1>1, NoJobIsAJob DEF IInv
  <2> QED BY <2>1, <1>1, <1>5 DEF JobInv, Promised
<1>8. ASSUME NEW q \in Processes, NEW k \in DOMAIN cache'[q]
      PROVE  EntryInv(k, cache[q][k])'
  <2>1. EntryInv(k, cache'[q][k])
    BY <1>1, <1>2 DEF IInv
  <2> QED BY <2>1, <1>1, <1>5 DEF EntryInv
<1>9. CacheIsBounded'
  <2> SUFFICES ASSUME NEW q \in Processes
               PROVE  /\ Len(order'[q]) <= CacheLimit
                      /\ {order'[q][i] : i \in DOMAIN order'[q]} = DOMAIN cache'[q]
                      /\ \A i, j \in DOMAIN order'[q] : order'[q][i] = order'[q][j] => i = j
    BY DEF CacheIsBounded
  <2>1. CASE cache'[q] = << >> /\ order'[q] = << >>
    BY <2>1, <1>2, SearchersAssumption
  <2>2. CASE cache'[q] = cache[q] /\ order'[q] = order[q]
    BY <2>2 DEF IInv, CacheIsBounded
  <2> QED BY <1>1, <2>1, <2>2
<1> QED BY <1>4, <1>6, <1>7, <1>8, <1>9 DEF IInv

-----------------------------------------------------------------------------
(***************************************************************************)
(* The theorems                                                            *)
(***************************************************************************)
LEMMA NextPreserves == IInv /\ [Next]_vars => IInv'
<1> SUFFICES ASSUME IInv, [Next]_vars PROVE IInv'
  OBVIOUS
<1>1. ASSUME NEW user \in Users, NEW rows \in Requests, AddCommits(user, rows) PROVE IInv'
  BY <1>1, AddPreserves
<1>2. ASSUME NEW s \in Searchers, NEW user \in Users, NEW query \in Queries,
             Receive(s, user, query)
      PROVE  IInv'
  BY <1>2, ReceivePreserves
<1>3. ASSUME NEW s \in Searchers, AcquireSlot(s) PROVE IInv'
  BY <1>3, AcquireSlotPreserves
<1>4. ASSUME NEW s \in Searchers, SearchStep(s) PROVE IInv'
  BY <1>4, ReadRevisionPreserves, LookUpPreserves, AnalyzePreserves,
     LexicalSearchPreserves, EmbedQueryPreserves, ErrorsPreserve, VectorSearchPreserves,
     DateSearchPreserves, ExpandNeighborsPreserves, RerankPreserves,
     ReadWindowPreserves, CompletePreserves, RespondPreserves
     DEF SearchStep
<1>5. ASSUME NEW p \in Processes, Crash(p) PROVE IInv'
  BY <1>5, CrashPreserves
<1>6. CASE UNCHANGED vars
  <2>1. UNCHANGED <<added, revision, cache, order, freeSlots, job>>
    BY <1>6 DEF vars
  <2>2. \A u, n : Stored(u)' = Stored(u) /\ StoredAt(u, n)' = StoredAt(u, n)
    BY <2>1 DEF StoredAt, Stored
  <2>3. TypeOK' /\ StoreInv' /\ CacheIsBounded'
    BY <2>1 DEF IInv, TypeOK, StoreInv, CacheIsBounded
  <2>4. ASSUME NEW s \in Searchers PROVE JobInv(job[s])'
    <3>1. JobInv(job[s]) /\ job' = job /\ revision' = revision
      BY <2>1 DEF IInv
    <3>2. Promised(job[s])' = Promised(job[s])
      BY <2>2, <3>1 DEF Promised
    <3> QED BY <2>2, <3>1, <3>2 DEF JobInv
  <2>5. \A p \in Processes : \A k \in DOMAIN cache[p] : EntryInv(k, cache[p][k])'
    BY <2>1, <2>2 DEF IInv, EntryInv
  <2> QED BY <2>1, <2>3, <2>4, <2>5 DEF IInv
<1> QED BY <1>1, <1>2, <1>3, <1>4, <1>5, <1>6 DEF Next

\* IInv is an invariant of every search, whatever is added meanwhile.
THEOREM SpecIInv == Spec => []IInv
BY InitIInv, NextPreserves, PTL DEF Spec

\* Every variable keeps its type: no search enters without a free slot
\* (service.py 91-92, 115-117).
THEOREM TypeCorrect == Spec => []TypeOK
<1>1. IInv => TypeOK
  BY DEF IInv
<1> QED BY <1>1, SpecIInv, PTL

\* What was stored when a search arrived and matches its terms is in its answer, or
\* a row that corrects it, if through others, or it is among the circular ones: for any
\* corpus and corrections, whatever commits, crashes or is cached meanwhile
\* (service.py 119-277).
THEOREM EarlierAnswered == Spec => []EarlierAddsAreAnswered
<1>1. IInv => EarlierAddsAreAnswered
  BY DEF IInv, JobInv, EarlierAddsAreAnswered
<1> QED BY <1>1, SpecIInv, PTL

\* What is cached under a revision is complete for that revision, in the same sense
\* (service.py 119-148, 274-282).
THEOREM CacheIsSound == Spec => []CacheMatchesRevision
<1>1. IInv => CacheMatchesRevision
  BY DEF IInv, EntryInv, CacheMatchesRevision
<1> QED BY <1>1, SpecIInv, PTL

\* No answer and no cache entry shows another user's row (service.py 119-277).
THEOREM Isolation == Spec => []UsersAreIsolated
<1>1. ASSUME IInv PROVE UsersAreIsolated
  <2>1. \A s \in Searchers : job[s].answer \subseteq Stored(job[s].user)
    BY <1>1 DEF IInv, JobInv
  <2>2. \A p \in Processes : \A key \in DOMAIN cache[p] :
            cache[p][key] \subseteq Stored(key.user)
    BY <1>1 DEF IInv, EntryInv
  <2> QED BY <2>1, <2>2 DEF UsersAreIsolated, Stored
<1> QED BY <1>1, SpecIInv, PTL

\* The cache stays within its limit and in step with its order of eviction
\* (service.py 279-282).
THEOREM CacheBounded == Spec => []CacheIsBounded
<1>1. IInv => CacheIsBounded
  BY DEF IInv
<1> QED BY <1>1, SpecIInv, PTL
=============================================================================
