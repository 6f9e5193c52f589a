------------------------------- MODULE Ranking -------------------------------
(***************************************************************************)
(* The order of a search's evidence: the fusion of the ranked lists, the   *)
(* overlap filter, the neighbours that join in, the rule scores, the       *)
(* reranker and the choice of evidence from several sessions, as _search   *)
(* of app/service.py calls them one after the other.                       *)
(*                                                                         *)
(* What the stores find, which texts share words with the query and what a *)
(* row scores are left open.  Scores are hundredths.                       *)
(***************************************************************************)
EXTENDS Integers, FiniteSets, Sequences, SequencesExt

CONSTANTS
    Rows,          \* the rows of the user
    SessionOf,     \* the session of each
    OccurredOf,    \* its timestamp, 0 if it has none
    LexicalLists,  \* bound: what a search by words may find, best first
    VectorLists,   \* bound: what a search by vector may find
    DateLists,     \* bound: what a search by event day may find
    FusionScale,   \* a common multiple of the denominators of the fusion
    Seeds,         \* how many candidates bring their neighbours: 24 in the code
    RuleScores,    \* what the rules may give a row
    RerankScores,  \* what the model may give a document
    RerankLimit,   \* documents one native rerank call takes: 500 in the code
    Limits         \* what min(top_k, AML_MAX_OUTPUT_ITEMS) may be

\* The members of a set in an order of <<earlier, later>> pairs, the first one first.
InOrder(S, pairs) ==
    [i \in 1 .. Cardinality(S) |->
        CHOOSE x \in S : Cardinality({y \in S : <<y, x>> \in pairs}) = i - 1]

\* The entries of a list at some of its places, in its order.
Chosen(list, places) ==
    LET sorted == InOrder(places, {pair \in places \X places : pair[1] < pair[2]})
    IN  [i \in DOMAIN sorted |-> list[sorted[i]]]

IsRanking(list) == list \in Seq(Rows) /\ IsInjective(list)

Lists == LexicalLists \cup VectorLists \cup DateLists

ASSUME RankingAssumption ==
    /\ IsFiniteSet(Rows)
    /\ \A list \in Lists : IsRanking(list)
    /\ \A list \in Lists : \A i \in DOMAIN list : FusionScale % (60 + i) = 0
    /\ FusionScale \in Nat
    /\ OccurredOf \in [Rows -> Nat]
    /\ RuleScores \subseteq Nat
    /\ RerankScores \subseteq Int
    /\ Seeds \in Nat /\ RerankLimit \in Nat
    /\ Limits \subseteq Nat \ {0}

VARIABLES
    stage,       \* the call _search makes next
    found,       \* the lists it fuses
    candidates,  \* rows, best first
    ordered,     \* candidates with their scores
    asks,        \* what the query is about: a "fact", a "time" or a "summary"
    dated,       \* it names a day, and something happened on it
    room,        \* how much evidence it may show, 0 until it selects
    selected     \* the evidence it shows

vars == <<stage, found, candidates, ordered, asks, dated, room, selected>>

Init ==
    /\ stage = "retrieve"
    /\ found = <<>>
    /\ candidates = <<>>
    /\ ordered = <<>>
    /\ asks = "fact"
    /\ dated = FALSE
    /\ room = 0
    /\ selected = <<>>

-----------------------------------------------------------------------------
Retrieve ==
    /\ stage = "retrieve"
    /\ \E lexical \in LexicalLists, vector \in VectorLists, date \in DateLists :
        found' = <<lexical, vector, date>>
    /\ stage' = "fuse"
    /\ UNCHANGED <<candidates, ordered, asks, dated, room, selected>>

Place(list, row) == CHOOSE i \in DOMAIN list : list[i] = row

\* Mutant: a later list takes the place of an earlier one.
FusedScoreOfLast(row, lists) ==
    LET last == CHOOSE i \in DOMAIN lists :
                    /\ row \in Range(lists[i])
                    /\ \A j \in DOMAIN lists : j > i => row \notin Range(lists[j])
    IN  FusionScale \div (60 + Place(lists[last], row))

\* Reciprocal ranks, added up.
FusedScore(row, lists) ==
    SumFunction([i \in DOMAIN lists |->
        IF row \in Range(lists[i]) THEN FusionScale \div (60 + Place(lists[i], row)) ELSE 0])

\* The first list that has a row: the fusion meets its rows there, list after list.
First(row, lists) ==
    CHOOSE i \in DOMAIN lists :
        /\ row \in Range(lists[i])
        /\ \A j \in DOMAIN lists : row \in Range(lists[j]) => i <= j

MetBefore(x, y, lists) ==
    LET i == First(x, lists)
        j == First(y, lists)
    IN  i < j \/ (i = j /\ Place(lists[i], x) < Place(lists[j], y))

\* Sorted by score, the best first; rows that tie stay in the order they were met.
Fuse(lists) ==
    LET rows == UNION {Range(lists[i]) : i \in DOMAIN lists}
        Ahead(x, y) ==
            \/ FusedScore(x, lists) > FusedScore(y, lists)
            \/ FusedScore(x, lists) = FusedScore(y, lists) /\ MetBefore(x, y, lists)
    IN  InOrder(rows, {pair \in rows \X rows : Ahead(pair[1], pair[2])})

\* If a list by words found anything, a row that only its vector brought has to
\* share a word with the query; and if no list found anything, there is no evidence.
FuseAndFilter ==
    /\ stage = "fuse"
    /\ \E fused \in {Fuse(found)}, overlapping \in SUBSET Range(found[2]) :
        LET Allowed(row) ==
                \/ found[1] = <<>>
                \/ row \in Range(found[1]) \cup Range(found[3]) \cup overlapping
        IN  /\ found[1] = <<>> => overlapping = Range(found[2])
            /\ candidates' = Chosen(fused, {i \in DOMAIN fused : Allowed(fused[i])})
    /\ stage' = IF candidates' = <<>> THEN "answer" ELSE "expand"
    /\ UNCHANGED <<found, ordered, asks, dated, room, selected>>

\* _expand_neighbors: rows of the first candidates' sessions come after the rest.
Expand ==
    /\ stage = "expand"
    /\ LET sessions == {SessionOf[candidates[i]] : i \in {j \in DOMAIN candidates : j <= Seeds}}
           others == {row \in Rows \ Range(candidates) : SessionOf[row] \in sessions}
       IN  \E near \in SUBSET others : \E joining \in SetToSeqs(near) :
                candidates' = candidates \o joining
    /\ dated' = (found[3] # <<>>)
    /\ found' = <<>>
    /\ stage' = "suppress"
    /\ UNCHANGED <<ordered, asks, room, selected>>

\* _suppress_superseded: what it drops is the subject of Supersession.  A query for
\* the earliest fact or for an event day skips it.
Suppress ==
    /\ stage = "suppress"
    /\ \E dropped \in SUBSET Range(candidates) :
        /\ dated => dropped = {}
        /\ candidates' = Chosen(candidates, {i \in DOMAIN candidates : candidates[i] \notin dropped})
    /\ stage' = "rank"
    /\ UNCHANGED <<found, ordered, asks, dated, room, selected>>

\* A stable sort of scored rows, the best first; key breaks ties of the score.
Sorted(entries, key) ==
    LET Ahead(i, j) ==
            LET x == entries[i]
                y == entries[j]
            IN  \/ x.score > y.score
                \/ x.score = y.score /\ key[x.row] > key[y.row]
                \/ x.score = y.score /\ key[x.row] = key[y.row] /\ i < j
        all == 1 .. Len(entries)
        places == InOrder(all, {pair \in all \X all : Ahead(pair[1], pair[2])})
    IN  [i \in DOMAIN places |-> entries[places[i]]]

\* _rank: of rows that score alike the one that happened last comes first.
Rank ==
    /\ stage = "rank"
    /\ \E score \in [Range(candidates) -> RuleScores] :
        ordered' = Sorted([i \in DOMAIN candidates |->
                              [score |-> score[candidates[i]], row |-> candidates[i]]],
                          OccurredOf)
    /\ asks' \in {"fact", "time", "summary"}
    /\ candidates' = <<>>
    /\ stage' = "rerank"
    /\ UNCHANGED <<found, dated, room, selected>>

\* Mutant: the rows past the pool keep what the rules gave them.
RerankedWithRuleScores(pool, answer) ==
    LET scored == [i \in 1 .. pool |-> [ordered[i] EXCEPT !.score = answer[i]]]
    IN  Sorted(scored, [row \in Rows |-> 0]) \o SubSeq(ordered, pool + 1, Len(ordered))

\* The pool by the model's scores, ties as they were, and the rest of the rows
\* behind it with no score at all.
Reranked(pool, answer) ==
    LET scored == [i \in 1 .. pool |-> [ordered[i] EXCEPT !.score = answer[i]]]
        rest == SubSeq(ordered, pool + 1, Len(ordered))
    IN  Sorted(scored, [row \in Rows |-> 0]) \o [i \in DOMAIN rest |-> [rest[i] EXCEPT !.score = 0]]

\* What the model answered for each document of the pool, by its index in any order.
\* An answer that misses a document counts for nothing, as a call that fails does.
Rerank ==
    /\ stage = "rerank"
    /\ \E pool \in {Len(ordered), IF Len(ordered) < RerankLimit THEN Len(ordered) ELSE RerankLimit} :
        \E answered \in SUBSET (1 .. pool) : \E answer \in [answered -> RerankScores] :
            /\ asks = "time" \/ dated => answered = {}
            /\ ordered' = IF answered = 1 .. pool THEN Reranked(pool, answer) ELSE ordered
    /\ stage' = "select"
    /\ UNCHANGED <<found, candidates, asks, dated, room, selected>>

-----------------------------------------------------------------------------
SessionAt(i) == SessionOf[ordered[i].row]

\* score < max(boundary * 0.75, boundary - 0.15), the other way round.
IsComparable(score, boundary) ==
    /\ 4 * score >= 3 * boundary
    /\ score >= boundary - 15

\* A row that the first loop picks, unless the limit comes first: comparable to the
\* last one of a plain selection, and of a session that no row before it brought.
FirstOfSession(i, boundary) ==
    /\ i > 1
    /\ IsComparable(ordered[i].score, boundary)
    /\ SessionAt(i) # SessionAt(1)
    /\ \A j \in 2 .. i - 1 :
        SessionAt(j) = SessionAt(i) => ~ IsComparable(ordered[j].score, boundary)

\* The n least of a set of places.
Least(places, n) == {i \in places : Cardinality({j \in places : j < i}) < n}

\* Mutant: the places that are left over are not filled.
DiverseUnfilled(limit) ==
    {1} \cup Least({i \in DOMAIN ordered : FirstOfSession(i, ordered[limit].score)}, limit - 1)

\* select_diverse_evidence: a row of every session, then the best of the others.
Diverse(limit) ==
    LET firsts == {i \in DOMAIN ordered : FirstOfSession(i, ordered[limit].score)}
        picked == {1} \cup Least(firsts, limit - 1)
        filling == Least(DOMAIN ordered \ picked, limit - Cardinality(picked))
    IN  picked \cup filling

\* Only a query that asks for a summary, and names no time, looks for other sessions.
Select ==
    /\ stage = "select"
    /\ room' \in Limits
    /\ selected' = Chosen(ordered,
                          IF room' = 1 \/ Len(ordered) <= room' \/ asks # "summary"
                          THEN {i \in DOMAIN ordered : i <= room'}
                          ELSE Diverse(room'))
    /\ stage' = "answer"
    /\ UNCHANGED <<found, candidates, ordered, asks, dated>>

\* The call returns; what it worked on is gone.
Answer ==
    /\ stage = "answer"
    /\ stage' = "retrieve"
    /\ found' = <<>>
    /\ candidates' = <<>>
    /\ ordered' = <<>>
    /\ asks' = "fact"
    /\ dated' = FALSE
    /\ room' = 0
    /\ selected' = <<>>

Next ==
    \/ Retrieve
    \/ FuseAndFilter
    \/ Expand
    \/ Suppress
    \/ Rank
    \/ Rerank
    \/ Select
    \/ Answer

Spec == Init /\ [][Next]_vars

-----------------------------------------------------------------------------
\* A row that is ahead of another in every list that has the other is ahead of it
\* after the fusion: no list can cost a row its place by finding it
\* (service.py 351-358).
FusionRespectsTheLists ==
    stage = "expand" =>
        \A x, y \in Range(candidates) :
            /\ x # y
            /\ \A i \in DOMAIN found : y \in Range(found[i]) =>
                x \in Range(found[i]) /\ Place(found[i], x) < Place(found[i], y)
            => Place(candidates, x) < Place(candidates, y)

\* The score a search answers with.
Clamped(score) == IF score < 0 THEN 0 ELSE IF score > 100 THEN 100 ELSE score

\* Evidence is listed by the score it is answered with, every row once, whatever the
\* reranker scored, and however few of the rows it saw (service.py 226-275).
EvidenceIsInScoreOrder ==
    \A entries \in {ordered, selected} : \A i, j \in DOMAIN entries : i < j =>
        /\ Clamped(entries[i].score) >= Clamped(entries[j].score)
        /\ entries[i].row # entries[j].row

Sessions(entries) == {SessionOf[entry.row] : entry \in entries}

\* Looking for other sessions costs a search neither the best row nor a place: it
\* shows as many rows as it may, or all; of a summary it shows as many sessions as it
\* has rows, or every session with a row comparable to the last that a plain
\* selection shows; so, if no score is negative, as many sessions as a plain
\* selection at least (diversity.py 24-67).
SummariesSpread ==
    stage = "answer" /\ ordered # <<>> =>
        LET n == IF Len(ordered) < room THEN Len(ordered) ELSE room
            plain == {ordered[i] : i \in 1 .. n}
            comparable == {entry \in ToSet(ordered) :
                              IsComparable(entry.score, ordered[n].score) \/ entry = ordered[1]}
            shown == Cardinality(Sessions(ToSet(selected)))
        IN  /\ Len(selected) = n
            /\ selected[1] = ordered[1]
            /\ asks = "summary" => shown = n \/ Sessions(comparable) \subseteq Sessions(ToSet(selected))
            /\ (\A entry \in ToSet(ordered) : entry.score >= 0) =>
                    shown >= Cardinality(Sessions(plain))
=============================================================================
