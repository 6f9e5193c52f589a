----------------------------- MODULE MCRanking -----------------------------
\* Four rows of three sessions.  The words of a query find up to three of them, its
\* vector up to three and its event day two.
EXTENDS Ranking

CONSTANTS p, q, r, s

MCSessionOf == [row \in Rows |-> CASE row \in {p, q} -> 1 [] row = r -> 2 [] row = s -> 3]

MCOccurredOf == [row \in Rows |-> CASE row = p -> 0 [] row \in {q, r} -> 1 [] row = s -> 2]

\* The rankings of up to n rows.
Rankings(n) == {list \in UNION {[1 .. m -> Rows] : m \in 0 .. n} : IsInjective(list)}

MCLexicalLists == Rankings(3)

MCVectorLists == Rankings(3)

MCDateLists == Rankings(2)

MCFusionScale == 61 * 62 * 63

MCRerankScores == {-20, 20, 120}
=============================================================================
