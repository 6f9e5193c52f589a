SPECIFICATION Spec
CONSTANTS
    p = p
    q = q
    r = r
    s = s
    Rows = {p, q, r, s}
    SessionOf <- MCSessionOf
    OccurredOf <- MCOccurredOf
    LexicalLists <- MCLexicalLists
    VectorLists <- MCVectorLists
    DateLists <- MCDateLists
    FusionScale <- MCFusionScale
    Seeds = 2
    RuleScores = {10, 30, 40}
    RerankScores <- MCRerankScores
    RerankLimit = 3
    Limits = {1, 2, 3}
INVARIANTS
    FusionRespectsTheLists
    EvidenceIsInScoreOrder
    SummariesSpread
