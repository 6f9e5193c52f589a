SPECIFICATION Spec
CONSTANTS
    s1 = s1
    s2 = s2
    A = A
    old = old
    fix = fix
    note = note
    other = other
    u1 = u1
    u2 = u2
    plain = plain
    day = day
    Users = {u1}
    Queries = {plain}
    Rows = {old, fix}
    UserOf <- MCUserOf
    SessionOf <- MCSessionOf
    Requests <- MCRequests
    Place <- MCPlace
    Matches <- MCMatches
    Similar <- MCSimilar
    Strong <- MCStrong
    Overlapping <- MCOverlapping
    Dated <- MCDated
    Plans <- MCPlans
    Corrects <- MCCorrects
    Searchers = {s1, s2}
    Processes = {A}
    ProcessOf <- MCProcessOf
    SearchConcurrency = 2
    CacheLimit = 2
    RerankConfigured = TRUE
SYMMETRY SearcherSymmetry
INVARIANTS
    CacheMatchesRevision
    CacheIsBounded
