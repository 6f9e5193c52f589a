SPECIFICATION FairSpec
CONSTANTS
    s1 = s1
    s2 = s2
    A = A
    old = old
    fix = fix
    note = note
    other = other
    u1 = u1
    u2 = u2
    plain = plain
    day = day
    Users = {u1, u2}
    Queries = {plain, day}
    Rows = {old, fix, note, other}
    UserOf <- MCUserOf
    SessionOf <- MCSessionOf
    Requests <- MCRequests
    Place <- MCPlace
    Matches <- MCMatches
    Similar <- MCSimilar
    Strong <- MCStrong
    Overlapping <- MCOverlapping
    Dated <- MCDated
    Plans <- MCPlans
    Corrects <- MCCorrects
    Searchers = {s1}
    Processes = {A}
    ProcessOf <- MCProcessOf
    SearchConcurrency = 1
    CacheLimit = 2
    RerankConfigured = TRUE
INVARIANTS
    TypeOK
    EarlierAddsAreAnswered
    UsersAreIsolated
PROPERTY
    EverySearchAnswered
