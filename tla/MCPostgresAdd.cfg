SPECIFICATION Spec
CONSTANTS
    h1 = h1
    h2 = h2
    h3 = h3
    h4 = h4
    A = A
    B = B
    k1 = k1
    k2 = k2
    u1 = u1
    one = one
    two = two
    None = None
    Handlers = {h1, h2, h4}
    Processes = {A, B}
    ProcessOf <- MCProcessOf
    AddConcurrency = 2
    PoolSize = 1
    Keys = {k1, k2}
    Users = {u1}
    UserOf <- MCUserOf
    Payloads = {one, two}
    MessageCount <- MCSingle
SYMMETRY ThreadSymmetry
INVARIANTS
    TypeOK
    AllOrNothing
    RevisionCountsRequests
    AckedIsStored
    ConflictIsJustified
    ConnectionsConserved
    NobodyWaitsInACircle
PROPERTY
    ImplementsLedger
