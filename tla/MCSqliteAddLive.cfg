SPECIFICATION FairSpec
CONSTANTS
    h1 = h1
    h2 = h2
    h3 = h3
    A = A
    B = B
    k1 = k1
    k2 = k2
    u1 = u1
    one = one
    two = two
    None = None
    Handlers = {h1, h2, h3}
    Processes = {A, B}
    ProcessOf <- MCProcessOf
    AddConcurrency = 1
    Keys = {k1}
    Users = {u1}
    UserOf <- MCUserOf
    Payloads = {one, two}
    MessageCount <- MCMessageCount
PROPERTY EveryAddAnswered
