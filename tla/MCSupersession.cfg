SPECIFICATION Spec
CONSTANTS
    a = a
    b = b
    c = c
    None = None
    Requests = {a, b, c}
    Timestamps = {None, 1, 2}
    Clock = {1, 2, 3}
    Messages = {1, 2}
    Stores = {"sqlite", "postgres"}
    RowLimit = 3
    SessionOf <- MCSessionOf
    ChunkOf <- MCChunkOf
    IdRank <- MCIdRank
INVARIANTS
    LaterIsAnOrder
    DroppedRowsAreCorrected
    OrdersAgreeWithinARequest
    WindowsHideOnlyOtherRequests
