SPECIFICATION Spec
CONSTANTS
    Rows <- MCRows
    StoreOrders <- MCStoreOrders
    Lines <- MCLines
    MaxTokens = 5
    MaxItems = 3
CHECK_DEADLOCK FALSE
INVARIANT
    OversizedSourceIsKept
