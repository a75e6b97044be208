\* Three buyers compete for one unit, two operators enable at once, one account
\* may disappear, two workers with one failed call or crash between them,
\* Redis may lose one of the two keys, and a visitor looks at the page.
CONSTANTS
    Users = {u1, u2, u3}
    Enablers = {e1, e2}
    Workers = {w1, w2}
    Visitors = {v1}
    InitStock = 1
    BeginTime = 1
    EndTime = 2
    Batch = 2
    MaxTime = 2
    MaxFaults = 1
    MaxDeleted = 1
    MaxLosses = 1
SYMMETRY Symmetry
SPECIFICATION PageSpec
CHECK_DEADLOCK FALSE
INVARIANTS
    StockReconciles
    TicketsAreHonoured
    OrdersMatchStock
    SyncAndAsyncNeverMix
    AckedIsSettled
    RefundsFollowFailures
PROPERTY SoldOutIsFinal
