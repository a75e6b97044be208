\* One process with room for two rebuilds, one client that sends request after
\* request for three shops, one fault.  No symmetry, as liveness is checked.
CONSTANTS
    Procs = {p1}
    Shops = {s1, s2, s3}
    Readers = {r1}
    Editors = {}
    MaxRefresh = 2
    FreshTTL = 1
    StaleTTL = 1
    AbsentTTL = 1
    Backoff = 1
    MaxTime = 0
    MaxCommits = 1
    MaxFaults = 1
SPECIFICATION ServerFairSpec
CHECK_DEADLOCK FALSE
INVARIANTS
    ReturnsOrderly
    FailuresAreReported
    PoolsOutliveRebuilds
PROPERTIES
    CancellationEnds
    ReadersAreAnswered
    CloseDrains
