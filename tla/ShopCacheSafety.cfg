\* Two processes share the cache of one shop that two operators edit.
CONSTANTS
    Procs = {p1, p2}
    Shops = {s1}
    Readers = {r1}
    Editors = {e1}
    MaxRefresh = 1
    FreshTTL = 1
    StaleTTL = 1
    AbsentTTL = 1
    Backoff = 1
    MaxTime = 2
    MaxCommits = 3
    MaxFaults = 2
SYMMETRY Symmetry
SPECIFICATION Spec
CHECK_DEADLOCK FALSE
INVARIANTS
    InvalidationSticks
    HardExpiryIsHard
    AbsenceIsReal
PROPERTY CachedNeverGoesBack
