\* Pages of one activity, claims of one entry, of which one may be malformed;
\* two workers overlap, one call fails or one worker restarts.  No symmetry.
CONSTANTS
    Activities = {1, 2}
    Workers = {w1, w2}
    Limit = 1
    Count = 1
    MaxEntries = 2
    MaxBad = 1
    MaxFaults = 1
SPECIFICATION FairSpec
CHECK_DEADLOCK FALSE
PROPERTY HealthyEntriesComplete
