\* One of two buyers polls while two workers handle the tickets; liveness needs
\* the whole state graph, so no symmetry.
CONSTANTS
    Users = {u1, u2}
    Askers = {u1}
    Enablers = {e1}
    Workers = {w1, w2}
    InitStock = 1
    BeginTime = 0
    EndTime = 1
    Batch = 1
    MaxTime = 0
    MaxFaults = 1
    MaxDeleted = 1
    MaxLosses = 0
SPECIFICATION FairResultSpec
CHECK_DEADLOCK FALSE
INVARIANT AnswersAreTrue
PROPERTIES
    AnswersOnlyAdvance
    EveryTicketSettles
    KeepsPromiseFairly
