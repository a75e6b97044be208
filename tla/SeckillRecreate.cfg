\* Two overlapping enable commands and a Redis that loses both keys.
CONSTANTS
    Users = {u1}
    Enablers = {e1, e2}
    Workers = {w1}
    InitStock = 1
    BeginTime = 0
    EndTime = 1
    Batch = 1
    MaxTime = 0
    MaxFaults = 0
    MaxDeleted = 0
    MaxLosses = 2
SPECIFICATION Spec
CHECK_DEADLOCK FALSE
PROPERTY LostSnapshotStaysLost
