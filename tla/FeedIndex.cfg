\* Two readers, two authors, pushes and rebuilds of one entry per batch.
CONSTANTS
    Readers = {r1, r2}
    Authors = {a1, a2}
    Batch = 1
    MaxLag = 1
    MaxTime = 2
    MaxBlogs = 2
    MaxFollows = 2
    MaxFaults = 2
SYMMETRY Symmetry
SPECIFICATION Spec
CHECK_DEADLOCK FALSE
INVARIANT LiveIsComplete
PROPERTY RebuildRepairs
