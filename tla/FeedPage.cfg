\* One reader pages through an index of up to three blogs, of which two or
\* all three may share a millisecond.
CONSTANTS
    Readers = {r1}
    Authors = {a1}
    Batch = 2
    MaxLag = 0
    MaxTime = 2
    MaxBlogs = 3
    MaxFollows = 1
    MaxFaults = 0
    Sizes = {1, 2}
SPECIFICATION SpecPage
CHECK_DEADLOCK FALSE
INVARIANTS
    PagesAreConsecutive
    DoneMeansAll
    SteadyIsShown
