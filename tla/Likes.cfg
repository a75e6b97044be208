\* Two requests of the author or two other users, one blog, a window of two
\* messages read one at a time.  No symmetry, as liveness is checked.
CONSTANTS
    Users = {a, u1, u2}
    Author = a
    Blogs = {b1}
    Requests = {r1, r2}
    Window = 2
    Page = 1
    MaxMessages = 3
    MaxFaults = 2
SPECIFICATION FairSpec
CHECK_DEADLOCK FALSE
INVARIANTS
    MessagesAreEarned
    ConstraintsNeverFire
    CursorNeverSkips
PROPERTY MessagesArrive
