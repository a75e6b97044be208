\* A code outlives its cooldown, so that a second one can replace it while
\* two clients log in.
CONSTANTS
    Phones = {p1}
    Clients = {c1, c2}
    CodeTTL = 3
    Cooldown = 2
    MaxAttempts = 2
    SessionTTL = 2
    MaxTime = 4
    MaxFaults = 2
SYMMETRY Symmetry
SPECIFICATION Spec
CHECK_DEADLOCK FALSE
INVARIANTS
    GuessesAreBounded
    CodesLogInOnce
    OneAccountPerPhone
