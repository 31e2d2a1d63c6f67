\* Three clients on a map of two entries, three logins at once.
SPECIFICATION Spec
CONSTANTS
    Clients = {c1, c2, c3}
    NoClient = NoClient
    Requests = {q1, q2, q3}
    MaxFailures = 2
    Window = 2
    MaxEntries = 2
    Lag = 1
SYMMETRY LimiterSymmetry
INVARIANTS
    LimiterInv
PROPERTIES
    ThrottleHolds
CHECK_DEADLOCK FALSE
