\* Startup failures, signals, a failing listener and a failing store, in any order, with a
\* command that forks, hangs, escapes its group and writes too much.
CONSTANTS
    Conns = {c1}
    Jobs = {j1}
    Procs = {p0, p1}
    Child = p0
    MaxStdoutBytes = 2
    MaxOutput = 3
SPECIFICATION FairSpec
INVARIANTS
    LifecycleInv
    NoClaimLeft
    TranscriptIsWhole
    NobodyStuck
PROPERTIES
    NoSetback
    StopsInTheEnd
\* The process ends.
CHECK_DEADLOCK FALSE
