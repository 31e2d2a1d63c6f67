\* A worker dies between failing a job and marking its episode.
SPECIFICATION Spec
CONSTANTS
    Episodes = {e1}
    NoEpisode = NoEpisode
    Workers = {w1}
    MaxJobs = 1
    MaxAttempts = 2
    MaxClaims = 5
    Lease = 1
    BackoffUnit = 1
    BackoffCap = 2
    Horizon = 1
    MaxCrashes = 1
    Faults = {}
INVARIANTS
    PendingHasJob
CHECK_DEADLOCK FALSE
