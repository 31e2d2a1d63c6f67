\* Two workers on the successive jobs of an episode: transcriptions fail, leases expire, and workers crash twice.
SPECIFICATION FairSpec
CONSTANTS
    Episodes = {e1}
    NoEpisode = NoEpisode
    Workers = {w1, w2}
    MaxJobs = 2
    MaxAttempts = 2
    MaxClaims = 3
    Lease = 1
    BackoffUnit = 1
    BackoffCap = 1
    Horizon = 1
    MaxCrashes = 2
    Faults = {}
INVARIANTS
    PendingHasJobUntilCrash
PROPERTIES
    EpisodeSettles
    JobFinishes
CHECK_DEADLOCK FALSE
