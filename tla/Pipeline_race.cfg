\* Two workers race on the successive jobs of one episode: leases that expire
\* under a slow worker, a crash, and store calls that fail either way.
SPECIFICATION Spec
CONSTANTS
    Episodes = {e1}
    NoEpisode = NoEpisode
    Workers = {w1, w2}
    MaxJobs = 2
    MaxAttempts = 2
    MaxClaims = 4
    Lease = 1
    BackoffUnit = 1
    BackoffCap = 1
    Horizon = 1
    MaxCrashes = 1
    Faults = {"error", "unknown"}
SYMMETRY WorkerSymmetry
INVARIANTS
    PipelineInv
    OneLiveJob
    RunsBounded
PROPERTIES
    AbandonedOnlyByGivingUp
    TerminalJobsFinal
    TranscriptsAdvance
    ImplementsService
CHECK_DEADLOCK FALSE
