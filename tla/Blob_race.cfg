\* Uploads and deletions of the same bytes race, with crashes, lost replies, failing
\* store calls and deletes that get past their deadline.
SPECIFICATION FairSpec
CONSTANTS
    Keys = {k1}
    NoKey = NoKey
    Episodes = {e1, e2}
    Handlers = {h1, h2}
    ReservationIds = {r1, r2}
    LeaseIds = {l1, l2}
    NoToken = NoToken
    BlobReservationTTL = 2
    UploadProtectWindow = 1
    BlobDeleteLeaseTTL = 3
    BlobDeleteTimeout = 1
    DbWait = 1
    LateDeletes = {"hangs", "abandoned"}
    Faults = {"error", "unknown", "crash"}
INVARIANTS
    BlobInv
PROPERTIES
    ForgottenOnlyAtTheEnd
    KeyUnblocked
    ImplementsMediaStore
CHECK_DEADLOCK FALSE
