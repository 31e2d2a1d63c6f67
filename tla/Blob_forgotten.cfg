\* Nothing fails, and an episode is deleted before the upload that created it is done.
SPECIFICATION Spec
CONSTANTS
    Keys = {k1}
    NoKey = NoKey
    Episodes = {e1, e2}
    Handlers = {h1, h2}
    ReservationIds = {r1, r2}
    LeaseIds = {l1, l2}
    NoToken = NoToken
    BlobReservationTTL = 3
    UploadProtectWindow = 1
    BlobDeleteLeaseTTL = 3
    BlobDeleteTimeout = 1
    DbWait = 0
    LateDeletes = {}
    Faults = {}
SYMMETRY BlobSymmetry
INVARIANTS
    BlobsAccounted
CHECK_DEADLOCK FALSE
