\* Nothing fails but the answer to a DELETE: the service gets to it when its sender has given up.
SPECIFICATION Spec
CONSTANTS
    Keys = {k1}
    NoKey = NoKey
    Episodes = {e1, e2}
    Handlers = {h1, h2}
    ReservationIds = {r1, r2}
    LeaseIds = {l1, l2}
    NoToken = NoToken
    BlobReservationTTL = 3
    UploadProtectWindow = 1
    BlobDeleteLeaseTTL = 3
    BlobDeleteTimeout = 1
    DbWait = 0
    LateDeletes = {"abandoned"}
    Faults = {}
SYMMETRY BlobSymmetry
INVARIANTS
    MediaPresent
CHECK_DEADLOCK FALSE
