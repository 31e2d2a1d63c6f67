\* One upload at a time and one listener, two episodes that share their bytes.
SPECIFICATION FairSpec
CONSTANTS
    Uploads = {u1}
    Viewers = {v1}
    Keys = {k1}
    NoKey = NoKey
    Episodes = {e1, e2}
    MediaTypes = {"audio", "text"}
    Playable = {"audio"}
    OctetStream = "octet"
    DefaultUploadMIME = "audio"
    MaxUploadBytes = 3
    MinUploadRate = 2
    UploadTimeoutFloor = 1
    ReadTimeout = 1
    MaxUploadParts = 2
    MaxUploadFieldBytes = 1
    MaxUploadFieldsBytes = 1
    MediaWriteIdle = 1
    LinkTTL = 1
    Writes = 1
INVARIANTS
    MediaPathInv
    HalfReadNotDrainedLong
    SteadyUploadNotCut
    PublicIsFound
    ServedWasPublic
    ProgressNotCut
PROPERTIES
    WithdrawnInTheEnd
    UploadEnds
CHECK_DEADLOCK FALSE
