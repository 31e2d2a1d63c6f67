\* One upload whose body may go on after its last part.
SPECIFICATION Spec
CONSTANTS
    Uploads = {u1}
    Viewers = {v1}
    Keys = {k1}
    NoKey = NoKey
    Episodes = {e1}
    MediaTypes = {"audio", "text"}
    Playable = {"audio"}
    OctetStream = "octet"
    DefaultUploadMIME = "audio"
    MaxUploadBytes = 3
    MinUploadRate = 2
    UploadTimeoutFloor = 1
    ReadTimeout = 1
    MaxUploadParts = 2
    MaxUploadFieldBytes = 1
    MaxUploadFieldsBytes = 1
    MediaWriteIdle = 1
    LinkTTL = 1
    Writes = 1
INVARIANTS
    NoDrainUnderLongDeadline
CHECK_DEADLOCK FALSE
