---------------------------- MODULE ContentTypes ----------------------------
(***************************************************************************)
(* Media keys and content types: what an upload is stored as and what it   *)
(* is served as.                                                           *)
(***************************************************************************)
CONSTANTS
    Keys,                 \* media keys
    NoKey,
    MediaTypes,           \* the content types of uploads
    Playable,             \* those served as they are: audio, video, raster images
    OctetStream,          \* what the others are served as
    DefaultUploadMIME

ASSUME ContentAssumption ==
    /\ NoKey \notin Keys
    /\ Playable \subseteq MediaTypes
    /\ DefaultUploadMIME \in Playable

ServedTypes == Playable \cup {OctetStream}

\* detectUploadMIME: the declared type, the one of the file's extension, the default.
\* What is generic, malformed or missing is no media type.
DetectUploadMIME(declared, byExt) ==
    IF declared \in MediaTypes THEN declared
    ELSE IF byExt \in MediaTypes THEN byExt ELSE DefaultUploadMIME

\* safeContentType
SafeContentType(t) == IF t \in Playable THEN t ELSE OctetStream
=============================================================================
