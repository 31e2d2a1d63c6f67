---------------------------- MODULE UploadStaging ----------------------------
(***************************************************************************)
(* How an upload's body is read (handleEpisodeCreate up to the reserved    *)
(* key, stageMultipartUpload).  The media part goes to a temporary file,   *)
(* the text fields to memory, both within caps.  A body may be large, so   *)
(* reading it gets a long read deadline in place of the server's own; the  *)
(* deadline is granted after the checks that read no body, and revoked     *)
(* when the body is given up half read.  Whatever the handler leaves       *)
(* unread, net/http drains under the deadline in force.                    *)
(*                                                                         *)
(* Bytes are those of the parts' bodies: a part's header is free, but      *)
(* reading one may find the body over its cap.  The last part ends at the  *)
(* final boundary, which may come before the end of the body: what follows *)
(* is ignored by the handler and still to be read by net/http.  A deadline *)
(* is a number of seconds and a clock that counts them.                    *)
(***************************************************************************)
EXTENDS Integers, FiniteSetsExt, ContentTypes

CONSTANTS
    Uploads,              \* bound: the uploads received at once
    MaxUploadBytes,
    MinUploadRate,        \* bytes per second
    UploadTimeoutFloor,
    ReadTimeout,          \* the server's own read deadline
    MaxUploadParts,
    MaxUploadFieldBytes,
    MaxUploadFieldsBytes

ASSUME StagingAssumption ==
    /\ MaxUploadBytes \in Nat /\ MinUploadRate \in Nat \ {0}
    /\ UploadTimeoutFloor \in Nat /\ ReadTimeout \in Nat /\ ReadTimeout <= UploadTimeoutFloor
    /\ MaxUploadParts \in Nat
    /\ MaxUploadFieldBytes \in Nat /\ MaxUploadFieldsBytes \in Nat

VARIABLES
    upload,   \* the upload requests
    temp      \* those whose temporary file is on disk

staging == <<upload, temp>>

Reading == {"part", "media"}
Storing == {"staged", "create"}

\* A request: what it is at; the read deadline in force, in seconds since it was set,
\* and the seconds since then; the bytes, the parts and the text read; stagedUpload's
\* key and type; whether the parts are all read and the body is not (whole).  The history
\* read counts the text given up on, too.
UploadRequests ==
    [at : {"idle", "drain"} \cup Reading \cup Storing, window : Nat, clock : Nat,
     body : Nat, parts : Nat, fieldsTotal : 0..MaxUploadFieldsBytes, read : Nat,
     key : Keys \cup {NoKey}, type : MediaTypes, whole : BOOLEAN]

NoUpload == [at |-> "idle", window |-> 0, clock |-> 0, body |-> 0, parts |-> 0, fieldsTotal |-> 0,
             read |-> 0, key |-> NoKey, type |-> DefaultUploadMIME, whole |-> FALSE]

StagingTypeOK == upload \in [Uploads -> UploadRequests] /\ temp \subseteq Uploads

\* Mutant: rounded down.
UploadReadTimeoutDown == Max({UploadTimeoutFloor, MaxUploadBytes \div MinUploadRate})

\* uploadReadTimeout
UploadReadTimeout == Max({UploadTimeoutFloor, (MaxUploadBytes + MinUploadRate - 1) \div MinUploadRate})

-----------------------------------------------------------------------------
(* Ends.                                                                   *)

\* The request when its handler has returned: over, unless the body goes on after the last
\* part.  The rest is drained, and nobody has revoked the long deadline.
Returned(q) ==
    IF q.whole THEN [NoUpload EXCEPT !.at = "drain", !.window = q.window, !.clock = q.clock, !.whole = TRUE]
    ELSE NoUpload

\* Mutant: nobody removes the file of an upload that came through.
LeaveStaged(u) == upload' = [upload EXCEPT ![u] = Returned(@)] /\ UNCHANGED temp

\* handleEpisodeCreate returns, with an episode or a refusal, having read every part: the
\* deferred removal runs.
Leave(u) == upload' = [upload EXCEPT ![u] = Returned(@)] /\ temp' = temp \ {u}

\* net/http is done with the request.
Close(u) == upload' = [upload EXCEPT ![u] = NoUpload] /\ UNCHANGED temp

\* Mutant: the long deadline stays in force.
AbortKeepingDeadline(u, got) ==
    /\ upload' = [upload EXCEPT ![u].at = "drain", ![u].read = @ + got]
    /\ temp' = temp \ {u}

\* stageMultipartUpload fails, having read another got bytes of text: its own
\* deferred removal runs, then abortUpload.
Abort(u, got) ==
    /\ upload' = [upload EXCEPT ![u] = [NoUpload EXCEPT !.at = "drain", !.read = upload[u].read + got]]
    /\ temp' = temp \ {u}

-----------------------------------------------------------------------------
(* Steps.                                                                  *)

\* handleEpisodeCreate up to the long deadline.  A request that is not for a channel
\* of the user, is not multipart, has no boundary or says that it is too long is
\* rejected with its body unread.
BeginUpload(u) ==
    /\ upload[u] = NoUpload
    /\ \E valid \in BOOLEAN :
        upload' = [upload EXCEPT ![u].at     = IF valid THEN "part" ELSE "drain",
                                 ![u].window = IF valid THEN UploadReadTimeout ELSE ReadTimeout]
    /\ UNCHANGED temp

\* The deadline has not passed: the body can be read.
Readable(u) == upload[u].clock < upload[u].window

\* NextPart finds a file.  Only one is wanted, named "media"; a temporary file for it
\* may be refused.
FilePart(u) ==
    /\ upload[u].at = "part" /\ Readable(u)
    /\ \/ /\ upload[u].parts < MaxUploadParts /\ u \notin temp
          /\ upload' = [upload EXCEPT ![u].at = "media", ![u].parts = @ + 1]
          /\ temp' = temp \cup {u}
       \/ Abort(u, 0)

\* io.Copy of the media part: a byte, the end of the part, or a failure (of the
\* connection, of the disk, or for the body's cap).
CopyMedia(u) ==
    /\ upload[u].at = "media" /\ Readable(u)
    /\ \/ /\ upload[u].body < MaxUploadBytes
          /\ upload' = [upload EXCEPT ![u].body = @ + 1]
          /\ UNCHANGED temp
       \/ /\ \E k \in Keys : upload' = [upload EXCEPT ![u].at = "part", ![u].key = k]
          /\ UNCHANGED temp
       \/ Abort(u, 0)

\* The bound of the next field: its own, or what the fields before it have left.
FieldLimit(u) == Min({MaxUploadFieldBytes, MaxUploadFieldsBytes - upload[u].fieldsTotal})

\* NextPart finds a field of n bytes.  No more of it is read than one byte over the
\* limit.
FieldPart(u, n) ==
    LET wanted == Min({n, FieldLimit(u) + 1})
        got    == Min({wanted, MaxUploadBytes - upload[u].body})
    IN  /\ upload[u].at = "part" /\ Readable(u)
        /\ upload[u].parts < MaxUploadParts
        /\ IF got = n /\ n <= FieldLimit(u)
           THEN /\ upload' = [upload EXCEPT ![u].parts = @ + 1, ![u].body = @ + n, ![u].read = @ + n,
                                            ![u].fieldsTotal = @ + n]
                /\ UNCHANGED temp
           ELSE Abort(u, got)

\* What detectUploadMIME may make of what a client declares and its file's name.
DetectedTypes == {DetectUploadMIME(declared, byExt) : declared, byExt \in MediaTypes \cup {"none"}}

\* NextPart comes to the final boundary, and the media is rewound: what is left of the
\* reading is its result, and the rest of the body if it goes on.  (The type was detected
\* when the media part came, but nobody asks for it before.)  Or it fails, as it does on
\* one part too many.
LastPart(u) ==
    /\ upload[u].at = "part" /\ Readable(u)
    /\ \/ /\ \E t \in IF upload[u].key = NoKey THEN {DefaultUploadMIME} ELSE DetectedTypes :
              \E rest \in BOOLEAN :
                upload' = [upload EXCEPT ![u] =
                    [NoUpload EXCEPT !.at = "staged", !.key = upload[u].key, !.type = t, !.whole = rest,
                                     !.window = IF rest THEN upload[u].window ELSE 0,
                                     !.clock = IF rest THEN upload[u].clock ELSE 0]]
          /\ UNCHANGED temp
       \/ Abort(u, 0)

\* net/http has drained what the handler left.
Drained(u) == upload[u].at = "drain" /\ Readable(u) /\ Close(u)

\* What the client brings about.
ClientStep(u) ==
    \/ FilePart(u)
    \/ CopyMedia(u)
    \/ \E n \in 0..(MaxUploadFieldBytes + 1) : FieldPart(u, n)
    \/ LastPart(u)
    \/ Drained(u)

\* A read finds its deadline passed; what was given up is not drained any further.
ReadTimesOut(u) ==
    /\ ~Readable(u)
    /\ \/ upload[u].at \in Reading /\ Abort(u, 0)
       \/ upload[u].at = "drain" /\ Close(u)

\* Mutant: the deadline is lifted while the body is read, not extended.
UploadTickLifted(r) == IF r.clock < r.window /\ r.at \notin Reading THEN [r EXCEPT !.clock = @ + 1] ELSE r

\* A second passes for a request.
UploadTick(r) == IF r.clock < r.window THEN [r EXCEPT !.clock = @ + 1] ELSE r

-----------------------------------------------------------------------------
(* Properties.                                                             *)

\* A temporary file belongs to a request that is at work on it: none outlives its
\* request, whichever way it ends (stageMultipartUpload: "a failed upload never leaks
\* one").
TempFilesOwned == \A u \in temp : upload[u].at \in Reading \cup Storing

\* The text read for one upload is bounded, however it is split into fields
\* (stageMultipartUpload: "the TOTAL text ever read is hard-capped").
TextBounded == \A u \in Uploads : upload[u].read <= MaxUploadFieldsBytes + 1

\* Nothing is drained under the long deadline (handleEpisodeCreate: "no rejection path ever
\* lets net/http read or drain a hostile, unread body under the long deadline").
NoDrainUnderLongDeadline ==
    \A u \in Uploads : upload[u].at = "drain" => upload[u].window <= ReadTimeout

\* What the code does promise: no part is ever drained under the long deadline.  A request
\* that was rejected unread or given up half read, wherever that was and for whatever reason,
\* has lost it by the time net/http drains the body (abortUpload, shapes 1 to 4 and 6).
HalfReadNotDrainedLong ==
    \A u \in Uploads : upload[u].at = "drain" /\ upload[u].window > ReadTimeout => upload[u].whole

\* The deadline does not pass under a client that sends faster than the minimum rate,
\* however large its body (uploadReadTimeout: "must be able to deliver the largest
\* allowed body within the window").
SteadyUploadNotCut ==
    \A u \in Uploads :
        upload[u].at \in Reading /\ ~Readable(u) => upload[u].body <= MinUploadRate * upload[u].clock

\* The inductive invariant: what is true of a request, with or without a temporary file.
\* Media that is staged is on disk until the handler is done with it.
RequestOK(r, onDisk) ==
    /\ onDisk => r.at \in Reading \cup Storing
    /\ r.at = "media" \/ (r.at \in {"part"} \cup Storing /\ r.key # NoKey) => onDisk
    /\ r.at \in Reading => r.window = UploadReadTimeout /\ r.body <= MaxUploadBytes /\ r.read = r.fieldsTotal
    /\ r.at = "drain" => r.window <= ReadTimeout \/ r.whole
    /\ r.whole => r.at \in Storing \cup {"drain"}
    /\ r.read <= MaxUploadFieldsBytes + 1
StagingInv == StagingTypeOK /\ \A u \in Uploads : RequestOK(upload[u], u \in temp)
==============================================================================
