------------------------------ MODULE MediaPath ------------------------------
(***************************************************************************)
(* The way of media from an upload to the listeners: UploadStaging reads   *)
(* the body, the media store of MediaStore keeps it, the owner publishes   *)
(* and withdraws its episodes, and MediaEndpoint serves it.  The handlers  *)
(* of one process run concurrently; a crash ends them all and leaves the   *)
(* rows, the objects, the temporary files and the links as they are.       *)
(***************************************************************************)
EXTENDS UploadStaging, MediaEndpoint

vars == <<upload, temp, blobs, late, episodeKey, published, episodeType, direct, view>>

Media == INSTANCE MediaStore

Init ==
    /\ upload = [u \in Uploads |-> NoUpload] /\ temp = {}
    /\ Media!Init
    /\ published = [e \in Episodes |-> FALSE]
    /\ episodeType = [e \in Episodes |-> DefaultUploadMIME]
    /\ direct \in BOOLEAN
    /\ view = [v \in Viewers |-> Idle]

-----------------------------------------------------------------------------
(* The upload's handler, once the media is staged.                         *)

\* The form has no title or no media; or the reservation is refused.
RejectForm(u) ==
    /\ upload[u].at = "staged"
    /\ Leave(u)
    /\ UNCHANGED <<blobs, late, rows, direct, view>>

\* blobs.Put, under a reservation.  One that fails may have stored the object all the same;
\* when it did is of no interest here, as no row has it.
StoreUpload(u) ==
    /\ upload[u].at = "staged" /\ upload[u].key # NoKey
    /\ \/ /\ Media!Put(upload[u].key)
          /\ upload' = [upload EXCEPT ![u].at = "create"]
          /\ UNCHANGED temp
       \/ Leave(u) /\ (Media!Put(upload[u].key) \/ UNCHANGED <<blobs, late, episodeKey>>)
    /\ UNCHANGED <<published, episodeType, direct, view>>

\* CreateEpisode, a draft, and the answer; or the reservation has run out.
CreateEpisode(u) ==
    /\ upload[u].at = "create"
    /\ \/ \E e \in Episodes :
            /\ Media!Create(e, upload[u].key)
            /\ episodeType' = [episodeType EXCEPT ![e] = upload[u].type]
            /\ UNCHANGED published
       \/ UNCHANGED <<blobs, late, rows>>
    /\ Leave(u)
    /\ UNCHANGED <<direct, view>>

-----------------------------------------------------------------------------
(* The owner, and the media store.                                         *)

\* handleEpisodePublish and handleEpisodeUnpublish, seen from outside.
SetPublished(e) ==
    /\ episodeKey[e] # NoKey
    /\ published' = [published EXCEPT ![e] = ~@]
    /\ UNCHANGED <<episodeKey, episodeType>>
    /\ view' = Watched
    /\ UNCHANGED <<staging, blobs, late, direct>>

\* handleEpisodeDelete: the row.
DeleteEpisode(e) ==
    /\ Media!Remove(e)
    /\ published' = [published EXCEPT ![e] = FALSE]
    /\ episodeType' = [episodeType EXCEPT ![e] = DefaultUploadMIME]
    /\ view' = Watched
    /\ UNCHANGED <<staging, direct>>

\* The object goes: nobody has it, or a delete outlived its deadline or its sender.
EraseMedia(k) ==
    /\ Media!Reclaim(k) \/ Media!Overrun(k) \/ Media!LateDelete(k)
    /\ UNCHANGED <<staging, published, episodeType, direct, view>>

\* The process dies and is restarted.  Its temporary files stay, under names that no
\* later request has; a client keeps its link.
Crash ==
    /\ upload' = [u \in Uploads |-> NoUpload]
    /\ temp' = {}
    /\ view' = [v \in Viewers |-> IF view[v].at = "linked" THEN view[v] ELSE Idle]
    /\ UNCHANGED <<blobs, late, rows, direct>>

Tick ==
    /\ upload' = [u \in Uploads |-> UploadTick(upload[u])]
    /\ view' = [v \in Viewers |-> ViewTick(view[v])]
    /\ UNCHANGED <<temp, blobs, late, rows, direct>>

-----------------------------------------------------------------------------
UploadOnly(A) == A /\ UNCHANGED <<blobs, late, rows, direct, view>>
ViewOnly(A)   == A /\ UNCHANGED staging

\* What the upload's handler does by itself.
UploadStep(u) == UploadOnly(ReadTimesOut(u)) \/ RejectForm(u) \/ StoreUpload(u) \/ CreateEpisode(u)

Next ==
    \/ \E u \in Uploads : UploadOnly(BeginUpload(u)) \/ UploadOnly(ClientStep(u)) \/ UploadStep(u)
    \/ \E v \in Viewers, k \in Keys : ViewOnly(BeginView(v, k))
    \/ \E v \in Viewers :
        ViewOnly(ServeStep(v)) \/ ViewOnly(ClientReads(v)) \/ ViewOnly(FollowLink(v)) \/ ViewOnly(EndView(v))
    \/ \E e \in Episodes : SetPublished(e) \/ DeleteEpisode(e)
    \/ \E k \in Keys : EraseMedia(k)
    \/ Crash
    \/ Tick

Spec == Init /\ [][Next]_vars

\* Time passes and handlers are scheduled.  Nothing is assumed of the clients: they
\* may stop sending and stop reading at any time.
FairSpec ==
    /\ Spec
    /\ WF_vars(Tick)
    /\ \A u \in Uploads : WF_vars(UploadStep(u))
    /\ \A v \in Viewers : WF_vars(ViewOnly(ServeStep(v)))

-----------------------------------------------------------------------------
(* Properties.                                                             *)

\* The rows: their media is there, unless a delete of it outlived its deadline or its sender, and
\* nothing is published that does not exist.
RowsInv ==
    /\ blobs \subseteq Keys /\ late \subseteq Keys
    /\ episodeKey \in [Episodes -> Keys \cup {NoKey}]
    /\ \A e \in Episodes : /\ episodeKey[e] # NoKey => episodeKey[e] \in blobs \cup late
                           /\ published[e] => episodeKey[e] # NoKey

\* The inductive invariant of the path, the type invariant included.
MediaPathInv == StagingInv /\ EndpointInv /\ RowsInv

\* An upload is answered, whatever its client does: reading it is bounded by a
\* deadline (handleEpisodeCreate, "(5)").
UploadEnds == \A u \in Uploads : upload[u].at # "idle" ~> upload[u].at = "idle"
==============================================================================
