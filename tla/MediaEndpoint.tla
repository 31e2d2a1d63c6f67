---------------------------- MODULE MediaEndpoint ----------------------------
(***************************************************************************)
(* handleMedia: how the bytes of an episode reach a listener.  Media is    *)
(* public while a published episode has its key; the row that makes it     *)
(* public also gives its content type.  The row is looked up once, then    *)
(* either the object is opened and streamed, or the client is sent to the  *)
(* object store with a link that expires.  Rows and objects change under   *)
(* the request all the while.                                              *)
(*                                                                         *)
(* A stream is a number of writes.  Each sets the connection's write       *)
(* deadline anew and then waits for the client.                            *)
(***************************************************************************)
EXTENDS Integers, ContentTypes

CONSTANTS
    Episodes,         \* bound: the episodes that exist at once
    Viewers,          \* bound: the requests for media at once
    MediaWriteIdle,   \* how long a write may wait for the client
    LinkTTL,          \* X-Amz-Expires
    Writes            \* bound: the writes of a stream

ASSUME EndpointAssumption ==
    /\ MediaWriteIdle \in Nat \ {0} /\ LinkTTL \in Nat \ {0} /\ Writes \in Nat

VARIABLES
    blobs, late, episodeKey,   \* as in MediaStore
    published,    \* episodes.status = 'published'
    episodeType,  \* episodes.media_mime
    direct,       \* the blob store hands out links (Server.directBlobs)
    view          \* the requests for media

rows == <<episodeKey, published, episodeType>>

\* What a request is at: a step of handleMedia, with the client waiting for the bytes
\* or holding a link; or the answer it was given.
Resolving == {"lookup", "open"}
Served    == {"write", "wait", "linked"}
Answers   == {"missing", "cut"}

\* A request: the key it is for, the content type it is to send, the writes left, the
\* seconds left of the write deadline or of the link, those a pending write has
\* waited; and two histories, kept as long as they matter: whether the key has been
\* public ever since the request came, and the types under which it has been.
Views ==
    [at : {"idle"} \cup Resolving \cup Served \cup Answers, key : Keys \cup {NoKey}, type : ServedTypes,
     left : Nat, budget : Nat, stall : Nat, steady : BOOLEAN, allowed : SUBSET ServedTypes]

Idle == [at |-> "idle", key |-> NoKey, type |-> OctetStream, left |-> 0, budget |-> 0, stall |-> 0,
         steady |-> FALSE, allowed |-> {}]

\* The published episodes that have the key, and the types they give it.
PublicAmong(k, keyOf, isPublished) == {e \in Episodes : keyOf[e] = k /\ isPublished[e]}
TypesAmong(found, typeOf)          == {SafeContentType(typeOf[e]) : e \in found}

PublicRows(k)  == PublicAmong(k, episodeKey, published)
Public(k)      == PublicRows(k) # {}
PublicTypes(k) == TypesAmong(PublicRows(k), episodeType)

EndpointTypeOK ==
    /\ published \in [Episodes -> BOOLEAN]
    /\ episodeType \in [Episodes -> MediaTypes]
    /\ direct \in BOOLEAN
    /\ view \in [Viewers -> Views]

\* The histories after a change of the rows.
Watched ==
    [v \in Viewers |->
        LET found == PublicAmong(view[v].key, episodeKey', published')
        IN  [view[v] EXCEPT !.steady  = @ /\ found # {},
                            !.allowed = IF view[v].at \in Resolving THEN @ \cup TypesAmong(found, episodeType') ELSE @]]

-----------------------------------------------------------------------------
(* Steps.                                                                  *)

EndpointUnchanged == UNCHANGED <<blobs, late, rows, direct>>

\* The request's outcome, when it is not the whole of the bytes or an error.
Answer(v, a) == view' = [view EXCEPT ![v] = [view[v] EXCEPT !.at = a, !.type = OctetStream, !.allowed = {},
                                                            !.left = 0, !.budget = 0]]

\* A client asks for media.
BeginView(v, k) ==
    /\ view[v] = Idle
    /\ view' = [view EXCEPT ![v] = [Idle EXCEPT !.at = "lookup", !.key = k,
                                                !.steady = Public(k), !.allowed = PublicTypes(k)]]
    /\ EndpointUnchanged

\* Mutant: any episode with the key will do, drafts included.
EpisodesByMediaKey(k) == {e \in Episodes : episodeKey[e] = k}

\* The rows PublishedEpisodeByMediaKey may return.
PublishedEpisodeByMediaKey(k) == PublicRows(k)

\* handleMedia's look at the store, the only one.  No code sets a channel's
\* image_key, so no cover art is found; and every episode has a type: nothing is
\* sniffed.
LookUp(v) ==
    /\ view[v].at = "lookup"
    /\ \/ \E e \in PublishedEpisodeByMediaKey(view[v].key) :
            view' = [view EXCEPT ![v].at = "open", ![v].type = SafeContentType(episodeType[e])]
       \/ /\ PublishedEpisodeByMediaKey(view[v].key) = {}
          /\ Answer(v, "missing")
       \/ view' = [view EXCEPT ![v] = Idle]
    /\ EndpointUnchanged

\* directBlobs.URL, and http.Redirect.
Redirect(v) ==
    /\ view[v].at = "open" /\ direct
    /\ \/ view' = [view EXCEPT ![v].at = "linked", ![v].budget = LinkTTL,
                                  ![v].type = OctetStream, ![v].allowed = {}]
       \/ view' = [view EXCEPT ![v] = Idle]
    /\ EndpointUnchanged

\* blobs.Get and streamWithIdleDeadline.  An object that is open can be read to its
\* end though it is deleted meanwhile.
Open(v) ==
    /\ view[v].at = "open" /\ ~direct
    /\ \/ /\ view[v].key \in blobs
          /\ view' = [view EXCEPT ![v].at = "write", ![v].left = Writes, ![v].budget = MediaWriteIdle,
                                  ![v].steady = FALSE, ![v].type = OctetStream, ![v].allowed = {}]
       \/ /\ view[v].key \notin blobs
          /\ Answer(v, "missing")
       \/ view' = [view EXCEPT ![v] = Idle]
    /\ EndpointUnchanged

\* Mutant: one deadline for the whole download.
WriteDeadlineOnce(v) == view[v].budget

\* idleDeadlineWriter.Write sets the deadline.
WriteDeadline(v) == MediaWriteIdle

\* ServeContent: the next write, the end, or a failure to read the object.
Write(v) ==
    /\ view[v].at = "write"
    /\ \/ /\ view[v].left > 0
          /\ view' = [view EXCEPT ![v].at = "wait", ![v].left = @ - 1, ![v].budget = WriteDeadline(v)]
       \/ view[v].left = 0 /\ view' = [view EXCEPT ![v] = Idle]
       \/ view' = [view EXCEPT ![v] = Idle]
    /\ EndpointUnchanged

\* The client takes what was written.  A write is taken whole: the deadline is set once
\* for each write, so a client that needs longer than that for one write is cut.
ClientReads(v) ==
    /\ view[v].at = "wait" /\ view[v].budget > 0
    /\ view' = [view EXCEPT ![v].at = "write", ![v].stall = 0]
    /\ EndpointUnchanged

\* The write deadline passes.
WriteTimesOut(v) ==
    /\ view[v].at = "wait" /\ view[v].budget = 0
    /\ Answer(v, "cut")
    /\ EndpointUnchanged

\* The client follows its link, and finds no object.
FollowLink(v) ==
    /\ view[v].at = "linked" /\ view[v].budget > 0
    /\ view[v].key \notin blobs
    /\ Answer(v, "missing")
    /\ EndpointUnchanged

\* The link is no longer any good.
LinkExpires(v) ==
    /\ view[v].at = "linked" /\ view[v].budget = 0
    /\ view' = [view EXCEPT ![v] = Idle]
    /\ EndpointUnchanged

\* The client has its answer, or goes away.
EndView(v) ==
    /\ view[v].at \in Resolving \cup {"write", "wait"} \cup Answers
    /\ view' = [view EXCEPT ![v] = Idle]
    /\ EndpointUnchanged

\* What the server does by itself, the link's life included.
ServeStep(v) == LookUp(v) \/ Redirect(v) \/ Open(v) \/ Write(v) \/ WriteTimesOut(v) \/ LinkExpires(v)

\* Mutant: a link is signed for good.
ViewTickUnexpiring(w) ==
    [w EXCEPT !.budget = IF @ > 0 /\ w.at # "linked" THEN @ - 1 ELSE @,
              !.stall  = IF w.at = "wait" /\ @ < MediaWriteIdle THEN @ + 1 ELSE @]

\* A second passes for a request.
ViewTick(w) ==
    [w EXCEPT !.budget = IF @ > 0 THEN @ - 1 ELSE 0,
              !.stall  = IF w.at = "wait" /\ @ < MediaWriteIdle THEN @ + 1 ELSE @]

-----------------------------------------------------------------------------
(* Properties.                                                             *)

\* Media that is public while it is asked for is found: a publisher who deletes or
\* withdraws one of the episodes that share the bytes does not break the others
\* (handleMedia's two 404s; the exception is a delete past its deadline).
PublicIsFound == \A v \in Viewers : view[v].at = "missing" /\ view[v].steady => view[v].key \in late

\* What is about to be served was public when it was asked for or since, and goes out
\* under the type of a row that made it so (handleMedia: "serve it with ITS MIME,
\* never a draft's").
ServedWasPublic == \A v \in Viewers : view[v].at = "open" => view[v].type \in view[v].allowed

\* A client that takes some bytes within every idle window is never cut off, however
\* long its download is (handleMedia: "a large but progressing download is never cut
\* off").
ProgressNotCut == \A v \in Viewers : view[v].at = "cut" => view[v].stall = MediaWriteIdle

\* Somebody can get at the bytes of k.
Exposed(k) == \E v \in Viewers : view[v].key = k /\ view[v].at \in Served

\* Media that is withdrawn for good is out of everybody's reach in the end: links
\* expire, and a client that stalls does not keep its stream open
\* (streamWithIdleDeadline, URL).
WithdrawnInTheEnd == \A k \in Keys : <>[]~Public(k) => <>[]~Exposed(k)

\* The inductive invariant: what is true of a request.  Its histories are those of the
\* rows as they are now.
ViewOK(w) ==
    /\ w.steady => Public(w.key)
    /\ w.at \in Resolving => PublicTypes(w.key) \subseteq w.allowed
    /\ w.at = "missing" /\ w.steady => w.key \in late
    /\ w.at = "open" => w.type \in w.allowed
    /\ w.at \in {"idle", "write"} \cup Resolving => w.stall = 0
    /\ w.at = "wait" => w.budget + w.stall = MediaWriteIdle
    /\ w.at = "cut" => w.stall = MediaWriteIdle
EndpointInv == EndpointTypeOK /\ \A v \in Viewers : ViewOK(view[v])
==============================================================================
