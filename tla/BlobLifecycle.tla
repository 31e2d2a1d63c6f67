---------------------------- MODULE BlobLifecycle ----------------------------
(***************************************************************************)
(* The life of a media blob.  Media is content-addressed: uploads of the   *)
(* same bytes share a key, and the blob goes when the last episode with    *)
(* the key goes.  The blob store and the database are not updated          *)
(* together: an upload writes the blob before its episode row exists, and  *)
(* a deletion removes the row before the blob.  Two tables bridge the      *)
(* gaps: blob_reservations protects an upload in flight from deletions,    *)
(* blob_delete_leases keeps uploads away from a deletion in flight.  Both  *)
(* kinds of row expire, so that a crashed handler does not block a key     *)
(* for ever.                                                               *)
(*                                                                         *)
(* The actors are HTTP handlers (handleEpisodeCreate, handleEpisodeDelete) *)
(* of one or more processes on the same database.  A store call is one     *)
(* transaction, hence one step; what a handler does between two calls      *)
(* interleaves with everything else.                                       *)
(*                                                                         *)
(* Time is in whole seconds, as created_at is.  Rows and handlers carry    *)
(* their age instead of a date, and an age stops growing once nothing      *)
(* tells it from an older one.                                             *)
(***************************************************************************)
EXTENDS Integers

CONSTANTS
    Keys,                 \* media keys
    NoKey,
    Episodes,             \* bound: the episodes that exist at once
    Handlers,             \* bound: the requests served at once
    ReservationIds,       \* bound: the reservation rows that exist at once
    LeaseIds,             \* bound: the lease rows that exist at once
    NoToken,
    BlobReservationTTL,
    UploadProtectWindow,
    BlobDeleteLeaseTTL,
    BlobDeleteTimeout,
    DbWait,               \* how long it can take from reading the clock for a lease, through the
                          \* transaction that takes it, to the start of the delete's own deadline
    LateDeletes,          \* how a BlobStore.Delete may take effect after its deadline
    Faults                \* what may go wrong beyond a cancelled request

ASSUME BlobAssumption ==
    /\ NoKey \notin Keys
    /\ NoToken \notin ReservationIds \cup LeaseIds
    /\ ReservationIds \cap LeaseIds = {}
    /\ UploadProtectWindow \in Nat /\ BlobDeleteTimeout \in Nat /\ DbWait \in Nat
    /\ BlobReservationTTL \in Nat /\ UploadProtectWindow < BlobReservationTTL
    /\ BlobDeleteLeaseTTL \in Nat /\ DbWait + BlobDeleteTimeout < BlobDeleteLeaseTTL
    /\ LateDeletes \subseteq {"hangs", "abandoned"}
    /\ Faults \subseteq {"error", "unknown", "crash"}

VARIABLES
    blobs,         \* the keys under which the blob store holds an object
    unanswered,    \* the keys of DELETE requests the service has and nobody waits for
    unstored,      \* the keys of PUT requests the service has and nobody waits for
    late,          \* history: the keys of which a delete outlived its deadline or its sender
    episodeKey,    \* episodes.media_key; NoKey: no such row
    reservationKey,\* blob_reservations.media_key; NoKey: no such row
    reservationAge,\* now - blob_reservations.created_at
    leaseKey,      \* blob_delete_leases.media_key; NoKey: no such row
    leaseAge,      \* now - blob_delete_leases.created_at
    phase,         \* the call each handler is about to make
    key,           \* the media key a handler works on
    token,         \* the reservation or the lease it owns
    age            \* how long its current deadline has been running

rows    == <<episodeKey, reservationKey, reservationAge, leaseKey, leaseAge>>
request == <<phase, key, token, age>>
service == <<unanswered, unstored, late>>
vars    == <<blobs, unanswered, unstored, late, episodeKey, reservationKey, reservationAge, leaseKey, leaseAge,
             phase, key, token, age>>

Uploading == {"put", "create"}
Phases    == {"idle", "reserve", "release", "undo", "orphan", "unchecked", "erase", "unlease"} \cup Uploading
Tokens    == ReservationIds \cup LeaseIds \cup {NoToken}

TypeOK ==
    /\ blobs \subseteq Keys
    /\ unanswered \subseteq late /\ late \subseteq Keys /\ unstored \subseteq Keys
    /\ episodeKey \in [Episodes -> Keys \cup {NoKey}]
    /\ reservationKey \in [ReservationIds -> Keys \cup {NoKey}]
    /\ reservationAge \in [ReservationIds -> Nat]
    /\ leaseKey \in [LeaseIds -> Keys \cup {NoKey}]
    /\ leaseAge \in [LeaseIds -> Nat]
    /\ phase \in [Handlers -> Phases]
    /\ key \in [Handlers -> Keys \cup {NoKey}]
    /\ token \in [Handlers -> Tokens]
    /\ age \in [Handlers -> Nat]

-----------------------------------------------------------------------------
(* The store's view of a key.                                              *)

\* reservationCutoff
ReservationActive(r) == reservationKey[r] # NoKey /\ reservationAge[r] < BlobReservationTTL

\* Mutant: a lease left behind by a crash blocks its key for ever.
LeaseActiveForever(l) == leaseKey[l] # NoKey

\* deleteLeaseCutoff
LeaseActive(l) == leaseKey[l] # NoKey /\ leaseAge[l] < BlobDeleteLeaseTTL

\* Mutant: uploads in flight are not counted.
ReferencedByRow(k, others) == \E e \in others : episodeKey[e] = k

\* Mutant: a reservation counts whatever its age.
ReferencedForever(k, others) ==
    \/ \E e \in others : episodeKey[e] = k
    \/ \E r \in ReservationIds : reservationKey[r] = k

\* countBlobRefs > 0, where others are the episodes still there.  No code sets a
\* channel's image_key, so no cover art is counted.
Referenced(k, others) ==
    \/ \E e \in others : episodeKey[e] = k
    \/ \E r \in ReservationIds : reservationKey[r] = k /\ ReservationActive(r)

\* Mutant: nobody looks for a lease.
NeverLeased(k) == FALSE

\* A physical delete of k is in progress.
Leased(k) == \E l \in LeaseIds : leaseKey[l] = k /\ LeaseActive(l)

\* AUTOINCREMENT: a new row's id is that of no other row, nor one that a
\* handler may still use to release a row that is gone.
FreshReservation(r) == reservationKey[r] = NoKey /\ \A h \in Handlers : token[h] # r
FreshLease(l)       == leaseKey[l] = NoKey /\ \A h \in Handlers : token[h] # l

\* acquireDeleteLeaseTx, once it found no active lease: stale leases of the key
\* make room for lease l.  Its created_at was read before the transaction began.
AcquireDeleteLease(k, l) ==
    /\ FreshLease(l)
    /\ leaseKey' = [m \in LeaseIds |-> IF m = l THEN k
                                       ELSE IF leaseKey[m] = k THEN NoKey ELSE leaseKey[m]]
    /\ \E wait \in 0..DbWait :
        leaseAge' = [m \in LeaseIds |-> IF m = l THEN wait
                                        ELSE IF leaseKey[m] = k THEN 0 ELSE leaseAge[m]]

\* The reservations and the leases of dropped rows are gone.
DropReservations(dropped) ==
    /\ reservationKey' = [r \in ReservationIds |-> IF r \in dropped THEN NoKey ELSE reservationKey[r]]
    /\ reservationAge' = [r \in ReservationIds |-> IF r \in dropped THEN 0 ELSE reservationAge[r]]
DropLeases(dropped) ==
    /\ leaseKey' = [l \in LeaseIds |-> IF l \in dropped THEN NoKey ELSE leaseKey[l]]
    /\ leaseAge' = [l \in LeaseIds |-> IF l \in dropped THEN 0 ELSE leaseAge[l]]

\* DELETE FROM blob_reservations WHERE id = token
DropReservation(h) == DropReservations({token[h]})

\* DELETE FROM blob_delete_leases WHERE id = deleteToken
DropLease(h) == DropLeases({token[h]})

-----------------------------------------------------------------------------
(* The handlers.                                                           *)

\* The deadline of an upload runs on into CreateEpisode, and no further.
Goto(h, p) ==
    /\ phase' = [phase EXCEPT ![h] = p]
    /\ age' = [age EXCEPT ![h] = IF p = "create" THEN @ ELSE 0]
    /\ UNCHANGED <<key, token>>

\* The request is served.
Finish(h) ==
    /\ phase' = [phase EXCEPT ![h] = "idle"]
    /\ key' = [key EXCEPT ![h] = NoKey]
    /\ token' = [token EXCEPT ![h] = NoToken]
    /\ age' = [age EXCEPT ![h] = 0]

\* The handler owns lease l on k: deleteLeasedBlob starts the delete's deadline.  What
\* passes between the commit and that start is in the age the lease begins with (DbWait).
StartErase(h, k, l) ==
    /\ phase' = [phase EXCEPT ![h] = "erase"]
    /\ key' = [key EXCEPT ![h] = k]
    /\ token' = [token EXCEPT ![h] = l]
    /\ age' = [age EXCEPT ![h] = 0]

\* protectCtx has not expired.
UploadAlive(h) == phase[h] \in Uploading \cup {"reserve"} /\ age[h] <= UploadProtectWindow

EraseAlive(h) == phase[h] = "erase" /\ age[h] <= BlobDeleteTimeout

\* handleEpisodeCreate: the media is staged, its key known, and protectCtx starts.
BeginUpload(h, k) ==
    /\ phase[h] = "idle"
    /\ phase' = [phase EXCEPT ![h] = "reserve"]
    /\ key' = [key EXCEPT ![h] = k]
    /\ age' = [age EXCEPT ![h] = 0]
    /\ UNCHANGED <<blobs, service, rows, token>>

\* reserveMediaKey, ReserveBlob.  While the key is leased the call is repeated, in
\* the end given up.  created_at is read after protectCtx started.
ReserveBlob(h) ==
    /\ phase[h] = "reserve"
    /\ \/ /\ UploadAlive(h) /\ ~Leased(key[h])
          /\ \E r \in ReservationIds, a \in 0..age[h] :
              /\ FreshReservation(r)
              /\ reservationKey' = [reservationKey EXCEPT ![r] = key[h]]
              /\ reservationAge' = [reservationAge EXCEPT ![r] = a]
              /\ \/ /\ phase' = [phase EXCEPT ![h] = "put"]
                    /\ token' = [token EXCEPT ![h] = r]
                    /\ UNCHANGED <<key, age>>
                 \/ "unknown" \in Faults /\ Finish(h)
       \/ Finish(h) /\ UNCHANGED <<reservationKey, reservationAge>>
    /\ UNCHANGED <<blobs, service, episodeKey, leaseKey, leaseAge>>

\* BlobStore.Put: stores the object; fails; or fails having stored it (the answer
\* was lost), or with the object still to be stored by a service that has the whole
\* request (the client has given up waiting for the answer).
Put(k, ok) ==
    \/ ok /\ blobs' = blobs \cup {k} /\ UNCHANGED service
    \/ ~ok /\ UNCHANGED <<blobs, service>>
    \/ ~ok /\ "unknown" \in Faults /\ blobs' = blobs \cup {k} /\ UNCHANGED service
    \/ ~ok /\ "unknown" \in Faults /\ unstored' = unstored \cup {k} /\ UNCHANGED <<blobs, unanswered, late>>

\* blobs.Put, which may outlast the deadline: localfs does not look at it.
PutBlob(h) ==
    /\ phase[h] = "put"
    /\ \E ok \in BOOLEAN : Put(key[h], ok) /\ Goto(h, IF ok THEN "create" ELSE "release")
    /\ UNCHANGED rows

\* The service stores the object of a PUT request whose sender has given up.
ServicePut(k) ==
    /\ k \in unstored
    /\ blobs' = blobs \cup {k}
    /\ unstored' = unstored \ {k}
    /\ UNCHANGED <<unanswered, late, rows, request>>

\* CreateEpisode under protectCtx.  EnqueueTranscription, which follows, is in
\* TranscriptionPipeline; the reservation is released after it.
CreateEpisode(h) ==
    /\ phase[h] = "create"
    /\ \/ /\ UploadAlive(h)
          /\ \E e \in Episodes :
              /\ episodeKey[e] = NoKey
              /\ episodeKey' = [episodeKey EXCEPT ![e] = key[h]]
          /\ Goto(h, "release") \/ ("unknown" \in Faults /\ Goto(h, "undo"))
       \/ UNCHANGED episodeKey /\ Goto(h, "undo")
    /\ UNCHANGED <<blobs, service, reservationKey, reservationAge, leaseKey, leaseAge>>

\* releaseBlob: the last step of an upload, or the first of undoing one.  A
\* failure is logged: the row stays.
ReleaseBlob(h) ==
    /\ phase[h] \in {"release", "undo"}
    /\ DropReservation(h) \/ ("error" \in Faults /\ UNCHANGED <<reservationKey, reservationAge>>)
    /\ IF phase[h] = "undo"
       THEN /\ phase' = [phase EXCEPT ![h] = "orphan"]
            /\ token' = [token EXCEPT ![h] = NoToken]
            /\ UNCHANGED <<key, age>>
       ELSE Finish(h)
    /\ UNCHANGED <<blobs, service, episodeKey, leaseKey, leaseAge>>

\* deleteOrphanBlob, BlobOrphaned.  The handler may go away with a lease it never heard of
\* (the answer was lost), or with no answer at all.
BlobOrphaned(h) ==
    /\ phase[h] = "orphan"
    /\ \/ /\ ~Referenced(key[h], Episodes) /\ ~Leased(key[h])
          /\ \E l \in LeaseIds :
              /\ AcquireDeleteLease(key[h], l)
              /\ StartErase(h, key[h], l) \/ ("unknown" \in Faults /\ Finish(h))
       \/ /\ Referenced(key[h], Episodes) \/ Leased(key[h])
          /\ Finish(h)
          /\ UNCHANGED <<leaseKey, leaseAge>>
       \/ "error" \in Faults /\ Goto(h, "unchecked") /\ UNCHANGED <<leaseKey, leaseAge>>
    /\ UNCHANGED <<blobs, service, episodeKey, reservationKey, reservationAge>>

\* deleteOrphanBlob logs that the check failed, and leaves it at that.
OrphanUnchecked(h) ==
    /\ phase[h] = "unchecked"
    /\ Finish(h)
    /\ UNCHANGED <<blobs, service, rows>>

\* handleEpisodeDelete, DeleteEpisode: the row goes, and if it was the last
\* reference the delete lease is taken in the same transaction.  The row was seen
\* before (ownedEpisode), but only the transaction's own look at it counts.
DeleteEpisode(h, e) ==
    LET k == episodeKey[e]
        lastReference == ~Referenced(k, Episodes \ {e}) /\ ~Leased(k)
    IN  /\ phase[h] = "idle"
        /\ k # NoKey
        /\ episodeKey' = [episodeKey EXCEPT ![e] = NoKey]
        /\ UNCHANGED <<blobs, service, reservationKey, reservationAge>>
        /\ IF lastReference
           THEN \E l \in LeaseIds :
                  /\ AcquireDeleteLease(k, l)
                  /\ StartErase(h, k, l) \/ ("unknown" \in Faults /\ UNCHANGED request)
           ELSE UNCHANGED <<leaseKey, leaseAge, request>>

\* The service is left with a DELETE request that nobody waits for.
AbandonDelete(k) ==
    /\ unanswered' = unanswered \cup {k}
    /\ late' = late \cup {k}
    /\ UNCHANGED unstored

\* BlobStore.Delete, which may fail with or without effect.  One that stops at its
\* deadline has no effect after it.  But localfs.Delete does not look at its context
\* and may hang beyond it; and an S3 request whose answer does not come in time is
\* given up by the client, not by the service.
Delete(k, inTime) ==
    \/ inTime /\ blobs' = blobs \ {k} /\ UNCHANGED service
    \/ (~inTime \/ "error" \in Faults) /\ UNCHANGED <<blobs, service>>
    \/ /\ "hangs" \in LateDeletes /\ ~inTime
       /\ blobs' = blobs \ {k}
       /\ late' = late \cup {k} /\ UNCHANGED <<unanswered, unstored>>
    \/ /\ "abandoned" \in LateDeletes /\ ~inTime
       /\ AbandonDelete(k) /\ UNCHANGED blobs

\* deleteLeasedBlob: the physical delete.
EraseBlob(h) ==
    /\ phase[h] = "erase"
    /\ Delete(key[h], EraseAlive(h))
    /\ Goto(h, "unlease")
    /\ UNCHANGED rows

\* The service gets to a DELETE request whose sender has given up.
ServiceDelete(k) ==
    /\ k \in unanswered
    /\ blobs' = blobs \ {k}
    /\ unanswered' = unanswered \ {k}
    /\ UNCHANGED <<unstored, late, rows, request>>

\* The deferred ReleaseDeleteLease.  A failure is logged: the row stays.
ReleaseDeleteLease(h) ==
    /\ phase[h] = "unlease"
    /\ DropLease(h) \/ ("error" \in Faults /\ UNCHANGED <<leaseKey, leaseAge>>)
    /\ Finish(h)
    /\ UNCHANGED <<blobs, service, episodeKey, reservationKey, reservationAge>>

\* The process dies: the rows and the blob stay as they are, and the service may be left
\* with the request it had sent.
Crash(h) ==
    /\ "crash" \in Faults
    /\ phase[h] # "idle"
    /\ Finish(h)
    /\ \/ UNCHANGED service
       \/ /\ phase[h] = "put" /\ "unknown" \in Faults
          /\ unstored' = unstored \cup {key[h]} /\ UNCHANGED <<unanswered, late>>
       \/ phase[h] = "erase" /\ "abandoned" \in LateDeletes /\ AbandonDelete(key[h])
    /\ UNCHANGED <<blobs, rows>>

\* An age grows until it is past every limit it is compared with.
Older(a, limit) == IF a < limit THEN a + 1 ELSE a

Tick ==
    /\ reservationAge' = [r \in ReservationIds |->
           IF reservationKey[r] = NoKey THEN reservationAge[r] ELSE Older(reservationAge[r], BlobReservationTTL)]
    /\ leaseAge' = [l \in LeaseIds |->
           IF leaseKey[l] = NoKey THEN leaseAge[l] ELSE Older(leaseAge[l], BlobDeleteLeaseTTL)]
    /\ age' = [h \in Handlers |->
           IF phase[h] = "erase" THEN Older(age[h], BlobDeleteTimeout + 1)
           ELSE IF phase[h] \in Uploading \cup {"reserve"} THEN Older(age[h], UploadProtectWindow + 1)
           ELSE age[h]]
    /\ UNCHANGED <<blobs, service, episodeKey, reservationKey, leaseKey, phase, key, token>>

-----------------------------------------------------------------------------
Init ==
    /\ blobs = {} /\ unanswered = {} /\ unstored = {} /\ late = {}
    /\ episodeKey = [e \in Episodes |-> NoKey]
    /\ reservationKey = [r \in ReservationIds |-> NoKey]
    /\ reservationAge = [r \in ReservationIds |-> 0]
    /\ leaseKey = [l \in LeaseIds |-> NoKey]
    /\ leaseAge = [l \in LeaseIds |-> 0]
    /\ phase = [h \in Handlers |-> "idle"]
    /\ key = [h \in Handlers |-> NoKey]
    /\ token = [h \in Handlers |-> NoToken]
    /\ age = [h \in Handlers |-> 0]

HandlerStep(h) ==
    \/ ReserveBlob(h)
    \/ PutBlob(h)
    \/ CreateEpisode(h)
    \/ ReleaseBlob(h)
    \/ BlobOrphaned(h)
    \/ OrphanUnchecked(h)
    \/ EraseBlob(h)
    \/ ReleaseDeleteLease(h)

Next ==
    \/ \E h \in Handlers, k \in Keys : BeginUpload(h, k)
    \/ \E h \in Handlers, e \in Episodes : DeleteEpisode(h, e)
    \/ \E h \in Handlers : HandlerStep(h) \/ Crash(h)
    \/ \E k \in Keys : ServiceDelete(k) \/ ServicePut(k)
    \/ Tick

Spec == Init /\ [][Next]_vars

\* Time passes; a handler that has work to do is scheduled.
FairSpec == Spec /\ WF_vars(Tick) /\ \A h \in Handlers : WF_vars(HandlerStep(h))

-----------------------------------------------------------------------------
(* Properties.                                                             *)

\* An episode's media is there: no deletion, however slow, late or repeated,
\* takes the bytes from under an episode that an upload has just created
\* (Store.DeleteEpisode: "make blob deletion race-free").
MediaPresent == \A e \in Episodes : episodeKey[e] # NoKey => episodeKey[e] \in blobs

\* The same for every key of which no delete outlived its deadline or its sender, which is what
\* the timing bounds of the store can promise (BlobDeleteTimeout).
MediaPresentUnlessLate ==
    \A e \in Episodes : episodeKey[e] # NoKey => episodeKey[e] \in blobs \cup late

\* An upload that may still create its episode is counted by every orphan check:
\* its own reservation is in the table and has not expired (reservationCutoff:
\* "a live upload can never age out here").
LiveUploadCounted ==
    \A h \in Handlers : phase[h] \in Uploading /\ UploadAlive(h) =>
        /\ token[h] \in ReservationIds
        /\ reservationKey[token[h]] = key[h]
        /\ ReservationActive(token[h])

\* A physical delete that can still take effect is covered by its own lease, and
\* no other handler is deleting the same blob (acquireDeleteLeaseTx: "exactly one
\* caller can own a key's delete at a time").
LiveEraseLeased ==
    \A h \in Handlers : EraseAlive(h) =>
        /\ token[h] \in LeaseIds
        /\ leaseKey[token[h]] = key[h]
        /\ LeaseActive(token[h])
        /\ \A g \in Handlers : EraseAlive(g) /\ key[g] = key[h] => g = h

\* While a physical delete can take effect nobody depends on the blob: no episode
\* has the key and no upload that may still create one has reserved it.
EraseIsUnwanted ==
    \A h \in Handlers : EraseAlive(h) =>
        /\ \A e \in Episodes : episodeKey[e] # key[h]
        /\ \A g \in Handlers : phase[g] \in Uploading /\ UploadAlive(g) => key[g] # key[h]

\* An upload about to create its episode has its bytes in the store.
UploadIsStored ==
    \A h \in Handlers : phase[h] = "create" /\ UploadAlive(h) => key[h] \in blobs \cup late

\* A handler at work knows its media key.
KeyKnown == \A h \in Handlers : phase[h] # "idle" => key[h] \in Keys

\* Each row has one owner.
TokensDistinct ==
    \A g, h \in Handlers : token[g] = token[h] /\ token[g] # NoToken => g = h

\* A reservation is no older than the upload that made it; a lease no older than
\* its delete and the wait for the database.
AgesBounded ==
    \A h \in Handlers :
        /\ phase[h] \in Uploading /\ UploadAlive(h) => reservationAge[token[h]] <= age[h]
        /\ EraseAlive(h) => leaseAge[token[h]] <= DbWait + age[h]

\* The inductive invariant of the protocol.
BlobInv ==
    /\ TypeOK
    /\ KeyKnown
    /\ MediaPresentUnlessLate
    /\ LiveUploadCounted
    /\ LiveEraseLeased
    /\ EraseIsUnwanted
    /\ UploadIsStored
    /\ TokensDistinct
    /\ AgesBounded

\* Somebody will still decide about the blob of k: an episode has it, a row that an orphan
\* check or an upload would still count names it, or a request that is past its reservation
\* works on it.  A row that has expired counts for nothing, as in countBlobRefs and
\* acquireDeleteLeaseTx.
Accounted(k) ==
    \/ \E e \in Episodes : episodeKey[e] = k
    \/ \E r \in ReservationIds : reservationKey[r] = k /\ ReservationActive(r)
    \/ \E l \in LeaseIds : leaseKey[l] = k /\ LeaseActive(l)
    \/ \E h \in Handlers : key[h] = k /\ phase[h] \notin {"idle", "reserve"}

\* No blob is forgotten: one that no episode has is named by a row in force or by a
\* request at work, so that somebody will still decide about it (the reservation's comment
\* in schema.sql: "a leak only delays orphan cleanup rather than pinning a blob
\* forever"; the routes in architecture.md: "delete (also deletes the blob)").
BlobsAccounted == \A k \in blobs : Accounted(k)

\* A handler lets go of its key: an upload that has released its reservation, a delete that
\* has released its lease, an orphan check that could not be made; or it dies.
LetsGo(h) ==
    \/ phase[h] = "release" /\ ReleaseBlob(h)
    \/ ReleaseDeleteLease(h)
    \/ OrphanUnchecked(h)
    \/ Crash(h)

\* A row of k that no request owns any more expires: its handler died, lost the answer
\* that told it of the row, or could not release it.
LeftBehindExpires(k) ==
    \/ \E r \in ReservationIds :
          /\ reservationKey[r] = k /\ ReservationActive(r) /\ ~ReservationActive(r)'
          /\ \A h \in Handlers : token[h] # r
    \/ \E l \in LeaseIds :
          /\ leaseKey[l] = k /\ LeaseActive(l) /\ ~LeaseActive(l)'
          /\ \A h \in Handlers : token[h] # l

\* Where blobs are forgotten, and that they are forgotten nowhere else: by the handler of
\* the key in its last step; when a row that its handler left behind expires, which nothing
\* revisits; or by a PUT that takes effect when its sender has gone.  Deleting an episode,
\* finding a blob not to be an orphan, undoing an upload and taking over a stale lease never
\* lose one, though the rows they look at may be expired (Store.DeleteEpisode,
\* deleteOrphanBlob, reservationCutoff).
ForgottenOnlyAtTheEnd ==
    [][\A k \in blobs' :
          \/ Accounted(k)'
          \/ k \in blobs /\ ~Accounted(k)
          \/ \E h \in Handlers : key[h] = k /\ LetsGo(h)
          \/ Tick /\ LeftBehindExpires(k)
          \/ ServicePut(k)]_vars

\* What that rests on: the row that a handler owns is for its key, or is gone.
TokensNameKeys ==
    \A h \in Handlers :
        /\ phase[h] \in {"idle", "reserve"} => token[h] = NoToken
        /\ token[h] \in ReservationIds => reservationKey[token[h]] \in {key[h], NoKey}
        /\ token[h] \in LeaseIds => leaseKey[token[h]] \in {key[h], NoKey}

\* What the rest of the system sees of the protocol: rows only over bytes that are
\* there, bytes taken only when no row has them (Store.DeleteEpisode, ReserveBlob).
Media == INSTANCE MediaStore
ImplementsMediaStore == Media!Spec

\* A delete lease does not block its key for ever, though the handler that took
\* it died (BlobDeleteLeaseTTL: "so uploads of that key are not blocked forever").
KeyUnblocked == \A k \in Keys : Leased(k) ~> ~Leased(k)
=============================================================================
