------------------------ MODULE BlobLifecycle_proofs ------------------------
(***************************************************************************)
(* BlobInv is an invariant of BlobLifecycle, for any number of keys,       *)
(* episodes, handlers and rows, for any deadlines that satisfy             *)
(* BlobAssumption and whatever the blob store does to a delete that is     *)
(* past its deadline.  MediaPresentUnlessLate is not inductive by itself:  *)
(* an upload about to create its episode must find its bytes               *)
(* (UploadIsStored), which needs that no delete in flight is for the same  *)
(* key (EraseIsUnwanted), which in turn rests on each side's row still     *)
(* being counted by the other side (LiveUploadCounted, LiveEraseLeased),   *)
(* hence on the ages of the rows.                                          *)
(***************************************************************************)
EXTENDS BlobLifecycle, TLAPS

\* The empty database satisfies the invariant.
LEMMA InitInv == Init => BlobInv
  BY BlobAssumption DEF Init, BlobInv, TypeOK, MediaPresentUnlessLate, LiveUploadCounted, LiveEraseLeased,
     EraseIsUnwanted, UploadIsStored, KeyKnown, TokensDistinct, AgesBounded, UploadAlive, EraseAlive,
     Phases, Uploading, Tokens

\* Every step keeps the types.
LEMMA TypeNext ==
    ASSUME TypeOK, KeyKnown, Next
    PROVE  TypeOK'
<1> USE BlobAssumption DEF TypeOK, service
<1>f. \A h \in Handlers : Finish(h) =>
        /\ phase' \in [Handlers -> Phases] /\ key' \in [Handlers -> Keys \cup {NoKey}]
        /\ token' \in [Handlers -> Tokens] /\ age' \in [Handlers -> Nat]
  BY DEF Finish, Phases, Tokens
<1>g. \A h \in Handlers : \A p \in Phases : Goto(h, p) =>
        /\ phase' \in [Handlers -> Phases] /\ key' \in [Handlers -> Keys \cup {NoKey}]
        /\ token' \in [Handlers -> Tokens] /\ age' \in [Handlers -> Nat]
  BY DEF Goto
<1>s. \A h \in Handlers, k \in Keys \cup {NoKey}, l \in LeaseIds : StartErase(h, k, l) =>
        /\ phase' \in [Handlers -> Phases] /\ key' \in [Handlers -> Keys \cup {NoKey}]
        /\ token' \in [Handlers -> Tokens] /\ age' \in [Handlers -> Nat]
  BY DEF StartErase, Phases, Tokens
<1>l. \A k \in Keys \cup {NoKey}, l \in LeaseIds : AcquireDeleteLease(k, l) =>
        leaseKey' \in [LeaseIds -> Keys \cup {NoKey}] /\ leaseAge' \in [LeaseIds -> Nat]
  BY DEF AcquireDeleteLease
<1>p. {"release", "undo", "create", "unlease"} \subseteq Phases
  BY DEF Phases, Uploading
<1>u. "unchecked" \in Phases
  BY DEF Phases
<1>1. ASSUME NEW h \in Handlers, NEW k \in Keys, BeginUpload(h, k) PROVE TypeOK'
  BY <1>1 DEF BeginUpload, rows, Phases
<1>2. ASSUME NEW h \in Handlers, NEW e \in Episodes, DeleteEpisode(h, e) PROVE TypeOK'
  BY <1>2, <1>s, <1>l DEF DeleteEpisode, request
<1>3. ASSUME NEW h \in Handlers, ReserveBlob(h) PROVE TypeOK'
  <2>1. UNCHANGED <<blobs, unanswered, unstored, late, episodeKey, leaseKey, leaseAge>>
    BY <1>3 DEF ReserveBlob
  <2>2. /\ reservationKey' \in [ReservationIds -> Keys \cup {NoKey}]
        /\ reservationAge' \in [ReservationIds -> Nat]
    BY <1>3 DEF ReserveBlob
  <2>3. /\ phase' \in [Handlers -> Phases] /\ key' \in [Handlers -> Keys \cup {NoKey}]
        /\ token' \in [Handlers -> Tokens] /\ age' \in [Handlers -> Nat]
    BY <1>3, <1>f DEF ReserveBlob, Phases, Uploading, Tokens
  <2>4. QED
    BY <2>1, <2>2, <2>3
<1>4. ASSUME NEW h \in Handlers, PutBlob(h) PROVE TypeOK'
  <2>1. key[h] \in Keys
    BY <1>4 DEF PutBlob, KeyKnown
  <2>2. QED
    BY <1>4, <2>1, <1>g, <1>p DEF PutBlob, Put, rows
<1>5. ASSUME NEW h \in Handlers, CreateEpisode(h) PROVE TypeOK'
  BY <1>5, <1>g, <1>p DEF CreateEpisode
<1>6. ASSUME NEW h \in Handlers, ReleaseBlob(h) PROVE TypeOK'
  BY <1>6, <1>f DEF ReleaseBlob, DropReservation, DropReservations, Phases, Tokens
<1>7. ASSUME NEW h \in Handlers, BlobOrphaned(h) PROVE TypeOK'
  <2>1. CASE Goto(h, "unchecked") /\ UNCHANGED <<leaseKey, leaseAge>>
    BY <1>7, <2>1, <1>g, <1>u DEF BlobOrphaned
  <2> QED BY <1>7, <2>1, <1>f, <1>s, <1>l DEF BlobOrphaned
<1>8. ASSUME NEW h \in Handlers, EraseBlob(h) PROVE TypeOK'
  <2>1. key[h] \in Keys
    BY <1>8 DEF EraseBlob, KeyKnown
  <2>2. QED
    BY <1>8, <2>1, <1>g, <1>p DEF EraseBlob, Delete, AbandonDelete, rows
<1>9. ASSUME NEW h \in Handlers, ReleaseDeleteLease(h) PROVE TypeOK'
  BY <1>9, <1>f DEF ReleaseDeleteLease, DropLease, DropLeases
<1>10. ASSUME NEW h \in Handlers, Crash(h) \/ OrphanUnchecked(h) PROVE TypeOK'
  <2>1. key[h] \in Keys
    BY <1>10 DEF Crash, OrphanUnchecked, KeyKnown
  <2>2. blobs' = blobs /\ unanswered' \subseteq late' /\ late' \subseteq Keys /\ unstored' \subseteq Keys
    BY <1>10, <2>1 DEF Crash, OrphanUnchecked, AbandonDelete
  <2>3. Finish(h) /\ UNCHANGED rows
    BY <1>10 DEF Crash, OrphanUnchecked
  <2> QED BY <1>f, <2>2, <2>3 DEF rows
<1>11. CASE Tick
  BY <1>11 DEF Tick, Older
<1>12. ASSUME NEW k \in Keys, ServiceDelete(k) \/ ServicePut(k) PROVE TypeOK'
  BY <1>12 DEF ServiceDelete, ServicePut, rows, request
<1>13. QED
  BY <1>1, <1>2, <1>3, <1>4, <1>5, <1>6, <1>7, <1>8, <1>9, <1>10, <1>11, <1>12 DEF Next, HandlerStep

\* Every step keeps the keys of the handlers at work.
LEMMA KeyKnownNext ==
    ASSUME TypeOK, KeyKnown, Next
    PROVE  KeyKnown'
<1> USE BlobAssumption DEF TypeOK, KeyKnown
<1>f. \A h \in Handlers : Finish(h) => KeyKnown'
  BY DEF Finish
<1>g. \A h \in Handlers : \A p \in Phases : phase[h] # "idle" /\ Goto(h, p) => KeyKnown'
  BY DEF Goto
<1>s. \A h \in Handlers, k \in Keys, l \in LeaseIds : StartErase(h, k, l) => KeyKnown'
  BY DEF StartErase
<1>p. {"release", "undo", "create", "unlease"} \subseteq Phases
  BY DEF Phases, Uploading
<1>1. ASSUME NEW h \in Handlers, NEW k \in Keys, BeginUpload(h, k) PROVE KeyKnown'
  BY <1>1 DEF BeginUpload
<1>2. ASSUME NEW h \in Handlers, NEW e \in Episodes, DeleteEpisode(h, e) PROVE KeyKnown'
  BY <1>2, <1>s DEF DeleteEpisode, request
<1>3. ASSUME NEW h \in Handlers, ReserveBlob(h) \/ ReleaseBlob(h) \/ ReleaseDeleteLease(h) \/ Crash(h)
                                   \/ OrphanUnchecked(h)
      PROVE  KeyKnown'
  BY <1>3, <1>f DEF ReserveBlob, ReleaseBlob, ReleaseDeleteLease, Crash, OrphanUnchecked
<1>4. ASSUME NEW h \in Handlers, PutBlob(h) \/ CreateEpisode(h) \/ EraseBlob(h) PROVE KeyKnown'
  BY <1>4, <1>g, <1>p DEF PutBlob, CreateEpisode, EraseBlob
<1>5. ASSUME NEW h \in Handlers, BlobOrphaned(h) PROVE KeyKnown'
  <2>1. "unchecked" \in Phases
    BY DEF Phases
  <2> QED BY <1>5, <1>f, <1>g, <1>s, <2>1 DEF BlobOrphaned
<1>6. CASE Tick
  BY <1>6 DEF Tick
<1>7. ASSUME NEW k \in Keys, ServiceDelete(k) \/ ServicePut(k) PROVE KeyKnown'
  BY <1>7 DEF ServiceDelete, ServicePut, request
<1>8. QED
  BY <1>1, <1>2, <1>3, <1>4, <1>5, <1>6, <1>7 DEF Next, HandlerStep

\* An upload that can still create its episode, and is past its reservation.
Protected(h) == phase[h] \in Uploading /\ UploadAlive(h)

\* No handler gains an upload or a delete that can take effect, the tables do not
\* lose rows of one, and what it does to the blobs takes nothing away.
LEMMA QuietInv ==
    ASSUME BlobInv, TypeOK', KeyKnown',
           NEW h \in Handlers,
           \A g \in Handlers \ {h} : /\ phase'[g] = phase[g] /\ key'[g] = key[g]
                                     /\ token'[g] = token[g] /\ age'[g] = age[g],
           ~Protected(h)', ~EraseAlive(h)',
           token'[h] \in {token[h], NoToken},
           blobs \cup late \subseteq blobs' \cup late',
           \A e \in Episodes : episodeKey'[e] \in {episodeKey[e], NoKey},
           \A r \in ReservationIds : r # token[h] /\ reservationKey[r] # NoKey =>
               reservationKey'[r] = reservationKey[r] /\ reservationAge'[r] = reservationAge[r],
           \A l \in LeaseIds : l # token[h] /\ LeaseActive(l) =>
               leaseKey'[l] = leaseKey[l] /\ leaseAge'[l] = leaseAge[l]
    PROVE  BlobInv'
<1> USE BlobAssumption DEF BlobInv, TypeOK
<1>a. \A g \in Handlers \ {h} : Protected(g)' <=> Protected(g)
  BY DEF Protected, UploadAlive
<1>b. \A g \in Handlers \ {h} : EraseAlive(g)' <=> EraseAlive(g)
  BY DEF EraseAlive
<1>c. \A g \in Handlers \ {h} : token[g] # NoToken => token[g] # token[h]
  BY DEF TokensDistinct
<1>1. MediaPresentUnlessLate'
  BY DEF MediaPresentUnlessLate
<1>2. LiveUploadCounted'
  <2> SUFFICES ASSUME NEW g \in Handlers, Protected(g)'
      PROVE  /\ token'[g] \in ReservationIds
             /\ reservationKey'[token'[g]] = key'[g]
             /\ ReservationActive(token[g])'
    BY DEF LiveUploadCounted, Protected, ReservationActive
  <2>1. g # h /\ Protected(g)
    BY <1>a
  <2>2. token[g] \in ReservationIds /\ reservationKey[token[g]] = key[g] /\ ReservationActive(token[g])
    BY <2>1 DEF LiveUploadCounted, Protected
  <2>3. token[g] # token[h]
    BY <1>c, <2>1, <2>2
  <2>4. QED
    BY <2>1, <2>2, <2>3 DEF ReservationActive
<1>3. LiveEraseLeased'
  <2> SUFFICES ASSUME NEW g \in Handlers, EraseAlive(g)'
      PROVE  /\ token'[g] \in LeaseIds
             /\ leaseKey'[token'[g]] = key'[g]
             /\ LeaseActive(token[g])'
             /\ \A f \in Handlers : EraseAlive(f)' /\ key'[f] = key'[g] => f = g
    BY DEF LiveEraseLeased, LeaseActive
  <2>1. g # h /\ EraseAlive(g)
    BY <1>b
  <2>2. token[g] \in LeaseIds /\ leaseKey[token[g]] = key[g] /\ LeaseActive(token[g])
    BY <2>1 DEF LiveEraseLeased
  <2>3. token[g] # token[h]
    BY <1>c, <2>1, <2>2
  <2>4. \A f \in Handlers : EraseAlive(f)' /\ key'[f] = key'[g] => f = g
    BY <1>b, <2>1 DEF LiveEraseLeased
  <2>5. QED
    BY <2>1, <2>2, <2>3, <2>4 DEF LeaseActive
<1>4. EraseIsUnwanted'
  <2> SUFFICES ASSUME NEW g \in Handlers, EraseAlive(g)'
      PROVE  /\ \A e \in Episodes : episodeKey'[e] # key'[g]
             /\ \A f \in Handlers : Protected(f)' => key'[f] # key'[g]
    BY DEF EraseIsUnwanted, Protected
  <2>1. g # h /\ EraseAlive(g) /\ key'[g] = key[g] /\ key[g] # NoKey
    BY <1>b DEF LiveEraseLeased, LeaseActive
  <2>2. QED
    BY <1>a, <2>1 DEF EraseIsUnwanted, Protected
<1>5. UploadIsStored'
  BY <1>a DEF UploadIsStored, Protected, UploadAlive, Uploading
<1>6. TokensDistinct'
  BY DEF TokensDistinct
<1>7. AgesBounded'
  <2>1. ASSUME NEW g \in Handlers, Protected(g)' PROVE reservationAge'[token'[g]] <= age'[g]
    BY <1>a, <1>c, <2>1 DEF AgesBounded, LiveUploadCounted, Protected, ReservationActive
  <2>2. ASSUME NEW g \in Handlers, EraseAlive(g)' PROVE leaseAge'[token'[g]] <= DbWait + age'[g]
    BY <1>b, <1>c, <2>2 DEF AgesBounded, LiveEraseLeased
  <2>3. QED
    BY <2>1, <2>2 DEF AgesBounded, Protected
<1>8. QED
  BY <1>1, <1>2, <1>3, <1>4, <1>5, <1>6, <1>7

\* A reservation is granted only while no delete of the key can take effect, and
\* is young enough to outlast the upload's deadline.
LEMMA ReserveInv ==
    ASSUME BlobInv, TypeOK', KeyKnown',
           NEW h \in Handlers, phase[h] = "reserve", UploadAlive(h), ~Leased(key[h]),
           NEW r \in ReservationIds, NEW a \in 0..age[h], FreshReservation(r),
           reservationKey' = [reservationKey EXCEPT ![r] = key[h]],
           reservationAge' = [reservationAge EXCEPT ![r] = a],
           phase' = [phase EXCEPT ![h] = "put"],
           token' = [token EXCEPT ![h] = r],
           UNCHANGED <<key, age, blobs, late, episodeKey, leaseKey, leaseAge>>
    PROVE  BlobInv'
<1> USE BlobAssumption DEF BlobInv, TypeOK
<1>a. \A g \in Handlers \ {h} : Protected(g)' <=> Protected(g)
  BY DEF Protected, UploadAlive
<1>b. \A g \in Handlers : EraseAlive(g)' <=> EraseAlive(g) /\ g # h
  BY DEF EraseAlive
<1>c. \A g \in Handlers : token[g] # r
  BY DEF FreshReservation
<1>d. \A g \in Handlers : EraseAlive(g) => key[g] # key[h]
  BY DEF LiveEraseLeased, Leased
<1>e. key[h] # NoKey /\ a \in Nat /\ a <= age[h] /\ age[h] <= UploadProtectWindow
  BY DEF KeyKnown, UploadAlive
<1>1. MediaPresentUnlessLate'
  BY DEF MediaPresentUnlessLate
<1>2. LiveUploadCounted'
  <2> SUFFICES ASSUME NEW g \in Handlers, Protected(g)'
      PROVE  /\ token'[g] \in ReservationIds
             /\ reservationKey'[token'[g]] = key'[g]
             /\ reservationKey'[token'[g]] # NoKey /\ reservationAge'[token'[g]] < BlobReservationTTL
    BY DEF LiveUploadCounted, Protected, ReservationActive
  <2>1. CASE g = h
    BY <2>1, <1>e
  <2>2. CASE g # h
    BY <2>2, <1>a, <1>c DEF LiveUploadCounted, Protected, ReservationActive
  <2>3. QED
    BY <2>1, <2>2
<1>3. LiveEraseLeased'
  BY <1>b DEF LiveEraseLeased, LeaseActive
<1>4. EraseIsUnwanted'
  BY <1>a, <1>b, <1>d DEF EraseIsUnwanted, Protected
<1>5. UploadIsStored'
  BY <1>a DEF UploadIsStored, Protected, UploadAlive, Uploading
<1>6. TokensDistinct'
  BY <1>c DEF TokensDistinct
<1>7. AgesBounded'
  <2>1. ASSUME NEW g \in Handlers, Protected(g)' PROVE reservationAge'[token'[g]] <= age'[g]
    BY <1>a, <1>c, <1>e, <2>1 DEF AgesBounded, LiveUploadCounted, Protected
  <2>2. ASSUME NEW g \in Handlers, EraseAlive(g)' PROVE leaseAge'[token'[g]] <= DbWait + age'[g]
    BY <1>b, <2>2 DEF AgesBounded
  <2>3. QED
    BY <2>1, <2>2 DEF AgesBounded, Protected
<1>8. QED
  BY <1>1, <1>2, <1>3, <1>4, <1>5, <1>6, <1>7

\* Put makes the bytes of a protected upload present.
LEMMA PutInv ==
    ASSUME BlobInv, TypeOK', KeyKnown', NEW h \in Handlers, phase[h] = "put",
           blobs' = blobs \cup {key[h]}, Goto(h, "create"), UNCHANGED <<late, rows>>
    PROVE  BlobInv'
<1> USE BlobAssumption DEF BlobInv, TypeOK
<1>1. /\ phase' = [phase EXCEPT ![h] = "create"]
      /\ age' = age
      /\ UNCHANGED <<key, token, episodeKey, reservationKey, reservationAge, leaseKey, leaseAge>>
  BY DEF Goto, rows
<1>a. \A g \in Handlers : Protected(g)' <=> Protected(g)
  BY <1>1 DEF Protected, UploadAlive, Uploading
<1>b. \A g \in Handlers : EraseAlive(g)' <=> EraseAlive(g)
  BY <1>1 DEF EraseAlive
<1>2. MediaPresentUnlessLate'
  BY <1>1 DEF MediaPresentUnlessLate
<1>3. LiveUploadCounted'
  BY <1>1, <1>a DEF LiveUploadCounted, Protected, ReservationActive
<1>4. LiveEraseLeased'
  BY <1>1, <1>b DEF LiveEraseLeased, LeaseActive
<1>5. EraseIsUnwanted'
  BY <1>1, <1>a, <1>b DEF EraseIsUnwanted, Protected
<1>6. UploadIsStored'
  BY <1>1 DEF UploadIsStored, UploadAlive
<1>7. TokensDistinct'
  BY <1>1 DEF TokensDistinct
<1>8. AgesBounded'
  BY <1>1, <1>a, <1>b DEF AgesBounded, Protected
<1>9. QED
  BY <1>2, <1>3, <1>4, <1>5, <1>6, <1>7, <1>8

\* The row of a protected upload is created with its bytes present and no delete
\* of them in flight.
LEMMA CreateInv ==
    ASSUME BlobInv, TypeOK', KeyKnown', NEW h \in Handlers, phase[h] = "create", UploadAlive(h),
           NEW e \in Episodes, episodeKey' = [episodeKey EXCEPT ![e] = key[h]],
           NEW p \in {"release", "undo"}, Goto(h, p),
           UNCHANGED <<blobs, late, reservationKey, reservationAge, leaseKey, leaseAge>>
    PROVE  BlobInv'
<1> USE BlobAssumption DEF BlobInv, TypeOK
<1>1. /\ phase' = [phase EXCEPT ![h] = p]
      /\ age' = [age EXCEPT ![h] = 0]
      /\ UNCHANGED <<key, token>>
  BY DEF Goto
<1>a. \A g \in Handlers : Protected(g)' <=> Protected(g) /\ g # h
  BY <1>1 DEF Protected, UploadAlive, Uploading
<1>b. \A g \in Handlers : EraseAlive(g)' <=> EraseAlive(g)
  BY <1>1 DEF EraseAlive
<1>c. key[h] \in blobs \cup late /\ \A g \in Handlers : EraseAlive(g) => key[g] # key[h]
  BY DEF UploadIsStored, EraseIsUnwanted, Uploading
<1>2. MediaPresentUnlessLate'
  BY <1>c DEF MediaPresentUnlessLate
<1>3. LiveUploadCounted'
  BY <1>1, <1>a DEF LiveUploadCounted, Protected, ReservationActive
<1>4. LiveEraseLeased'
  BY <1>1, <1>b DEF LiveEraseLeased, LeaseActive
<1>5. EraseIsUnwanted'
  BY <1>1, <1>a, <1>b, <1>c DEF EraseIsUnwanted, Protected
<1>6. UploadIsStored'
  BY <1>1, <1>a DEF UploadIsStored, Protected, UploadAlive, Uploading
<1>7. TokensDistinct'
  BY <1>1 DEF TokensDistinct
<1>8. AgesBounded'
  <2>1. ASSUME NEW g \in Handlers, Protected(g)' PROVE reservationAge'[token'[g]] <= age'[g]
    BY <1>1, <1>a, <2>1 DEF AgesBounded, Protected
  <2>2. ASSUME NEW g \in Handlers, EraseAlive(g)' PROVE leaseAge'[token'[g]] <= DbWait + age'[g]
    <3>1. g # h
      BY <2>2, <1>1 DEF EraseAlive
    <3>2. QED
      BY <1>1, <1>b, <2>2, <3>1 DEF AgesBounded
  <2>3. QED
    BY <2>1, <2>2 DEF AgesBounded, Protected
<1>9. QED
  BY <1>2, <1>3, <1>4, <1>5, <1>6, <1>7, <1>8

\* A delete starts under a fresh lease, when nobody depends on the blob.
LEMMA StartEraseInv ==
    ASSUME BlobInv, TypeOK', KeyKnown',
           NEW h \in Handlers, phase[h] \in {"idle", "orphan"},
           NEW k \in Keys, NEW l \in LeaseIds, NEW others \in SUBSET Episodes,
           ~Referenced(k, others), ~Leased(k),
           AcquireDeleteLease(k, l), StartErase(h, k, l),
           \A e \in Episodes : episodeKey'[e] = IF e \in others THEN episodeKey[e] ELSE NoKey,
           UNCHANGED <<blobs, late, reservationKey, reservationAge>>
    PROVE  BlobInv'
<1> USE BlobAssumption DEF BlobInv, TypeOK
<1>1. /\ phase' = [phase EXCEPT ![h] = "erase"]
      /\ key' = [key EXCEPT ![h] = k]
      /\ token' = [token EXCEPT ![h] = l]
      /\ age' = [age EXCEPT ![h] = 0]
  BY DEF StartErase
<1>2. PICK wait \in 0..DbWait :
        leaseAge' = [m \in LeaseIds |-> IF m = l THEN wait
                                        ELSE IF leaseKey[m] = k THEN 0 ELSE leaseAge[m]]
  BY DEF AcquireDeleteLease
<1>3. /\ leaseKey[l] = NoKey /\ \A g \in Handlers : token[g] # l
      /\ leaseKey' = [m \in LeaseIds |-> IF m = l THEN k
                                         ELSE IF leaseKey[m] = k THEN NoKey ELSE leaseKey[m]]
  BY DEF AcquireDeleteLease, FreshLease
<1>a. \A g \in Handlers : Protected(g)' <=> Protected(g)
  BY <1>1 DEF Protected, UploadAlive, Uploading
<1>b. \A g \in Handlers \ {h} : EraseAlive(g)' <=> EraseAlive(g)
  BY <1>1 DEF EraseAlive
<1>c. \A g \in Handlers : EraseAlive(g) => key[g] # k
  BY DEF LiveEraseLeased, Leased
<1>d. \A g \in Handlers : Protected(g) => key[g] # k /\ g # h
  BY DEF LiveUploadCounted, Referenced, Protected, Uploading
<1>e. \A e \in Episodes : episodeKey'[e] # k
  BY DEF Referenced
<1>4. MediaPresentUnlessLate'
  BY DEF MediaPresentUnlessLate
<1>5. LiveUploadCounted'
  BY <1>1, <1>a, <1>d DEF LiveUploadCounted, Protected, ReservationActive
<1>6. LiveEraseLeased'
  <2> SUFFICES ASSUME NEW g \in Handlers, EraseAlive(g)'
      PROVE  /\ token'[g] \in LeaseIds
             /\ leaseKey'[token'[g]] = key'[g]
             /\ leaseKey'[token'[g]] # NoKey /\ leaseAge'[token'[g]] < BlobDeleteLeaseTTL
             /\ \A f \in Handlers : EraseAlive(f)' /\ key'[f] = key'[g] => f = g
    BY DEF LiveEraseLeased, LeaseActive
  <2>1. CASE g = h
    <3>1. wait < BlobDeleteLeaseTTL
      OBVIOUS
    <3>2. \A f \in Handlers : EraseAlive(f)' /\ key'[f] = key'[g] => f = g
      BY <2>1, <1>1, <1>b, <1>c
    <3>3. QED
      BY <2>1, <3>1, <3>2, <1>1, <1>2, <1>3
  <2>2. CASE g # h
    <3>1. EraseAlive(g) /\ key[g] # k /\ key'[g] = key[g] /\ token'[g] = token[g]
      BY <2>2, <1>1, <1>b, <1>c
    <3>2. /\ token[g] \in LeaseIds /\ token[g] # l /\ leaseKey[token[g]] = key[g]
          /\ leaseKey[token[g]] # NoKey /\ leaseAge[token[g]] < BlobDeleteLeaseTTL
      BY <3>1, <1>3 DEF LiveEraseLeased, LeaseActive
    <3>3. \A f \in Handlers : EraseAlive(f)' /\ key'[f] = key'[g] => f = g
      BY <3>1, <1>1, <1>b, <1>c DEF LiveEraseLeased
    <3>4. QED
      BY <3>1, <3>2, <3>3, <1>2, <1>3
  <2>3. QED
    BY <2>1, <2>2
<1>7. EraseIsUnwanted'
  <2> SUFFICES ASSUME NEW g \in Handlers, EraseAlive(g)'
      PROVE  /\ \A e \in Episodes : episodeKey'[e] # key'[g]
             /\ \A f \in Handlers : Protected(f)' => key'[f] # key'[g]
    BY DEF EraseIsUnwanted, Protected
  <2>1. CASE g = h
    BY <2>1, <1>1, <1>a, <1>d, <1>e
  <2>2. CASE g # h
    <3>1. EraseAlive(g) /\ key'[g] = key[g] /\ key[g] # NoKey
      BY <2>2, <1>1, <1>b DEF LiveEraseLeased, LeaseActive
    <3>2. QED
      BY <3>1, <1>1, <1>a, <1>d DEF EraseIsUnwanted, Protected
  <2>3. QED
    BY <2>1, <2>2
<1>8. UploadIsStored'
  BY <1>1 DEF UploadIsStored, UploadAlive
<1>9. TokensDistinct'
  BY <1>1, <1>3 DEF TokensDistinct
<1>10. AgesBounded'
  <2>1. ASSUME NEW g \in Handlers, Protected(g)' PROVE reservationAge'[token'[g]] <= age'[g]
    BY <1>1, <1>a, <1>d, <2>1 DEF AgesBounded, Protected
  <2>2. ASSUME NEW g \in Handlers, EraseAlive(g)' PROVE leaseAge'[token'[g]] <= DbWait + age'[g]
    <3>1. CASE g = h
      BY <3>1, <1>1, <1>2
    <3>2. CASE g # h
      <4>1. EraseAlive(g) /\ key[g] # k /\ age'[g] = age[g] /\ token'[g] = token[g]
        BY <2>2, <3>2, <1>1, <1>b, <1>c
      <4>2. token[g] \in LeaseIds /\ token[g] # l /\ leaseKey[token[g]] # k
        BY <4>1, <1>3 DEF LiveEraseLeased
      <4>3. leaseAge[token[g]] <= DbWait + age[g]
        BY <4>1 DEF AgesBounded
      <4>4. QED
        BY <4>1, <4>2, <4>3, <1>2
    <3>3. QED
      BY <3>1, <3>2
  <2>3. QED
    BY <2>1, <2>2 DEF AgesBounded, Protected
<1>11. QED
  BY <1>4, <1>5, <1>6, <1>7, <1>8, <1>9, <1>10

\* A delete that takes effect within its deadline removes bytes nobody needs.
LEMMA EraseInv ==
    ASSUME BlobInv, TypeOK', KeyKnown', NEW h \in Handlers, EraseAlive(h),
           blobs' = blobs \ {key[h]}, Goto(h, "unlease"), UNCHANGED <<late, rows>>
    PROVE  BlobInv'
<1> USE BlobAssumption DEF BlobInv, TypeOK
<1>1. /\ phase' = [phase EXCEPT ![h] = "unlease"]
      /\ age' = [age EXCEPT ![h] = 0]
      /\ UNCHANGED <<key, token, episodeKey, reservationKey, reservationAge, leaseKey, leaseAge>>
  BY DEF Goto, rows
<1>a. \A g \in Handlers : (Protected(g)' <=> Protected(g)) /\ (Protected(g) => g # h)
  BY <1>1 DEF Protected, UploadAlive, Uploading, EraseAlive
<1>b. \A g \in Handlers : EraseAlive(g)' <=> EraseAlive(g) /\ g # h
  BY <1>1 DEF EraseAlive
<1>2. MediaPresentUnlessLate'
  BY <1>1 DEF MediaPresentUnlessLate, EraseIsUnwanted
<1>3. LiveUploadCounted'
  BY <1>1, <1>a DEF LiveUploadCounted, Protected, ReservationActive
<1>4. LiveEraseLeased'
  BY <1>1, <1>b DEF LiveEraseLeased, LeaseActive
<1>5. EraseIsUnwanted'
  BY <1>1, <1>a, <1>b DEF EraseIsUnwanted, Protected
<1>6. UploadIsStored'
  BY <1>1, <1>a DEF UploadIsStored, EraseIsUnwanted, Protected, UploadAlive, Uploading
<1>7. TokensDistinct'
  BY <1>1 DEF TokensDistinct
<1>8. AgesBounded'
  BY <1>1, <1>a, <1>b DEF AgesBounded, Protected
<1>9. QED
  BY <1>2, <1>3, <1>4, <1>5, <1>6, <1>7, <1>8

\* A second passes: a row ages no faster than the operation it protects, whose
\* deadline comes before the row expires.
LEMMA TickInv ==
    ASSUME BlobInv, TypeOK', KeyKnown', Tick
    PROVE  BlobInv'
<1> USE BlobAssumption DEF BlobInv, TypeOK
<1>1. UNCHANGED <<blobs, late, episodeKey, reservationKey, leaseKey, phase, key, token>>
  BY DEF Tick, service
<1>2. \A g \in Handlers : Protected(g)' =>
        Protected(g) /\ age'[g] = age[g] + 1 /\ age'[g] <= UploadProtectWindow
  BY <1>1 DEF Tick, Protected, UploadAlive, Uploading, Older
<1>3. \A g \in Handlers : EraseAlive(g)' =>
        EraseAlive(g) /\ age'[g] = age[g] + 1 /\ age'[g] <= BlobDeleteTimeout
  BY <1>1 DEF Tick, EraseAlive, Older
<1>4. \A r \in ReservationIds : reservationAge'[r] <= reservationAge[r] + 1
  BY DEF Tick, Older
<1>5. \A l \in LeaseIds : leaseAge'[l] <= leaseAge[l] + 1
  BY DEF Tick, Older
<1>6. ASSUME NEW g \in Handlers, Protected(g)'
      PROVE  /\ token[g] \in ReservationIds /\ reservationKey[token[g]] = key[g]
             /\ reservationKey[token[g]] # NoKey /\ reservationAge'[token[g]] <= age'[g]
  <2>1. Protected(g) /\ age'[g] = age[g] + 1
    BY <1>2, <1>6
  <2>2. token[g] \in ReservationIds /\ reservationKey[token[g]] = key[g]
        /\ reservationKey[token[g]] # NoKey /\ reservationAge[token[g]] <= age[g]
    BY <2>1 DEF LiveUploadCounted, AgesBounded, Protected, ReservationActive
  <2>3. reservationAge'[token[g]] <= reservationAge[token[g]] + 1
    BY <1>4, <2>2
  <2>4. reservationAge'[token[g]] \in Nat /\ reservationAge[token[g]] \in Nat /\ age[g] \in Nat
    BY <2>2
  <2>5. QED
    BY <2>1, <2>2, <2>3, <2>4
<1>7. ASSUME NEW g \in Handlers, EraseAlive(g)'
      PROVE  /\ token[g] \in LeaseIds /\ leaseKey[token[g]] = key[g]
             /\ leaseKey[token[g]] # NoKey /\ leaseAge'[token[g]] <= DbWait + age'[g]
  <2>1. EraseAlive(g) /\ age'[g] = age[g] + 1
    BY <1>3, <1>7
  <2>2. token[g] \in LeaseIds /\ leaseKey[token[g]] = key[g]
        /\ leaseKey[token[g]] # NoKey /\ leaseAge[token[g]] <= DbWait + age[g]
    BY <2>1 DEF LiveEraseLeased, AgesBounded, LeaseActive
  <2>3. leaseAge'[token[g]] <= leaseAge[token[g]] + 1
    BY <1>5, <2>2
  <2>4. leaseAge'[token[g]] \in Nat /\ leaseAge[token[g]] \in Nat /\ age[g] \in Nat
    BY <2>2
  <2>5. QED
    BY <2>1, <2>2, <2>3, <2>4
<1>8. MediaPresentUnlessLate' /\ TokensDistinct'
  BY <1>1 DEF MediaPresentUnlessLate, TokensDistinct
<1>9. LiveUploadCounted'
  <2> SUFFICES ASSUME NEW g \in Handlers, Protected(g)'
      PROVE  /\ token'[g] \in ReservationIds
             /\ reservationKey'[token'[g]] = key'[g]
             /\ reservationKey'[token'[g]] # NoKey /\ reservationAge'[token'[g]] < BlobReservationTTL
    BY DEF LiveUploadCounted, Protected, ReservationActive
  <2>1. reservationAge'[token[g]] \in Nat /\ age'[g] \in Nat /\ age'[g] <= UploadProtectWindow
    BY <1>2, <1>6
  <2>2. QED
    BY <1>1, <1>6, <2>1
<1>10. LiveEraseLeased'
  <2> SUFFICES ASSUME NEW g \in Handlers, EraseAlive(g)'
      PROVE  /\ token'[g] \in LeaseIds
             /\ leaseKey'[token'[g]] = key'[g]
             /\ leaseKey'[token'[g]] # NoKey /\ leaseAge'[token'[g]] < BlobDeleteLeaseTTL
             /\ \A f \in Handlers : EraseAlive(f)' /\ key'[f] = key'[g] => f = g
    BY DEF LiveEraseLeased, LeaseActive
  <2>1. leaseAge'[token[g]] \in Nat /\ age'[g] \in Nat /\ age'[g] <= BlobDeleteTimeout
    BY <1>3, <1>7
  <2>2. \A f \in Handlers : EraseAlive(f)' /\ key'[f] = key'[g] => f = g
    BY <1>1, <1>3 DEF LiveEraseLeased
  <2>3. QED
    BY <1>1, <1>7, <2>1, <2>2
<1>11. EraseIsUnwanted'
  BY <1>1, <1>2, <1>3 DEF EraseIsUnwanted, Protected
<1>12. UploadIsStored'
  BY <1>1, <1>2 DEF UploadIsStored, Protected, Uploading
<1>13. AgesBounded'
  BY <1>1, <1>6, <1>7 DEF AgesBounded, Protected
<1>14. QED
  BY <1>8, <1>9, <1>10, <1>11, <1>12, <1>13

\* A delete nobody waits for takes only bytes that are excused already.
LEMMA ServiceInv ==
    ASSUME BlobInv, TypeOK', KeyKnown', NEW k \in Keys, ServiceDelete(k)
    PROVE  BlobInv'
<1> USE DEF BlobInv, TypeOK
<1>1. k \in late /\ blobs' = blobs \ {k} /\ UNCHANGED <<late, rows, request>>
  BY DEF ServiceDelete
<1>2. MediaPresentUnlessLate' /\ UploadIsStored' /\ TokensDistinct'
  BY <1>1 DEF MediaPresentUnlessLate, UploadIsStored, UploadAlive, TokensDistinct, rows, request
<1>3. LiveUploadCounted' /\ LiveEraseLeased' /\ EraseIsUnwanted' /\ AgesBounded'
  BY <1>1 DEF LiveUploadCounted, LiveEraseLeased, EraseIsUnwanted, AgesBounded, UploadAlive, EraseAlive,
     ReservationActive, LeaseActive, rows, request
<1>4. QED
  BY <1>2, <1>3

\* A PUT nobody waits for takes nothing away.
LEMMA ServicePutInv ==
    ASSUME BlobInv, TypeOK', KeyKnown', NEW k \in Keys, ServicePut(k)
    PROVE  BlobInv'
<1> USE DEF BlobInv, TypeOK
<1>1. blobs' = blobs \cup {k} /\ UNCHANGED <<late, rows, request>>
  BY DEF ServicePut
<1>2. MediaPresentUnlessLate' /\ UploadIsStored' /\ TokensDistinct'
  BY <1>1 DEF MediaPresentUnlessLate, UploadIsStored, UploadAlive, TokensDistinct, rows, request
<1>3. LiveUploadCounted' /\ LiveEraseLeased' /\ EraseIsUnwanted' /\ AgesBounded'
  BY <1>1 DEF LiveUploadCounted, LiveEraseLeased, EraseIsUnwanted, AgesBounded, UploadAlive, EraseAlive,
     ReservationActive, LeaseActive, rows, request
<1>4. QED
  BY <1>2, <1>3

\* A transaction that takes a lease on k disturbs no active lease.
LEMMA AcquireKeepsActive ==
    ASSUME TypeOK, NEW k \in Keys, NEW l \in LeaseIds, ~Leased(k), AcquireDeleteLease(k, l)
    PROVE  \A m \in LeaseIds : LeaseActive(m) => leaseKey'[m] = leaseKey[m] /\ leaseAge'[m] = leaseAge[m]
  BY DEF TypeOK, Leased, LeaseActive, AcquireDeleteLease, FreshLease

\* A handler that finishes changes no other.
LEMMA FinishFacts ==
    ASSUME TypeOK, NEW h \in Handlers, Finish(h)
    PROVE  /\ \A g \in Handlers \ {h} : /\ phase'[g] = phase[g] /\ key'[g] = key[g]
                                        /\ token'[g] = token[g] /\ age'[g] = age[g]
           /\ ~Protected(h)' /\ ~EraseAlive(h)' /\ token'[h] \in {token[h], NoToken}
  BY DEF TypeOK, Finish, Protected, EraseAlive, Uploading

\* Nor does one that goes on to a call with no deadline of its own.
LEMMA GotoFacts ==
    ASSUME TypeOK, NEW h \in Handlers, NEW p \in {"release", "undo", "unchecked", "unlease"}, Goto(h, p)
    PROVE  /\ \A g \in Handlers \ {h} : /\ phase'[g] = phase[g] /\ key'[g] = key[g]
                                        /\ token'[g] = token[g] /\ age'[g] = age[g]
           /\ ~Protected(h)' /\ ~EraseAlive(h)' /\ token'[h] \in {token[h], NoToken}
  BY DEF TypeOK, Goto, Protected, EraseAlive, Uploading

\* BlobInv is inductive.
LEMMA NextInv ==
    ASSUME BlobInv, [Next]_vars
    PROVE  BlobInv'
<1>1. CASE UNCHANGED vars
  BY <1>1 DEF vars, BlobInv, TypeOK, KeyKnown, MediaPresentUnlessLate, LiveUploadCounted, LiveEraseLeased,
     EraseIsUnwanted, UploadIsStored, TokensDistinct, AgesBounded, UploadAlive, EraseAlive,
     ReservationActive, LeaseActive
<1>2. CASE Next
  <2>t. TypeOK /\ KeyKnown
    BY DEF BlobInv
  <2>n. TypeOK' /\ KeyKnown'
    BY <1>2, <2>t, TypeNext, KeyKnownNext
  <2>1. ASSUME NEW h \in Handlers, NEW k \in Keys, BeginUpload(h, k) PROVE BlobInv'
    <3>1. /\ \A g \in Handlers \ {h} : /\ phase'[g] = phase[g] /\ key'[g] = key[g]
                                       /\ token'[g] = token[g] /\ age'[g] = age[g]
          /\ ~Protected(h)' /\ ~EraseAlive(h)' /\ token'[h] \in {token[h], NoToken}
      BY <2>1, <2>t DEF BeginUpload, Protected, EraseAlive, Uploading, TypeOK
    <3>2. QED
      BY <2>1, <2>n, <3>1, QuietInv DEF BeginUpload, rows, service
  <2>2. ASSUME NEW h \in Handlers, NEW e \in Episodes, DeleteEpisode(h, e) PROVE BlobInv'
    <3> DEFINE k == episodeKey[e]
    <3>1. /\ k \in Keys /\ phase[h] = "idle"
          /\ UNCHANGED <<blobs, late, reservationKey, reservationAge>>
          /\ \A f \in Episodes : episodeKey'[f] = IF f \in Episodes \ {e} THEN episodeKey[f] ELSE NoKey
      BY <2>2, <2>t DEF DeleteEpisode, TypeOK, service
    <3>2. ASSUME NEW l \in LeaseIds, ~Referenced(k, Episodes \ {e}), ~Leased(k),
                 AcquireDeleteLease(k, l), StartErase(h, k, l)
          PROVE  BlobInv'
      BY <2>n, <3>1, <3>2, StartEraseInv
    <3>3. ASSUME UNCHANGED request,
                 \A m \in LeaseIds : LeaseActive(m) => leaseKey'[m] = leaseKey[m] /\ leaseAge'[m] = leaseAge[m]
          PROVE  BlobInv'
      <4>1. ~Protected(h)' /\ ~EraseAlive(h)'
        BY <3>1, <3>3 DEF Protected, EraseAlive, Uploading, request
      <4>2. QED
        BY <2>n, <3>1, <3>3, <4>1, QuietInv DEF request
    <3>4. CASE ~Referenced(k, Episodes \ {e}) /\ ~Leased(k)
      <4>1. PICK l \in LeaseIds : AcquireDeleteLease(k, l) /\ (StartErase(h, k, l) \/ UNCHANGED request)
        BY <2>2, <3>4 DEF DeleteEpisode
      <4>2. QED
        BY <2>t, <3>1, <3>2, <3>3, <3>4, <4>1, AcquireKeepsActive
    <3>5. CASE Referenced(k, Episodes \ {e}) \/ Leased(k)
      <4>1. UNCHANGED <<leaseKey, leaseAge, request>>
        BY <2>2, <3>5 DEF DeleteEpisode
      <4>2. QED
        BY <3>3, <4>1
    <3>6. QED
      BY <3>4, <3>5
  <2>3. ASSUME NEW h \in Handlers, ReserveBlob(h) PROVE BlobInv'
    <3>1. phase[h] = "reserve" /\ UNCHANGED <<blobs, late, episodeKey, leaseKey, leaseAge>>
      BY <2>3 DEF ReserveBlob, service
    <3>2. CASE Finish(h) /\ UNCHANGED <<reservationKey, reservationAge>>
      BY <2>t, <2>n, <3>1, <3>2, FinishFacts, QuietInv
    <3>3. ASSUME UploadAlive(h), ~Leased(key[h]),
                 NEW r \in ReservationIds, NEW a \in 0..age[h], FreshReservation(r),
                 reservationKey' = [reservationKey EXCEPT ![r] = key[h]],
                 reservationAge' = [reservationAge EXCEPT ![r] = a]
          PROVE  /\ phase' = [phase EXCEPT ![h] = "put"] /\ token' = [token EXCEPT ![h] = r]
                    /\ UNCHANGED <<key, age>> => BlobInv'
                 /\ Finish(h) => BlobInv'
      <4>1. ASSUME phase' = [phase EXCEPT ![h] = "put"], token' = [token EXCEPT ![h] = r],
                   UNCHANGED <<key, age>>
            PROVE  BlobInv'
        BY <2>n, <3>1, <3>3, <4>1, ReserveInv
      <4>2. ASSUME Finish(h) PROVE BlobInv'
        <5>1. \A q \in ReservationIds : reservationKey[q] # NoKey =>
                reservationKey'[q] = reservationKey[q] /\ reservationAge'[q] = reservationAge[q]
          BY <2>t, <3>3 DEF FreshReservation, TypeOK
        <5>2. QED
          BY <2>t, <2>n, <3>1, <4>2, <5>1, FinishFacts, QuietInv
      <4>3. QED
        BY <4>1, <4>2
    <3>4. QED
      BY <2>3, <3>2, <3>3 DEF ReserveBlob
  <2>4. ASSUME NEW h \in Handlers, PutBlob(h) PROVE BlobInv'
    <3>1. phase[h] = "put" /\ blobs \subseteq blobs' /\ UNCHANGED <<late, rows>>
      BY <2>4 DEF PutBlob, Put, service
    <3>2. CASE blobs' = blobs \cup {key[h]} /\ Goto(h, "create")
      BY <2>n, <3>1, <3>2, PutInv
    <3>3. CASE Goto(h, "release")
      BY <2>t, <2>n, <3>1, <3>3, GotoFacts, QuietInv DEF rows
    <3>4. QED
      BY <2>4, <3>2, <3>3 DEF PutBlob, Put
  <2>5. ASSUME NEW h \in Handlers, CreateEpisode(h) PROVE BlobInv'
    <3>1. phase[h] = "create" /\ UNCHANGED <<blobs, late, reservationKey, reservationAge, leaseKey, leaseAge>>
      BY <2>5 DEF CreateEpisode, service
    <3>2. CASE UNCHANGED episodeKey /\ Goto(h, "undo")
      BY <2>t, <2>n, <3>1, <3>2, GotoFacts, QuietInv
    <3>3. ASSUME UploadAlive(h), NEW e \in Episodes, episodeKey' = [episodeKey EXCEPT ![e] = key[h]],
                 NEW p \in {"release", "undo"}, Goto(h, p)
          PROVE  BlobInv'
      BY <2>n, <3>1, <3>3, CreateInv
    <3>4. QED
      BY <2>5, <3>2, <3>3 DEF CreateEpisode
  <2>6. ASSUME NEW h \in Handlers, ReleaseBlob(h) PROVE BlobInv'
    <3>1. UNCHANGED <<blobs, late, episodeKey, leaseKey, leaseAge>>
      BY <2>6 DEF ReleaseBlob, service
    <3>2. \A r \in ReservationIds : r # token[h] =>
            reservationKey'[r] = reservationKey[r] /\ reservationAge'[r] = reservationAge[r]
      BY <2>6 DEF ReleaseBlob, DropReservation, DropReservations
    <3>3. CASE Finish(h)
      BY <2>t, <2>n, <3>1, <3>2, <3>3, FinishFacts, QuietInv
    <3>4. CASE /\ phase' = [phase EXCEPT ![h] = "orphan"] /\ token' = [token EXCEPT ![h] = NoToken]
               /\ UNCHANGED <<key, age>>
      <4>1. /\ \A g \in Handlers \ {h} : /\ phase'[g] = phase[g] /\ key'[g] = key[g]
                                         /\ token'[g] = token[g] /\ age'[g] = age[g]
            /\ ~Protected(h)' /\ ~EraseAlive(h)' /\ token'[h] \in {token[h], NoToken}
        BY <2>t, <3>4 DEF Protected, EraseAlive, Uploading, TypeOK
      <4>2. QED
        BY <2>n, <3>1, <3>2, <4>1, QuietInv
    <3>5. QED
      BY <2>6, <3>3, <3>4 DEF ReleaseBlob
  <2>7. ASSUME NEW h \in Handlers, BlobOrphaned(h) PROVE BlobInv'
    <3>1. /\ phase[h] = "orphan" /\ key[h] \in Keys
          /\ UNCHANGED <<blobs, late, episodeKey, reservationKey, reservationAge>>
      BY <2>7, <2>t DEF BlobOrphaned, KeyKnown, service
    <3>2. CASE Finish(h) /\ UNCHANGED <<leaseKey, leaseAge>>
      BY <2>t, <2>n, <3>1, <3>2, FinishFacts, QuietInv
    <3>3. ASSUME ~Referenced(key[h], Episodes), ~Leased(key[h]),
                 NEW l \in LeaseIds, AcquireDeleteLease(key[h], l), StartErase(h, key[h], l)
          PROVE  BlobInv'
      BY <2>n, <3>1, <3>3, StartEraseInv
    <3>4. ASSUME ~Leased(key[h]), NEW l \in LeaseIds, AcquireDeleteLease(key[h], l), Finish(h)
          PROVE  BlobInv'
      <4>1. \A m \in LeaseIds : LeaseActive(m) => leaseKey'[m] = leaseKey[m] /\ leaseAge'[m] = leaseAge[m]
        BY <2>t, <3>1, <3>4, AcquireKeepsActive
      <4>2. QED
        BY <2>t, <2>n, <3>1, <3>4, <4>1, FinishFacts, QuietInv
    <3>5. CASE Goto(h, "unchecked") /\ UNCHANGED <<leaseKey, leaseAge>>
      BY <2>t, <2>n, <3>1, <3>5, GotoFacts, QuietInv
    <3>6. QED
      BY <2>7, <3>2, <3>3, <3>4, <3>5 DEF BlobOrphaned
  <2>8. ASSUME NEW h \in Handlers, EraseBlob(h) PROVE BlobInv'
    <3>1. Goto(h, "unlease") /\ UNCHANGED rows
      BY <2>8 DEF EraseBlob
    <3>2. CASE EraseAlive(h) /\ blobs' = blobs \ {key[h]} /\ UNCHANGED service
      BY <2>n, <3>1, <3>2, EraseInv DEF service
    <3>3. CASE blobs \cup late \subseteq blobs' \cup late'
      BY <2>t, <2>n, <3>1, <3>3, GotoFacts, QuietInv DEF rows
    <3>4. UNCHANGED <<blobs, service>> => blobs \cup late \subseteq blobs' \cup late'
      BY DEF service
    <3>5. blobs' = blobs \ {key[h]} /\ late' = late \cup {key[h]} => blobs \cup late \subseteq blobs' \cup late'
      OBVIOUS
    <3>6. late' = late \cup {key[h]} /\ UNCHANGED blobs => blobs \cup late \subseteq blobs' \cup late'
      OBVIOUS
    <3>7. QED
      BY <2>8, <3>2, <3>3, <3>4, <3>5, <3>6 DEF EraseBlob, Delete, AbandonDelete
  <2>9. ASSUME NEW h \in Handlers, ReleaseDeleteLease(h) PROVE BlobInv'
    <3>1. Finish(h) /\ UNCHANGED <<blobs, late, episodeKey, reservationKey, reservationAge>>
      BY <2>9 DEF ReleaseDeleteLease, service
    <3>2. \A l \in LeaseIds : l # token[h] => leaseKey'[l] = leaseKey[l] /\ leaseAge'[l] = leaseAge[l]
      BY <2>9 DEF ReleaseDeleteLease, DropLease, DropLeases
    <3>3. QED
      BY <2>t, <2>n, <3>1, <3>2, FinishFacts, QuietInv
  <2>10. ASSUME NEW h \in Handlers, Crash(h) \/ OrphanUnchecked(h) PROVE BlobInv'
    <3>1. Finish(h) /\ blobs \cup late \subseteq blobs' \cup late' /\ UNCHANGED rows
      BY <2>10 DEF Crash, OrphanUnchecked, AbandonDelete, service
    <3>2. QED
      BY <2>t, <2>n, <3>1, FinishFacts, QuietInv DEF rows
  <2>11. CASE Tick
    BY <2>11, <2>n, TickInv
  <2>12. ASSUME NEW k \in Keys, ServiceDelete(k) \/ ServicePut(k) PROVE BlobInv'
    BY <2>n, <2>12, ServiceInv, ServicePutInv
  <2>13. QED
    BY <1>2, <2>1, <2>2, <2>3, <2>4, <2>5, <2>6, <2>7, <2>8, <2>9, <2>10, <2>11, <2>12 DEF Next, HandlerStep
<1>3. QED
  BY <1>1, <1>2

\* The reservation and lease protocol keeps its invariant, for any number of
\* handlers and keys and whatever fails.
THEOREM BlobInvariant ==
    Spec => []BlobInv
<1>1. BlobInv /\ [Next]_vars => BlobInv'
  BY NextInv
<1>2. QED
  BY <1>1, InitInv, PTL DEF Spec

\* Every episode's media is present, unless a delete of its key got past its
\* deadline (Store.DeleteEpisode, ReserveBlob).
THEOREM MediaPresentAlways ==
    Spec => []MediaPresentUnlessLate
<1>1. BlobInv => MediaPresentUnlessLate
  BY DEF BlobInv
<1>2. QED
  BY <1>1, BlobInvariant, PTL

\* Every upload that may still create its episode is counted by orphan checks.
THEOREM LiveUploadCountedAlways ==
    Spec => []LiveUploadCounted
<1>1. BlobInv => LiveUploadCounted
  BY DEF BlobInv
<1>2. QED
  BY <1>1, BlobInvariant, PTL

\* Every delete that can take effect holds the key's one active lease.
THEOREM LiveEraseLeasedAlways ==
    Spec => []LiveEraseLeased
<1>1. BlobInv => LiveEraseLeased
  BY DEF BlobInv
<1>2. QED
  BY <1>1, BlobInvariant, PTL

\* Every step is a step of the abstract store, or none.
LEMMA MediaStep ==
    ASSUME BlobInv, [Next]_vars
    PROVE  [Media!Next]_(Media!storeVars)
<1> DEFINE Step == [Media!Next]_(Media!storeVars)
<1>t. TypeOK /\ KeyKnown
  BY DEF BlobInv
<1>q. UNCHANGED <<blobs, late, episodeKey>> => Step
  BY DEF Media!storeVars
<1>1. CASE UNCHANGED vars
  BY <1>1, <1>q DEF vars
<1>2. ASSUME NEW h \in Handlers, NEW k \in Keys, BeginUpload(h, k) PROVE Step
  BY <1>2, <1>q DEF BeginUpload, service, rows
<1>3. ASSUME NEW h \in Handlers,
             ReserveBlob(h) \/ ReleaseBlob(h) \/ BlobOrphaned(h) \/ OrphanUnchecked(h) \/ ReleaseDeleteLease(h)
      PROVE  Step
  BY <1>3, <1>q DEF ReserveBlob, ReleaseBlob, BlobOrphaned, OrphanUnchecked, ReleaseDeleteLease, service, rows
<1>4. CASE Tick
  BY <1>4, <1>q DEF Tick, service
<1>5. ASSUME NEW h \in Handlers, NEW e \in Episodes, DeleteEpisode(h, e) PROVE Step
  <2>1. Media!Remove(e)
    BY <1>5 DEF DeleteEpisode, Media!Remove, service
  <2>2. QED
    BY <2>1 DEF Media!Next
<1>6. ASSUME NEW h \in Handlers, PutBlob(h) PROVE Step
  <2>1. key[h] \in Keys
    BY <1>6, <1>t DEF PutBlob, KeyKnown
  <2>2. Media!Put(key[h]) \/ UNCHANGED <<blobs, late, episodeKey>>
    BY <1>6 DEF PutBlob, Put, Media!Put, service, rows
  <2>3. QED
    BY <1>q, <2>1, <2>2 DEF Media!Next
<1>7. ASSUME NEW h \in Handlers, CreateEpisode(h) PROVE Step
  <2>1. key[h] \in Keys
    BY <1>7, <1>t DEF CreateEpisode, KeyKnown
  <2>2. UNCHANGED <<blobs, late>>
    BY <1>7 DEF CreateEpisode, service
  <2>3. ASSUME UploadAlive(h), NEW e \in Episodes, episodeKey[e] = NoKey,
               episodeKey' = [episodeKey EXCEPT ![e] = key[h]]
        PROVE  Step
    <3>1. key[h] \in blobs \cup late
      BY <1>7, <2>3 DEF CreateEpisode, BlobInv, UploadIsStored
    <3>2. Media!Create(e, key[h])
      BY <2>2, <2>3, <3>1 DEF Media!Create
    <3>3. QED
      BY <2>1, <3>2 DEF Media!Next
  <2>4. QED
    BY <1>7, <1>q, <2>2, <2>3 DEF CreateEpisode
<1>8. ASSUME NEW h \in Handlers, EraseBlob(h) PROVE Step
  <2>1. key[h] \in Keys /\ UNCHANGED episodeKey
    BY <1>8, <1>t DEF EraseBlob, KeyKnown, rows
  <2>2. CASE EraseAlive(h) /\ blobs' = blobs \ {key[h]} /\ UNCHANGED service
    <3>1. ~Media!Owned(key[h])
      BY <2>2 DEF BlobInv, EraseIsUnwanted, Media!Owned
    <3>2. CASE key[h] \in blobs
      <4>1. Media!Reclaim(key[h])
        BY <2>1, <2>2, <3>1, <3>2 DEF Media!Reclaim, service
      <4>2. QED
        BY <2>1, <4>1 DEF Media!Next
    <3>3. CASE key[h] \notin blobs
      BY <1>q, <2>1, <2>2, <3>3 DEF service
    <3>4. QED
      BY <3>2, <3>3
  <2>3. CASE UNCHANGED <<blobs, service>>
    BY <1>q, <2>1, <2>3 DEF service
  <2>4. CASE late' = late \cup {key[h]} /\ blobs' \in {blobs, blobs \ {key[h]}}
    <3>1. Media!Overrun(key[h])
      BY <2>1, <2>4 DEF Media!Overrun
    <3>2. QED
      BY <2>1, <3>1 DEF Media!Next
  <2>5. QED
    BY <1>8, <2>2, <2>3, <2>4 DEF EraseBlob, Delete, AbandonDelete
<1>9. ASSUME NEW k \in Keys, ServiceDelete(k) PROVE Step
  <2>1. Media!LateDelete(k)
    BY <1>9, <1>t DEF ServiceDelete, Media!LateDelete, TypeOK, rows
  <2>2. QED
    BY <2>1 DEF Media!Next
<1>10. ASSUME NEW k \in Keys, ServicePut(k) PROVE Step
  <2>1. Media!Put(k)
    BY <1>10 DEF ServicePut, Media!Put, rows
  <2>2. QED
    BY <2>1 DEF Media!Next
<1>11. ASSUME NEW h \in Handlers, Crash(h) PROVE Step
  <2>1. key[h] \in Keys /\ UNCHANGED <<blobs, episodeKey>>
    BY <1>11, <1>t DEF Crash, KeyKnown, rows
  <2>2. late' = late \/ Media!Overrun(key[h])
    BY <1>11, <2>1 DEF Crash, AbandonDelete, service, Media!Overrun
  <2>3. QED
    BY <1>q, <2>1, <2>2 DEF Media!Next
<1>12. QED
  BY <1>1, <1>2, <1>3, <1>4, <1>5, <1>6, <1>7, <1>8, <1>9, <1>10, <1>11 DEF Next, HandlerStep

\* The reservation and lease protocol implements the abstract media store.
THEOREM MediaStoreImplemented == Spec => ImplementsMediaStore
<1>1. Init => Media!Init
  BY DEF Init, Media!Init
<1>2. BlobInv /\ [Next]_vars => [Media!Next]_(Media!storeVars)
  BY MediaStep
<1>3. QED
  BY <1>1, <1>2, BlobInvariant, PTL DEF Spec, ImplementsMediaStore, Media!Spec
-----------------------------------------------------------------------------
(* Where blobs are forgotten.                                              *)

\* Handler h answers for the blob of k.
InCharge(h, k) == key[h] = k /\ phase[h] \notin {"idle", "reserve"}

LEMMA AccountedMeans ==
    \A k : Accounted(k) <=> \/ \E e \in Episodes : episodeKey[e] = k
                            \/ \E r \in ReservationIds : reservationKey[r] = k /\ ReservationActive(r)
                            \/ \E l \in LeaseIds : leaseKey[l] = k /\ LeaseActive(l)
                            \/ \E h \in Handlers : InCharge(h, k)
BY DEF Accounted, InCharge

\* The end of a request touches no other request.
LEMMA FinishKeeps ==
    ASSUME TypeOK, NEW h \in Handlers, Finish(h)
    PROVE  \A g \in Handlers \ {h} : phase'[g] = phase[g] /\ key'[g] = key[g]
BY DEF TypeOK, Finish

\* A lease just taken accounts for its key: it is younger than its limit.
LEMMA AcquireAccounts ==
    ASSUME TypeOK, NEW k \in Keys, NEW l \in LeaseIds, AcquireDeleteLease(k, l)
    PROVE  Accounted(k)'
<1>1. leaseKey'[l] = k
  BY DEF AcquireDeleteLease
<1>2. leaseAge'[l] \in 0..DbWait
  BY DEF AcquireDeleteLease
<1>3. leaseAge'[l] < BlobDeleteLeaseTTL
  BY <1>2, BlobAssumption
<1>4. leaseKey'[l] = k /\ LeaseActive(l)'
  BY <1>1, <1>3, BlobAssumption DEF LeaseActive
<1> QED BY <1>4 DEF Accounted

\* What a handler's step keeps of the account: the other handlers, and the rows in force that
\* it does not drop.
LEMMA StillAccounted ==
    ASSUME NEW h \in Handlers, NEW k, Accounted(k), ~InCharge(h, k),
           \A g \in Handlers \ {h} : phase'[g] = phase[g] /\ key'[g] = key[g],
           \A e \in Episodes : episodeKey[e] = k => episodeKey'[e] = k,
           \A r \in ReservationIds : reservationKey[r] = k /\ ReservationActive(r) =>
               reservationKey'[r] = k /\ reservationAge'[r] = reservationAge[r],
           \A l \in LeaseIds : leaseKey[l] = k /\ LeaseActive(l) =>
               leaseKey'[l] = k /\ leaseAge'[l] = leaseAge[l]
    PROVE  Accounted(k)'
<1>1. CASE \E e \in Episodes : episodeKey[e] = k
  BY <1>1 DEF Accounted
<1>2. CASE \E r \in ReservationIds : reservationKey[r] = k /\ ReservationActive(r)
  <2>1. PICK r \in ReservationIds : reservationKey[r] = k /\ ReservationActive(r)
    BY <1>2
  <2>2. reservationKey'[r] = k /\ ReservationActive(r)'
    BY <2>1 DEF ReservationActive
  <2> QED BY <2>2 DEF Accounted
<1>3. CASE \E l \in LeaseIds : leaseKey[l] = k /\ LeaseActive(l)
  <2>1. PICK l \in LeaseIds : leaseKey[l] = k /\ LeaseActive(l)
    BY <1>3
  <2>2. leaseKey'[l] = k /\ LeaseActive(l)'
    BY <2>1 DEF LeaseActive
  <2> QED BY <2>2 DEF Accounted
<1>4. CASE \E g \in Handlers : InCharge(g, k)
  <2>1. PICK g \in Handlers : InCharge(g, k)
    BY <1>4
  <2>2. key'[g] = k /\ phase'[g] \notin {"idle", "reserve"}
    BY <2>1 DEF InCharge
  <2> QED BY <2>2 DEF Accounted
<1> QED BY <1>1, <1>2, <1>3, <1>4, AccountedMeans

\* The row of a handler's token stays for its key: rows are made under fresh ids.
LEMMA TokensStep == TypeOK /\ KeyKnown /\ TokensNameKeys /\ [Next]_vars => TokensNameKeys'
<1> SUFFICES ASSUME TypeOK, KeyKnown, TokensNameKeys, [Next]_vars PROVE TokensNameKeys'
  OBVIOUS
<1> USE BlobAssumption DEF TypeOK, TokensNameKeys, Tokens
<1>r. ASSUME NEW h \in Handlers, phase[h] # "reserve",
             \A g \in Handlers \ {h} : phase'[g] = phase[g] /\ key'[g] = key[g] /\ token'[g] = token[g],
             \/ token'[h] = NoToken
             \/ token'[h] = token[h] /\ key'[h] = key[h] /\ phase'[h] \notin {"idle", "reserve"},
             \A r \in ReservationIds : reservationKey'[r] \in {reservationKey[r], NoKey},
             \A l \in LeaseIds : leaseKey'[l] \in {leaseKey[l], NoKey}
      PROVE  TokensNameKeys'
  BY <1>r
<1>1. ASSUME NEW h \in Handlers, NEW k \in Keys, BeginUpload(h, k) PROVE TokensNameKeys'
  BY <1>1 DEF BeginUpload, rows
<1>2. ASSUME NEW h \in Handlers, NEW k \in Keys, NEW l \in LeaseIds, AcquireDeleteLease(k, l), StartErase(h, k, l),
             UNCHANGED reservationKey
      PROVE  TokensNameKeys'
  <2>1. \A g \in Handlers : token[g] # l
    BY <1>2 DEF AcquireDeleteLease, FreshLease
  <2>2. leaseKey'[l] = k /\ \A m \in LeaseIds \ {l} : leaseKey'[m] \in {leaseKey[m], NoKey}
    BY <1>2 DEF AcquireDeleteLease
  <2>3. \A g \in Handlers \ {h} : phase'[g] = phase[g] /\ key'[g] = key[g] /\ token'[g] = token[g]
    BY <1>2 DEF StartErase
  <2>4. phase'[h] = "erase" /\ key'[h] = k /\ token'[h] = l
    BY <1>2 DEF StartErase
  <2> QED BY <1>2, <2>1, <2>2, <2>3, <2>4
<1>3. ASSUME NEW h \in Handlers, NEW k \in Keys, NEW l \in LeaseIds, AcquireDeleteLease(k, l),
             Finish(h) \/ UNCHANGED request, UNCHANGED reservationKey
      PROVE  TokensNameKeys'
  <2>1. \A g \in Handlers : token[g] # l
    BY <1>3 DEF AcquireDeleteLease, FreshLease
  <2>2. \A m \in LeaseIds \ {l} : leaseKey'[m] \in {leaseKey[m], NoKey}
    BY <1>3 DEF AcquireDeleteLease
  <2>3. \A g \in Handlers : \/ phase'[g] = phase[g] /\ key'[g] = key[g] /\ token'[g] = token[g]
                            \/ token'[g] = NoToken
    BY <1>3 DEF Finish, request
  <2> QED BY <1>3, <2>1, <2>2, <2>3
<1>4. ASSUME NEW h \in Handlers, NEW e \in Episodes, DeleteEpisode(h, e) PROVE TokensNameKeys'
  <2>1. episodeKey[e] \in Keys
    BY <1>4 DEF DeleteEpisode
  <2>2. CASE UNCHANGED <<leaseKey, leaseAge, request>>
    BY <1>4, <2>2 DEF DeleteEpisode, request
  <2> QED BY <1>2, <1>3, <1>4, <2>1, <2>2 DEF DeleteEpisode
<1>5. ASSUME NEW h \in Handlers, ReserveBlob(h) PROVE TokensNameKeys'
  <2>1. CASE Finish(h) /\ UNCHANGED reservationKey
    <3>1. \A g \in Handlers : \/ phase'[g] = phase[g] /\ key'[g] = key[g] /\ token'[g] = token[g]
                              \/ token'[g] = NoToken
      BY <2>1 DEF Finish
    <3> QED BY <1>5, <2>1, <3>1 DEF ReserveBlob
  <2>2. ASSUME NEW r \in ReservationIds, FreshReservation(r),
               reservationKey' = [reservationKey EXCEPT ![r] = key[h]],
               \/ phase' = [phase EXCEPT ![h] = "put"] /\ token' = [token EXCEPT ![h] = r] /\ UNCHANGED key
               \/ Finish(h)
        PROVE  TokensNameKeys'
    <3>1. \A g \in Handlers : token[g] # r
      BY <2>2 DEF FreshReservation
    <3>2. \A q \in ReservationIds \ {r} : reservationKey'[q] = reservationKey[q]
      BY <2>2
    <3>3. \A g \in Handlers : \/ phase'[g] = phase[g] /\ key'[g] = key[g] /\ token'[g] = token[g]
                              \/ token'[g] = NoToken
                              \/ phase'[g] = "put" /\ token'[g] = r /\ reservationKey'[r] = key'[g]
      BY <2>2 DEF Finish
    <3>4. UNCHANGED leaseKey
      BY <1>5 DEF ReserveBlob
    <3> QED BY <3>1, <3>2, <3>3, <3>4
  <2> QED BY <1>5, <2>1, <2>2 DEF ReserveBlob
<1>6. ASSUME NEW h \in Handlers, PutBlob(h) \/ CreateEpisode(h) \/ EraseBlob(h) PROVE TokensNameKeys'
  <2>1. /\ \A g \in Handlers \ {h} : phase'[g] = phase[g] /\ key'[g] = key[g] /\ token'[g] = token[g]
        /\ token'[h] = token[h] /\ key'[h] = key[h] /\ phase'[h] \notin {"idle", "reserve"}
        /\ UNCHANGED <<reservationKey, leaseKey>>
    BY <1>6 DEF PutBlob, CreateEpisode, EraseBlob, Goto, rows
  <2>2. phase[h] # "reserve"
    BY <1>6 DEF PutBlob, CreateEpisode, EraseBlob
  <2> QED BY <1>r, <2>1, <2>2
<1>7. ASSUME NEW h \in Handlers, ReleaseBlob(h) \/ ReleaseDeleteLease(h) PROVE TokensNameKeys'
  <2>1. /\ \A g \in Handlers \ {h} : phase'[g] = phase[g] /\ key'[g] = key[g] /\ token'[g] = token[g]
        /\ token'[h] = NoToken
    BY <1>7 DEF ReleaseBlob, ReleaseDeleteLease, Finish
  <2>2. /\ \A r \in ReservationIds : reservationKey'[r] \in {reservationKey[r], NoKey}
        /\ \A l \in LeaseIds : leaseKey'[l] \in {leaseKey[l], NoKey}
    BY <1>7 DEF ReleaseBlob, ReleaseDeleteLease, DropReservation, DropReservations, DropLease, DropLeases
  <2>3. phase[h] # "reserve"
    BY <1>7 DEF ReleaseBlob, ReleaseDeleteLease
  <2> QED BY <1>r, <2>1, <2>2, <2>3
<1>8. ASSUME NEW h \in Handlers, BlobOrphaned(h) PROVE TokensNameKeys'
  <2>k. phase[h] = "orphan" /\ key[h] \in Keys
    BY <1>8 DEF BlobOrphaned, KeyKnown
  <2>1. CASE Finish(h) /\ UNCHANGED leaseKey
    <3>1. /\ \A g \in Handlers \ {h} : phase'[g] = phase[g] /\ key'[g] = key[g] /\ token'[g] = token[g]
          /\ token'[h] = NoToken
      BY <2>1 DEF Finish
    <3> QED BY <1>8, <1>r, <2>1, <2>k, <3>1 DEF BlobOrphaned
  <2>2. CASE Goto(h, "unchecked") /\ UNCHANGED leaseKey
    <3>1. /\ \A g \in Handlers \ {h} : phase'[g] = phase[g] /\ key'[g] = key[g] /\ token'[g] = token[g]
          /\ token'[h] = token[h] /\ key'[h] = key[h] /\ phase'[h] = "unchecked"
      BY <2>2 DEF Goto
    <3> QED BY <1>8, <1>r, <2>2, <2>k, <3>1 DEF BlobOrphaned
  <2> QED BY <1>2, <1>3, <1>8, <2>1, <2>2, <2>k DEF BlobOrphaned
<1>9. ASSUME NEW h \in Handlers, Crash(h) \/ OrphanUnchecked(h) PROVE TokensNameKeys'
  <2>1. \A g \in Handlers : \/ phase'[g] = phase[g] /\ key'[g] = key[g] /\ token'[g] = token[g]
                            \/ token'[g] = NoToken
    BY <1>9 DEF Crash, OrphanUnchecked, Finish
  <2>2. UNCHANGED <<reservationKey, leaseKey>>
    BY <1>9 DEF Crash, OrphanUnchecked, rows
  <2> QED BY <2>1, <2>2
<1>10. CASE UNCHANGED <<phase, key, token, reservationKey, leaseKey>>
  BY <1>10
<1>11. CASE Tick \/ (\E k \in Keys : ServiceDelete(k) \/ ServicePut(k)) \/ UNCHANGED vars
  BY <1>10, <1>11 DEF Tick, ServiceDelete, ServicePut, rows, request, vars
<1> QED BY <1>1, <1>4, <1>5, <1>6, <1>7, <1>8, <1>9, <1>11 DEF Next, HandlerStep

\* The owner of a row is the handler of its key, in every reachable state.
THEOREM TokensNameKeysAlways == Spec => []TokensNameKeys
<1>1. Init => TokensNameKeys
  BY BlobAssumption DEF Init, TokensNameKeys
<1>2. BlobInv => TypeOK /\ KeyKnown
  BY DEF BlobInv
<1>3. QED
  BY <1>1, <1>2, BlobInvariant, TokensStep, PTL DEF Spec

\* A second that passes keeps the account of every blob, or ends a row nobody owns.
LEMMA TickStep ==
    ASSUME TypeOK, TokensNameKeys, Tick, NEW k \in Keys, Accounted(k)
    PROVE  Accounted(k)' \/ LeftBehindExpires(k)
<1>u. UNCHANGED <<episodeKey, reservationKey, leaseKey, phase, key, token>> /\ k # NoKey
  BY BlobAssumption DEF Tick
<1>c. (\E g \in Handlers : InCharge(g, k)) => Accounted(k)'
  BY <1>u DEF InCharge, Accounted
<1>1. CASE \E e \in Episodes : episodeKey[e] = k
  BY <1>1, <1>u DEF Accounted
<1>2. ASSUME NEW r \in ReservationIds, reservationKey[r] = k, ReservationActive(r)
      PROVE  Accounted(k)' \/ LeftBehindExpires(k)
  <2>1. CASE ReservationActive(r)'
    <3>1. reservationKey'[r] = k /\ ReservationActive(r)'
      BY <1>2, <1>u, <2>1
    <3> QED BY <3>1 DEF Accounted
  <2>2. CASE \E h \in Handlers : token[h] = r
    <3>1. PICK h \in Handlers : token[h] = r
      BY <2>2
    <3>2. key[h] = k /\ phase[h] \notin {"idle", "reserve"}
      BY <1>2, <1>u, <3>1, BlobAssumption DEF TokensNameKeys
    <3> QED BY <1>c, <3>2 DEF InCharge
  <2>3. CASE ~ReservationActive(r)' /\ \A h \in Handlers : token[h] # r
    BY <1>2, <2>3 DEF LeftBehindExpires
  <2> QED BY <2>1, <2>2, <2>3
<1>3. ASSUME NEW l \in LeaseIds, leaseKey[l] = k, LeaseActive(l)
      PROVE  Accounted(k)' \/ LeftBehindExpires(k)
  <2>1. CASE LeaseActive(l)'
    <3>1. leaseKey'[l] = k /\ LeaseActive(l)'
      BY <1>3, <1>u, <2>1
    <3> QED BY <3>1 DEF Accounted
  <2>2. CASE \E h \in Handlers : token[h] = l
    <3>1. PICK h \in Handlers : token[h] = l
      BY <2>2
    <3>2. key[h] = k /\ phase[h] \notin {"idle", "reserve"}
      BY <1>3, <1>u, <3>1, BlobAssumption DEF TokensNameKeys
    <3> QED BY <1>c, <3>2 DEF InCharge
  <2>3. CASE ~LeaseActive(l)' /\ \A h \in Handlers : token[h] # l
    BY <1>3, <2>3 DEF LeftBehindExpires
  <2> QED BY <2>1, <2>2, <2>3
<1> QED BY <1>c, <1>1, <1>2, <1>3, AccountedMeans

\* A step keeps the account of every blob, or is one of those that may lose it.
LEMMA ForgetStep ==
    ASSUME TypeOK, KeyKnown, TokensNameKeys, Next,
           NEW k \in blobs', k \in blobs => Accounted(k)
    PROVE  \/ Accounted(k)'
           \/ \E h \in Handlers : key[h] = k /\ LetsGo(h)
           \/ Tick /\ LeftBehindExpires(k)
           \/ ServicePut(k)
<1> DEFINE Goal == \/ Accounted(k)'
                   \/ \E h \in Handlers : key[h] = k /\ LetsGo(h)
                   \/ Tick /\ LeftBehindExpires(k)
                   \/ ServicePut(k)
<1>k. k \in Keys /\ k # NoKey
  BY TypeNext, BlobAssumption DEF TypeOK
<1>1. ASSUME NEW h \in Handlers, NEW j \in Keys, BeginUpload(h, j) PROVE Goal
  <2>1. ~InCharge(h, k) /\ Accounted(k)
    BY <1>1 DEF BeginUpload, InCharge
  <2>2. \A g \in Handlers \ {h} : phase'[g] = phase[g] /\ key'[g] = key[g]
    BY <1>1 DEF BeginUpload, TypeOK
  <2>3. Accounted(k)'
    BY <1>1, <2>1, <2>2, StillAccounted DEF BeginUpload, rows
  <2> QED BY <2>3
<1>2. ASSUME NEW h \in Handlers, NEW e \in Episodes, DeleteEpisode(h, e) PROVE Goal
  <2>1. ~InCharge(h, k) /\ Accounted(k) /\ episodeKey[e] \in Keys
    BY <1>2 DEF DeleteEpisode, InCharge, TypeOK
  <2>2. \A g \in Handlers \ {h} : phase'[g] = phase[g] /\ key'[g] = key[g]
    BY <1>2 DEF DeleteEpisode, StartErase, request, TypeOK
  <2>3. /\ \A f \in Episodes \ {e} : episodeKey'[f] = episodeKey[f]
        /\ UNCHANGED <<reservationKey, reservationAge>>
    BY <1>2 DEF DeleteEpisode, TypeOK
  <2>4. \/ UNCHANGED <<leaseKey, leaseAge>>
        \/ ~Leased(episodeKey[e]) /\ \E l \in LeaseIds : AcquireDeleteLease(episodeKey[e], l)
    BY <1>2 DEF DeleteEpisode
  <2>5. \A l \in LeaseIds : LeaseActive(l) => leaseKey'[l] = leaseKey[l] /\ leaseAge'[l] = leaseAge[l]
    BY <2>1, <2>4, AcquireKeepsActive
  <2>6. CASE k # episodeKey[e]
    <3>1. \A f \in Episodes : episodeKey[f] = k => episodeKey'[f] = k
      BY <2>3, <2>6
    <3>2. Accounted(k)'
      BY <2>1, <2>2, <2>3, <2>5, <3>1, StillAccounted
    <3> QED BY <3>2
  <2>7. CASE k = episodeKey[e]
    <3>1. CASE \E l \in LeaseIds : AcquireDeleteLease(k, l)
      BY <1>k, <3>1, AcquireAccounts
    <3>2. CASE \E f \in Episodes \ {e} : episodeKey[f] = k
      <4>1. \E f \in Episodes : episodeKey'[f] = k
        BY <2>3, <3>2
      <4> QED BY <4>1 DEF Accounted
    <3>3. CASE \E r \in ReservationIds : reservationKey[r] = k /\ ReservationActive(r)
      <4>1. PICK r \in ReservationIds : reservationKey[r] = k /\ ReservationActive(r)
        BY <3>3
      <4>2. reservationKey'[r] = k /\ ReservationActive(r)'
        BY <2>3, <4>1 DEF ReservationActive
      <4> QED BY <4>2 DEF Accounted
    <3>4. CASE \E l \in LeaseIds : leaseKey[l] = k /\ LeaseActive(l)
      <4>1. PICK l \in LeaseIds : leaseKey[l] = k /\ LeaseActive(l)
        BY <3>4
      <4>2. leaseKey'[l] = k /\ LeaseActive(l)'
        BY <2>5, <4>1 DEF LeaseActive
      <4> QED BY <4>2 DEF Accounted
    <3> QED BY <1>2, <2>7, <3>1, <3>2, <3>3, <3>4 DEF DeleteEpisode, Referenced, Leased
  <2> QED BY <2>6, <2>7
<1>3. ASSUME NEW h \in Handlers, ReserveBlob(h) PROVE Goal
  <2>1. ~InCharge(h, k) /\ Accounted(k)
    BY <1>3 DEF ReserveBlob, InCharge
  <2>2. \A g \in Handlers \ {h} : phase'[g] = phase[g] /\ key'[g] = key[g]
    BY <1>3 DEF ReserveBlob, Finish, TypeOK
  <2>3. \A r \in ReservationIds : reservationKey[r] = k =>
            reservationKey'[r] = k /\ reservationAge'[r] = reservationAge[r]
    BY <1>3, <1>k DEF ReserveBlob, FreshReservation, TypeOK
  <2>4. Accounted(k)'
    BY <1>3, <2>1, <2>2, <2>3, StillAccounted DEF ReserveBlob
  <2> QED BY <2>4
<1>4. ASSUME NEW h \in Handlers, PutBlob(h) \/ CreateEpisode(h) \/ EraseBlob(h) PROVE Goal
  <2>1. /\ \A g \in Handlers \ {h} : phase'[g] = phase[g] /\ key'[g] = key[g]
        /\ key'[h] = key[h] /\ phase'[h] \notin {"idle", "reserve"}
        /\ UNCHANGED <<reservationKey, reservationAge, leaseKey, leaseAge>>
    BY <1>4 DEF PutBlob, CreateEpisode, EraseBlob, Goto, rows, TypeOK
  <2>2. \A f \in Episodes : episodeKey[f] = k => episodeKey'[f] = k
    BY <1>4, <1>k DEF PutBlob, CreateEpisode, EraseBlob, rows, TypeOK
  <2>3. CASE key[h] = k
    BY <2>1, <2>3 DEF Accounted
  <2>4. CASE key[h] # k
    <3>1. Accounted(k)
      BY <1>4, <2>4 DEF PutBlob, Put, CreateEpisode, EraseBlob, Delete
    <3>2. ~InCharge(h, k)
      BY <2>4 DEF InCharge
    <3>3. Accounted(k)'
      BY <2>1, <2>2, <3>1, <3>2, StillAccounted
    <3> QED BY <3>3
  <2> QED BY <2>3, <2>4
<1>5. ASSUME NEW h \in Handlers, ReleaseBlob(h) PROVE Goal
  <2>1. CASE key[h] = k /\ phase[h] = "release"
    BY <1>5, <2>1 DEF LetsGo
  <2>2. CASE key[h] = k /\ phase[h] = "undo"
    <3>1. key'[h] = k /\ phase'[h] = "orphan"
      BY <1>5, <2>2 DEF ReleaseBlob, TypeOK
    <3> QED BY <3>1 DEF Accounted
  <2>3. CASE key[h] # k
    <3>1. ~InCharge(h, k) /\ Accounted(k)
      BY <1>5, <2>3 DEF ReleaseBlob, InCharge
    <3>2. \A g \in Handlers \ {h} : phase'[g] = phase[g] /\ key'[g] = key[g]
      BY <1>5 DEF ReleaseBlob, Finish, TypeOK
    <3>3. \A r \in ReservationIds : reservationKey[r] = k => r # token[h]
      BY <1>k, <2>3 DEF TokensNameKeys
    <3>4. \A r \in ReservationIds : reservationKey[r] = k =>
              reservationKey'[r] = k /\ reservationAge'[r] = reservationAge[r]
      BY <1>5, <3>3 DEF ReleaseBlob, DropReservation, DropReservations
    <3>5. UNCHANGED <<episodeKey, leaseKey, leaseAge>>
      BY <1>5 DEF ReleaseBlob
    <3>6. Accounted(k)'
      BY <3>1, <3>2, <3>4, <3>5, StillAccounted
    <3> QED BY <3>6
  <2> QED BY <1>5, <2>1, <2>2, <2>3 DEF ReleaseBlob
<1>6. ASSUME NEW h \in Handlers, BlobOrphaned(h) PROVE Goal
  <2>1. /\ UNCHANGED <<episodeKey, reservationKey, reservationAge>>
        /\ Accounted(k) /\ key[h] \in Keys
    BY <1>6 DEF BlobOrphaned, KeyKnown
  <2>2. \/ UNCHANGED <<leaseKey, leaseAge>>
        \/ ~Leased(key[h]) /\ \E l \in LeaseIds : AcquireDeleteLease(key[h], l)
    BY <1>6 DEF BlobOrphaned
  <2>3. \A l \in LeaseIds : LeaseActive(l) => leaseKey'[l] = leaseKey[l] /\ leaseAge'[l] = leaseAge[l]
    BY <2>1, <2>2, AcquireKeepsActive
  <2>4. CASE key[h] # k
    <3>1. \A g \in Handlers \ {h} : phase'[g] = phase[g] /\ key'[g] = key[g]
      BY <1>6 DEF BlobOrphaned, StartErase, Finish, Goto, TypeOK
    <3>2. ~InCharge(h, k)
      BY <2>4 DEF InCharge
    <3>3. Accounted(k)'
      BY <2>1, <2>3, <3>1, <3>2, StillAccounted
    <3> QED BY <3>3
  <2>5. CASE key[h] = k
    <3>1. CASE \E l \in LeaseIds : AcquireDeleteLease(k, l)
      BY <1>k, <3>1, AcquireAccounts
    <3>2. CASE (Referenced(k, Episodes) \/ Leased(k)) /\ UNCHANGED <<leaseKey, leaseAge>>
      <4>1. (Referenced(k, Episodes) \/ Leased(k))'
        BY <2>1, <3>2 DEF Referenced, Leased, ReservationActive, LeaseActive
      <4>2. Accounted(k)'
        BY <4>1 DEF Referenced, Leased, Accounted
      <4> QED BY <4>2
    <3>3. CASE Goto(h, "unchecked")
      <4>1. key'[h] = k /\ phase'[h] = "unchecked"
        BY <2>5, <3>3 DEF Goto, TypeOK
      <4> QED BY <4>1 DEF Accounted
    <3> QED BY <1>6, <2>5, <3>1, <3>2, <3>3 DEF BlobOrphaned
  <2> QED BY <2>4, <2>5
<1>7. ASSUME NEW h \in Handlers, ReleaseDeleteLease(h) PROVE Goal
  <2>1. CASE key[h] = k
    BY <1>7, <2>1 DEF LetsGo
  <2>2. CASE key[h] # k
    <3>1. ~InCharge(h, k) /\ Accounted(k)
      BY <1>7, <2>2 DEF ReleaseDeleteLease, InCharge
    <3>2. \A g \in Handlers \ {h} : phase'[g] = phase[g] /\ key'[g] = key[g]
      BY <1>7, FinishKeeps DEF ReleaseDeleteLease
    <3>3. \A l \in LeaseIds : leaseKey[l] = k => l # token[h]
      BY <1>k, <2>2 DEF TokensNameKeys
    <3>4. \A l \in LeaseIds : leaseKey[l] = k => leaseKey'[l] = k /\ leaseAge'[l] = leaseAge[l]
      BY <1>7, <3>3 DEF ReleaseDeleteLease, DropLease, DropLeases
    <3>5. UNCHANGED <<episodeKey, reservationKey, reservationAge>>
      BY <1>7 DEF ReleaseDeleteLease
    <3>6. Accounted(k)'
      BY <3>1, <3>2, <3>4, <3>5, StillAccounted
    <3> QED BY <3>6
  <2> QED BY <2>1, <2>2
<1>8. ASSUME NEW h \in Handlers, Crash(h) \/ OrphanUnchecked(h) PROVE Goal
  <2>1. CASE key[h] = k
    BY <1>8, <2>1 DEF LetsGo
  <2>2. CASE key[h] # k
    <3>1. ~InCharge(h, k) /\ Accounted(k)
      BY <1>8, <2>2 DEF Crash, OrphanUnchecked, InCharge
    <3>2. \A g \in Handlers \ {h} : phase'[g] = phase[g] /\ key'[g] = key[g]
      BY <1>8, FinishKeeps DEF Crash, OrphanUnchecked
    <3>3. UNCHANGED <<episodeKey, reservationKey, reservationAge, leaseKey, leaseAge>>
      BY <1>8 DEF Crash, OrphanUnchecked, rows
    <3>4. Accounted(k)'
      BY <3>1, <3>2, <3>3, StillAccounted
    <3> QED BY <3>4
  <2> QED BY <2>1, <2>2
<1>9. ASSUME Tick PROVE Goal
  <2>1. Accounted(k)
    BY <1>9 DEF Tick
  <2> QED BY <1>9, <1>k, <2>1, TickStep
<1>10. ASSUME NEW j \in Keys, ServiceDelete(j) \/ (ServicePut(j) /\ j # k) PROVE Goal
  <2>1. UNCHANGED <<episodeKey, reservationKey, reservationAge, leaseKey, leaseAge, phase, key>> /\ Accounted(k)
    BY <1>10 DEF ServiceDelete, ServicePut, rows, request
  <2>2. Accounted(k)'
    BY <2>1 DEF Accounted, ReservationActive, LeaseActive
  <2> QED BY <2>2
<1>11. ASSUME NEW j \in Keys, ServicePut(j) PROVE Goal
  BY <1>10, <1>11
<1> HIDE DEF Goal
<1>12. Goal
  BY <1>1, <1>2, <1>3, <1>4, <1>5, <1>6, <1>7, <1>8, <1>9, <1>10, <1>11 DEF Next, HandlerStep
<1> QED BY <1>12 DEF Goal

\* Blobs are forgotten only in the last step of their handler, when a row that no handler owns
\* expires, or by a PUT that outlives its sender: never by a deletion or an orphan check, for
\* any number of handlers, rows and keys and any limits on their ages.
THEOREM ForgottenOnlyAtTheEndAlways == Spec => ForgottenOnlyAtTheEnd
<1> DEFINE Step == \A k \in blobs' : \/ Accounted(k)'
                                     \/ k \in blobs /\ ~Accounted(k)
                                     \/ \E h \in Handlers : key[h] = k /\ LetsGo(h)
                                     \/ Tick /\ LeftBehindExpires(k)
                                     \/ ServicePut(k)
<1>1. TypeOK /\ KeyKnown /\ TokensNameKeys /\ [Next]_vars => [Step]_vars
  <2> SUFFICES ASSUME TypeOK, KeyKnown, TokensNameKeys, Next, NEW k \in blobs', k \in blobs => Accounted(k)
               PROVE  \/ Accounted(k)'
                      \/ \E h \in Handlers : key[h] = k /\ LetsGo(h)
                      \/ Tick /\ LeftBehindExpires(k)
                      \/ ServicePut(k)
    OBVIOUS
  <2> QED BY ForgetStep
<1>2. BlobInv => TypeOK /\ KeyKnown
  BY DEF BlobInv
<1>3. QED
  BY <1>1, <1>2, BlobInvariant, TokensNameKeysAlways, PTL DEF Spec, ForgottenOnlyAtTheEnd
=============================================================================
