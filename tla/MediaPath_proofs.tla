--------------------------- MODULE MediaPath_proofs ---------------------------
(***************************************************************************)
(* Proofs about MediaPath: the way of media from an upload to a listener,  *)
(* for every number of uploads, listeners, episodes, keys and types, and   *)
(* every value of the limits and deadlines.                                *)
(***************************************************************************)
EXTENDS MediaPath, TLAPS

-----------------------------------------------------------------------------
(* Numbers.                                                                *)

LEMMA MaxOfTwo == \A a, b \in Int : Max({a, b}) \in Int /\ Max({a, b}) >= a /\ Max({a, b}) >= b
<1> TAKE a, b \in Int
<1>1. \E x \in {a, b} : \A y \in {a, b} : x >= y
  <2>1. CASE a >= b  BY <2>1
  <2>2. CASE b >= a  BY <2>2
  <2> QED BY <2>1, <2>2
<1>2. Max({a, b}) \in {a, b} /\ \A y \in {a, b} : Max({a, b}) >= y
  BY <1>1 DEF Max
<1> QED BY <1>2

LEMMA MinOfTwo == \A a, b \in Int : Min({a, b}) \in {a, b} /\ Min({a, b}) <= a /\ Min({a, b}) <= b
<1> TAKE a, b \in Int
<1>1. \E x \in {a, b} : \A y \in {a, b} : x <= y
  <2>1. CASE a <= b  BY <2>1
  <2>2. CASE b <= a  BY <2>2
  <2> QED BY <2>1, <2>2
<1>2. Min({a, b}) \in {a, b} /\ \A y \in {a, b} : Min({a, b}) <= y
  BY <1>1 DEF Min
<1> QED BY <1>2

\* A quotient that is rounded up times its divisor is not less than what was divided.
LEMMA RoundedUp == \A a \in Nat, b \in Nat \ {0} : b * ((a + b - 1) \div b) >= a
<1> TAKE a \in Nat, b \in Nat \ {0}
<1> DEFINE n == a + b - 1
           q == n \div b
           r == n % b
<1>1. n \in Int /\ q \in Int /\ r \in 0..(b - 1) /\ n = b * q + r
  BY Z3
<1>2. b * q \in Int
  BY <1>1
<1> HIDE DEF q, r
<1> QED BY <1>1, <1>2

\* The long deadline leaves time for the largest body at the minimum rate.
LEMMA WindowSuffices == UploadReadTimeout \in Nat /\ MaxUploadBytes <= MinUploadRate * UploadReadTimeout
<1> USE StagingAssumption
<1> DEFINE q == (MaxUploadBytes + MinUploadRate - 1) \div MinUploadRate
<1>0. UploadReadTimeout = Max({UploadTimeoutFloor, q})
  BY DEF UploadReadTimeout
<1>1. q \in Int /\ MinUploadRate * q >= MaxUploadBytes
  BY RoundedUp
<1> HIDE DEF q
<1>2. UploadReadTimeout \in Int /\ UploadReadTimeout >= UploadTimeoutFloor /\ UploadReadTimeout >= q
  BY <1>0, <1>1, MaxOfTwo
<1>3. MinUploadRate * UploadReadTimeout >= MinUploadRate * q
  BY <1>1, <1>2
<1>4. MinUploadRate * UploadReadTimeout \in Int /\ MinUploadRate * q \in Int
  BY <1>1, <1>2
<1> QED BY <1>1, <1>2, <1>3, <1>4

-----------------------------------------------------------------------------
(* Uploads.                                                                *)

\* A step of one request keeps what is true of the others.
LEMMA UploadReplaced ==
  ASSUME StagingInv, NEW u \in Uploads, NEW r \in UploadRequests,
         upload' = [upload EXCEPT ![u] = r],
         temp' \in {temp, temp \cup {u}, temp \ {u}},
         RequestOK(r, u \in temp')
  PROVE  StagingInv'
<1>1. upload' \in [Uploads -> UploadRequests] /\ temp' \subseteq Uploads
  BY DEF StagingInv, StagingTypeOK
<1>2. ASSUME NEW x \in Uploads PROVE RequestOK(upload'[x], x \in temp')
  <2>1. CASE x = u
    BY <2>1 DEF StagingInv, StagingTypeOK
  <2>2. CASE x # u
    <3>1. upload'[x] = upload[x] /\ (x \in temp' <=> x \in temp)
      BY <2>2 DEF StagingInv, StagingTypeOK
    <3> QED BY <3>1 DEF StagingInv, RequestOK
  <2> QED BY <2>1, <2>2
<1> QED BY <1>1, <1>2 DEF StagingInv, StagingTypeOK, RequestOK

\* The request that is no more, the one whose handler has returned, and the one that is
\* given up.
LEMMA CloseStep == ASSUME StagingInv, NEW u \in Uploads, upload[u].at = "drain", Close(u) PROVE StagingInv'
<1>1. NoUpload \in UploadRequests
  BY StagingAssumption, ContentAssumption DEF NoUpload, UploadRequests
<1>2. u \notin temp' /\ temp' = temp
  BY DEF Close, StagingInv, RequestOK, Reading, Storing
<1>3. RequestOK(NoUpload, u \in temp')
  BY <1>2, StagingAssumption DEF NoUpload, RequestOK, Reading, Storing
<1> QED BY <1>1, <1>2, <1>3, UploadReplaced DEF Close

LEMMA LeaveStep == ASSUME StagingInv, NEW u \in Uploads, Leave(u) PROVE StagingInv'
<1> DEFINE r == Returned(upload[u])
<1>0. upload[u] \in UploadRequests /\ upload' = [upload EXCEPT ![u] = r] /\ temp' = temp \ {u}
  BY DEF Leave, StagingInv, StagingTypeOK
<1>1. NoUpload \in UploadRequests
  BY StagingAssumption, ContentAssumption DEF NoUpload, UploadRequests
<1>2. r \in UploadRequests
  BY <1>0, <1>1 DEF Returned, UploadRequests
<1>3. RequestOK(r, FALSE)
  BY <1>0, StagingAssumption DEF Returned, NoUpload, RequestOK, Reading, Storing, UploadRequests
<1>4. u \notin temp'
  BY <1>0
<1> HIDE DEF r
<1> QED BY <1>0, <1>2, <1>3, <1>4, UploadReplaced DEF RequestOK

LEMMA AbortStep ==
  ASSUME StagingInv, NEW u \in Uploads, NEW got \in Nat, Abort(u, got),
         upload[u].read + got <= MaxUploadFieldsBytes + 1
  PROVE  StagingInv'
<1> DEFINE n == upload[u].read + got
           r == [NoUpload EXCEPT !.at = "drain", !.read = n]
<1>0. n \in Nat
  BY DEF StagingInv, StagingTypeOK, UploadRequests
<1>1. r \in UploadRequests
  <2> HIDE DEF n
  <2>1. NoUpload \in UploadRequests
    BY StagingAssumption, ContentAssumption DEF NoUpload, UploadRequests
  <2> QED BY <1>0, <2>1 DEF UploadRequests
<1>2. RequestOK(r, u \in temp')
  BY StagingAssumption DEF Abort, NoUpload, RequestOK, Reading, Storing
<1> QED BY <1>1, <1>2, UploadReplaced DEF Abort

\* A field is read only as far as the caps allow, and a byte more.
LEMMA FieldBounds ==
  ASSUME StagingInv, NEW u \in Uploads, upload[u].at = "part", NEW n \in Nat
  PROVE  /\ FieldLimit(u) \in Nat
         /\ upload[u].fieldsTotal + FieldLimit(u) <= MaxUploadFieldsBytes
         /\ LET got == Min({Min({n, FieldLimit(u) + 1}), MaxUploadBytes - upload[u].body})
            IN  /\ got \in Nat /\ got <= FieldLimit(u) + 1
                /\ got = n => upload[u].body + n <= MaxUploadBytes
<1>1. /\ upload[u].fieldsTotal \in 0..MaxUploadFieldsBytes /\ upload[u].body \in Nat
      /\ upload[u].body <= MaxUploadBytes
  BY DEF StagingInv, StagingTypeOK, UploadRequests, RequestOK, Reading
<1>2. FieldLimit(u) \in Nat /\ upload[u].fieldsTotal + FieldLimit(u) <= MaxUploadFieldsBytes
  <2> DEFINE left == MaxUploadFieldsBytes - upload[u].fieldsTotal
  <2>1. FieldLimit(u) = Min({MaxUploadFieldBytes, left})
    BY DEF FieldLimit
  <2>2. left \in Nat /\ upload[u].fieldsTotal + left = MaxUploadFieldsBytes
    BY <1>1, StagingAssumption
  <2> HIDE DEF left
  <2>3. FieldLimit(u) \in {MaxUploadFieldBytes, left} /\ FieldLimit(u) <= left
    <3>1. left \in Int /\ MaxUploadFieldBytes \in Int
      BY <2>2, StagingAssumption
    <3> QED BY <2>1, <3>1, MinOfTwo, Zenon
  <2> QED BY <1>1, <2>2, <2>3, StagingAssumption
<1> DEFINE wanted == Min({n, FieldLimit(u) + 1})
           room   == MaxUploadBytes - upload[u].body
           got    == Min({wanted, room})
<1>3. wanted \in Nat /\ wanted <= FieldLimit(u) + 1
  BY <1>2, MinOfTwo
<1>4. room \in Nat /\ upload[u].body + room = MaxUploadBytes
  BY <1>1, StagingAssumption
<1> HIDE DEF wanted, room
<1>5. got \in Nat /\ got <= wanted /\ got <= room
  <2>1. wanted \in Int /\ room \in Int
    BY <1>3, <1>4
  <2>2. got \in {wanted, room} /\ got <= wanted /\ got <= room
    BY <2>1, MinOfTwo, Zenon
  <2> QED BY <1>3, <1>4, <2>2
<1> HIDE DEF got
<1>6. got <= FieldLimit(u) + 1 /\ (got = n => upload[u].body + n <= MaxUploadBytes)
  BY <1>1, <1>2, <1>3, <1>4, <1>5, StagingAssumption
<1> QED BY <1>2, <1>5, <1>6 DEF got, wanted, room

\* Reading the body: the checks, the parts, the end, and the deadline.
LEMMA ReadingStep ==
  ASSUME StagingInv, NEW u \in Uploads, BeginUpload(u) \/ ClientStep(u) \/ ReadTimesOut(u)
  PROVE  StagingInv'
<1> DEFINE o == upload[u]
<1>0. /\ o \in UploadRequests /\ RequestOK(o, u \in temp)
      /\ upload \in [Uploads -> UploadRequests]
  BY DEF StagingInv, StagingTypeOK
<1> USE StagingAssumption, ContentAssumption
<1>a. ASSUME Abort(u, 0) PROVE StagingInv'
  <2>1. o.read + 0 <= MaxUploadFieldsBytes + 1
    BY <1>0 DEF RequestOK, UploadRequests
  <2> QED BY <1>a, <2>1, AbortStep
<1>1. CASE BeginUpload(u)
  <2> PICK valid \in BOOLEAN :
        upload' = [upload EXCEPT ![u].at     = IF valid THEN "part" ELSE "drain",
                                 ![u].window = IF valid THEN UploadReadTimeout ELSE ReadTimeout]
    BY <1>1 DEF BeginUpload
  <2> DEFINE r == [o EXCEPT !.at     = IF valid THEN "part" ELSE "drain",
                            !.window = IF valid THEN UploadReadTimeout ELSE ReadTimeout]
  <2>1. o = NoUpload /\ temp' = temp
    BY <1>1 DEF BeginUpload
  <2>2. r \in UploadRequests
    <3> DEFINE w == IF valid THEN UploadReadTimeout ELSE ReadTimeout
               a == IF valid THEN "part" ELSE "drain"
    <3>1. w \in Nat /\ a \in {"part", "drain"}
      BY WindowSuffices
    <3> HIDE DEF w, a
    <3>2. [o EXCEPT !.at = a, !.window = w] \in UploadRequests
      BY <1>0, <3>1 DEF UploadRequests, Reading
    <3> QED BY <3>2 DEF w, a
  <2>3. RequestOK(r, u \in temp')
    BY <1>0, <2>1 DEF RequestOK, NoUpload, Reading, Storing
  <2>4. upload' = [upload EXCEPT ![u] = r]
    BY <1>0
  <2> QED BY <2>1, <2>2, <2>3, <2>4, UploadReplaced
<1>2. CASE FilePart(u)
  <2> SUFFICES ASSUME /\ upload[u].at = "part" /\ temp' = temp \cup {u}
                      /\ upload' = [upload EXCEPT ![u].at = "media", ![u].parts = @ + 1]
               PROVE  StagingInv'
    BY <1>2, <1>a DEF FilePart
  <2> DEFINE r == [o EXCEPT !.at = "media", !.parts = @ + 1]
  <2>1. r \in UploadRequests /\ upload' = [upload EXCEPT ![u] = r]
    BY <1>0 DEF UploadRequests, Reading
  <2>2. RequestOK(r, u \in temp')
    BY <1>0 DEF RequestOK, Reading, Storing, UploadRequests
  <2> QED BY <2>1, <2>2, UploadReplaced
<1>3. CASE CopyMedia(u)
  <2>0. o.at = "media"
    BY <1>3 DEF CopyMedia
  <2>1. CASE /\ o.body < MaxUploadBytes /\ temp' = temp
             /\ upload' = [upload EXCEPT ![u].body = @ + 1]
    <3> DEFINE r == [o EXCEPT !.body = @ + 1]
    <3>1. r \in UploadRequests /\ upload' = [upload EXCEPT ![u] = r]
      BY <1>0, <2>1 DEF UploadRequests
    <3>2. RequestOK(r, u \in temp')
      BY <1>0, <2>0, <2>1 DEF RequestOK, Reading, Storing, UploadRequests
    <3> QED BY <2>1, <3>1, <3>2, UploadReplaced
  <2>2. ASSUME temp' = temp, NEW k \in Keys, upload' = [upload EXCEPT ![u].at = "part", ![u].key = k]
        PROVE  StagingInv'
    <3> DEFINE r == [o EXCEPT !.at = "part", !.key = k]
    <3>1. r \in UploadRequests /\ upload' = [upload EXCEPT ![u] = r]
      BY <1>0, <2>2 DEF UploadRequests, Reading
    <3>2. RequestOK(r, u \in temp')
      BY <1>0, <2>0, <2>2 DEF RequestOK, Reading, Storing, UploadRequests
    <3> QED BY <2>2, <3>1, <3>2, UploadReplaced
  <2> QED BY <1>3, <1>a, <2>1, <2>2 DEF CopyMedia
<1>4. ASSUME NEW n \in 0..(MaxUploadFieldBytes + 1), FieldPart(u, n) PROVE StagingInv'
  <2> DEFINE got == Min({Min({n, FieldLimit(u) + 1}), MaxUploadBytes - o.body})
  <2>0. o.at = "part" /\ n \in Nat
    BY <1>4 DEF FieldPart
  <2>1. /\ FieldLimit(u) \in Nat /\ o.fieldsTotal + FieldLimit(u) <= MaxUploadFieldsBytes
        /\ got \in Nat /\ got <= FieldLimit(u) + 1
        /\ got = n => o.body + n <= MaxUploadBytes
    BY <2>0, FieldBounds
  <2>2. \/ /\ got = n /\ n <= FieldLimit(u) /\ temp' = temp
           /\ upload' = [upload EXCEPT ![u].parts = @ + 1, ![u].body = @ + n, ![u].read = @ + n,
                                       ![u].fieldsTotal = @ + n]
        \/ Abort(u, got)
    BY <1>4 DEF FieldPart
  <2>3. o.read = o.fieldsTotal /\ o.fieldsTotal \in Nat /\ o.body \in Nat
    BY <1>0, <2>0 DEF RequestOK, Reading, UploadRequests
  <2> HIDE DEF got
  <2>4. CASE Abort(u, got)
    <3>1. o.read + got <= MaxUploadFieldsBytes + 1
      BY <2>1, <2>3
    <3> QED BY <2>1, <2>4, <3>1, AbortStep
  <2>5. CASE /\ got = n /\ n <= FieldLimit(u) /\ temp' = temp
             /\ upload' = [upload EXCEPT ![u].parts = @ + 1, ![u].body = @ + n, ![u].read = @ + n,
                                         ![u].fieldsTotal = @ + n]
    <3> DEFINE r == [o EXCEPT !.parts = @ + 1, !.body = @ + n, !.read = @ + n, !.fieldsTotal = @ + n]
    <3>1. o.fieldsTotal + n \in 0..MaxUploadFieldsBytes
      BY <2>0, <2>1, <2>3, <2>5
    <3>2. r \in UploadRequests
      <4>1. o.parts + 1 \in Nat /\ o.body + n \in Nat /\ o.read + n \in Nat
        BY <1>0, <2>0 DEF UploadRequests
      <4> QED BY <1>0, <3>1, <4>1 DEF UploadRequests
    <3>4. upload' = [upload EXCEPT ![u] = r]
      BY <1>0, <2>5
    <3>3. RequestOK(r, u \in temp')
      BY <1>0, <2>0, <2>1, <2>3, <2>5, <3>1 DEF RequestOK, Reading, Storing, UploadRequests
    <3> QED BY <2>5, <3>2, <3>3, <3>4, UploadReplaced
  <2> QED BY <2>2, <2>4, <2>5
<1>5. CASE LastPart(u)
  <2>1. ASSUME NEW t \in MediaTypes, NEW rest \in BOOLEAN, temp' = temp, o.at = "part",
               upload' = [upload EXCEPT ![u] =
                   [NoUpload EXCEPT !.at = "staged", !.key = upload[u].key, !.type = t, !.whole = rest,
                                    !.window = IF rest THEN upload[u].window ELSE 0,
                                    !.clock = IF rest THEN upload[u].clock ELSE 0]]
        PROVE  StagingInv'
    <3> DEFINE w == IF rest THEN upload[u].window ELSE 0
               c == IF rest THEN upload[u].clock ELSE 0
               r == [NoUpload EXCEPT !.at = "staged", !.key = upload[u].key, !.type = t, !.whole = rest,
                                     !.window = w, !.clock = c]
    <3>0. w \in Nat /\ c \in Nat
      BY <1>0 DEF UploadRequests
    <3> HIDE DEF w, c
    <3>1. r \in UploadRequests
      <4>1. NoUpload \in UploadRequests /\ o.key \in Keys \cup {NoKey}
        BY <1>0 DEF UploadRequests, NoUpload
      <4> QED BY <2>1, <3>0, <4>1 DEF UploadRequests, Storing
    <3>2. RequestOK(r, u \in temp')
      BY <1>0, <2>1 DEF RequestOK, Reading, Storing, UploadRequests, NoUpload
    <3>3. upload' = [upload EXCEPT ![u] = r]
      BY <2>1 DEF w, c
    <3> QED BY <2>1, <3>1, <3>2, <3>3, UploadReplaced
  <2>2. DetectedTypes \subseteq MediaTypes /\ DefaultUploadMIME \in MediaTypes
    BY DEF DetectedTypes, DetectUploadMIME
  <2> QED BY <1>5, <1>a, <2>1, <2>2 DEF LastPart
<1>6. CASE Drained(u)
  BY <1>6, CloseStep DEF Drained
<1>7. CASE ReadTimesOut(u)
  BY <1>7, <1>a, CloseStep DEF ReadTimesOut
<1> QED BY <1>1, <1>2, <1>3, <1>4, <1>5, <1>6, <1>7 DEF ClientStep

-----------------------------------------------------------------------------
(* Requests for media.                                                     *)

\* A step of one request keeps what is true of the others.
LEMMA ViewReplaced ==
  ASSUME EndpointInv, NEW v \in Viewers, NEW w \in Views, ViewOK(w),
         view' = [view EXCEPT ![v] = w], EndpointUnchanged
  PROVE  EndpointInv'
<1>1. view' \in [Viewers -> Views]
  BY DEF EndpointInv, EndpointTypeOK
<1>2. ASSUME NEW x \in Viewers PROVE ViewOK(view'[x])
  <2>1. CASE x = v
    BY <2>1 DEF EndpointInv, EndpointTypeOK
  <2>2. CASE x # v
    BY <2>2 DEF EndpointInv, EndpointTypeOK
  <2> QED BY <2>1, <2>2
<1>3. ASSUME NEW x \in Viewers PROVE ViewOK(view[x])'
  <2>1. UNCHANGED <<rows, late>>
    BY DEF EndpointUnchanged
  <2>2. rows' = rows /\ late' = late
    BY <2>1
  <2> QED BY <1>2, <2>2 DEF rows, ViewOK, Public, PublicTypes, PublicRows, PublicAmong, TypesAmong
<1> QED BY <1>1, <1>3 DEF EndpointInv, EndpointTypeOK, EndpointUnchanged, rows

\* The request that is no more.
LEMMA IdleOK == Idle \in Views /\ ViewOK(Idle)
  BY ContentAssumption DEF Idle, Views, ViewOK, ServedTypes, Resolving

\* The steps of handleMedia and of its client.  A request that is turned away although
\* its media has been public all the while has met a late delete, because every row has
\* its media otherwise.
LEMMA ViewStep ==
  ASSUME EndpointInv, RowsInv, NEW v \in Viewers,
         \/ \E k \in Keys : BeginView(v, k)
         \/ ServeStep(v) \/ ClientReads(v) \/ FollowLink(v) \/ EndView(v)
  PROVE  EndpointInv'
<1> DEFINE o == view[v]
<1>0. o \in Views /\ ViewOK(o) /\ view \in [Viewers -> Views]
  BY DEF EndpointInv, EndpointTypeOK
<1> USE EndpointAssumption, ContentAssumption
<1>i. ASSUME view' = [view EXCEPT ![v] = Idle], EndpointUnchanged PROVE EndpointInv'
  BY <1>i, IdleOK, ViewReplaced
<1>a. ASSUME NEW a \in Answers, Answer(v, a), EndpointUnchanged,
             a = "missing" /\ o.steady => o.key \in late,
             a = "cut" => o.stall = MediaWriteIdle
      PROVE  EndpointInv'
  <2> DEFINE w == [o EXCEPT !.at = a, !.type = OctetStream, !.allowed = {}, !.left = 0, !.budget = 0]
  <2>1. w \in Views
    BY <1>0 DEF Views, ServedTypes
  <2>2. ViewOK(w)
    BY <1>0, <1>a DEF ViewOK, Views, Answers, Resolving
  <2> QED BY <1>a, <2>1, <2>2, ViewReplaced DEF Answer
<1>m. ASSUME o.steady, o.key \notin blobs PROVE o.key \in late
  <2> PICK e \in Episodes : episodeKey[e] = o.key /\ published[e]
    BY <1>0, <1>m DEF ViewOK, Public, PublicRows, PublicAmong
  <2> QED BY <1>m DEF RowsInv
<1>1. ASSUME NEW k \in Keys, BeginView(v, k) PROVE EndpointInv'
  <2> DEFINE w == [Idle EXCEPT !.at = "lookup", !.key = k, !.steady = Public(k), !.allowed = PublicTypes(k)]
  <2>1. Public(k) \in BOOLEAN /\ PublicTypes(k) \subseteq ServedTypes
    BY DEF Public, PublicTypes, TypesAmong, SafeContentType, ServedTypes
  <2>2. w \in Views
    <3> HIDE DEF Public, PublicTypes
    <3> QED BY <2>1, IdleOK DEF Views, Resolving
  <2>3. ViewOK(w)
    BY <2>1 DEF ViewOK, Idle, Resolving
  <2> QED BY <1>1, <2>2, <2>3, ViewReplaced DEF BeginView
<1>2. CASE LookUp(v)
  <2>1. ASSUME NEW e \in PublicRows(o.key), o.at = "lookup", EndpointUnchanged,
               view' = [view EXCEPT ![v].at = "open", ![v].type = SafeContentType(episodeType[e])]
        PROVE  EndpointInv'
    <3> DEFINE t == SafeContentType(episodeType[e])
               w == [o EXCEPT !.at = "open", !.type = t]
    <3>1. t \in PublicTypes(o.key)
      BY <2>1 DEF PublicTypes, TypesAmong
    <3>2. t \in ServedTypes
      BY DEF SafeContentType, ServedTypes
    <3> HIDE DEF t
    <3>3. w \in Views
      BY <1>0, <3>2 DEF Views, Resolving
    <3>4. ViewOK(w)
      BY <1>0, <2>1, <3>1 DEF ViewOK, Resolving, Views
    <3>5. view' = [view EXCEPT ![v] = w]
      BY <1>0, <2>1 DEF t
    <3> QED BY <2>1, <3>3, <3>4, <3>5, ViewReplaced
  <2>2. ASSUME PublicRows(o.key) = {}, Answer(v, "missing"), EndpointUnchanged PROVE EndpointInv'
    <3>1. ~o.steady
      BY <1>0, <2>2 DEF ViewOK, Public
    <3> QED BY <1>a, <2>2, <3>1 DEF Answers
  <2> QED BY <1>2, <1>i, <2>1, <2>2 DEF LookUp, PublishedEpisodeByMediaKey
<1>3. CASE Redirect(v)
  <2>1. CASE view' = [view EXCEPT ![v].at = "linked", ![v].budget = LinkTTL,
                                  ![v].type = OctetStream, ![v].allowed = {}]
    <3> DEFINE w == [o EXCEPT !.at = "linked", !.budget = LinkTTL, !.type = OctetStream, !.allowed = {}]
    <3>1. w \in Views /\ view' = [view EXCEPT ![v] = w]
      BY <1>0, <2>1 DEF Views, Served, ServedTypes
    <3>2. ViewOK(w)
      BY <1>0 DEF ViewOK, Resolving, Views
    <3> QED BY <1>3, <3>1, <3>2, ViewReplaced DEF Redirect
  <2> QED BY <1>3, <1>i, <2>1 DEF Redirect
<1>4. CASE Open(v)
  <2>1. CASE view' = [view EXCEPT ![v].at = "write", ![v].left = Writes, ![v].budget = MediaWriteIdle,
                                  ![v].steady = FALSE, ![v].type = OctetStream, ![v].allowed = {}]
    <3> DEFINE w == [o EXCEPT !.at = "write", !.left = Writes, !.budget = MediaWriteIdle,
                              !.steady = FALSE, !.type = OctetStream, !.allowed = {}]
    <3>1. w \in Views /\ view' = [view EXCEPT ![v] = w]
      BY <1>0, <2>1 DEF Views, Served, ServedTypes
    <3>2. ViewOK(w)
      BY <1>0, <1>4 DEF Open, ViewOK, Resolving, Views
    <3> QED BY <1>4, <3>1, <3>2, ViewReplaced DEF Open
  <2>2. CASE o.key \notin blobs /\ Answer(v, "missing")
    BY <1>4, <1>a, <1>m, <2>2 DEF Open, Answers
  <2> QED BY <1>4, <1>i, <2>1, <2>2 DEF Open
<1>5. CASE Write(v)
  <2>1. CASE o.left > 0 /\ view' = [view EXCEPT ![v].at = "wait", ![v].left = @ - 1, ![v].budget = WriteDeadline(v)]
    <3> DEFINE w == [o EXCEPT !.at = "wait", !.left = @ - 1, !.budget = MediaWriteIdle]
    <3>1. w \in Views /\ view' = [view EXCEPT ![v] = w]
      BY <1>0, <2>1 DEF Views, Served, WriteDeadline
    <3>2. ViewOK(w)
      BY <1>0, <1>5 DEF Write, ViewOK, Resolving, Views
    <3> QED BY <1>5, <3>1, <3>2, ViewReplaced DEF Write
  <2> QED BY <1>5, <1>i, <2>1 DEF Write
<1>6. CASE WriteTimesOut(v)
  <2>1. o.stall = MediaWriteIdle
    BY <1>0, <1>6 DEF WriteTimesOut, ViewOK, Views
  <2> QED BY <1>6, <1>a, <2>1 DEF WriteTimesOut, Answers
<1>7. CASE LinkExpires(v)
  BY <1>7, <1>i DEF LinkExpires
<1>8. CASE ClientReads(v)
  <2> DEFINE w == [o EXCEPT !.at = "write", !.stall = 0]
  <2>1. w \in Views /\ view' = [view EXCEPT ![v] = w]
    BY <1>0, <1>8 DEF ClientReads, Views, Served
  <2>2. ViewOK(w)
    BY <1>0 DEF ViewOK, Resolving, Views
  <2> QED BY <1>8, <2>1, <2>2, ViewReplaced DEF ClientReads
<1>9. CASE FollowLink(v)
  BY <1>9, <1>a, <1>m DEF FollowLink, Answers
<1>10. CASE EndView(v)
  BY <1>10, <1>i DEF EndView
<1> QED BY <1>1, <1>2, <1>3, <1>4, <1>5, <1>6, <1>7, <1>8, <1>9, <1>10 DEF ServeStep

-----------------------------------------------------------------------------
(* The path.                                                               *)

\* A step that touches neither the rows nor the requests for media.
LEMMA ViewsUntouched ==
  ASSUME EndpointInv, UNCHANGED <<rows, direct, view>>, late \subseteq late'
  PROVE  EndpointInv'
<1>1. UNCHANGED rows
  OBVIOUS
<1>2. ASSUME NEW v \in Viewers PROVE ViewOK(view[v])'
  <2>1. ViewOK(view[v]) /\ view'[v] = view[v]
    BY DEF EndpointInv
  <2> QED BY <1>1, <2>1 DEF rows, ViewOK, Public, PublicTypes, PublicRows, PublicAmong, TypesAmong
<1> QED BY <1>2 DEF EndpointInv, EndpointTypeOK, rows

\* A step that touches no upload.
LEMMA UploadsUntouched == ASSUME StagingInv, UNCHANGED staging PROVE StagingInv'
  BY DEF staging, StagingInv, StagingTypeOK, RequestOK

\* What the media store promises keeps every row's media.
LEMMA MediaStep ==
  ASSUME RowsInv, published \in [Episodes -> BOOLEAN]
  PROVE  /\ \A k \in Keys :
              Media!Put(k) \/ Media!Reclaim(k) \/ Media!Overrun(k) \/ Media!LateDelete(k) =>
                  (UNCHANGED published => RowsInv') /\ UNCHANGED episodeKey /\ late \subseteq late'
         /\ \A e \in Episodes, k \in Keys :
              Media!Create(e, k) /\ UNCHANGED published => RowsInv' /\ UNCHANGED <<blobs, late>>
         /\ \A e \in Episodes :
              Media!Remove(e) /\ published' = [published EXCEPT ![e] = FALSE] => RowsInv' /\ UNCHANGED <<blobs, late>>
<1> USE DEF RowsInv
<1>1. ASSUME NEW k \in Keys, Media!Put(k) \/ Media!Reclaim(k) \/ Media!Overrun(k) \/ Media!LateDelete(k)
      PROVE  (UNCHANGED published => RowsInv') /\ UNCHANGED episodeKey /\ late \subseteq late'
  BY <1>1 DEF Media!Put, Media!Reclaim, Media!Overrun, Media!LateDelete, Media!Owned
<1>2. ASSUME NEW e \in Episodes, NEW k \in Keys, Media!Create(e, k), UNCHANGED published
      PROVE  RowsInv' /\ UNCHANGED <<blobs, late>>
  BY <1>2, ContentAssumption DEF Media!Create
<1>3. ASSUME NEW e \in Episodes, Media!Remove(e), published' = [published EXCEPT ![e] = FALSE]
      PROVE  RowsInv' /\ UNCHANGED <<blobs, late>>
  BY <1>3 DEF Media!Remove
<1> QED BY <1>1, <1>2, <1>3

\* A new row is a draft: nothing becomes public, and no type of what is changes.
LEMMA CreateKeepsViews ==
  ASSUME MediaPathInv, NEW e \in Episodes, NEW k \in Keys, NEW t \in MediaTypes,
         Media!Create(e, k), episodeType' = [episodeType EXCEPT ![e] = t],
         UNCHANGED <<published, direct, view>>
  PROVE  EndpointInv'
<1>1. ~published[e] /\ UNCHANGED <<blobs, late>>
  BY DEF MediaPathInv, RowsInv, Media!Create
<1>2. ASSUME NEW x PROVE PublicRows(x)' = PublicRows(x)
  BY <1>1 DEF PublicRows, PublicAmong, MediaPathInv, RowsInv, Media!Create
<1>3. ASSUME NEW x PROVE PublicTypes(x)' = PublicTypes(x)
  <2>1. \A y \in PublicRows(x) : episodeType'[y] = episodeType[y]
    BY <1>1 DEF PublicRows, PublicAmong, MediaPathInv, EndpointInv, EndpointTypeOK
  <2>2. PublicTypes(x)' = TypesAmong(PublicRows(x)', episodeType')
    BY DEF PublicTypes, TypesAmong
  <2> QED BY <1>2, <2>1, <2>2 DEF PublicTypes, TypesAmong
<1>4. ASSUME NEW v \in Viewers PROVE ViewOK(view[v])'
  <2>1. ViewOK(view[v]) /\ view'[v] = view[v]
    BY DEF MediaPathInv, EndpointInv
  <2>2. Public(view[v].key)' = Public(view[v].key) /\ PublicTypes(view[v].key)' = PublicTypes(view[v].key)
    BY <1>2, <1>3, <2>1 DEF Public, PublicTypes, PublicRows, PublicAmong, TypesAmong
  <2> QED BY <1>1, <2>1, <2>2 DEF ViewOK
<1> QED BY <1>4 DEF MediaPathInv, EndpointInv, EndpointTypeOK

\* Whatever happens to the rows, the histories of the requests follow.
LEMMA WatchedKeepsViews ==
  ASSUME EndpointInv, view' = Watched, UNCHANGED <<late, direct>>,
         published' \in [Episodes -> BOOLEAN], episodeType' \in [Episodes -> MediaTypes]
  PROVE  EndpointInv'
<1>1. ASSUME NEW v \in Viewers PROVE view'[v] \in Views /\ ViewOK(view[v])'
  <2> DEFINE o     == view[v]
             found == PublicAmong(o.key, episodeKey', published')
             types == TypesAmong(found, episodeType')
             more  == IF o.at \in Resolving THEN o.allowed \cup types ELSE o.allowed
             still == o.steady /\ found # {}
  <2>1. o \in Views /\ ViewOK(o)
    BY DEF EndpointInv, EndpointTypeOK
  <2>2. view'[v] = [o EXCEPT !.steady = still, !.allowed = more]
    BY DEF Watched
  <2>3. types \subseteq ServedTypes
    BY DEF TypesAmong, SafeContentType, ServedTypes
  <2>4. still \in BOOLEAN /\ more \subseteq ServedTypes
    BY <2>1, <2>3 DEF Views
  <2>5. (still => found # {}) /\ (still => o.steady) /\ o.allowed \subseteq more
        /\ (o.at \in Resolving => types \subseteq more)
    OBVIOUS
  <2>6. view'[v].key = o.key
    BY <2>1, <2>2 DEF Views
  <2>7. (Public(view[v].key)' <=> found # {}) /\ PublicTypes(view[v].key)' = types
    BY <2>6 DEF Public, PublicTypes, PublicRows, PublicAmong, TypesAmong
  <2> HIDE DEF found, types, more, still
  <2>8. view'[v] \in Views
    BY <2>1, <2>2, <2>4 DEF Views
  <2>9. ViewOK(view[v])'
    <3>1. /\ view'[v].at = o.at /\ view'[v].stall = o.stall /\ view'[v].budget = o.budget /\ view'[v].type = o.type
          /\ view'[v].steady = still /\ view'[v].allowed = more
      BY <2>1, <2>2 DEF Views
    <3> QED BY <2>1, <2>5, <2>6, <2>7, <3>1 DEF ViewOK
  <2> QED BY <2>8, <2>9
<1>2. view' \in [Viewers -> Views]
  BY <1>1 DEF Watched
<1> QED BY <1>1, <1>2 DEF EndpointInv, EndpointTypeOK

\* A crash ends every request but the links, which are out of the process's reach.
LEMMA CrashStep == MediaPathInv /\ Crash => MediaPathInv'
<1> SUFFICES ASSUME MediaPathInv, Crash PROVE MediaPathInv'
  OBVIOUS
<1>1. StagingInv'
  <2>1. NoUpload \in UploadRequests /\ RequestOK(NoUpload, FALSE)
    BY StagingAssumption, ContentAssumption DEF NoUpload, UploadRequests, RequestOK, Reading, Storing
  <2>2. upload' = [u \in Uploads |-> NoUpload] /\ temp' = {}
    BY DEF Crash
  <2>3. \A u \in Uploads : RequestOK(upload'[u], FALSE) /\ u \notin temp'
    BY <2>1, <2>2
  <2> QED BY <2>1, <2>2, <2>3 DEF StagingInv, StagingTypeOK, RequestOK
<1>2. EndpointInv'
  <2>0. UNCHANGED rows /\ late' = late
    BY DEF Crash
  <2>1. ASSUME NEW v \in Viewers PROVE view'[v] \in Views /\ ViewOK(view[v])'
    <3>1. view'[v] \in {view[v], Idle}
      BY DEF Crash
    <3>2. view'[v] \in Views /\ ViewOK(view'[v])
      BY <3>1, IdleOK DEF MediaPathInv, EndpointInv, EndpointTypeOK
    <3> QED BY <2>0, <3>2 DEF rows, ViewOK, Public, PublicTypes, PublicRows, PublicAmong, TypesAmong
  <2>2. view' \in [Viewers -> Views]
    BY <2>1 DEF Crash
  <2> QED BY <2>1, <2>2 DEF MediaPathInv, EndpointInv, EndpointTypeOK, Crash, rows
<1>3. RowsInv'
  BY DEF MediaPathInv, RowsInv, Crash, rows
<1> QED BY <1>1, <1>2, <1>3 DEF MediaPathInv

\* A second: a write that waits has waited as long as its deadline has come nearer.
LEMMA TickStep == MediaPathInv /\ Tick => MediaPathInv'
<1> SUFFICES ASSUME MediaPathInv, Tick PROVE MediaPathInv'
  OBVIOUS
<1>1. StagingInv'
  <2>1. ASSUME NEW u \in Uploads PROVE upload'[u] \in UploadRequests /\ RequestOK(upload'[u], u \in temp')
    <3> DEFINE o == upload[u]
    <3>1. o \in UploadRequests /\ RequestOK(o, u \in temp) /\ temp' = temp
      BY DEF MediaPathInv, StagingInv, StagingTypeOK, Tick
    <3>2. upload'[u] = o \/ upload'[u] = [o EXCEPT !.clock = @ + 1]
      BY DEF Tick, UploadTick
    <3>3. CASE upload'[u] = o  BY <3>1, <3>3
    <3>4. CASE upload'[u] = [o EXCEPT !.clock = @ + 1]
      <4>1. upload'[u] \in UploadRequests
        BY <3>1, <3>4 DEF UploadRequests
      <4>2. RequestOK(upload'[u], u \in temp)
        BY <3>1, <3>4 DEF RequestOK, UploadRequests
      <4> QED BY <3>1, <4>1, <4>2
    <3> QED BY <3>2, <3>3, <3>4
  <2>2. upload' \in [Uploads -> UploadRequests] /\ temp' \subseteq Uploads
    BY <2>1 DEF MediaPathInv, StagingInv, StagingTypeOK, Tick
  <2> QED BY <2>1, <2>2 DEF StagingInv, StagingTypeOK, RequestOK
<1>2. EndpointInv'
  <2>0. UNCHANGED rows /\ late' = late
    BY DEF Tick
  <2>1. ASSUME NEW v \in Viewers PROVE view'[v] \in Views /\ ViewOK(view[v])'
    <3> DEFINE o == view[v]
               b == IF o.budget > 0 THEN o.budget - 1 ELSE 0
               s == IF o.at = "wait" /\ o.stall < MediaWriteIdle THEN o.stall + 1 ELSE o.stall
               w == [o EXCEPT !.budget = b, !.stall = s]
    <3>1. o \in Views /\ ViewOK(o)
      BY DEF MediaPathInv, EndpointInv, EndpointTypeOK
    <3>2. view'[v] = w
      BY <3>1 DEF Tick, ViewTick, Views
    <3>3. b \in Nat /\ s \in Nat
      BY <3>1, EndpointAssumption DEF Views
    <3>4. /\ o.at # "wait" => s = o.stall
          /\ o.at = "wait" => b + s = MediaWriteIdle
      BY <3>1, EndpointAssumption DEF Views, ViewOK
    <3> HIDE DEF b, s
    <3>5. w \in Views
      BY <3>1, <3>3 DEF Views
    <3>6. ViewOK(w)
      BY <3>1, <3>4 DEF ViewOK, Views, Resolving
    <3> QED BY <2>0, <3>2, <3>5, <3>6 DEF rows, ViewOK, Public, PublicTypes, PublicRows, PublicAmong, TypesAmong
  <2>2. view' \in [Viewers -> Views]
    BY <2>1 DEF Tick
  <2> QED BY <2>1, <2>2 DEF MediaPathInv, EndpointInv, EndpointTypeOK, Tick, rows
<1>3. RowsInv'
  BY DEF MediaPathInv, RowsInv, Tick, rows
<1> QED BY <1>1, <1>2, <1>3 DEF MediaPathInv

\* The upload's handler, from the staged media to the row.
LEMMA StoringStep ==
  ASSUME MediaPathInv, NEW u \in Uploads, RejectForm(u) \/ StoreUpload(u) \/ CreateEpisode(u)
  PROVE  MediaPathInv'
<1> DEFINE o == upload[u]
<1>0. /\ o \in UploadRequests /\ RequestOK(o, u \in temp)
      /\ upload \in [Uploads -> UploadRequests] /\ published \in [Episodes -> BOOLEAN]
      /\ StagingInv /\ EndpointInv /\ RowsInv
  BY DEF MediaPathInv, StagingInv, StagingTypeOK, EndpointInv, EndpointTypeOK
<1>1. CASE RejectForm(u)
  <2>1. StagingInv'
    BY <1>0, <1>1, LeaveStep DEF RejectForm
  <2>2. EndpointInv'
    BY <1>0, <1>1, ViewsUntouched DEF RejectForm
  <2> QED BY <1>0, <1>1, <2>1, <2>2 DEF RejectForm, MediaPathInv, RowsInv, rows
<1>2. CASE StoreUpload(u)
  <2>0. o.key \in Keys /\ o.at = "staged" /\ UNCHANGED <<published, episodeType, direct, view>>
    BY <1>0, <1>2 DEF StoreUpload, UploadRequests
  <2>1. CASE Media!Put(o.key) /\ upload' = [upload EXCEPT ![u].at = "create"] /\ UNCHANGED temp
    <3> DEFINE r == [o EXCEPT !.at = "create"]
    <3>1. r \in UploadRequests /\ upload' = [upload EXCEPT ![u] = r]
      BY <1>0, <2>1 DEF UploadRequests, Storing
    <3>2. RequestOK(r, u \in temp')
      BY <1>0, <2>0, <2>1 DEF RequestOK, UploadRequests, Reading, Storing
    <3>3. StagingInv'
      BY <1>0, <2>1, <3>1, <3>2, UploadReplaced
    <3>4. RowsInv' /\ UNCHANGED episodeKey /\ late \subseteq late'
      BY <1>0, <2>0, <2>1, MediaStep
    <3>5. EndpointInv'
      BY <1>0, <2>0, <3>4, ViewsUntouched DEF rows
    <3> QED BY <3>3, <3>4, <3>5 DEF MediaPathInv
  <2>2. CASE Leave(u) /\ UNCHANGED <<blobs, late, episodeKey>>
    <3>1. StagingInv'
      BY <1>0, <2>2, LeaveStep
    <3>2. EndpointInv'
      BY <1>0, <2>0, <2>2, ViewsUntouched DEF rows
    <3> QED BY <1>0, <2>0, <2>2, <3>1, <3>2 DEF MediaPathInv, RowsInv
  <2>3. CASE Leave(u) /\ Media!Put(o.key)
    <3>1. StagingInv'
      BY <1>0, <2>3, LeaveStep
    <3>2. RowsInv' /\ UNCHANGED episodeKey /\ late \subseteq late'
      BY <1>0, <2>0, <2>3, MediaStep
    <3>3. EndpointInv'
      BY <1>0, <2>0, <3>2, ViewsUntouched DEF rows
    <3> QED BY <3>1, <3>2, <3>3 DEF MediaPathInv
  <2> QED BY <1>2, <2>1, <2>2, <2>3 DEF StoreUpload
<1>3. CASE CreateEpisode(u)
  <2>0. StagingInv' /\ UNCHANGED <<direct, view>>
    BY <1>0, <1>3, LeaveStep DEF CreateEpisode
  <2>1. ASSUME NEW e \in Episodes, Media!Create(e, o.key), UNCHANGED published,
               episodeType' = [episodeType EXCEPT ![e] = o.type]
        PROVE  MediaPathInv'
    <3>1. o.key \in Keys /\ o.type \in MediaTypes
      BY <1>0, <2>1, ContentAssumption DEF UploadRequests, Media!Create, RowsInv
    <3>2. EndpointInv'
      BY <2>0, <2>1, <3>1, CreateKeepsViews
    <3>3. RowsInv'
      BY <1>0, <2>1, <3>1, MediaStep
    <3> QED BY <2>0, <3>2, <3>3 DEF MediaPathInv
  <2>2. ASSUME UNCHANGED <<blobs, late, rows>> PROVE MediaPathInv'
    <3>1. EndpointInv'
      BY <1>0, <2>0, <2>2, ViewsUntouched
    <3> QED BY <1>0, <2>0, <2>2, <3>1 DEF MediaPathInv, RowsInv, rows
  <2> QED BY <1>3, <2>1, <2>2 DEF CreateEpisode
<1> QED BY <1>1, <1>2, <1>3

\* The owner and the media store.
LEMMA OwnerStep ==
  ASSUME MediaPathInv,
         \/ \E e \in Episodes : SetPublished(e) \/ DeleteEpisode(e)
         \/ \E k \in Keys : EraseMedia(k)
  PROVE  MediaPathInv'
<1>0. /\ published \in [Episodes -> BOOLEAN] /\ episodeType \in [Episodes -> MediaTypes]
      /\ StagingInv /\ EndpointInv /\ RowsInv
  BY DEF MediaPathInv, EndpointInv, EndpointTypeOK
<1>1. ASSUME NEW e \in Episodes, SetPublished(e) PROVE MediaPathInv'
  <2>1. EndpointInv'
    BY <1>0, <1>1, WatchedKeepsViews DEF SetPublished
  <2>2. StagingInv'
    BY <1>0, <1>1, UploadsUntouched DEF SetPublished
  <2>3. RowsInv'
    BY <1>0, <1>1 DEF SetPublished, RowsInv
  <2> QED BY <2>1, <2>2, <2>3 DEF MediaPathInv
<1>2. ASSUME NEW e \in Episodes, DeleteEpisode(e) PROVE MediaPathInv'
  <2>1. RowsInv' /\ UNCHANGED <<blobs, late>>
    BY <1>0, <1>2, MediaStep DEF DeleteEpisode
  <2>2. EndpointInv'
    BY <1>0, <1>2, <2>1, WatchedKeepsViews, ContentAssumption DEF DeleteEpisode
  <2>3. StagingInv'
    BY <1>0, <1>2, UploadsUntouched DEF DeleteEpisode
  <2> QED BY <2>1, <2>2, <2>3 DEF MediaPathInv
<1>3. ASSUME NEW k \in Keys, EraseMedia(k) PROVE MediaPathInv'
  <2>1. RowsInv' /\ UNCHANGED episodeKey /\ late \subseteq late'
    BY <1>0, <1>3, MediaStep DEF EraseMedia
  <2>2. EndpointInv'
    BY <1>0, <1>3, <2>1, ViewsUntouched DEF EraseMedia, rows
  <2>3. StagingInv'
    BY <1>0, <1>3, UploadsUntouched DEF EraseMedia
  <2> QED BY <2>1, <2>2, <2>3 DEF MediaPathInv
<1> QED BY <1>1, <1>2, <1>3

\* The invariant of the whole path: uploads, rows and requests, whatever their numbers.
THEOREM MediaPathInvariant == Spec => []MediaPathInv
<1>1. Init => MediaPathInv
  <2> SUFFICES ASSUME Init PROVE MediaPathInv
    OBVIOUS
  <2>1. NoUpload \in UploadRequests /\ RequestOK(NoUpload, FALSE)
    BY StagingAssumption, ContentAssumption DEF NoUpload, UploadRequests, RequestOK, Reading, Storing
  <2>2. StagingInv
    BY <2>1 DEF Init, StagingInv, StagingTypeOK, RequestOK
  <2>3. EndpointInv
    BY IdleOK, ContentAssumption DEF Init, EndpointInv, EndpointTypeOK
  <2>4. RowsInv
    BY DEF Init, Media!Init, RowsInv
  <2> QED BY <2>2, <2>3, <2>4 DEF MediaPathInv
<1>2. MediaPathInv /\ [Next]_vars => MediaPathInv'
  <2> SUFFICES ASSUME MediaPathInv, [Next]_vars PROVE MediaPathInv'
    OBVIOUS
  <2>0. StagingInv /\ EndpointInv /\ RowsInv
    BY DEF MediaPathInv
  <2>1. ASSUME NEW u \in Uploads, BeginUpload(u) \/ ClientStep(u) \/ ReadTimesOut(u),
               UNCHANGED <<blobs, late, rows, direct, view>>
        PROVE  MediaPathInv'
    <3>1. StagingInv' /\ EndpointInv'
      BY <2>0, <2>1, ReadingStep, ViewsUntouched
    <3> QED BY <2>0, <2>1, <3>1 DEF MediaPathInv, RowsInv, rows
  <2>2. ASSUME NEW v \in Viewers,
               \/ \E k \in Keys : BeginView(v, k)
               \/ ServeStep(v) \/ ClientReads(v) \/ FollowLink(v) \/ EndView(v),
               UNCHANGED staging
        PROVE  MediaPathInv'
    <3>1. StagingInv' /\ EndpointInv'
      BY <2>0, <2>2, ViewStep, UploadsUntouched
    <3>2. UNCHANGED <<blobs, late, rows>>
      BY <2>2 DEF BeginView, ServeStep, LookUp, Redirect, Open, Write, WriteTimesOut, LinkExpires,
                  ClientReads, FollowLink, EndView, EndpointUnchanged
    <3> QED BY <2>0, <3>1, <3>2 DEF MediaPathInv, RowsInv, rows
  <2>3. CASE UNCHANGED vars
    <3>1. StagingInv' /\ EndpointInv'
      BY <2>0, <2>3, UploadsUntouched, ViewsUntouched DEF vars, staging, rows
    <3> QED BY <2>0, <2>3, <3>1 DEF MediaPathInv, RowsInv, vars
  <2> QED BY <2>1, <2>2, <2>3, StoringStep, OwnerStep, CrashStep, TickStep
          DEF Next, UploadOnly, ViewOnly, UploadStep
<1> QED BY <1>1, <1>2, PTL DEF Spec

\* No temporary file outlives the request that wrote it.
THEOREM TempFilesOwnedAlways == Spec => []TempFilesOwned
<1>1. MediaPathInv => TempFilesOwned
  BY DEF MediaPathInv, StagingInv, StagingTypeOK, RequestOK, TempFilesOwned
<1> QED BY <1>1, MediaPathInvariant, PTL

\* The text of an upload is bounded, for every pair of caps.
THEOREM TextBoundedAlways == Spec => []TextBounded
<1>1. MediaPathInv => TextBounded
  BY DEF MediaPathInv, StagingInv, RequestOK, TextBounded
<1> QED BY <1>1, MediaPathInvariant, PTL

\* No part of a body is drained under the long deadline, whichever of the failures gave it
\* up; what may be is only what a client sends after the last part.
THEOREM HalfReadNotDrainedLongAlways == Spec => []HalfReadNotDrainedLong
<1>1. MediaPathInv => HalfReadNotDrainedLong
  <2> SUFFICES ASSUME MediaPathInv, NEW u \in Uploads, upload[u].at = "drain", upload[u].window > ReadTimeout
               PROVE  upload[u].whole
    BY DEF HalfReadNotDrainedLong
  <2>1. upload[u] \in UploadRequests /\ RequestOK(upload[u], u \in temp)
    BY DEF MediaPathInv, StagingInv, StagingTypeOK
  <2>2. upload[u].window \in Nat
    BY <2>1 DEF UploadRequests
  <2>3. ~(upload[u].window <= ReadTimeout)
    BY <2>2, StagingAssumption
  <2> QED BY <2>1, <2>3 DEF RequestOK
<1> QED BY <1>1, MediaPathInvariant, PTL

\* The long deadline is long enough, for every size and rate: the division that makes
\* seconds of bytes rounds up.
THEOREM SteadyUploadNotCutAlways == Spec => []SteadyUploadNotCut
<1>1. MediaPathInv => SteadyUploadNotCut
  <2> SUFFICES ASSUME MediaPathInv, NEW u \in Uploads, upload[u].at \in Reading, ~Readable(u)
               PROVE  upload[u].body <= MinUploadRate * upload[u].clock
    BY DEF SteadyUploadNotCut
  <2>1. /\ upload[u].clock \in Nat /\ upload[u].body \in Nat /\ upload[u].body <= MaxUploadBytes
        /\ upload[u].window = UploadReadTimeout
    BY DEF MediaPathInv, StagingInv, StagingTypeOK, UploadRequests, RequestOK
  <2>2. upload[u].clock >= UploadReadTimeout
    BY <2>1, WindowSuffices DEF Readable
  <2>3. MinUploadRate * upload[u].clock >= MinUploadRate * UploadReadTimeout
    BY <2>1, <2>2, WindowSuffices, StagingAssumption
  <2>4. MinUploadRate * upload[u].clock \in Int /\ MinUploadRate * UploadReadTimeout \in Int
    BY <2>1, WindowSuffices, StagingAssumption
  <2> QED BY <2>1, <2>3, <2>4, WindowSuffices, StagingAssumption
<1> QED BY <1>1, MediaPathInvariant, PTL

\* Media that stays public while it is asked for is found, however many episodes share it.
THEOREM PublicIsFoundAlways == Spec => []PublicIsFound
<1>1. MediaPathInv => PublicIsFound
  BY DEF MediaPathInv, EndpointInv, ViewOK, PublicIsFound
<1> QED BY <1>1, MediaPathInvariant, PTL

\* Nothing is served that was not public since it was asked for, nor under another type.
THEOREM ServedWasPublicAlways == Spec => []ServedWasPublic
<1>1. MediaPathInv => ServedWasPublic
  BY DEF MediaPathInv, EndpointInv, ViewOK, ServedWasPublic
<1> QED BY <1>1, MediaPathInvariant, PTL

\* No download that progresses is cut off.
THEOREM ProgressNotCutAlways == Spec => []ProgressNotCut
<1>1. MediaPathInv => ProgressNotCut
  BY DEF MediaPathInv, EndpointInv, ViewOK, ProgressNotCut
<1> QED BY <1>1, MediaPathInvariant, PTL
===============================================================================
