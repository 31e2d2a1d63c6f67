------------------------ MODULE EpisodeCatalog_proofs ------------------------
(***************************************************************************)
(* Proofs about EpisodeCatalog: what is true of positions, publication and *)
(* columns for every number of requests that work on stale copies.         *)
(***************************************************************************)
EXTENDS EpisodeCatalog, FiniteSetTheorems, TLAPS

USE CatalogAssumption DEF NoTime

\* Exchanging two members of a listing gives a sequence of episodes.
LEMMA SwappedIsSeq ==
    ASSUME TypeOK, NEW s \in Listings, NEW i \in DOMAIN s, NEW j \in DOMAIN s
    PROVE  Swapped(s, i, j) \in Seq(Episodes)
<1>1. IsFiniteSet(episodes) /\ Cardinality(episodes) \in Nat
  BY FS_Subset, FS_CardinalityType DEF TypeOK
<1>2. s \in [1..Cardinality(episodes) -> Episodes]
  BY DEF Listings, SetToSeqs, TypeOK
<1>3. Swapped(s, i, j) \in [1..Cardinality(episodes) -> Episodes]
  BY <1>2 DEF Swapped
<1> QED BY <1>1, <1>3

\* What each writer makes of a row: its own columns change and no others.
LEMMA TitleWrite ==
    ASSUME NEW r \in Row, NEW t \in Titles
    PROVE  LET w == [r EXCEPT !.title = t]
           IN  /\ w \in Row
               /\ w.transcript = r.transcript /\ w.status = r.status
               /\ w.publishedAt = r.publishedAt /\ w.position = r.position
BY DEF Row

LEMMA TranscriptWrite ==
    ASSUME NEW r \in Row, NEW n \in Transcripts
    PROVE  LET w == [r EXCEPT !.transcript = n]
           IN  /\ w \in Row
               /\ w.title = r.title /\ w.status = r.status
               /\ w.publishedAt = r.publishedAt /\ w.position = r.position
BY DEF Row

LEMMA PublicationWrite ==
    ASSUME NEW r \in Row, NEW s \in {"draft", "published"}, NEW at \in Nat
    PROVE  /\ WithPublication(r, s, at) \in Row
           /\ WithPublication(r, s, at).title = r.title
           /\ WithPublication(r, s, at).transcript = r.transcript
           /\ WithPublication(r, s, at).status = s
           /\ WithPublication(r, s, at).publishedAt = at
           /\ WithPublication(r, s, at).position = r.position
BY DEF Row, WithPublication

\* A new row is a row.
LEMMA DraftIsRow == \A t \in Titles, at \in Nat : Draft(t, at) \in Row
BY DEF Draft, Row

\* NoRow is a row.
LEMMA NoRowIsRow == NoRow \in Row
<1>1. (CHOOSE t \in Titles : TRUE) \in Titles
  OBVIOUS
<1> QED BY <1>1, DraftIsRow DEF NoRow

\* Renumbering changes positions only, and makes them the places in the list.
LEMMA RenumberedRows ==
    ASSUME TypeOK, NEW s \in Seq(Episodes)
    PROVE  /\ Renumbered(s) \in [Episodes -> Row]
           /\ \A e \in Episodes : /\ Renumbered(s)[e].status = row[e].status
                                  /\ Renumbered(s)[e].publishedAt = row[e].publishedAt
                                  /\ Renumbered(s)[e].title = row[e].title
                                  /\ Renumbered(s)[e].transcript = row[e].transcript
           /\ \A i \in DOMAIN s : (\A k, l \in DOMAIN s : k # l => s[k] # s[l])
                  => Renumbered(s)[s[i]].position = i - 1
<1>0. \A e \in Episodes : row[e] \in Row
  BY DEF TypeOK
<1>1. ASSUME NEW e \in Episodes
      PROVE  /\ Renumbered(s)[e] \in Row
             /\ Renumbered(s)[e].status = row[e].status
             /\ Renumbered(s)[e].publishedAt = row[e].publishedAt
             /\ Renumbered(s)[e].title = row[e].title
             /\ Renumbered(s)[e].transcript = row[e].transcript
  <2>1. CASE \E i \in DOMAIN s : s[i] = e
    <3> DEFINE i == CHOOSE i \in DOMAIN s : s[i] = e
    <3>1. i \in DOMAIN s /\ DOMAIN s = 1..Len(s) /\ Len(s) \in Nat
      BY <2>1
    <3>2. Renumbered(s)[e] = [row[e] EXCEPT !.position = i - 1]
      BY <2>1 DEF Renumbered
    <3> HIDE DEF i
    <3>3. i - 1 \in Nat
      BY <3>1
    <3> QED BY <1>0, <3>2, <3>3 DEF Row
  <2>2. CASE ~\E i \in DOMAIN s : s[i] = e
    <3>1. Renumbered(s)[e] = row[e]
      BY <2>2 DEF Renumbered
    <3> QED BY <1>0, <3>1
  <2> QED BY <2>1, <2>2
<1>2. Renumbered(s) \in [Episodes -> Row]
  <2>1. DOMAIN Renumbered(s) = Episodes /\ Renumbered(s) = [e \in Episodes |-> Renumbered(s)[e]]
    BY DEF Renumbered
  <2> QED BY <1>1, <2>1
<1>3. ASSUME NEW i \in DOMAIN s, \A k, l \in DOMAIN s : k # l => s[k] # s[l]
      PROVE  Renumbered(s)[s[i]].position = i - 1
  <2>1. s[i] \in Episodes
    OBVIOUS
  <2>2. (CHOOSE k \in DOMAIN s : s[k] = s[i]) = i
    BY <1>3
  <2>3. Renumbered(s)[s[i]] = [row[s[i]] EXCEPT !.position = i - 1]
    BY <2>1, <2>2 DEF Renumbered
  <2> QED BY <1>0, <2>1, <2>3 DEF Row
<1> QED BY <1>1, <1>2, <1>3

\* A list that ReorderEpisodes accepts names every episode of the channel: as long as
\* the channel, without a foreign id or a repeated one.
LEMMA OrderIsOnto ==
    ASSUME TypeOK, NEW s \in Seq(Episodes), IsOrder(s)
    PROVE  \A e \in episodes : \E i \in DOMAIN s : s[i] = e
<1>1. IsFiniteSet(episodes) /\ Cardinality(episodes) \in Nat
  BY FS_Subset, FS_CardinalityType DEF TypeOK
<1>2. DOMAIN s = 1..Cardinality(episodes)
  BY DEF IsOrder
<1> DEFINE named == {s[i] : i \in DOMAIN s}
<1>3. named \subseteq episodes
  BY DEF IsOrder
<1>4. IsFiniteSet(named)
  BY <1>1, <1>3, FS_Subset
<1>5. s \in Bijection(1..Cardinality(episodes), named)
  <2>1. s = [i \in DOMAIN s |-> s[i]]
    OBVIOUS
  <2>2. s \in [1..Cardinality(episodes) -> named]
    BY <1>2, <2>1
  <2>3. IsInjective(s)
    BY DEF IsOrder, IsInjective
  <2> QED BY <1>2, <2>2, <2>3 DEF Bijection, Injection, Surjection
<1>6. Cardinality(named) = Cardinality(episodes)
  <2>1. ExistsBijection(1..Cardinality(episodes), named)
    BY <1>5 DEF ExistsBijection
  <2> HIDE DEF named
  <2> QED BY <1>1, <2>1, FS_CountingElements
<1>7. named = episodes
  <2> HIDE DEF named
  <2> QED BY <1>1, <1>3, <1>6, FS_Subset
<1> QED BY <1>7

\* Every step keeps the types.
LEMMA TypeStep == TypeOK /\ [Next]_vars => TypeOK'
<1> SUFFICES ASSUME TypeOK, [Next]_vars PROVE TypeOK'
  OBVIOUS
<1> USE DEF TypeOK
<1>a. ASSUME NEW q \in Requests, Finish(q)
      PROVE  /\ phase' \in [Requests -> Phases]
             /\ episode' \in [Requests -> Episodes \cup {NoEpisode}]
             /\ loaded' \in [Requests -> SUBSET Row]
             /\ order' \in [Requests -> Seq(Episodes)]
  BY <1>a DEF Finish, Phases
<1>b. ASSUME NEW q \in Requests, NEW r, episode[q] \in episodes => r \in Row, Write(q, r)
      PROVE  TypeOK'
  <2>1. row' \in [Episodes -> Row]
    BY <1>b DEF Write
  <2> QED BY <1>a, <1>b, <2>1 DEF Write
<1>1. ASSUME NEW q \in Requests, NEW e \in Episodes, NEW o \in Operations, Load(q, e, o) PROVE TypeOK'
  <2>1. phase' \in [Requests -> Phases]
    BY <1>1 DEF Load, Phases
  <2>2. loaded' \in [Requests -> SUBSET Row] /\ episode' \in [Requests -> Episodes \cup {NoEpisode}]
    BY <1>1 DEF Load
  <2> QED BY <1>1, <2>1, <2>2 DEF Load, table
<1>2. ASSUME NEW q \in Requests, NEW t \in Titles, UpdateEpisodeMetadata(q, t) PROVE TypeOK'
  <2>1. episode[q] \in episodes => Metadata(q, t) \in Row
    <3>1. episode[q] \in episodes => row[episode[q]] \in Row
      OBVIOUS
    <3> QED BY <3>1, TitleWrite DEF Metadata
  <2> QED BY <1>2, <1>b, <2>1 DEF UpdateEpisodeMetadata
<1>3. ASSUME NEW q \in Requests, PublishEpisode(q) PROVE TypeOK'
  <2>0. PICK r \in loaded[q] : Write(q, Publication(q, r, "published", PublishTime(r)))
    BY <1>3 DEF PublishEpisode
  <2>1. r \in Row
    OBVIOUS
  <2>2. PublishTime(r) \in Nat
    BY <2>1 DEF PublishTime, Row
  <2>3. episode[q] \in episodes => Publication(q, r, "published", PublishTime(r)) \in Row
    <3>1. episode[q] \in episodes => row[episode[q]] \in Row
      OBVIOUS
    <3> QED BY <2>2, <3>1, PublicationWrite DEF Publication
  <2> QED BY <1>b, <2>0, <2>3
<1>4. ASSUME NEW q \in Requests, UnpublishEpisode(q) PROVE TypeOK'
  <2>0. PICK r \in loaded[q] : Write(q, Publication(q, r, "draft", r.publishedAt))
    BY <1>4 DEF UnpublishEpisode
  <2>1. r.publishedAt \in Nat
    BY DEF Row
  <2>2. episode[q] \in episodes => Publication(q, r, "draft", r.publishedAt) \in Row
    <3>1. episode[q] \in episodes => row[episode[q]] \in Row
      OBVIOUS
    <3> QED BY <2>1, <3>1, PublicationWrite DEF Publication
  <2> QED BY <1>b, <2>0, <2>2
<1>5. ASSUME NEW q \in Requests, ListEpisodes(q) PROVE TypeOK'
  <2>1. CASE Finish(q)
    BY <1>5, <1>a, <2>1 DEF ListEpisodes, table
  <2>2. ASSUME NEW s \in Listings, NEW step \in {-1, 1}, NEW i \in DOMAIN s, i + step \in DOMAIN s,
               phase' = [phase EXCEPT ![q] = "reorder"],
               order' = [order EXCEPT ![q] = Swapped(s, i, i + step)],
               UNCHANGED <<episode, loaded>>
        PROVE TypeOK'
    <3>1. Swapped(s, i, i + step) \in Seq(Episodes)
      BY <2>2, SwappedIsSeq
    <3> HIDE DEF Listings
    <3>2. order' \in [Requests -> Seq(Episodes)]
      BY <2>2, <3>1
    <3> QED BY <1>5, <2>2, <3>2 DEF ListEpisodes, table, Phases
  <2> QED BY <1>5, <2>1, <2>2 DEF ListEpisodes
<1>6. ASSUME NEW q \in Requests, ReorderEpisodes(q) PROVE TypeOK'
  <2>0. order[q] \in Seq(Episodes)
    OBVIOUS
  <2>1. Renumbered(order[q]) \in [Episodes -> Row]
    BY <2>0, RenumberedRows
  <2>2. row' \in [Episodes -> Row] /\ manual' \in Seq(Episodes)
    BY <1>6, <2>0, <2>1 DEF ReorderEpisodes
  <2> QED BY <1>6, <1>a, <2>2 DEF ReorderEpisodes
<1>7. ASSUME NEW q \in Requests, Abandon(q) PROVE TypeOK'
  BY <1>7, <1>a DEF Abandon, table
<1>8. ASSUME NEW e \in Episodes, NEW t \in Titles, CreateEpisode(e, t) PROVE TypeOK'
  BY <1>8, DraftIsRow DEF CreateEpisode, request
<1>9. ASSUME NEW e \in Episodes, DeleteEpisode(e) PROVE TypeOK'
  BY <1>9, NoRowIsRow DEF DeleteEpisode, request
<1>10. ASSUME NEW e \in Episodes, NEW n \in Transcripts, SetTranscriptStatus(e, n) PROVE TypeOK'
  <2>1. [row[e] EXCEPT !.transcript = n] \in Row
    <3>1. row[e] \in Row
      OBVIOUS
    <3> QED BY <3>1, TranscriptWrite
  <2> QED BY <1>10, <2>1 DEF SetTranscriptStatus, request
<1>11. CASE Tick
  BY <1>11 DEF Tick, table, request
<1>12. CASE UNCHANGED vars
  BY <1>12 DEF vars
<1> QED BY <1>1, <1>2, <1>3, <1>4, <1>5, <1>6, <1>7, <1>8, <1>9, <1>10, <1>11, <1>12 DEF Next

\* A write to one row keeps the invariant when it keeps the position and a published
\* row has a time.
LEMMA RowStep ==
    ASSUME CatalogInv, TypeOK', NEW e \in episodes, NEW r \in Row,
           row' = [row EXCEPT ![e] = r], r.position = row[e].position,
           r.status = "published" => r.publishedAt # NoTime,
           UNCHANGED <<episodes, gone, manual>>
    PROVE  CatalogInv'
<1>1. \A f \in Episodes : row'[f].position = row[f].position
  BY DEF CatalogInv, TypeOK
<1>2. PublishedHasTime'
  BY DEF CatalogInv, TypeOK, PublishedHasTime
<1>3. episodes \subseteq Episodes
  BY DEF CatalogInv, TypeOK
<1> HIDE DEF NoTime
<1>4. TiesOnlyAtFront'
  BY <1>1, <1>3 DEF CatalogInv, TiesOnlyAtFront
<1>5. ManualOrderKept'
  BY <1>1, <1>3 DEF CatalogInv, ManualOrderKept
<1> QED BY <1>2, <1>4, <1>5 DEF CatalogInv

\* Every step keeps the invariant.
LEMMA CatalogStep == CatalogInv /\ [Next]_vars => CatalogInv'
<1> SUFFICES ASSUME CatalogInv, [Next]_vars PROVE CatalogInv'
  OBVIOUS
<1>0. /\ TypeOK /\ TypeOK' /\ now \in Nat \ {0} /\ episodes \subseteq Episodes
      /\ \A e \in Episodes : row[e] \in Row
      /\ \A q \in Requests : loaded[q] \subseteq Row
  BY TypeStep DEF CatalogInv, TypeOK
<1>s. ASSUME UNCHANGED <<episodes, gone, row, manual>> PROVE CatalogInv'
  BY <1>0, <1>s DEF CatalogInv, TiesOnlyAtFront, ManualOrderKept, PublishedHasTime
<1>w. ASSUME NEW q \in Requests, NEW r \in Row, Write(q, r), episode[q] \in episodes,
             r.position = row[episode[q]].position,
             r.status = "published" => r.publishedAt # NoTime
      PROVE  CatalogInv'
  <2>1. row' = [row EXCEPT ![episode[q]] = r] /\ UNCHANGED <<episodes, gone, manual>>
    BY <1>w DEF Write
  <2> HIDE DEF NoTime
  <2> QED BY <1>0, <1>w, <2>1, RowStep
<1>n. ASSUME NEW q \in Requests, NEW r, Write(q, r), episode[q] \notin episodes PROVE CatalogInv'
  BY <1>n, <1>s DEF Write
<1>p. ASSUME NEW q \in Requests, NEW s \in {"draft", "published"}, NEW at \in Nat,
             s = "published" => at # NoTime,
             Write(q, WithPublication(row[episode[q]], s, at))
      PROVE  CatalogInv'
  <2>1. CASE episode[q] \in episodes
    <3>1. PICK o \in Row : o = row[episode[q]]
      BY <1>0, <2>1
    <3>2. /\ WithPublication(o, s, at) \in Row
          /\ WithPublication(o, s, at).position = o.position
          /\ WithPublication(o, s, at).status = s
          /\ WithPublication(o, s, at).publishedAt = at
      BY PublicationWrite
    <3>3. PICK v \in Row : v = WithPublication(o, s, at)
      BY <3>2
    <3>4. Write(q, v)
      BY <1>p, <3>1, <3>3
    <3>5. v.position = row[episode[q]].position /\ (v.status = "published" => v.publishedAt # NoTime)
      BY <1>p, <3>1, <3>2, <3>3
    <3> QED BY <1>w, <2>1, <3>4, <3>5
  <2> QED BY <1>n, <1>p, <2>1
<1>1. ASSUME NEW q \in Requests, NEW e \in Episodes, NEW o \in Operations, Load(q, e, o) PROVE CatalogInv'
  BY <1>1, <1>s DEF Load, table
<1>2. ASSUME NEW q \in Requests, NEW t \in Titles, UpdateEpisodeMetadata(q, t) PROVE CatalogInv'
  <2>1. CASE episode[q] \in episodes
    <3>1. /\ Metadata(q, t) \in Row
          /\ Metadata(q, t).position = row[episode[q]].position
          /\ Metadata(q, t).status = row[episode[q]].status
          /\ Metadata(q, t).publishedAt = row[episode[q]].publishedAt
      BY <1>0, <2>1, TitleWrite DEF Metadata
    <3>2. Metadata(q, t).status = "published" => Metadata(q, t).publishedAt # NoTime
      BY <2>1, <3>1 DEF CatalogInv, PublishedHasTime
    <3> QED BY <1>2, <1>w, <2>1, <3>1, <3>2 DEF UpdateEpisodeMetadata
  <2> QED BY <1>2, <1>n, <2>1 DEF UpdateEpisodeMetadata
<1>3. ASSUME NEW q \in Requests, PublishEpisode(q) PROVE CatalogInv'
  <2>0. PICK r \in loaded[q] : Write(q, Publication(q, r, "published", PublishTime(r)))
    BY <1>3 DEF PublishEpisode
  <2>1. PublishTime(r) \in Nat /\ PublishTime(r) # NoTime
    BY <1>0 DEF PublishTime, Row
  <2>2. PICK at \in Nat : at = PublishTime(r)
    BY <2>1
  <2>3. Write(q, WithPublication(row[episode[q]], "published", at))
    BY <2>0, <2>2 DEF Publication
  <2> QED BY <1>p, <2>1, <2>2, <2>3
<1>4. ASSUME NEW q \in Requests, UnpublishEpisode(q) PROVE CatalogInv'
  <2>0. PICK r \in loaded[q] : Write(q, Publication(q, r, "draft", r.publishedAt))
    BY <1>4 DEF UnpublishEpisode
  <2>1. PICK at \in Nat : at = r.publishedAt
    BY <1>0 DEF Row
  <2>2. Write(q, WithPublication(row[episode[q]], "draft", at))
    BY <2>0, <2>1 DEF Publication
  <2> QED BY <1>p, <2>2
<1>5. ASSUME NEW q \in Requests, ListEpisodes(q) PROVE CatalogInv'
  BY <1>5, <1>s DEF ListEpisodes, table
<1>6. ASSUME NEW q \in Requests, ReorderEpisodes(q) PROVE CatalogInv'
  <2> DEFINE s == order[q]
  <2>1. CASE ~IsOrder(s)
    BY <1>6, <1>s, <2>1 DEF ReorderEpisodes
  <2>2. CASE IsOrder(s)
    <3>0. s \in Seq(Episodes) /\ DOMAIN s = 1..Len(s) /\ Len(s) \in Nat
      BY <1>0 DEF TypeOK
    <3>1. row' = Renumbered(s) /\ manual' = s /\ UNCHANGED <<episodes, gone>>
      BY <1>6, <2>2 DEF ReorderEpisodes
    <3>2. \A i \in DOMAIN s : s[i] \in episodes /\ row'[s[i]].position = i - 1
      BY <1>0, <2>2, <3>0, <3>1, RenumberedRows DEF IsOrder
    <3>3. \A e \in episodes : \E i \in DOMAIN s : s[i] = e
      BY <1>0, <2>2, <3>0, OrderIsOnto
    <3>4. \A e \in episodes : row'[e].status = row[e].status
                             /\ row'[e].publishedAt = row[e].publishedAt
      BY <1>0, <3>0, <3>1, RenumberedRows
    <3> HIDE DEF s
    <3>5. TiesOnlyAtFront'
      <4> SUFFICES ASSUME NEW e \in episodes, NEW f \in episodes, e # f
                   PROVE  row'[e].position # row'[f].position
        BY <3>1 DEF TiesOnlyAtFront
      <4>1. PICK i \in DOMAIN s : s[i] = e
        BY <3>3
      <4>2. PICK j \in DOMAIN s : s[j] = f
        BY <3>3
      <4> QED BY <3>0, <3>2, <4>1, <4>2
    <3>6. ManualOrderKept'
      BY <3>0, <3>1, <3>2 DEF ManualOrderKept
    <3>7. PublishedHasTime'
      BY <3>1, <3>4 DEF CatalogInv, PublishedHasTime
    <3>8. (\A i \in DOMAIN manual : manual[i] \in episodes \cup gone)'
      BY <3>1, <3>2
    <3> QED BY <1>0, <3>5, <3>6, <3>7, <3>8 DEF CatalogInv
  <2> QED BY <2>1, <2>2
<1>7. ASSUME NEW q \in Requests, Abandon(q) PROVE CatalogInv'
  BY <1>7, <1>s DEF Abandon, table
<1>8. ASSUME NEW e \in Episodes, NEW t \in Titles, CreateEpisode(e, t) PROVE CatalogInv'
  <2>1. /\ e \notin episodes \cup gone /\ episodes' = episodes \cup {e}
        /\ UNCHANGED <<gone, manual>> /\ row' = [row EXCEPT ![e] = Draft(t, now)]
    BY <1>8 DEF CreateEpisode
  <2>2. /\ row'[e].position = 0 /\ row'[e].status = "draft"
        /\ \A f \in episodes : row'[f] = row[f]
    BY <1>0, <2>1 DEF Draft, TypeOK
  <2>3. TiesOnlyAtFront'
    BY <2>1, <2>2 DEF CatalogInv, TiesOnlyAtFront
  <2>4. ManualOrderKept'
    BY <2>1, <2>2 DEF CatalogInv, ManualOrderKept
  <2>5. PublishedHasTime'
    BY <2>1, <2>2 DEF CatalogInv, PublishedHasTime
  <2> QED BY <1>0, <2>1, <2>3, <2>4, <2>5 DEF CatalogInv
<1>9. ASSUME NEW e \in Episodes, DeleteEpisode(e) PROVE CatalogInv'
  <2>1. /\ episodes' = episodes \ {e} /\ gone' = gone \cup {e} /\ manual' = manual
        /\ \A f \in episodes' : row'[f] = row[f]
    BY <1>0, <1>9 DEF DeleteEpisode, TypeOK
  <2> QED BY <1>0, <2>1 DEF CatalogInv, TiesOnlyAtFront, ManualOrderKept, PublishedHasTime
<1>10. ASSUME NEW e \in Episodes, NEW n \in Transcripts, SetTranscriptStatus(e, n) PROVE CatalogInv'
  <2> DEFINE w == [row[e] EXCEPT !.transcript = n]
  <2>1. /\ w \in Row /\ w.position = row[e].position
        /\ w.status = row[e].status /\ w.publishedAt = row[e].publishedAt
    BY <1>0, TranscriptWrite
  <2>2. row' = [row EXCEPT ![e] = w] /\ e \in episodes /\ UNCHANGED <<episodes, gone, manual>>
    BY <1>10 DEF SetTranscriptStatus
  <2> HIDE DEF w
  <2>3. w.status = "published" => w.publishedAt # NoTime
    BY <2>1, <2>2 DEF CatalogInv, PublishedHasTime
  <2> QED BY <1>0, <2>1, <2>2, <2>3, RowStep
<1>11. CASE Tick
  BY <1>11, <1>s DEF Tick, table
<1>12. CASE UNCHANGED vars
  BY <1>12, <1>s DEF vars
<1> QED BY <1>1, <1>2, <1>3, <1>4, <1>5, <1>6, <1>7, <1>8, <1>9, <1>10, <1>11, <1>12 DEF Next

\* The inductive invariant of the catalog, for any number of requests and any episodes.
THEOREM CatalogInvariant == Spec => []CatalogInv
<1>1. Init => CatalogInv
  <2> SUFFICES ASSUME Init PROVE CatalogInv
    OBVIOUS
  <2>1. TypeOK
    BY NoRowIsRow DEF Init, TypeOK, Phases
  <2> QED BY <2>1 DEF Init, CatalogInv, TiesOnlyAtFront, ManualOrderKept, PublishedHasTime
<1> QED BY <1>1, CatalogStep, PTL DEF Spec

\* ReorderEpisodes never leaves two episodes at one position, except at the front.
THEOREM TiesOnlyAtFrontAlways == Spec => []TiesOnlyAtFront
<1>1. CatalogInv => TiesOnlyAtFront
  BY DEF CatalogInv
<1> QED BY <1>1, CatalogInvariant, PTL

\* The order written by handleEpisodeMove is kept until the next move.
THEOREM ManualOrderKeptAlways == Spec => []ManualOrderKept
<1>1. CatalogInv => ManualOrderKept
  BY DEF CatalogInv
<1> QED BY <1>1, CatalogInvariant, PTL

\* A published episode has a publication time, however publishing requests overlap.
THEOREM PublishedHasTimeAlways == Spec => []PublishedHasTime
<1>1. CatalogInv => PublishedHasTime
  BY DEF CatalogInv
<1> QED BY <1>1, CatalogInvariant, PTL

\* What a step may change of an episode that stays: the two action properties below.
LEMMA RowKept ==
    ASSUME CatalogInv, [Next]_vars, NEW e \in episodes \cap episodes'
    PROVE  ColumnsStep(e) /\ TimeStep(e)
<1>0. /\ TypeOK /\ e \in Episodes /\ row[e] \in Row /\ DOMAIN row = Episodes
      /\ \A q \in Requests : loaded[q] \subseteq Row
  BY DEF CatalogInv, TypeOK
<1>s. ASSUME row'[e].transcript = row[e].transcript, row'[e].title = row[e].title,
             row'[e].publishedAt = row[e].publishedAt
      PROVE  ColumnsStep(e) /\ TimeStep(e)
  BY <1>s DEF ColumnsStep, TimeStep
<1>1. ASSUME NEW q \in Requests, NEW t \in Titles, UpdateEpisodeMetadata(q, t) PROVE ColumnsStep(e) /\ TimeStep(e)
  <2>1. row'[e] = row[e] \/ row'[e] = [row[e] EXCEPT !.title = t]
    BY <1>0, <1>1 DEF UpdateEpisodeMetadata, Write, Metadata
  <2>2. /\ [row[e] EXCEPT !.title = t].transcript = row[e].transcript
        /\ [row[e] EXCEPT !.title = t].publishedAt = row[e].publishedAt
    BY <1>0, TitleWrite
  <2>3. row'[e].transcript = row[e].transcript /\ row'[e].publishedAt = row[e].publishedAt
    BY <2>1, <2>2
  <2> QED BY <1>1, <2>3 DEF ColumnsStep, TimeStep
<1>2. ASSUME NEW q \in Requests, PublishEpisode(q) \/ UnpublishEpisode(q) PROVE ColumnsStep(e) /\ TimeStep(e)
  <2>1. PICK r \in loaded[q], s \in {"draft", "published"}, at \in Nat :
            /\ Write(q, Publication(q, r, s, at))
            /\ r.publishedAt # NoTime => at = r.publishedAt
    <3>1. \A r \in loaded[q] : PublishTime(r) \in Nat /\ r.publishedAt \in Nat
      BY <1>0 DEF PublishTime, Row, TypeOK
    <3> QED BY <1>2, <3>1 DEF PublishEpisode, UnpublishEpisode, PublishTime
  <2>2. row'[e] = row[e] \/ (episode[q] = e /\ row'[e] = WithPublication(row[e], s, at))
    BY <1>0, <2>1 DEF Write, Publication
  <2>3. phase[q] \in {"publish", "unpublish"}
    BY <1>2 DEF PublishEpisode, UnpublishEpisode
  <2>4. CASE episode[q] = e /\ row'[e] = WithPublication(row[e], s, at)
    <3>1. /\ row'[e].title = row[e].title /\ row'[e].transcript = row[e].transcript
          /\ row'[e].publishedAt = at
      <4>1. PICK o \in Row : o = row[e]
        BY <1>0
      <4>2. /\ WithPublication(o, s, at).title = o.title
            /\ WithPublication(o, s, at).transcript = o.transcript
            /\ WithPublication(o, s, at).publishedAt = at
        BY PublicationWrite
      <4> QED BY <2>4, <4>1, <4>2
    <3>2. TimeStep(e)
      BY <2>1, <2>3, <2>4, <3>1 DEF TimeStep
    <3> QED BY <3>1, <3>2 DEF ColumnsStep
  <2> QED BY <1>s, <2>2, <2>4
<1>3. ASSUME NEW q \in Requests, ReorderEpisodes(q) PROVE ColumnsStep(e) /\ TimeStep(e)
  <2>1. order[q] \in Seq(Episodes)
    BY <1>0 DEF TypeOK
  <2>2. row' = row \/ row' = Renumbered(order[q])
    BY <1>3 DEF ReorderEpisodes
  <2>3. /\ Renumbered(order[q])[e].transcript = row[e].transcript
        /\ Renumbered(order[q])[e].title = row[e].title
        /\ Renumbered(order[q])[e].publishedAt = row[e].publishedAt
    BY <1>0, <2>1, RenumberedRows
  <2> QED BY <1>s, <2>2, <2>3
<1>4. ASSUME NEW f \in Episodes, NEW t \in Titles, CreateEpisode(f, t) PROVE ColumnsStep(e) /\ TimeStep(e)
  BY <1>0, <1>4, <1>s DEF CreateEpisode
<1>5. ASSUME NEW f \in Episodes, DeleteEpisode(f) PROVE ColumnsStep(e) /\ TimeStep(e)
  BY <1>0, <1>5, <1>s DEF DeleteEpisode
<1>6. ASSUME NEW f \in Episodes, NEW n \in Transcripts, SetTranscriptStatus(f, n) PROVE ColumnsStep(e) /\ TimeStep(e)
  <2>1. CASE f = e
    <3>1. row'[e] = [row[e] EXCEPT !.transcript = n]
      BY <1>0, <1>6, <2>1 DEF SetTranscriptStatus
    <3>2. row'[e].title = row[e].title /\ row'[e].publishedAt = row[e].publishedAt
      BY <1>0, <3>1, TranscriptWrite
    <3> QED BY <1>6, <2>1, <3>2 DEF ColumnsStep, TimeStep
  <2>2. CASE f # e
    BY <1>0, <1>6, <1>s, <2>2 DEF SetTranscriptStatus
  <2> QED BY <2>1, <2>2
<1>7. CASE UNCHANGED row
  BY <1>7, <1>s
<1> QED BY <1>1, <1>2, <1>3, <1>4, <1>5, <1>6, <1>7
     DEF Next, Load, ListEpisodes, Abandon, Tick, table, vars

\* No write from a stale copy reverts the worker's or an edit's column.
THEOREM ColumnsKeptAlways == Spec => ColumnsKept
<1>1. CatalogInv /\ [Next]_vars => [\A e \in episodes \cap episodes' : ColumnsStep(e)]_vars
  BY RowKept
<1> QED BY <1>1, CatalogInvariant, PTL DEF Spec, ColumnsKept

\* Only a request that had loaded another publication time changes it.
THEOREM PublishTimeKeptAlways == Spec => PublishTimeKept
<1>1. CatalogInv /\ [Next]_vars => [\A e \in episodes \cap episodes' : TimeStep(e)]_vars
  BY RowKept
<1> QED BY <1>1, CatalogInvariant, PTL DEF Spec, PublishTimeKept
-----------------------------------------------------------------------------
(* The catalog implements EpisodeShelf.                                    *)

\* A write that keeps all positions, or all publication statuses, keeps what the shelf shows
\* of them.
LEMMA SameOrder ==
    ASSUME UNCHANGED episodes, \A e \in episodes : row'[e].position = row[e].position
    PROVE  AtFront' = AtFront /\ PlacedBefore' = PlacedBefore
BY DEF AtFront, PlacedBefore

LEMMA SamePublic ==
    ASSUME UNCHANGED episodes, \A e \in episodes : row'[e].status = row[e].status
    PROVE  Published' = Published
BY DEF Published

LEMMA SameShelf ==
    ASSUME UNCHANGED <<episodes, gone>>,
           \A e \in episodes : row'[e].position = row[e].position /\ row'[e].status = row[e].status
    PROVE  UNCHANGED Shelf!svars
BY SameOrder, SamePublic DEF Shelf!svars

\* A publication changes what is public of one episode, and no position.
LEMMA PublicationShelf ==
    ASSUME CatalogInv, NEW q \in Requests, NEW s \in {"draft", "published"}, NEW at \in Nat,
           Write(q, WithPublication(row[episode[q]], s, at))
    PROVE  [Shelf!ShelfNext]_(Shelf!svars)
<1> DEFINE e == episode[q]
<1>0. episodes \subseteq Episodes /\ row \in [Episodes -> Row]
  BY DEF CatalogInv, TypeOK
<1>1. CASE e \notin episodes
  BY <1>1, SameShelf DEF Write
<1>2. CASE e \in episodes
  <2>1. row[e] \in Row
    BY <1>0, <1>2
  <2>2. PICK r \in Row : r = row[e]
    BY <2>1
  <2>3. WithPublication(r, s, at).position = r.position /\ WithPublication(r, s, at).status = s
    BY PublicationWrite
  <2>4. row' = [row EXCEPT ![e] = WithPublication(r, s, at)] /\ UNCHANGED <<episodes, gone>>
    BY <1>2, <2>2 DEF Write
  <2>5. /\ \A f \in episodes : row'[f].position = row[f].position
        /\ \A f \in episodes : row'[f].status = IF f = e THEN s ELSE row[f].status
    BY <1>0, <2>2, <2>3, <2>4
  <2>6. AtFront' = AtFront /\ PlacedBefore' = PlacedBefore
    BY <2>4, <2>5, SameOrder
  <2>7. Published' = IF s = "published" THEN Published \cup {e} ELSE Published \ {e}
    BY <1>2, <2>4, <2>5 DEF Published
  <2>8. Shelf!Publish(e) \/ Shelf!Withdraw(e)
    BY <1>2, <2>4, <2>6, <2>7 DEF Shelf!Publish, Shelf!Withdraw
  <2> QED BY <1>0, <1>2, <2>8 DEF Shelf!ShelfNext
<1> QED BY <1>1, <1>2

\* A new row goes to the front of those with a position, and a deleted one leaves them be.
LEMMA CreateShelf ==
    ASSUME CatalogInv, NEW e \in Episodes, NEW t \in Titles, CreateEpisode(e, t)
    PROVE  Shelf!Add(e)
<1>0. episodes \subseteq Episodes /\ row \in [Episodes -> Row]
  BY DEF CatalogInv, TypeOK
<1>1. /\ e \notin episodes \cup gone /\ episodes' = episodes \cup {e} /\ UNCHANGED gone
      /\ row' = [row EXCEPT ![e] = Draft(t, now)]
  BY DEF CreateEpisode
<1>2. /\ row'[e].position = 0 /\ row'[e].status = "draft"
      /\ \A f \in episodes : row'[f] = row[f] /\ row[f].position \in Nat
  BY <1>0, <1>1 DEF Draft, Row
<1>3. AtFront' = AtFront \cup {e}
  BY <1>1, <1>2 DEF AtFront
<1>4. PlacedBefore' = PlacedBefore \cup ({e} \X (episodes \ AtFront))
  <2>1. \A x, y \in episodes \cup {e} :
            row'[x].position < row'[y].position <=>
                \/ x \in episodes /\ y \in episodes /\ row[x].position < row[y].position
                \/ x = e /\ y \in episodes \ AtFront
    BY <1>1, <1>2 DEF AtFront
  <2>2. \A x, y : <<x, y>> \in PlacedBefore' <=> <<x, y>> \in PlacedBefore \cup ({e} \X (episodes \ AtFront))
    BY <1>1, <2>1 DEF PlacedBefore
  <2>3. /\ PlacedBefore' \subseteq (episodes \cup {e}) \X (episodes \cup {e})
        /\ PlacedBefore \cup ({e} \X (episodes \ AtFront)) \subseteq (episodes \cup {e}) \X (episodes \cup {e})
    BY <1>1 DEF PlacedBefore
  <2> QED BY <2>2, <2>3
<1>5. Published' = Published
  BY <1>1, <1>2 DEF Published
<1> QED BY <1>1, <1>3, <1>4, <1>5 DEF Shelf!Add

LEMMA DeleteShelf ==
    ASSUME CatalogInv, NEW e \in Episodes, DeleteEpisode(e)
    PROVE  Shelf!Remove(e)
<1>0. episodes \subseteq Episodes /\ row \in [Episodes -> Row]
  BY DEF CatalogInv, TypeOK
<1>1. /\ e \in episodes /\ episodes' = episodes \ {e} /\ gone' = gone \cup {e}
      /\ \A f \in episodes' : row'[f] = row[f]
  BY <1>0 DEF DeleteEpisode
<1>2. AtFront' = AtFront \ {e} /\ Published' = Published \ {e}
  BY <1>1 DEF AtFront, Published
<1>3. PlacedBefore' = {p \in PlacedBefore : e \notin {p[1], p[2]}}
  BY <1>1 DEF PlacedBefore
<1> QED BY <1>1, <1>2, <1>3 DEF Shelf!Remove

\* A list that ReorderEpisodes accepts places all episodes, each behind the one before it.
LEMMA ReorderShelf ==
    ASSUME CatalogInv, NEW q \in Requests, ReorderEpisodes(q), IsOrder(order[q])
    PROVE  Shelf!Arrange
<1> DEFINE s == order[q]
<1>0. TypeOK /\ episodes \subseteq Episodes
  BY DEF CatalogInv, TypeOK
<1>1. s \in Seq(Episodes) /\ DOMAIN s = 1..Len(s) /\ Len(s) \in Nat
  BY <1>0 DEF TypeOK
<1>2. row' = Renumbered(s) /\ UNCHANGED <<episodes, gone>>
  BY DEF ReorderEpisodes
<1>3. \A i \in DOMAIN s : s[i] \in episodes /\ row'[s[i]].position = i - 1
  BY <1>0, <1>1, <1>2, RenumberedRows DEF IsOrder
<1>4. \A e \in episodes : \E i \in DOMAIN s : s[i] = e
  BY <1>0, <1>1, OrderIsOnto
<1>5. \A e \in episodes : row'[e].status = row[e].status
  BY <1>0, <1>1, <1>2, RenumberedRows
<1> HIDE DEF s
<1>6. \A e \in episodes : row'[e].position \in Nat
  BY <1>1, <1>3, <1>4
<1>7. \A e, f \in episodes : e # f => row'[e].position # row'[f].position
  <2> SUFFICES ASSUME NEW e \in episodes, NEW f \in episodes, e # f PROVE row'[e].position # row'[f].position
    OBVIOUS
  <2>1. PICK i \in DOMAIN s : s[i] = e
    BY <1>4
  <2>2. PICK j \in DOMAIN s : s[j] = f
    BY <1>4
  <2> QED BY <1>1, <1>3, <2>1, <2>2
<1>8. \A e, f \in episodes : <<e, f>> \in PlacedBefore' <=> row'[e].position < row'[f].position
  BY <1>2 DEF PlacedBefore
<1>9. PlacedBefore' \in Shelf!Arrangements
  <2>1. PlacedBefore' \in SUBSET (episodes \X episodes)
    BY <1>2 DEF PlacedBefore
  <2>2. \A e \in episodes : <<e, e>> \notin PlacedBefore'
    BY <1>6, <1>8
  <2>3. \A e, f \in episodes : e # f => <<e, f>> \in PlacedBefore' \/ <<f, e>> \in PlacedBefore'
    BY <1>6, <1>7, <1>8
  <2>4. \A e, f, g \in episodes :
            <<e, f>> \in PlacedBefore' /\ <<f, g>> \in PlacedBefore' => <<e, g>> \in PlacedBefore'
    BY <1>6, <1>8
  <2> QED BY <2>1, <2>2, <2>3, <2>4 DEF Shelf!Arrangements
<1>10. AtFront' = {e \in episodes : \A f \in episodes : <<f, e>> \notin PlacedBefore'}
  <2>1. ASSUME NEW e \in episodes
        PROVE  row'[e].position = 0 <=> \A f \in episodes : ~(row'[f].position < row'[e].position)
    <3>1. PICK i \in DOMAIN s : s[i] = e
      BY <1>4
    <3>2. 1 \in DOMAIN s /\ s[1] \in episodes /\ row'[s[1]].position = 0
      BY <1>1, <1>3, <3>1
    <3> QED BY <1>6, <3>2
  <2> QED BY <1>2, <1>8, <2>1 DEF AtFront
<1>11. Published' = Published
  BY <1>2, <1>5, SamePublic
<1> QED BY <1>2, <1>9, <1>10, <1>11 DEF Shelf!Arrange

\* Every step of the requests is a step of the shelf, or one it does not see.
LEMMA StepShelf ==
    ASSUME CatalogInv, [Next]_vars
    PROVE  [Shelf!ShelfNext]_(Shelf!svars)
<1>0. /\ TypeOK /\ episodes \subseteq Episodes /\ row \in [Episodes -> Row]
      /\ \A q \in Requests : loaded[q] \subseteq Row
  BY DEF CatalogInv, TypeOK
<1>1. CASE UNCHANGED <<episodes, gone, row>>
  BY <1>1, SameShelf
<1>2. ASSUME NEW q \in Requests, NEW t \in Titles, UpdateEpisodeMetadata(q, t)
      PROVE  [Shelf!ShelfNext]_(Shelf!svars)
  <2>1. ASSUME NEW e \in episodes
        PROVE  row'[e].position = row[e].position /\ row'[e].status = row[e].status
    <3>1. row'[e] = row[e] \/ row'[e] = [row[e] EXCEPT !.title = t]
      BY <1>0, <1>2 DEF UpdateEpisodeMetadata, Write, Metadata
    <3>2. /\ [row[e] EXCEPT !.title = t].position = row[e].position
          /\ [row[e] EXCEPT !.title = t].status = row[e].status
      BY <1>0, TitleWrite
    <3> QED BY <3>1, <3>2
  <2>2. UNCHANGED <<episodes, gone>>
    BY <1>2 DEF UpdateEpisodeMetadata, Write
  <2> QED BY <2>1, <2>2, SameShelf
<1>3. ASSUME NEW q \in Requests, PublishEpisode(q) \/ UnpublishEpisode(q)
      PROVE  [Shelf!ShelfNext]_(Shelf!svars)
  <2>1. PICK r \in loaded[q], s \in {"draft", "published"}, at \in Nat : Write(q, Publication(q, r, s, at))
    <3>1. \A r \in loaded[q] : PublishTime(r) \in Nat /\ r.publishedAt \in Nat
      BY <1>0 DEF PublishTime, Row, TypeOK
    <3> QED BY <1>3, <3>1 DEF PublishEpisode, UnpublishEpisode
  <2> QED BY <2>1, PublicationShelf DEF Publication
<1>4. ASSUME NEW q \in Requests, ReorderEpisodes(q) PROVE [Shelf!ShelfNext]_(Shelf!svars)
  <2>1. CASE IsOrder(order[q])
    BY <1>4, <2>1, ReorderShelf DEF Shelf!ShelfNext
  <2>2. CASE ~IsOrder(order[q])
    BY <1>1, <1>4, <2>2 DEF ReorderEpisodes
  <2> QED BY <2>1, <2>2
<1>5. ASSUME NEW e \in Episodes, NEW t \in Titles, CreateEpisode(e, t) PROVE Shelf!ShelfNext
  BY <1>5, CreateShelf DEF Shelf!ShelfNext
<1>6. ASSUME NEW e \in Episodes, DeleteEpisode(e) PROVE Shelf!ShelfNext
  BY <1>6, DeleteShelf DEF Shelf!ShelfNext
<1>7. ASSUME NEW e \in Episodes, NEW n \in Transcripts, SetTranscriptStatus(e, n)
      PROVE  [Shelf!ShelfNext]_(Shelf!svars)
  <2>1. ASSUME NEW f \in episodes
        PROVE  row'[f].position = row[f].position /\ row'[f].status = row[f].status
    <3>1. row'[f] = row[f] \/ row'[f] = [row[f] EXCEPT !.transcript = n]
      BY <1>0, <1>7 DEF SetTranscriptStatus
    <3>2. /\ [row[f] EXCEPT !.transcript = n].position = row[f].position
          /\ [row[f] EXCEPT !.transcript = n].status = row[f].status
      BY <1>0, TranscriptWrite
    <3> QED BY <3>1, <3>2
  <2> QED BY <1>7, <2>1, SameShelf DEF SetTranscriptStatus
<1> QED BY <1>1, <1>2, <1>3, <1>4, <1>5, <1>6, <1>7
     DEF Next, Load, ListEpisodes, Abandon, Tick, table, vars

\* Whatever copies the requests work on, the owner's order and what is public change only by
\* an upload, a delete, a publication and a move, for any number of episodes and requests.
THEOREM CatalogImplementsShelf == Spec => ImplementsShelf
<1>1. Init => Shelf!ShelfInit
  BY DEF Init, Shelf!ShelfInit, AtFront, PlacedBefore, Published
<1>2. CatalogInv /\ [Next]_vars => [Shelf!ShelfNext]_(Shelf!svars)
  BY StepShelf
<1> QED BY <1>1, <1>2, CatalogInvariant, PTL DEF Spec, ImplementsShelf, Shelf!ShelfSpec
=============================================================================
