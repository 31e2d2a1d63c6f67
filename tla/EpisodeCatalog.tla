---------------------------- MODULE EpisodeCatalog ----------------------------
(***************************************************************************)
(* The episodes of a channel as their owner edits them: metadata,          *)
(* publication and manual order, while episodes are uploaded and deleted   *)
(* and the worker writes their transcript status.                          *)
(*                                                                         *)
(* Each admin handler loads the episode, works on the copy and writes, in  *)
(* separate store calls: what it writes may come from a row, or an order,  *)
(* that is no longer current.  A store call is one transaction.            *)
(***************************************************************************)
EXTENDS Integers, SequencesExt

CONSTANTS
    Episodes,      \* the ids that may be given out; an id is never given out twice
    NoEpisode,
    Requests,      \* bound: admin requests served at once
    Operations,    \* bound: what they may ask for
    Titles,        \* title, description and language
    Transcripts,   \* transcript statuses
    MaxNow         \* bound: the clock, in the seconds that timestamps are rounded to

NoTime == 0        \* published_at IS NULL

ASSUME CatalogAssumption ==
    /\ NoEpisode \notin Episodes
    /\ IsFiniteSet(Episodes)
    /\ Operations \subseteq {"update", "publish", "unpublish", "list"}
    /\ Titles # {} /\ "none" \in Transcripts
    /\ MaxNow \in Nat \ {0}

Row == [title : Titles, transcript : Transcripts, status : {"draft", "published"},
        publishedAt : Nat, createdAt : Nat, position : Nat]

VARIABLES
    now,           \* the clock
    episodes,      \* the ids of the rows in episodes
    gone,          \* the ids that were deleted
    row,           \* their columns
    phase,         \* what each request does next
    episode,       \* the episode it is about
    loaded,        \* the row it has loaded, or an empty set
    order,         \* the order it wants to write
    manual         \* history: the last order written

table   == <<episodes, gone, row>>
request == <<phase, episode, loaded, order>>
vars    == <<now, episodes, gone, row, phase, episode, loaded, order, manual>>

Phases == {"idle", "update", "publish", "unpublish", "list", "reorder"}

TypeOK ==
    /\ now \in Nat \ {0}
    /\ episodes \subseteq Episodes
    /\ gone \subseteq Episodes \ episodes
    /\ row \in [Episodes -> Row]
    /\ phase \in [Requests -> Phases]
    /\ episode \in [Requests -> Episodes \cup {NoEpisode}]
    /\ loaded \in [Requests -> SUBSET Row]
    /\ order \in [Requests -> Seq(Episodes)]
    /\ manual \in Seq(Episodes)

-----------------------------------------------------------------------------
(* The store.                                                              *)

\* COALESCE(published_at, created_at).
Date(r) == IF r.publishedAt = NoTime THEN r.createdAt ELSE r.publishedAt

\* The ORDER BY of ListEpisodes.
SortsBefore(r, s) ==
    \/ r.position < s.position
    \/ r.position = s.position /\ Date(r) > Date(s)
    \/ r.position = s.position /\ Date(r) = Date(s) /\ r.createdAt > s.createdAt

\* What ListEpisodes may return for the channel: rows that tie come in any order.
Listings ==
    {s \in SetToSeqs(episodes) :
        \A i, j \in DOMAIN s : i < j => ~SortsBefore(row[s[j]], row[s[i]])}

\* The validation in ReorderEpisodes: exactly the ids of the channel, each of them once.
IsOrder(s) ==
    /\ Len(s) = Cardinality(episodes)
    /\ \A i \in DOMAIN s : s[i] \in episodes
    /\ \A i, j \in DOMAIN s : i # j => s[i] # s[j]

\* ReorderEpisodes: the position of an episode is its index, counted from 0.
Renumbered(s) ==
    [e \in Episodes |->
        IF \E i \in DOMAIN s : s[i] = e
        THEN [row[e] EXCEPT !.position = (CHOOSE i \in DOMAIN s : s[i] = e) - 1]
        ELSE row[e]]

\* A row with its publication columns set.
WithPublication(r, s, t) == [r EXCEPT !.status = s, !.publishedAt = t]

\* Mutant: UpdateEpisode writes every column of the loaded row.
PublicationOfLoaded(q, r, s, t) == WithPublication(r, s, t)

\* SetEpisodePublication writes the publication columns of the current row only;
\* r is the row the request has loaded.
Publication(q, r, s, t) == WithPublication(row[episode[q]], s, t)

\* UpdateEpisodeMetadata writes the metadata columns of the current row only.
Metadata(q, t) == [row[episode[q]] EXCEPT !.title = t]

-----------------------------------------------------------------------------
(* The handlers.                                                           *)

\* The response is written.
Finish(q) ==
    /\ phase' = [phase EXCEPT ![q] = "idle"]
    /\ episode' = [episode EXCEPT ![q] = NoEpisode]
    /\ loaded' = [loaded EXCEPT ![q] = {}]
    /\ order' = [order EXCEPT ![q] = <<>>]

\* ownedEpisode: the handler of operation o loads the episode.  An episode that does
\* not exist is a 404; so is one of somebody else, whose channels are not modelled.  A
\* move uses nothing of the row but its id.
Load(q, e, o) ==
    /\ phase[q] = "idle" /\ e \in episodes
    /\ phase' = [phase EXCEPT ![q] = o]
    /\ episode' = [episode EXCEPT ![q] = e]
    /\ loaded' = [loaded EXCEPT ![q] = IF o = "list" THEN {} ELSE {row[e]}]
    /\ UNCHANGED <<now, order, table, manual>>

\* Writes r as the row of the request's episode, if it still exists (requireAffected).
Write(q, r) ==
    /\ row' = IF episode[q] \in episodes THEN [row EXCEPT ![episode[q]] = r] ELSE row
    /\ Finish(q)
    /\ UNCHANGED <<now, episodes, gone, manual>>

\* handleEpisodeUpdate, with a title.
UpdateEpisodeMetadata(q, t) ==
    /\ phase[q] = "update"
    /\ Write(q, Metadata(q, t))

\* Mutant: the loaded time is written as it is.
PublishTimeOfLoaded(r) == r.publishedAt

\* Mutant: publishing again is a new publication.
PublishTimeNow(r) == now

\* setEpisodePublished: the time of an episode published before is kept.
PublishTime(r) == IF r.publishedAt = NoTime THEN now ELSE r.publishedAt

\* handleEpisodePublish.
PublishEpisode(q) ==
    \E r \in loaded[q] :
        /\ phase[q] = "publish"
        /\ Write(q, Publication(q, r, "published", PublishTime(r)))

\* handleEpisodeUnpublish: the time that was loaded is written back.
UnpublishEpisode(q) ==
    \E r \in loaded[q] :
        /\ phase[q] = "unpublish"
        /\ Write(q, Publication(q, r, "draft", r.publishedAt))

\* s with its members i and j exchanged.
Swapped(s, i, j) == [s EXCEPT ![i] = s[j], ![j] = s[i]]

\* handleEpisodeMove: list the channel and exchange the episode with a neighbour.  An
\* episode at the edge, or one that is gone, ends the request.
ListEpisodes(q) ==
    /\ phase[q] = "list"
    /\ \E s \in Listings, step \in {-1, 1} :
           \/ \E i \in DOMAIN s :
                  /\ s[i] = episode[q] /\ i + step \in DOMAIN s
                  /\ phase' = [phase EXCEPT ![q] = "reorder"]
                  /\ order' = [order EXCEPT ![q] = Swapped(s, i, i + step)]
                  /\ UNCHANGED <<episode, loaded>>
           \/ /\ \A i \in DOMAIN s : s[i] = episode[q] => i + step \notin DOMAIN s
              /\ Finish(q)
    /\ UNCHANGED <<now, table, manual>>

\* ReorderEpisodes: an order that is not one of the channel's episodes is refused.
ReorderEpisodes(q) ==
    /\ phase[q] = "reorder"
    /\ \/ /\ IsOrder(order[q])
          /\ row' = Renumbered(order[q])
          /\ manual' = order[q]
       \/ ~IsOrder(order[q]) /\ UNCHANGED <<row, manual>>
    /\ Finish(q)
    /\ UNCHANGED <<now, episodes, gone>>

\* A store call fails, or the client is gone and its context is cancelled.
Abandon(q) ==
    /\ phase[q] # "idle"
    /\ Finish(q)
    /\ UNCHANGED <<now, table, manual>>

-----------------------------------------------------------------------------
(* The rest of the program.                                                *)

\* The row of a new upload, which goes to position 0 and is not queued yet.
Draft(t, at) ==
    [title |-> t, transcript |-> "none", status |-> "draft",
     publishedAt |-> NoTime, createdAt |-> at, position |-> 0]

\* handleEpisodeCreate, its last store call but one.
CreateEpisode(e, t) ==
    /\ e \notin episodes \cup gone
    /\ episodes' = episodes \cup {e}
    /\ row' = [row EXCEPT ![e] = Draft(t, now)]
    /\ UNCHANGED <<now, gone, request, manual>>

\* What row holds for an id without a row.
NoRow == Draft(CHOOSE t \in Titles : TRUE, 0)

\* handleEpisodeDelete.
DeleteEpisode(e) ==
    /\ e \in episodes
    /\ episodes' = episodes \ {e}
    /\ gone' = gone \cup {e}
    /\ row' = [row EXCEPT ![e] = NoRow]
    /\ UNCHANGED <<now, request, manual>>

\* setEpisodeStatusTx: the worker, or a request to transcribe, moves the status.
SetTranscriptStatus(e, n) ==
    /\ e \in episodes
    /\ row' = [row EXCEPT ![e].transcript = n]
    /\ UNCHANGED <<now, episodes, gone, request, manual>>

\* Time passes.
Tick ==
    /\ now < MaxNow
    /\ now' = now + 1
    /\ UNCHANGED <<table, request, manual>>

Init ==
    /\ now = 1
    /\ episodes = {} /\ gone = {}
    /\ row = [e \in Episodes |-> NoRow]
    /\ phase = [q \in Requests |-> "idle"]
    /\ episode = [q \in Requests |-> NoEpisode]
    /\ loaded = [q \in Requests |-> {}]
    /\ order = [q \in Requests |-> <<>>]
    /\ manual = <<>>

Next ==
    \/ \E q \in Requests, e \in Episodes, o \in Operations : Load(q, e, o)
    \/ \E q \in Requests, t \in Titles : UpdateEpisodeMetadata(q, t)
    \/ \E q \in Requests :
           \/ PublishEpisode(q) \/ UnpublishEpisode(q)
           \/ ListEpisodes(q) \/ ReorderEpisodes(q)
           \/ Abandon(q)
    \/ \E e \in Episodes, t \in Titles : CreateEpisode(e, t)
    \/ \E e \in Episodes : DeleteEpisode(e)
    \/ \E e \in Episodes, n \in Transcripts : SetTranscriptStatus(e, n)
    \/ Tick

Spec == Init /\ [][Next]_vars

-----------------------------------------------------------------------------
(* Properties.                                                             *)

\* Two episodes share a position only at the front, where new uploads are put: no
\* stale list that ReorderEpisodes accepts leaves duplicates behind.
TiesOnlyAtFront ==
    \A e, f \in episodes :
        e # f /\ row[e].position = row[f].position => row[e].position = 0

\* The episodes that handleEpisodeMove ordered stay in that order until the next move,
\* whatever is uploaded, deleted, edited or published in between.
ManualOrderKept ==
    \A i, j \in DOMAIN manual :
        /\ i < j
        /\ manual[i] \in episodes /\ manual[j] \in episodes
        => row[manual[i]].position < row[manual[j]].position

\* A published episode has a publication time, which feeds and the order of listings
\* read, even when a publish and an unpublish that loaded different rows overlap.
PublishedHasTime ==
    \A e \in episodes : row[e].status = "published" => row[e].publishedAt # NoTime

\* The inductive invariant of the catalog: positions and times as above, and ids that
\* are never given out again after a delete.
CatalogInv ==
    /\ TypeOK
    /\ TiesOnlyAtFront
    /\ ManualOrderKept
    /\ PublishedHasTime
    /\ \A i \in DOMAIN manual : manual[i] \in episodes \cup gone

\* What a step may do to the columns of an episode that are not publication columns.
ColumnsStep(e) ==
    /\ row'[e].transcript # row[e].transcript =>
           \E n \in Transcripts : SetTranscriptStatus(e, n)
    /\ row'[e].title # row[e].title =>
           \E q \in Requests, t \in Titles : UpdateEpisodeMetadata(q, t)

\* No write from a stale copy reverts a column that is not its own: the transcript
\* status of the worker, or the metadata of an edit.  (The position: ManualOrderKept.)
ColumnsKept == [][\A e \in episodes \cap episodes' : ColumnsStep(e)]_vars

\* What a step may do to a publication time that is there.
TimeStep(e) ==
    /\ row[e].publishedAt # NoTime
    /\ row'[e].publishedAt # row[e].publishedAt
    => \E q \in Requests : \E r \in loaded[q] :
           /\ episode[q] = e /\ phase[q] \in {"publish", "unpublish"}
           /\ r.publishedAt # row[e].publishedAt

\* setEpisodePublished: a publication time, once there, is only changed by a request that
\* had loaded another one: publishing again or unpublishing keeps the original time,
\* except where requests for the same episode overlap.
PublishTimeKept == [][\A e \in episodes \cap episodes' : TimeStep(e)]_vars
-----------------------------------------------------------------------------
(* What the owner sees: EpisodeShelf.                                      *)

AtFront      == {e \in episodes : row[e].position = 0}
PlacedBefore == {p \in episodes \X episodes : row[p[1]].position < row[p[2]].position}
Published    == {e \in episodes : row[e].status = "published"}

Shelf == INSTANCE EpisodeShelf WITH
    shelf   <- episodes,
    removed <- gone,
    front   <- AtFront,
    before  <- PlacedBefore,
    public  <- Published

\* handleEpisodeMove, setEpisodePublished, UpdateEpisodeMetadata: the rows, written one
\* column or another from copies that may be stale, keep what EpisodeShelf promises: an
\* upload, a delete and a publication leave the order of the others alone, a move that is
\* accepted places all episodes there are, and an edit or the worker changes neither the
\* order nor what is public.
ImplementsShelf == Shelf!ShelfSpec
=============================================================================
