------------------------------ MODULE MediaStore ------------------------------
(***************************************************************************)
(* What the rest of the system may rely on about media: an episode row is  *)
(* created only for bytes that are there, and the bytes of a key go only   *)
(* while no episode has it.  The one exception is a key of which a delete  *)
(* outlived its deadline or its sender: nobody can say when such a delete  *)
(* takes effect.  BlobLifecycle implements this; MediaPath is built on it. *)
(***************************************************************************)
CONSTANTS Keys, NoKey, Episodes

VARIABLES
    blobs,       \* the keys under which the blob store holds an object
    late,        \* the keys of which a delete outlived its deadline or its sender
    episodeKey   \* episodes.media_key; NoKey: no such row

storeVars == <<blobs, late, episodeKey>>

\* An episode has the key.
Owned(k) == \E e \in Episodes : episodeKey[e] = k

\* BlobStore.Put, or a PUT that the service gets to later.
Put(k) == blobs' = blobs \cup {k} /\ UNCHANGED <<late, episodeKey>>

\* Store.CreateEpisode of an upload that is still protected.
Create(e, k) ==
    /\ episodeKey[e] = NoKey
    /\ k \in blobs \cup late
    /\ episodeKey' = [episodeKey EXCEPT ![e] = k]
    /\ UNCHANGED <<blobs, late>>

\* Store.DeleteEpisode
Remove(e) ==
    /\ episodeKey[e] # NoKey
    /\ episodeKey' = [episodeKey EXCEPT ![e] = NoKey]
    /\ UNCHANGED <<blobs, late>>

\* Mutant: the bytes go with any of the episodes that share them.
ReclaimShared(k) ==
    /\ k \in blobs
    /\ blobs' = blobs \ {k}
    /\ UNCHANGED <<late, episodeKey>>

\* deleteLeasedBlob: the bytes go once nobody has them.
Reclaim(k) ==
    /\ k \in blobs
    /\ ~Owned(k)
    /\ blobs' = blobs \ {k}
    /\ UNCHANGED <<late, episodeKey>>

\* A delete outlives its deadline or its sender: it may take effect, now or later.
Overrun(k) ==
    /\ late' = late \cup {k}
    /\ blobs' \in {blobs, blobs \ {k}}
    /\ UNCHANGED episodeKey
LateDelete(k) ==
    /\ k \in late
    /\ blobs' = blobs \ {k}
    /\ UNCHANGED <<late, episodeKey>>

Init == blobs = {} /\ late = {} /\ episodeKey = [e \in Episodes |-> NoKey]

Next ==
    \/ \E k \in Keys : Put(k) \/ Reclaim(k) \/ Overrun(k) \/ LateDelete(k)
    \/ \E e \in Episodes, k \in Keys : Create(e, k)
    \/ \E e \in Episodes : Remove(e)

Spec == Init /\ [][Next]_storeVars
===============================================================================
