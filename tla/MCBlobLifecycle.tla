--------------------------- MODULE MCBlobLifecycle ---------------------------
(* BlobLifecycle on small instances. *)
EXTENDS BlobLifecycle, TLC

\* Handlers, row ids and episodes are interchangeable.
BlobSymmetry ==
    Permutations(Handlers) \cup Permutations(Episodes)
        \cup Permutations(ReservationIds) \cup Permutations(LeaseIds)
=============================================================================
