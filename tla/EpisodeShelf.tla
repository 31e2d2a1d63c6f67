----------------------------- MODULE EpisodeShelf -----------------------------
(***************************************************************************)
(* What the owner of a channel is promised about its episodes, with no     *)
(* positions, copies or requests: the order that the owner gave them, and  *)
(* which of them are public, change only by what is meant to change them.  *)
(***************************************************************************)
CONSTANT Episodes

VARIABLES
    shelf,       \* the episodes of the channel
    removed,     \* those it no longer has
    front,       \* the ones at the front: new ones, and the first that the owner has placed
    before,      \* the owner's order, as a relation
    public       \* the published ones

svars == <<shelf, removed, front, before, public>>

ShelfInit == shelf = {} /\ removed = {} /\ front = {} /\ before = {} /\ public = {}

\* A new episode is put in front of those that have a place, and is not published.
Add(e) ==
    /\ e \notin shelf \cup removed
    /\ shelf' = shelf \cup {e}
    /\ front' = front \cup {e}
    /\ before' = before \cup ({e} \X (shelf \ front))
    /\ UNCHANGED <<removed, public>>

\* An episode is removed for good, and the others stay as they are.
Remove(e) ==
    /\ e \in shelf
    /\ shelf' = shelf \ {e}
    /\ removed' = removed \cup {e}
    /\ front' = front \ {e}
    /\ before' = {p \in before : e \notin {p[1], p[2]}}
    /\ public' = public \ {e}

\* The ways to place all of the episodes one after the other.
Arrangements ==
    {b \in SUBSET (shelf \X shelf) :
        /\ \A e \in shelf : <<e, e>> \notin b
        /\ \A e, f \in shelf : e # f => <<e, f>> \in b \/ <<f, e>> \in b
        /\ \A e, f, g \in shelf : <<e, f>> \in b /\ <<f, g>> \in b => <<e, g>> \in b}

\* The owner places all of them.
Arrange ==
    /\ before' \in Arrangements
    /\ front' = {e \in shelf : \A f \in shelf : <<f, e>> \notin before'}
    /\ UNCHANGED <<shelf, removed, public>>

Publish(e) ==
    /\ e \in shelf
    /\ public' = public \cup {e}
    /\ UNCHANGED <<shelf, removed, front, before>>

Withdraw(e) ==
    /\ public' = public \ {e}
    /\ UNCHANGED <<shelf, removed, front, before>>

ShelfNext ==
    \/ \E e \in Episodes : Publish(e) \/ Withdraw(e) \/ Add(e) \/ Remove(e)
    \/ Arrange

ShelfSpec == ShelfInit /\ [][ShelfNext]_svars
=============================================================================
