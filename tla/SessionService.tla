---------------------------- MODULE SessionService ----------------------------
(***************************************************************************)
(* What castlet promises about signing in, with no requests, rows, epochs  *)
(* or callbacks: a user has ways to prove who they are, which only grow; a *)
(* session is opened on one of them; logging out everywhere ends all of    *)
(* the user's sessions and nobody else's, and an ended session stays       *)
(* ended.                                                                  *)
(***************************************************************************)
CONSTANTS
    Users,
    Identities,  \* what identity providers prove
    Password,    \* the proof that every user may have one of
    Sessions     \* records with a "user" and a proof, "by"

VARIABLES
    proofs,      \* how a user can sign in; {} before the user has an account
    issued,      \* the sessions ever handed out
    live,        \* those of them that are honoured
    told         \* those of them whose user was told that they have ended

svars == <<proofs, issued, live, told>>

SessionInit ==
    /\ proofs = [u \in Users |-> {}]
    /\ issued = {} /\ live = {} /\ told = {}

\* A password comes with the account, and is never added to one.
SignUp(u) ==
    /\ proofs[u] = {}
    /\ proofs' = [proofs EXCEPT ![u] = {Password}]
    /\ UNCHANGED <<issued, live, told>>

\* An identity is proof of one user for good, and a user has one at most.  It comes with
\* the account or joins a password.
Join(u, i) ==
    /\ proofs[u] \subseteq {Password}
    /\ \A v \in Users : i \notin proofs[v]
    /\ proofs' = [proofs EXCEPT ![u] = @ \cup {i}]
    /\ UNCHANGED <<issued, live, told>>

\* A session is opened on a proof that its user has.  One that a logout has overtaken is
\* handed out, but is never honoured.
Open(s) ==
    /\ s.by \in proofs[s.user]
    /\ issued' = issued \cup {s}
    /\ \/ s \notin told /\ live' = live \cup {s}
       \/ UNCHANGED live
    /\ UNCHANGED <<proofs, told>>

\* All sessions of u end.  The user may fail to hear of it.
LogOutEverywhere(u) ==
    /\ live' = {s \in live : s.user # u}
    /\ \/ told' = told \cup {s \in issued : s.user = u}
       \/ UNCHANGED told
    /\ UNCHANGED <<proofs, issued>>

SessionNext ==
    \/ \E u \in Users : SignUp(u) \/ LogOutEverywhere(u)
    \/ \E u \in Users, i \in Identities : Join(u, i)
    \/ \E s \in Sessions : Open(s)

SessionSpec == SessionInit /\ [][SessionNext]_svars
=============================================================================
