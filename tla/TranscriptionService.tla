------------------------- MODULE TranscriptionService -------------------------
(***************************************************************************)
(* What the owner of an episode is promised about transcription, with no   *)
(* jobs, leases, attempts or workers: requests for an episode are          *)
(* numbered, one request at a time is open, and an open request is         *)
(* answered once.  The transcript that an answer stores is that of the     *)
(* newest request.                                                         *)
(***************************************************************************)
EXTENDS Integers

CONSTANTS
    Episodes,
    RequestIds  \* positive numbers that requests are given, in increasing order

VARIABLES
    status,     \* what the episode page shows, or "deleted"
    requests,   \* the requests accepted for an episode
    version     \* the request that the stored transcript answers; 0 if none is stored

svars == <<status, requests, version>>

Open   == {"pending", "processing"}
Closed == {"none", "done", "failed"}

Newest(e, r) == r \in requests[e] /\ \A q \in requests[e] : q <= r

ServiceInit ==
    /\ status = [e \in Episodes |-> "none"]
    /\ requests = [e \in Episodes |-> {}]
    /\ version = [e \in Episodes |-> 0]

\* A request is accepted only while none is open, and is newer than all before it.
Request(e) ==
    /\ status[e] \in Closed
    /\ \E r \in RequestIds :
        /\ \A q \in requests[e] : q < r
        /\ requests' = [requests EXCEPT ![e] = @ \cup {r}]
    /\ status' = [status EXCEPT ![e] = "pending"]
    /\ UNCHANGED version

Start(e) ==
    /\ status[e] \in Open
    /\ status' = [status EXCEPT ![e] = "processing"]
    /\ UNCHANGED <<requests, version>>

\* The open request is answered: with a transcript, or without one.
Answer(e) ==
    /\ status[e] \in Open
    /\ \/ /\ status' = [status EXCEPT ![e] = "done"]
          /\ \E r \in requests[e] : Newest(e, r) /\ version' = [version EXCEPT ![e] = r]
       \/ \E s \in {"none", "failed"} :
            status' = [status EXCEPT ![e] = s] /\ UNCHANGED version
    /\ UNCHANGED requests

Remove(e) ==
    /\ status[e] # "deleted"
    /\ status' = [status EXCEPT ![e] = "deleted"]
    /\ version' = [version EXCEPT ![e] = 0]
    /\ UNCHANGED requests

ServiceNext == \E e \in Episodes : Request(e) \/ Start(e) \/ Answer(e) \/ Remove(e)

ServiceSpec == ServiceInit /\ [][ServiceNext]_svars
=============================================================================
