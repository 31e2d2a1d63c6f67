----------------------------- MODULE LoginLimiter -----------------------------
(***************************************************************************)
(* The brake on password guessing: failed logins counted by client in a    *)
(* fixed window, kept in a map that a mutex guards and that must not grow  *)
(* without bound.                                                          *)
(*                                                                         *)
(* The mutex makes blocked, fail and reset atomic and nothing else is: a   *)
(* login is checked before its password is hashed and charged after it,    *)
(* and both calls are given a time that was read before the mutex was      *)
(* taken, so they reach the map out of the order of their times.           *)
(***************************************************************************)
EXTENDS Integers, FiniteSets

CONSTANTS
    Clients,       \* the keys: client addresses
    NoClient,
    Requests,      \* bound: logins served at once
    MaxFailures,   \* loginRateLimitMax
    Window,        \* loginRateLimitWindow
    MaxEntries,    \* loginLimiterMaxEntries
    Lag            \* bound: how long a request may wait between reading the time and the map

ASSUME LimiterAssumption ==
    /\ NoClient \notin Clients
    /\ IsFiniteSet(Requests)
    /\ MaxFailures \in Nat /\ MaxFailures >= 2
    /\ Window \in Nat \ {0} /\ MaxEntries \in Nat \ {0}
    /\ Lag \in Nat /\ Lag < Window

VARIABLES
    count,         \* loginBucket.count; 0 stands for no entry
    left,          \* resetAt - now, down to -Lag
    sinceSweep,    \* now - lastSweep, up to Window + Lag
    phase,         \* what each request does next
    client,        \* the client it is from
    age            \* how long ago it read the time it will hand to the limiter

limiter == <<count, left, sinceSweep>>
request == <<phase, client, age>>
vars    == <<count, left, sinceSweep, phase, client, age>>

TypeOK ==
    /\ count \in [Clients -> Nat]
    /\ left \in [Clients -> -Lag..Window]
    /\ sinceSweep \in 0..(Window + Lag)
    /\ phase \in [Requests -> {"idle", "check", "hash", "fail"}]
    /\ client \in [Requests -> Clients \cup {NoClient}]
    /\ age \in [Requests -> 0..Lag]

-----------------------------------------------------------------------------
(* The limiter.                                                            *)

\* The keys of the map buckets.
Tracked == {c \in Clients : count[c] > 0}

\* now.Before(resetAt), for a time read a ago.
Open(c, a) == c \in Tracked /\ left[c] > -a

\* Mutant: an off-by-one in the comparison with the limit.
BlockedOffByOne(c, a) == Open(c, a) /\ count[c] > MaxFailures

\* blocked: a full window that has not elapsed.
Blocked(c, a) == Open(c, a) /\ count[c] >= MaxFailures

\* sweepLocked runs once a window, and always when the map is full.
SweepDue(a) == sinceSweep - a >= Window \/ Cardinality(Tracked) >= MaxEntries

\* sweepLocked: the entries it leaves.
Swept(a) ==
    LET open == {c \in Tracked : Open(c, a)}
    IN  IF Cardinality(open) >= MaxEntries THEN {} ELSE open

\* The entries that fail finds.
Kept(a) == IF SweepDue(a) THEN Swept(a) ELSE Tracked

-----------------------------------------------------------------------------
(* handleLogin.                                                            *)

\* A login from client c arrives and reads the time.
Begin(q, c) ==
    /\ phase[q] = "idle"
    /\ phase' = [phase EXCEPT ![q] = "check"]
    /\ client' = [client EXCEPT ![q] = c]
    /\ UNCHANGED <<age, limiter>>

\* The response is written.
Finish(q) ==
    /\ phase' = [phase EXCEPT ![q] = "idle"]
    /\ client' = [client EXCEPT ![q] = NoClient]
    /\ age' = [age EXCEPT ![q] = 0]

\* The throttle: 429 before the body is read, or the password is compared.
Check(q) ==
    /\ phase[q] = "check"
    /\ \/ Blocked(client[q], age[q]) /\ Finish(q)
       \/ /\ ~Blocked(client[q], age[q])
          /\ phase' = [phase EXCEPT ![q] = "hash"]
          /\ age' = [age EXCEPT ![q] = 0]
          /\ UNCHANGED client
    /\ UNCHANGED limiter

\* parseSmallForm refuses the body: nothing is charged.
Malformed(q) ==
    /\ phase[q] = "hash"
    /\ Finish(q)
    /\ UNCHANGED limiter

\* The password is wrong, or there is no such account; the time is read.
Wrong(q) ==
    /\ phase[q] = "hash"
    /\ phase' = [phase EXCEPT ![q] = "fail"]
    /\ UNCHANGED <<client, age, limiter>>

\* The password is right: reset.
Right(q) ==
    /\ phase[q] = "hash"
    /\ count' = [count EXCEPT ![client[q]] = 0]
    /\ left' = [left EXCEPT ![client[q]] = -Lag]
    /\ Finish(q)
    /\ UNCHANGED sinceSweep

\* Mutant: every failure starts the window again.
ChargedLeftSliding(c, a) == Window - a

\* fail: when the window of the charged entry ends.
ChargedLeft(c, a) == IF c \in Kept(a) /\ Open(c, a) THEN left[c] ELSE Window - a

\* fail: a sweep, then a new window or one more failure in the old one.
Fail(q) ==
    LET c == client[q]
        a == age[q]
    IN  /\ phase[q] = "fail"
        /\ count' = [d \in Clients |->
               IF d = c THEN IF c \in Kept(a) /\ Open(c, a) THEN count[c] + 1 ELSE 1
               ELSE IF d \in Kept(a) THEN count[d] ELSE 0]
        /\ left' = [d \in Clients |->
               IF d = c THEN ChargedLeft(c, a)
               ELSE IF d \in Kept(a) THEN left[d] ELSE -Lag]
        /\ sinceSweep' = IF SweepDue(a) THEN a ELSE sinceSweep
        /\ Finish(q)

\* Whether request q holds a time it has read and not yet used.
Reading(q) == phase[q] \in {"check", "fail"}

\* Time passes.
Tick ==
    /\ \A q \in Requests : Reading(q) => age[q] < Lag
    /\ left' = [c \in Clients |-> IF left[c] > -Lag THEN left[c] - 1 ELSE -Lag]
    /\ sinceSweep' = IF sinceSweep < Window + Lag THEN sinceSweep + 1 ELSE sinceSweep
    /\ age' = [q \in Requests |-> IF Reading(q) THEN age[q] + 1 ELSE 0]
    /\ UNCHANGED <<count, phase, client>>

-----------------------------------------------------------------------------
\* newLoginLimiter: an empty map; lastSweep is the zero time.
Init ==
    /\ count = [c \in Clients |-> 0]
    /\ left = [c \in Clients |-> -Lag]
    /\ sinceSweep = Window + Lag
    /\ phase = [q \in Requests |-> "idle"]
    /\ client = [q \in Requests |-> NoClient]
    /\ age = [q \in Requests |-> 0]

Next ==
    \/ \E q \in Requests, c \in Clients : Begin(q, c)
    \/ \E q \in Requests : Check(q) \/ Malformed(q) \/ Wrong(q) \/ Right(q) \/ Fail(q)
    \/ Tick

Spec == Init /\ [][Next]_vars

-----------------------------------------------------------------------------
(* Properties.                                                             *)

\* The requests that may still add to the open window of client c.
Chargers(c) ==
    {q \in Requests : /\ client[q] = c
                      /\ \/ phase[q] = "hash" /\ Open(c, 0)
                         \/ phase[q] = "fail" /\ Open(c, age[q])}

\* The failures charged to a window and those that may still be: a check is passed
\* below the limit only, so that concurrent logins of a client overshoot the limit
\* by less than their number, however check, hash and fail interleave.
OvershootInv ==
    \A c \in Clients :
        Chargers(c) # {} =>
            count[c] + Cardinality(Chargers(c)) < MaxFailures + Cardinality(Requests)

\* The number of failures a window of handleLogin admits: the limit, and one for
\* each other login that had passed the check when the limit was reached.
FailuresBounded ==
    \A c \in Clients : count[c] < MaxFailures + Cardinality(Requests)

\* sweepLocked keeps the map within loginLimiterMaxEntries, whatever clients fail,
\* also when every window is still open.
EntriesBounded == Cardinality(Tracked) <= MaxEntries

\* A request knows its client, and holds a time only where it is about to use one.
RequestsShaped ==
    \A q \in Requests : /\ phase[q] # "idle" => client[q] \in Clients
                        /\ ~Reading(q) => age[q] = 0

\* The inductive invariant of the limiter: the bounds above, and what handleLogin
\* knows between its calls.
LimiterInv ==
    /\ TypeOK
    /\ RequestsShaped
    /\ IsFiniteSet(Tracked)
    /\ EntriesBounded
    /\ FailuresBounded
    /\ OvershootInv

\* A throttled client (blocked returns true for it) stays throttled until its window
\* has elapsed, and the end of its window is never postponed by late failures, unless
\* it logs in or the map was full.
ThrottleHolds ==
    [][\A c \in Clients : Blocked(c, 0) =>
           \/ count'[c] >= MaxFailures /\ left'[c] \in {left[c], left[c] - 1}
           \/ count'[c] = 0 /\ \E q \in Requests : client[q] = c /\ phase[q] = "hash"
           \/ Cardinality(Tracked) >= MaxEntries]_vars
=============================================================================
