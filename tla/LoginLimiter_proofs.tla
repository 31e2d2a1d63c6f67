------------------------- MODULE LoginLimiter_proofs -------------------------
(***************************************************************************)
(* Proofs about LoginLimiter.  The bound on the failures of a window needs *)
(* the requests that have passed the check and not been charged yet        *)
(* (Chargers): each of them still has its failure to add.                  *)
(***************************************************************************)
EXTENDS LoginLimiter, FiniteSetTheorems, TLAPS

USE LimiterAssumption

\* The requests are finitely many, and so are those that may charge a window.
LEMMA ChargersFinite ==
    ASSUME NEW c
    PROVE  /\ IsFiniteSet(Chargers(c))
           /\ Cardinality(Chargers(c)) \in Nat
           /\ Cardinality(Chargers(c)) <= Cardinality(Requests)
           /\ Cardinality(Requests) \in Nat
<1>1. Chargers(c) \subseteq Requests
  BY DEF Chargers
<1> QED BY <1>1, FS_Subset, FS_CardinalityType

\* Fewer chargers, of a window with no more failures, keep the bound.
LEMMA FewerChargers ==
    ASSUME NEW c \in Clients, TypeOK, TypeOK', OvershootInv,
           Chargers(c)' \subseteq Chargers(c), count'[c] <= count[c]
    PROVE  Chargers(c)' # {} =>
               count'[c] + Cardinality(Chargers(c)') < MaxFailures + Cardinality(Requests)
<1>1. /\ Cardinality(Chargers(c)') <= Cardinality(Chargers(c))
      /\ Cardinality(Chargers(c)') \in Nat /\ Cardinality(Chargers(c)) \in Nat
      /\ Cardinality(Requests) \in Nat
  BY ChargersFinite, FS_Subset, FS_CardinalityType
<1>2. count[c] \in Nat /\ count'[c] \in Nat
  BY DEF TypeOK
<1>3. Chargers(c)' # {} => count[c] + Cardinality(Chargers(c)) < MaxFailures + Cardinality(Requests)
  BY DEF OvershootInv
<1> QED BY <1>1, <1>2, <1>3

\* What fail keeps is a part of the map with room for one more entry.
LEMMA KeptHasRoom ==
    ASSUME NEW a \in 0..Lag, IsFiniteSet(Tracked)
    PROVE  /\ Kept(a) \subseteq Tracked /\ IsFiniteSet(Kept(a))
           /\ Cardinality(Kept(a)) \in Nat /\ Cardinality(Kept(a)) < MaxEntries
<1>1. Kept(a) \subseteq Tracked
  BY DEF Kept, Swept
<1>2. IsFiniteSet(Kept(a)) /\ Cardinality(Kept(a)) \in Nat /\ Cardinality(Tracked) \in Nat
  BY <1>1, FS_Subset, FS_CardinalityType
<1>3. CASE SweepDue(a)
  <2> DEFINE open == {c \in Tracked : Open(c, a)}
  <2>1. Cardinality(open) \in Nat
    <3>1. open \subseteq Tracked
      OBVIOUS
    <3> QED BY <3>1, FS_Subset, FS_CardinalityType
  <2>2. Kept(a) = IF Cardinality(open) >= MaxEntries THEN {} ELSE open
    BY <1>3 DEF Kept, Swept
  <2> HIDE DEF open
  <2>3. Cardinality({}) = 0
    BY FS_EmptySet
  <2> QED BY <1>1, <1>2, <2>1, <2>2, <2>3
<1>4. CASE ~SweepDue(a)
  BY <1>1, <1>2, <1>4 DEF Kept, SweepDue
<1> QED BY <1>3, <1>4

\* Every step keeps the types, and what a request holds between its calls.
LEMMA TypeStep == TypeOK /\ RequestsShaped /\ [Next]_vars => TypeOK' /\ RequestsShaped'
<1> SUFFICES ASSUME TypeOK, RequestsShaped, [Next]_vars PROVE TypeOK' /\ RequestsShaped'
  OBVIOUS
<1> USE DEF TypeOK, RequestsShaped, Reading, limiter
<1>1. ASSUME NEW q \in Requests, NEW c \in Clients, Begin(q, c) PROVE TypeOK' /\ RequestsShaped'
  BY <1>1 DEF Begin
<1>2. ASSUME NEW q \in Requests, Check(q) PROVE TypeOK' /\ RequestsShaped'
  BY <1>2 DEF Check, Finish
<1>3. ASSUME NEW q \in Requests, Malformed(q) PROVE TypeOK' /\ RequestsShaped'
  BY <1>3 DEF Malformed, Finish
<1>4. ASSUME NEW q \in Requests, Wrong(q) PROVE TypeOK' /\ RequestsShaped'
  BY <1>4 DEF Wrong
<1>5. ASSUME NEW q \in Requests, Right(q) PROVE TypeOK' /\ RequestsShaped'
  BY <1>5 DEF Right, Finish
<1>6. ASSUME NEW q \in Requests, Fail(q) PROVE TypeOK' /\ RequestsShaped'
  <2>1. client[q] \in Clients /\ age[q] \in 0..Lag
    BY <1>6 DEF Fail
  <2>2. ChargedLeft(client[q], age[q]) \in -Lag..Window
    BY <2>1 DEF ChargedLeft
  <2>3. count' \in [Clients -> Nat] /\ left' \in [Clients -> -Lag..Window]
    BY <1>6, <2>1, <2>2 DEF Fail
  <2>4. sinceSweep' \in 0..(Window + Lag)
    BY <1>6, <2>1 DEF Fail
  <2> QED BY <1>6, <2>3, <2>4 DEF Fail, Finish
<1>7. CASE Tick
  BY <1>7 DEF Tick
<1>8. CASE UNCHANGED vars
  BY <1>8 DEF vars
<1> QED BY <1>1, <1>2, <1>3, <1>4, <1>5, <1>6, <1>7, <1>8 DEF Next

\* The map: only a failure adds to it, after making room.
LEMMA EntriesStep ==
    LimiterInv /\ [Next]_vars => IsFiniteSet(Tracked') /\ EntriesBounded'
<1> SUFFICES ASSUME LimiterInv, [Next]_vars PROVE IsFiniteSet(Tracked') /\ EntriesBounded'
  OBVIOUS
<1>1. CASE Tracked' \subseteq Tracked
  <2>1. Cardinality(Tracked') <= Cardinality(Tracked) /\ IsFiniteSet(Tracked')
    BY <1>1, FS_Subset DEF LimiterInv
  <2>2. Cardinality(Tracked') \in Nat /\ Cardinality(Tracked) \in Nat
    BY <2>1, FS_CardinalityType DEF LimiterInv
  <2> QED BY <2>1, <2>2 DEF EntriesBounded, LimiterInv
<1>2. ASSUME NEW q \in Requests, Fail(q) PROVE IsFiniteSet(Tracked') /\ EntriesBounded'
  <2> DEFINE a == age[q]
             c == client[q]
  <2>1. a \in 0..Lag /\ c \in Clients
    BY <1>2 DEF LimiterInv, TypeOK, RequestsShaped, Fail
  <2>2. /\ Kept(a) \subseteq Tracked /\ IsFiniteSet(Kept(a))
        /\ Cardinality(Kept(a)) \in Nat /\ Cardinality(Kept(a)) < MaxEntries
    BY <2>1, KeptHasRoom DEF LimiterInv
  <2>3. Tracked' \subseteq Kept(a) \cup {c}
    BY <1>2 DEF Fail, Tracked
  <2> HIDE DEF a, c
  <2>4. IsFiniteSet(Kept(a) \cup {c}) /\ Cardinality(Kept(a) \cup {c}) <= Cardinality(Kept(a)) + 1
    <3>1. /\ IsFiniteSet(Kept(a) \cup {c})
          /\ \/ Cardinality(Kept(a) \cup {c}) = Cardinality(Kept(a))
             \/ Cardinality(Kept(a) \cup {c}) = Cardinality(Kept(a)) + 1
      BY <2>2, FS_AddElement, Zenon
    <3> QED BY <2>2, <3>1
  <2>5. IsFiniteSet(Tracked') /\ Cardinality(Tracked') <= Cardinality(Kept(a) \cup {c})
    BY <2>3, <2>4, FS_Subset
  <2>6. Cardinality(Tracked') \in Nat /\ Cardinality(Kept(a) \cup {c}) \in Nat
    BY <2>4, <2>5, FS_CardinalityType
  <2> QED BY <2>2, <2>4, <2>5, <2>6 DEF EntriesBounded
<1>3. ASSUME NEW q \in Requests, Right(q) PROVE Tracked' \subseteq Tracked
  BY <1>3 DEF Right, Tracked, LimiterInv, TypeOK
<1>4. CASE UNCHANGED count
  BY <1>1, <1>4 DEF Tracked
<1> QED BY <1>1, <1>2, <1>3, <1>4
     DEF Next, Begin, Check, Malformed, Wrong, Tick, vars, limiter

\* The failures of a window, with those that may still be added to it.
LEMMA OvershootStep ==
    LimiterInv /\ [Next]_vars => FailuresBounded' /\ OvershootInv'
<1> SUFFICES ASSUME LimiterInv, [Next]_vars, NEW d \in Clients
             PROVE  /\ count'[d] < MaxFailures + Cardinality(Requests)
                    /\ Chargers(d)' # {} => count'[d] + Cardinality(Chargers(d)')
                                               < MaxFailures + Cardinality(Requests)
  BY DEF FailuresBounded, OvershootInv
<1> DEFINE Bounds == /\ count'[d] < MaxFailures + Cardinality(Requests)
                     /\ Chargers(d)' # {} => count'[d] + Cardinality(Chargers(d)')
                                               < MaxFailures + Cardinality(Requests)
<1> SUFFICES Bounds
  OBVIOUS
<1>0. /\ TypeOK /\ RequestsShaped /\ OvershootInv /\ FailuresBounded
      /\ TypeOK' /\ RequestsShaped'
      /\ Cardinality(Requests) \in Nat /\ count[d] \in Nat /\ count'[d] \in Nat
  <2>1. TypeOK /\ RequestsShaped /\ OvershootInv /\ FailuresBounded
    BY DEF LimiterInv
  <2>2. TypeOK' /\ RequestsShaped'
    BY <2>1, TypeStep
  <2> QED BY <2>1, <2>2, FS_CardinalityType DEF TypeOK
<1>a. ASSUME Chargers(d)' \subseteq Chargers(d), count'[d] <= count[d] PROVE Bounds
  <2>1. Chargers(d)' # {} => count'[d] + Cardinality(Chargers(d)')
                               < MaxFailures + Cardinality(Requests)
    BY <1>0, <1>a, FewerChargers
  <2>2. count'[d] < MaxFailures + Cardinality(Requests)
    BY <1>0, <1>a DEF FailuresBounded
  <2> QED BY <2>1, <2>2
<1>1. ASSUME NEW q \in Requests, NEW c \in Clients, Begin(q, c) PROVE Bounds
  <2>1. Chargers(d)' \subseteq Chargers(d) /\ count' = count
    BY <1>0, <1>1 DEF Begin, limiter, Chargers, Open, Tracked, TypeOK
  <2> QED BY <1>0, <1>a, <2>1
<1>2. ASSUME NEW q \in Requests, Check(q) PROVE Bounds
  <2>0. UNCHANGED <<count, left>> /\ count'[d] = count[d] /\ age[q] \in 0..Lag
    BY <1>0, <1>2 DEF Check, limiter, TypeOK
  <2>1. CASE q \notin Chargers(d)'
    <3>1. Chargers(d)' \subseteq Chargers(d)
      BY <1>0, <1>2, <2>0, <2>1 DEF Check, Finish, Chargers, Open, Tracked, TypeOK
    <3> QED BY <1>0, <1>a, <2>0, <3>1
  <2>2. CASE q \in Chargers(d)'
    <3>1. phase'[q] # "idle" /\ client'[q] = d
      BY <2>2 DEF Chargers
    <3>2. ~Blocked(client[q], age[q]) /\ phase'[q] = "hash" /\ client[q] = d
      BY <1>0, <1>2, <3>1 DEF Check, Finish, TypeOK
    <3>3. Open(d, 0)
      BY <2>0, <2>2, <3>2 DEF Chargers, Open, Tracked
    <3>4. Open(d, age[q])
      BY <1>0, <2>0, <3>3 DEF Open, TypeOK
    <3>5. count[d] < MaxFailures
      BY <1>0, <3>2, <3>4 DEF Blocked
    <3>6. Cardinality(Chargers(d)') \in Nat /\ Cardinality(Chargers(d)') <= Cardinality(Requests)
      <4>1. Chargers(d)' \subseteq Requests
        BY DEF Chargers
      <4> QED BY <4>1, FS_Subset, FS_CardinalityType
    <3> QED BY <1>0, <2>0, <3>5, <3>6
  <2> QED BY <2>1, <2>2
<1>3. ASSUME NEW q \in Requests, Malformed(q) PROVE Bounds
  <2>1. Chargers(d)' \subseteq Chargers(d) /\ count' = count
    BY <1>0, <1>3 DEF Malformed, Finish, limiter, Chargers, Open, Tracked, TypeOK
  <2> QED BY <1>0, <1>a, <2>1
<1>4. ASSUME NEW q \in Requests, Wrong(q) PROVE Bounds
  <2>1. age[q] = 0 /\ UNCHANGED <<count, left, client, age>>
    BY <1>0, <1>4 DEF Wrong, RequestsShaped, Reading, limiter
  <2>2. Chargers(d)' \subseteq Chargers(d)
    BY <1>0, <1>4, <2>1 DEF Wrong, Chargers, Open, Tracked, TypeOK
  <2> QED BY <1>0, <1>a, <2>1, <2>2
<1>5. ASSUME NEW q \in Requests, Right(q) PROVE Bounds
  <2>1. count'[d] = count[d] \/ count'[d] = 0
    BY <1>0, <1>5 DEF Right, TypeOK
  <2>2. Chargers(d)' \subseteq Chargers(d)
    BY <1>0, <1>5 DEF Right, Finish, Chargers, Open, Tracked, TypeOK
  <2> QED BY <1>0, <1>a, <2>1, <2>2
<1>6. ASSUME NEW q \in Requests, Fail(q) PROVE Bounds
  <2>0. client[q] \in Clients /\ age[q] \in 0..Lag /\ phase[q] = "fail"
    BY <1>0, <1>6 DEF Fail, TypeOK, RequestsShaped
  <2>a. \A r \in Requests : r \in Chargers(d)' =>
            r # q /\ phase'[r] = phase[r] /\ client'[r] = client[r] /\ age'[r] = age[r]
    BY <1>0, <1>6 DEF Fail, Finish, Chargers, TypeOK
  <2>1. CASE d # client[q]
    <3>1. \/ count'[d] = count[d] /\ left'[d] = left[d]
          \/ count'[d] = 0
      BY <1>6, <2>1 DEF Fail
    <3>2. Chargers(d)' \subseteq Chargers(d)
      BY <2>a, <3>1 DEF Chargers, Open, Tracked
    <3> QED BY <1>0, <1>a, <3>1, <3>2
  <2>2. CASE d = client[q] /\ d \in Kept(age[q]) /\ Open(d, age[q])
    <3>1. count'[d] = count[d] + 1 /\ left'[d] = left[d]
      BY <1>6, <2>2 DEF Fail, ChargedLeft
    <3>2. q \in Chargers(d)
      BY <2>0, <2>2 DEF Chargers
    <3>3. Chargers(d)' \subseteq Chargers(d) \ {q}
      BY <2>a, <2>2, <3>1 DEF Chargers, Open, Tracked
    <3>4. /\ IsFiniteSet(Chargers(d) \ {q})
          /\ Cardinality(Chargers(d) \ {q}) = Cardinality(Chargers(d)) - 1
      BY <3>2, ChargersFinite, FS_RemoveElement
    <3>5. Cardinality(Chargers(d)') <= Cardinality(Chargers(d)) - 1 /\ Cardinality(Chargers(d)') \in Nat
      BY <3>3, <3>4, FS_Subset, FS_CardinalityType
    <3>6. count[d] + Cardinality(Chargers(d)) < MaxFailures + Cardinality(Requests)
      BY <1>0, <3>2 DEF OvershootInv
    <3>7. Cardinality(Chargers(d)) \in Nat
      BY ChargersFinite
    <3> QED BY <1>0, <3>1, <3>5, <3>6, <3>7
  <2>3. CASE d = client[q] /\ ~(d \in Kept(age[q]) /\ Open(d, age[q]))
    <3>1. count'[d] = 1
      BY <1>6, <2>3 DEF Fail
    <3>2. Chargers(d)' \subseteq Requests
      BY DEF Chargers
    <3>3. Cardinality(Chargers(d)') <= Cardinality(Requests) /\ Cardinality(Chargers(d)') \in Nat
      BY <3>2, FS_Subset, FS_CardinalityType
    <3> QED BY <1>0, <3>1, <3>3
  <2> QED BY <2>1, <2>2, <2>3
<1>7. CASE Tick
  <2>1. \A r \in Requests : r \in Chargers(d)' => r \in Chargers(d)
    BY <1>0, <1>7 DEF Tick, Chargers, Open, Tracked, Reading, TypeOK
  <2>2. Chargers(d)' \subseteq Chargers(d) /\ count' = count
    BY <1>7, <2>1 DEF Tick, Chargers
  <2> QED BY <1>0, <1>a, <2>2
<1>8. CASE UNCHANGED vars
  <2>1. Chargers(d)' \subseteq Chargers(d) /\ count' = count
    BY <1>8 DEF vars, Chargers, Open, Tracked
  <2> QED BY <1>0, <1>a, <2>1
<1> QED BY <1>1, <1>2, <1>3, <1>4, <1>5, <1>6, <1>7, <1>8 DEF Next

\* The inductive invariant of the login limiter, for any number of clients and logins.
THEOREM LimiterInvariant == Spec => []LimiterInv
<1>1. Init => LimiterInv
  <2> SUFFICES ASSUME Init PROVE LimiterInv
    OBVIOUS
  <2>1. TypeOK /\ RequestsShaped
    BY DEF Init, TypeOK, RequestsShaped
  <2>2. Tracked = {}
    BY DEF Init, Tracked
  <2>3. IsFiniteSet(Tracked) /\ EntriesBounded
    BY <2>2, FS_EmptySet DEF EntriesBounded
  <2>4. FailuresBounded
    BY FS_CardinalityType DEF Init, FailuresBounded
  <2>5. OvershootInv
    BY <2>2 DEF OvershootInv, Chargers, Open
  <2> QED BY <2>1, <2>3, <2>4, <2>5 DEF LimiterInv
<1>2. LimiterInv /\ [Next]_vars => LimiterInv'
  BY TypeStep, EntriesStep, OvershootStep DEF LimiterInv
<1> QED BY <1>1, <1>2, PTL DEF Spec

\* A window of handleLogin never counts more failures than the limit and one for each
\* other login under way.
THEOREM FailuresBoundedAlways == Spec => []FailuresBounded
<1>1. LimiterInv => FailuresBounded
  BY DEF LimiterInv
<1> QED BY <1>1, LimiterInvariant, PTL

\* sweepLocked keeps the map within its cap.
THEOREM EntriesBoundedAlways == Spec => []EntriesBounded
<1>1. LimiterInv => EntriesBounded
  BY DEF LimiterInv
<1> QED BY <1>1, LimiterInvariant, PTL

\* A throttled client stays throttled until its window has elapsed, unless it logs in
\* or the map was full: neither late failures nor sweeps with an old time end it.
THEOREM ThrottleHoldsAlways == Spec => ThrottleHolds
<1> DEFINE Held(c) ==
        \/ count'[c] >= MaxFailures /\ left'[c] \in {left[c], left[c] - 1}
        \/ count'[c] = 0 /\ \E q \in Requests : client[q] = c /\ phase[q] = "hash"
        \/ Cardinality(Tracked) >= MaxEntries
<1>1. ASSUME LimiterInv, [Next]_vars, NEW c \in Clients, Blocked(c, 0) PROVE Held(c)
  <2>0. /\ TypeOK /\ RequestsShaped
        /\ c \in Tracked /\ left[c] > 0 /\ count[c] >= MaxFailures
        /\ count[c] \in Nat /\ left[c] \in Int
    BY <1>1 DEF LimiterInv, Blocked, Open, TypeOK
  <2>1. ASSUME NEW q \in Requests, Fail(q), ~(Cardinality(Tracked) >= MaxEntries) PROVE Held(c)
    <3>0. age[q] \in 0..Lag
      BY <2>0 DEF TypeOK
    <3>1. Open(c, age[q])
      BY <2>0, <3>0 DEF Open
    <3> DEFINE open == {b \in Tracked : Open(b, age[q])}
    <3>2. ~(Cardinality(open) >= MaxEntries)
      <4>1. open \subseteq Tracked /\ IsFiniteSet(Tracked)
        BY <1>1 DEF LimiterInv
      <4>2. /\ Cardinality(open) \in Nat /\ Cardinality(Tracked) \in Nat
            /\ Cardinality(open) <= Cardinality(Tracked)
        BY <4>1, FS_Subset, FS_CardinalityType
      <4> HIDE DEF open
      <4> QED BY <2>1, <4>2
    <3>3. c \in Kept(age[q])
      BY <2>0, <3>1, <3>2 DEF Kept, Swept
    <3>4. left'[c] = left[c] /\ (count'[c] = count[c] \/ count'[c] = count[c] + 1)
      BY <2>1, <3>1, <3>3 DEF Fail, ChargedLeft
    <3> QED BY <2>0, <3>4
  <2>2. ASSUME NEW q \in Requests, Right(q) PROVE Held(c)
    BY <2>0, <2>2 DEF Right, TypeOK
  <2>3. CASE Tick
    BY <2>0, <2>3 DEF Tick
  <2>4. CASE UNCHANGED <<count, left>>
    BY <2>0, <2>4
  <2> QED BY <1>1, <2>1, <2>2, <2>3, <2>4
       DEF Next, Begin, Check, Malformed, Wrong, vars, limiter
<1>2. LimiterInv /\ [Next]_vars => [\A c \in Clients : Blocked(c, 0) => Held(c)]_vars
  BY <1>1
<1> QED BY <1>2, LimiterInvariant, PTL DEF Spec, ThrottleHolds
=============================================================================
