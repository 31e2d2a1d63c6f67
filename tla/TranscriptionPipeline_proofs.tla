--------------------- MODULE TranscriptionPipeline_proofs ---------------------
(* Proofs about TranscriptionPipeline, for every value of its constants. *)
EXTENDS TranscriptionPipeline, TLAPS

\* The retry delay is a whole number of ticks for every attempt a worker can
\* have made (defaultBackoff saturates before it shifts).
LEMMA BackoffIsNat ==
    ASSUME NEW a \in Nat, a >= 1
    PROVE  Backoff(a) \in Nat
<1>1. CASE a >= 6
  BY <1>1, PipelineAssumption DEF Backoff
<1>2. CASE a \in 1..5
  <2>1. <<2, 4, 8, 16, 32>>[a] \in Nat
    BY <1>2
  <2>2. BackoffUnit * <<2, 4, 8, 16, 32>>[a] \in Nat
    BY <2>1, PipelineAssumption
  <2>3. QED
    BY <1>2, <2>2, PipelineAssumption DEF Backoff
<1>3. QED
  BY <1>1, <1>2

\* Job ids are numbers, so that older and newer jobs are comparable.
LEMMA JobsAreNat == Jobs \subseteq Nat
  BY PipelineAssumption DEF Jobs

\* NoClaim is a claim on no job.
LEMMA NoClaimType == NoClaim \in Claims
  BY DEF NoClaim, NoJob, Claims

\* The library starts in a state that satisfies the inductive invariant.
LEMMA InitInv == Init => PipelineInv
  BY PipelineAssumption, NoClaimType DEF Init, PipelineInv, TypeOK, ClaimsIssued, JobsInOrder, LiveIsNewest,
     LiveJobIsShown, MarkerAlone, TranscriptIsSettled, DoneIsNewest, RunsAreClaims,
     SuccessCountedOnce, Live, Busy, Engaged, Working, Phases, EpisodeStatus, JobStatus,
     Jobs, NoJob, NoClaim

\* At most one job of an episode is live: each of two live ones would be the newer.
LEMMA InvOneLive == PipelineInv => OneLiveJob
<1> SUFFICES ASSUME PipelineInv, NEW j \in Jobs, NEW k \in Jobs,
                    Live(j), Live(k), jobEpisode[j] = jobEpisode[k]
             PROVE  j = k
  BY DEF OneLiveJob
<1>1. j <= k /\ k <= j
  BY DEF PipelineInv, LiveIsNewest
<1>2. j \in Nat /\ k \in Nat
  BY JobsAreNat
<1>3. QED
  BY <1>1, <1>2

\* A transcription request keeps the invariant: it starts a job only for an
\* episode that has no live one, and the job it creates is the newest.
LEMMA EnqueueInv ==
    ASSUME PipelineInv, NEW e \in Episodes, EnqueueTranscription(e)
    PROVE  PipelineInv'
<1> USE PipelineAssumption DEF TypeOK, Live, Busy, JobStatus, EpisodeStatus, Jobs
<1>1. PICK j \in Jobs :
        /\ jobStatus[j] = "absent"
        /\ \A k \in Jobs : k < j => jobStatus[k] # "absent"
        /\ jobEpisode' = [jobEpisode EXCEPT ![j] = e]
        /\ jobStatus' = [jobStatus EXCEPT ![j] = "pending"]
        /\ due' = [due EXCEPT ![j] = 0]
  BY DEF EnqueueTranscription, SetJobStatus
<1>2. /\ epStatus[e] \in {"none", "done", "failed"}
      /\ epStatus' = [epStatus EXCEPT ![e] = "pending"]
      /\ UNCHANGED <<transcript, attempts, phase, claim, result, runs, successes, crashes>>
  BY DEF EnqueueTranscription, Startable, SetEpisodeStatus, PipelineInv
<1>3. \A k \in Jobs : jobEpisode[k] = e => ~Live(k) /\ k < j
  <2> SUFFICES ASSUME NEW k \in Jobs, jobEpisode[k] = e PROVE ~Live(k) /\ k < j
    OBVIOUS
  <2>1. ~Live(k)
    BY <1>2 DEF PipelineInv, LiveJobIsShown
  <2>2. jobStatus[k] # "absent"
    BY DEF PipelineInv, JobsInOrder
  <2>3. ~(j < k) /\ j # k
    BY <1>1, <2>2 DEF PipelineInv, JobsInOrder
  <2>4. QED
    BY <2>1, <2>3
<1>4. TypeOK'
  BY <1>1, <1>2 DEF PipelineInv
<1>5. ClaimsIssued'
  BY <1>1, <1>2 DEF PipelineInv, ClaimsIssued
<1>6. JobsInOrder'
  BY <1>1, <1>2 DEF PipelineInv, JobsInOrder
<1>7. LiveIsNewest'
  BY <1>1, <1>2, <1>3 DEF PipelineInv, LiveIsNewest
<1>8. LiveJobIsShown'
  <2> SUFFICES ASSUME NEW k \in Jobs, Live(k)' PROVE epStatus'[jobEpisode'[k]] \in Busy \cup {"deleted"}
    BY DEF LiveJobIsShown
  <2>1. CASE k = j
    BY <1>1, <1>2, <2>1 DEF PipelineInv
  <2>2. CASE k # j
    <3>1. Live(k) /\ jobEpisode'[k] = jobEpisode[k]
      BY <1>1, <2>2 DEF PipelineInv
    <3>2. epStatus[jobEpisode[k]] \in Busy \cup {"deleted"} /\ jobEpisode[k] \in Episodes
      BY <3>1 DEF PipelineInv, LiveJobIsShown, JobsInOrder
    <3>3. QED
      BY <1>2, <3>1, <3>2 DEF PipelineInv
  <2>3. QED
    BY <2>1, <2>2
<1>9. MarkerAlone'
  <2>1. \A w \in Workers : phase[w] = "mark" =>
          /\ claim[w][1] \in Jobs /\ claim[w][1] # j
          /\ jobEpisode[claim[w][1]] \in Episodes \ {e}
    BY <1>1, <1>2 DEF PipelineInv, MarkerAlone, SoleMarker, ClaimsIssued, JobsInOrder, Engaged
  <2> SUFFICES ASSUME NEW w \in Workers, phase'[w] = "mark"
               PROVE  SoleMarker(w)'
    BY DEF MarkerAlone
  <2>2. QED
    BY <1>1, <1>2, <2>1 DEF PipelineInv, MarkerAlone, SoleMarker
<1>10. TranscriptIsSettled'
  BY <1>1, <1>2 DEF PipelineInv, TranscriptIsSettled, NoClaim, NoJob
<1>11. DoneIsNewest'
  BY <1>1, <1>2 DEF PipelineInv, DoneIsNewest, NoClaim, NoJob
<1>12. RunsAreClaims'
  BY <1>1, <1>2 DEF PipelineInv, RunsAreClaims
<1>13. SuccessCountedOnce'
  BY <1>1, <1>2 DEF PipelineInv, SuccessCountedOnce
<1>14. QED
  BY <1>4, <1>5, <1>6, <1>7, <1>8, <1>9, <1>10, <1>11, <1>12, <1>13 DEF PipelineInv

\* A step of a worker that writes nothing keeps the invariant, unless it makes
\* the worker a marker or invents a claim.
LEMMA QuietInv ==
    ASSUME PipelineInv, UNCHANGED <<table, runs, successes>>,
           NEW w \in Workers, NEW p \in Phases \ {"mark"},
           phase' = [phase EXCEPT ![w] = p],
           claim' = claim \/ (claim' = [claim EXCEPT ![w] = NoClaim] /\ p \notin Engaged),
           p \in Engaged => phase[w] \in Engaged,
           result' \in [Workers -> {"none", "done"}], crashes' \in Nat
    PROVE  PipelineInv'
<1> USE DEF PipelineInv, TypeOK, table
<1>1. TypeOK'
  BY NoClaimType
<1>2. ClaimsIssued'
  BY DEF ClaimsIssued
<1>3. MarkerAlone'
  <2> SUFFICES ASSUME NEW v \in Workers, phase'[v] = "mark"
               PROVE  SoleMarker(v)'
    BY DEF MarkerAlone
  <2>1. \A u \in Workers : phase'[u] = "mark" => phase[u] = "mark" /\ claim'[u] = claim[u]
    BY DEF Phases
  <2>2. QED
    BY <2>1 DEF MarkerAlone, SoleMarker, Live
<1>4. /\ JobsInOrder' /\ LiveIsNewest' /\ LiveJobIsShown'
      /\ TranscriptIsSettled' /\ DoneIsNewest' /\ RunsAreClaims' /\ SuccessCountedOnce'
  BY DEF JobsInOrder, LiveIsNewest, LiveJobIsShown, TranscriptIsSettled, DoneIsNewest,
         RunsAreClaims, SuccessCountedOnce, Live
<1>5. QED
  BY <1>1, <1>2, <1>3, <1>4

\* The holder of a job's claim finishes the job and leaves the episode alone
\* (FailJob, CompleteJob); if it failed the job it may become the marker.
LEMMA FinishInv ==
    ASSUME PipelineInv, NEW w \in Workers, phase[w] \in Engaged, HoldsClaim(claim[w]),
           NEW s \in {"done", "failed"}, SetJobStatus(claim[w][1], s, 0),
           NEW p \in {"idle", "mark"}, p = "mark" => s = "failed",
           phase' = [phase EXCEPT ![w] = p],
           claim' = IF p = "mark" THEN claim ELSE [claim EXCEPT ![w] = NoClaim],
           result' \in [Workers -> {"none", "done"}],
           UNCHANGED <<epStatus, transcript, jobEpisode, attempts, runs, successes, crashes>>
    PROVE  PipelineInv'
<1> DEFINE j == claim[w][1]
<1> USE DEF PipelineInv, TypeOK, SetJobStatus, HoldsClaim
<1>1. j \in Jobs /\ jobStatus[j] = "processing" /\ jobEpisode[j] \in Episodes
  BY DEF ClaimsIssued, JobsInOrder
<1>2. jobStatus' = [jobStatus EXCEPT ![j] = s]
  OBVIOUS
<1>3. TypeOK'
  <2>1. claim' \in [Workers -> Claims]
    BY NoClaimType
  <2>2. jobStatus' \in [Jobs -> JobStatus] /\ due' \in [Jobs -> Int]
    BY <1>1, <1>2 DEF JobStatus
  <2>3. phase' \in [Workers -> Phases]
    BY DEF Phases
  <2>4. QED
    BY <2>1, <2>2, <2>3
<1>4. ClaimsIssued'
  BY <1>1, <1>2 DEF ClaimsIssued, Engaged, Working
<1>5. JobsInOrder'
  BY <1>1, <1>2 DEF JobsInOrder
<1>6. \A k \in Jobs : Live(k)' => Live(k) /\ k # j
  BY <1>1, <1>2 DEF Live, Busy
<1>7. LiveIsNewest' /\ LiveJobIsShown'
  BY <1>6 DEF LiveIsNewest, LiveJobIsShown
<1>8. MarkerAlone'
  <2> SUFFICES ASSUME NEW v \in Workers, phase'[v] = "mark"
               PROVE  SoleMarker(v)'
    BY DEF MarkerAlone
  <2>1. \A u \in Workers : phase'[u] = "mark" =>
          claim'[u] = claim[u] /\ (phase[u] = "mark" \/ (u = w /\ s = "failed"))
    OBVIOUS
  <2>2. \A u \in Workers : phase[u] = "mark" =>
          claim[u][1] \in Jobs \ {j} /\ jobEpisode[claim[u][1]] # jobEpisode[j]
    BY <1>1 DEF MarkerAlone, SoleMarker, ClaimsIssued, Engaged, Live, Busy
  <2>3. \A k \in Jobs : jobEpisode[k] = jobEpisode[j] => ~Live(k)'
    <3>1. Live(j)
      BY <1>1 DEF Live, Busy
    <3>2. QED
      BY <1>1, <1>6, <3>1, InvOneLive DEF OneLiveJob
  <2>4. CASE phase[v] = "mark"
    BY <1>2, <1>6, <2>1, <2>2, <2>4 DEF MarkerAlone, SoleMarker
  <2>5. CASE v = w /\ s = "failed"
    BY <1>1, <1>2, <2>1, <2>2, <2>3, <2>5 DEF SoleMarker, LiveJobIsShown, Live, Busy
  <2>6. QED
    BY <2>1, <2>4, <2>5
<1>9. /\ TranscriptIsSettled' /\ DoneIsNewest' /\ RunsAreClaims' /\ SuccessCountedOnce'
  BY <1>1, <1>2 DEF TranscriptIsSettled, DoneIsNewest, RunsAreClaims, SuccessCountedOnce
<1>10. QED
  BY <1>3, <1>4, <1>5, <1>7, <1>8, <1>9

\* Claiming the oldest runnable job keeps the invariant: it takes a fresh token,
\* which puts every earlier claim of the job behind the fence.
LEMMA ClaimInv ==
    ASSUME PipelineInv, NEW w \in Workers, ClaimJob(w)
    PROVE  PipelineInv'
<1> USE DEF PipelineInv, TypeOK
<1>1. PICK j \in Jobs, d \in {Lease, Lease + 1}, o \in Outcomes \ {"error"} :
        /\ Live(j)
        /\ jobStatus' = [jobStatus EXCEPT ![j] = "processing"]
        /\ due' = [due EXCEPT ![j] = d]
        /\ attempts' = [attempts EXCEPT ![j] = @ + 1]
        /\ IF o = "ok"
           THEN /\ claim' = [claim EXCEPT ![w] = <<j, attempts[j] + 1>>]
                /\ phase' = [phase EXCEPT ![w] =
                       IF PastLimit(attempts[j] + 1) THEN "bury" ELSE "load"]
                /\ runs' = [runs EXCEPT ![j] =
                       IF PastLimit(attempts[j] + 1) THEN @ ELSE @ + 1]
           ELSE UNCHANGED <<claim, phase, runs>>
  BY DEF ClaimJob, Oldest, Runnable, SetJobStatus
<1>2. /\ phase[w] = "idle"
      /\ UNCHANGED <<epStatus, transcript, jobEpisode, result, successes, crashes>>
  BY DEF ClaimJob
<1>3. \A k \in Jobs : /\ Live(k)' <=> Live(k)
                      /\ (jobStatus[k] = "absent") <=> (jobStatus'[k] = "absent")
                      /\ attempts'[k] >= attempts[k]
                      /\ jobStatus[k] \notin Busy =>
                            jobStatus'[k] = jobStatus[k] /\ attempts'[k] = attempts[k]
  BY <1>1 DEF Live, Busy
<1>4. \A v \in Workers : v # w => phase'[v] = phase[v] /\ claim'[v] = claim[v]
  BY <1>1
<1>5. phase'[w] \in {"idle", "bury", "load"}
  BY <1>1, <1>2
<1>6. TypeOK'
  <2>1. <<j, attempts[j] + 1>> \in Claims
    BY DEF Claims
  <2>2. claim' \in [Workers -> Claims]
    BY <1>1, <2>1
  <2>3. phase' \in [Workers -> Phases]
    BY <1>1 DEF Phases, Working
  <2>4. runs' \in [Jobs -> Nat] /\ attempts' \in [Jobs -> Nat]
    BY <1>1
  <2>5. jobStatus' \in [Jobs -> JobStatus] /\ due' \in [Jobs -> Int]
    BY <1>1, PipelineAssumption DEF JobStatus
  <2>6. QED
    BY <1>2, <2>2, <2>3, <2>4, <2>5
<1>7. ClaimsIssued'
  <2> SUFFICES ASSUME NEW v \in Workers, phase'[v] \in Engaged
               PROVE  /\ claim'[v][1] \in Jobs
                      /\ jobStatus'[claim'[v][1]] # "absent"
                      /\ 1 <= claim'[v][2] /\ claim'[v][2] <= attempts'[claim'[v][1]]
    BY DEF ClaimsIssued
  <2>1. CASE v = w
    <3>1. claim'[w] = <<j, attempts[j] + 1>>
      BY <1>1, <1>2, <2>1 DEF Engaged, Working
    <3>2. QED
      BY <1>1, <2>1, <3>1
  <2>2. CASE v # w
    <3>1. /\ claim'[v] = claim[v] /\ claim[v][1] \in Jobs /\ jobStatus[claim[v][1]] # "absent"
          /\ 1 <= claim[v][2] /\ claim[v][2] <= attempts[claim[v][1]]
      BY <1>4, <2>2 DEF ClaimsIssued
    <3>2. claim[v][2] \in Nat
      BY DEF Claims
    <3>3. QED
      BY <1>1, <1>3, <3>1, <3>2
  <2>3. QED
    BY <2>1, <2>2
<1>8. JobsInOrder' /\ LiveIsNewest' /\ LiveJobIsShown'
  BY <1>2, <1>3 DEF JobsInOrder, LiveIsNewest, LiveJobIsShown
<1>9. MarkerAlone'
  <2> SUFFICES ASSUME NEW v \in Workers, phase'[v] = "mark"
               PROVE  SoleMarker(v)'
    BY DEF MarkerAlone
  <2>1. \A u \in Workers : phase'[u] = "mark" =>
          phase[u] = "mark" /\ claim'[u] = claim[u] /\ claim[u][1] \in Jobs
    BY <1>4, <1>5 DEF ClaimsIssued, Engaged
  <2>2. QED
    BY <1>2, <1>3, <2>1 DEF MarkerAlone, SoleMarker, Busy
<1>10. TranscriptIsSettled' /\ DoneIsNewest' /\ SuccessCountedOnce'
  BY <1>2, <1>3 DEF TranscriptIsSettled, DoneIsNewest, SuccessCountedOnce, Busy
<1>11. RunsAreClaims'
  BY <1>1, PipelineAssumption DEF RunsAreClaims, PastLimit
<1>12. QED
  BY <1>6, <1>7, <1>8, <1>9, <1>10, <1>11

\* Giving a job back for a retry keeps the invariant: it stays live, and its
\* claim is over.
LEMMA RescheduleInv ==
    ASSUME PipelineInv, NEW w \in Workers, phase[w] \in Engaged, HoldsClaim(claim[w]),
           NEW d \in Int, SetJobStatus(claim[w][1], "pending", d), Return(w),
           UNCHANGED <<epStatus, transcript, jobEpisode, attempts, runs, successes, crashes>>
    PROVE  PipelineInv'
<1> DEFINE j == claim[w][1]
<1> USE DEF PipelineInv, TypeOK, SetJobStatus, HoldsClaim, Return
<1>1. j \in Jobs /\ jobStatus[j] = "processing"
  BY DEF ClaimsIssued
<1>2. \A k \in Jobs : /\ Live(k)' <=> Live(k)
                      /\ (jobStatus[k] = "absent") <=> (jobStatus'[k] = "absent")
                      /\ jobStatus[k] \notin Busy => jobStatus'[k] = jobStatus[k]
  BY <1>1 DEF Live, Busy
<1>3. TypeOK'
  <2>1. claim' \in [Workers -> Claims]
    BY NoClaimType
  <2>2. jobStatus' \in [Jobs -> JobStatus] /\ due' \in [Jobs -> Int]
    BY <1>1 DEF JobStatus
  <2>3. phase' \in [Workers -> Phases] /\ result' \in [Workers -> {"none", "done"}]
    BY DEF Phases
  <2>4. QED
    BY <2>1, <2>2, <2>3
<1>4. ClaimsIssued'
  BY <1>1, <1>2 DEF ClaimsIssued, Engaged, Working
<1>5. JobsInOrder' /\ LiveIsNewest' /\ LiveJobIsShown'
  BY <1>2 DEF JobsInOrder, LiveIsNewest, LiveJobIsShown
<1>6. MarkerAlone'
  <2> SUFFICES ASSUME NEW v \in Workers, phase'[v] = "mark"
               PROVE  SoleMarker(v)'
    BY DEF MarkerAlone
  <2>1. \A u \in Workers : phase'[u] = "mark" =>
          phase[u] = "mark" /\ claim'[u] = claim[u] /\ claim[u][1] \in Jobs
    BY DEF ClaimsIssued, Engaged
  <2>2. QED
    BY <1>2, <2>1 DEF MarkerAlone, SoleMarker, Busy
<1>7. TranscriptIsSettled' /\ DoneIsNewest' /\ RunsAreClaims' /\ SuccessCountedOnce'
  BY <1>2 DEF TranscriptIsSettled, DoneIsNewest, RunsAreClaims, SuccessCountedOnce, Busy
<1>8. QED
  BY <1>3, <1>4, <1>5, <1>6, <1>7

\* The progress marker keeps the invariant: the holder of a live claim only
\* moves its own episode, which is already shown as busy.
LEMMA MarkProcessingInv ==
    ASSUME PipelineInv, NEW w \in Workers, MarkProcessing(w)
    PROVE  PipelineInv'
<1> DEFINE e == jobEpisode[claim[w][1]]
<1> USE DEF PipelineInv, TypeOK
<1>1. /\ phase[w] = "progress"
      /\ phase' = [phase EXCEPT ![w] = "work"] /\ UNCHANGED <<claim, result>>
      /\ UNCHANGED <<transcript, jobEpisode, jobStatus, attempts, due, runs, successes, crashes>>
  BY DEF MarkProcessing, Goto
<1>2. CASE UNCHANGED epStatus
  <2>1. "work" \in Phases \ {"mark"} /\ phase[w] \in Engaged
    BY <1>1 DEF Phases, Working, Engaged
  <2>2. UNCHANGED <<table, runs, successes>>
    BY <1>1, <1>2 DEF table
  <2>3. QED
    BY <1>1, <2>1, <2>2, QuietInv
<1>3. CASE HoldsClaim(claim[w]) /\ SetEpisodeStatus(e, "processing")
  <2>1. /\ claim[w][1] \in Jobs /\ Live(claim[w][1]) /\ e \in Episodes
        /\ epStatus[e] \in Busy \cup {"deleted"}
    BY <1>1, <1>3 DEF ClaimsIssued, JobsInOrder, LiveJobIsShown, HoldsClaim, Live, Busy,
                      Engaged, Working
  <2>2. /\ epStatus'[e] \in Busy \cup {"deleted"}
        /\ epStatus' = [epStatus EXCEPT ![e] = epStatus'[e]]
    BY <1>3, <2>1 DEF SetEpisodeStatus, Busy
  <2>3. TypeOK'
    BY <1>1, <2>1, <2>2 DEF Busy, EpisodeStatus, Phases, Working
  <2>4. ClaimsIssued'
    BY <1>1 DEF ClaimsIssued, Engaged, Working
  <2>5. LiveJobIsShown'
    BY <1>1, <2>1, <2>2 DEF LiveJobIsShown, Live, JobsInOrder, Busy
  <2>6. DoneIsNewest'
    BY <1>1, <2>1, <2>2 DEF DoneIsNewest, Busy
  <2>7. MarkerAlone'
    <3> SUFFICES ASSUME NEW v \in Workers, phase'[v] = "mark"
                 PROVE  SoleMarker(v)'
      BY DEF MarkerAlone
    <3>1. \A u \in Workers : phase'[u] = "mark" => phase[u] = "mark"
      BY <1>1
    <3>2. phase[v] = "mark" /\ jobEpisode[claim[v][1]] \in Episodes \ {e}
      BY <2>1, <3>1 DEF MarkerAlone, SoleMarker, ClaimsIssued, JobsInOrder, Engaged
    <3>3. epStatus'[jobEpisode[claim[v][1]]] = epStatus[jobEpisode[claim[v][1]]]
      BY <2>2, <3>2
    <3>4. QED
      BY <1>1, <3>1, <3>2, <3>3 DEF MarkerAlone, SoleMarker, Live
  <2>8. /\ JobsInOrder' /\ LiveIsNewest' /\ TranscriptIsSettled' /\ RunsAreClaims'
        /\ SuccessCountedOnce'
    BY <1>1 DEF JobsInOrder, LiveIsNewest, TranscriptIsSettled, RunsAreClaims,
                SuccessCountedOnce, Live
  <2>9. QED
    BY <2>3, <2>4, <2>5, <2>6, <2>7, <2>8
<1>4. QED
  BY <1>2, <1>3 DEF MarkProcessing

\* Marking the episode of a dead job failed keeps the invariant: the marker is
\* alone on its episode, so no live job is hidden behind "failed".
LEMMA MarkFailedInv ==
    ASSUME PipelineInv, NEW w \in Workers, MarkFailed(w)
    PROVE  PipelineInv'
<1> DEFINE e == jobEpisode[claim[w][1]]
<1> USE DEF PipelineInv, TypeOK
<1>1. /\ phase[w] = "mark"
      /\ phase' = [phase EXCEPT ![w] = "idle"]
      /\ claim' = [claim EXCEPT ![w] = NoClaim]
      /\ result' = [result EXCEPT ![w] = "none"]
      /\ UNCHANGED <<transcript, jobEpisode, jobStatus, attempts, due, runs, successes, crashes>>
  BY DEF MarkFailed, Return
<1>2. CASE UNCHANGED epStatus
  <2>1. "idle" \in Phases \ {"mark"} /\ "idle" \notin Engaged
    BY DEF Phases, Working, Engaged
  <2>2. UNCHANGED <<table, runs, successes>>
    BY <1>1, <1>2 DEF table
  <2>3. QED
    BY <1>1, <2>1, <2>2, QuietInv
<1>3. CASE SetEpisodeStatus(e, "failed")
  <2>1. /\ e \in Episodes
        /\ \A k \in Jobs : jobEpisode[k] = e => ~Live(k)
        /\ \A v \in Workers : phase[v] = "mark" /\ jobEpisode[claim[v][1]] = e => v = w
    BY <1>1 DEF ClaimsIssued, JobsInOrder, MarkerAlone, SoleMarker, Engaged
  <2>2. /\ epStatus'[e] \in {"failed", "deleted"}
        /\ epStatus' = [epStatus EXCEPT ![e] = epStatus'[e]]
    BY <1>3, <2>1 DEF SetEpisodeStatus
  <2>3. TypeOK'
    BY <1>1, <2>1, <2>2, NoClaimType DEF EpisodeStatus, Phases
  <2>4. ClaimsIssued'
    BY <1>1 DEF ClaimsIssued, Engaged, Working
  <2>5. LiveJobIsShown'
    <3> SUFFICES ASSUME NEW k \in Jobs, Live(k)
                 PROVE  epStatus'[jobEpisode[k]] \in Busy \cup {"deleted"}
      BY <1>1 DEF LiveJobIsShown, Live
    <3>1. jobEpisode[k] \in Episodes \ {e} /\ epStatus[jobEpisode[k]] \in Busy \cup {"deleted"}
      BY <2>1 DEF LiveJobIsShown, JobsInOrder, Live, Busy
    <3>2. QED
      BY <2>2, <3>1
  <2>6. DoneIsNewest'
    BY <1>1, <2>1, <2>2 DEF DoneIsNewest
  <2>7. MarkerAlone'
    <3> SUFFICES ASSUME NEW v \in Workers, phase'[v] = "mark"
                 PROVE  SoleMarker(v)'
      BY DEF MarkerAlone
    <3>1. \A u \in Workers : phase'[u] = "mark" =>
            phase[u] = "mark" /\ u # w /\ claim'[u] = claim[u]
      BY <1>1
    <3>2. jobEpisode[claim[v][1]] \in Episodes \ {e}
      BY <2>1, <3>1 DEF ClaimsIssued, JobsInOrder, Engaged
    <3>3. epStatus'[jobEpisode[claim[v][1]]] = epStatus[jobEpisode[claim[v][1]]]
      BY <2>2, <3>2
    <3>4. QED
      BY <1>1, <3>1, <3>3 DEF MarkerAlone, SoleMarker, Live
  <2>8. /\ JobsInOrder' /\ LiveIsNewest' /\ TranscriptIsSettled' /\ RunsAreClaims'
        /\ SuccessCountedOnce'
    BY <1>1 DEF JobsInOrder, LiveIsNewest, TranscriptIsSettled, RunsAreClaims,
                SuccessCountedOnce, Live
  <2>9. QED
    BY <2>3, <2>4, <2>5, <2>6, <2>7, <2>8
<1>4. QED
  BY <1>2, <1>3 DEF MarkFailed

\* Deleting an episode keeps the invariant: its jobs run into nothing.
LEMMA DeleteInv ==
    ASSUME PipelineInv, NEW e \in Episodes, DeleteEpisode(e)
    PROVE  PipelineInv'
<1> USE DEF PipelineInv, TypeOK, DeleteEpisode
<1>1. TypeOK'
  BY NoClaimType DEF EpisodeStatus
<1>2. LiveJobIsShown'
  BY DEF LiveJobIsShown, Live, JobsInOrder
<1>3. MarkerAlone'
  BY DEF MarkerAlone, SoleMarker, ClaimsIssued, JobsInOrder, Engaged, Live
<1>4. TranscriptIsSettled' /\ DoneIsNewest'
  BY DEF TranscriptIsSettled, DoneIsNewest
<1>5. ClaimsIssued' /\ JobsInOrder' /\ LiveIsNewest' /\ RunsAreClaims' /\ SuccessCountedOnce'
  BY DEF ClaimsIssued, JobsInOrder, LiveIsNewest, RunsAreClaims, SuccessCountedOnce, Live
<1>6. QED
  BY <1>1, <1>2, <1>3, <1>4, <1>5

\* The passing of time touches only run_after.
LEMMA TickInv ==
    ASSUME PipelineInv, Tick
    PROVE  PipelineInv'
<1> USE DEF PipelineInv, TypeOK, Tick
<1>1. TypeOK'
  OBVIOUS
<1>2. /\ ClaimsIssued' /\ JobsInOrder' /\ LiveIsNewest' /\ LiveJobIsShown' /\ MarkerAlone'
      /\ TranscriptIsSettled' /\ DoneIsNewest' /\ RunsAreClaims' /\ SuccessCountedOnce'
  BY DEF ClaimsIssued, JobsInOrder, LiveIsNewest, LiveJobIsShown, MarkerAlone, SoleMarker,
         TranscriptIsSettled, DoneIsNewest, RunsAreClaims, SuccessCountedOnce, Live
<1>3. QED
  BY <1>1, <1>2

\* A settlement that commits keeps the invariant: the job it completes is the
\* newest of its episode and the only live one, so closing the episode hides no
\* job and the transcript it stores answers the newest request.
LEMMA SettleInv ==
    ASSUME PipelineInv, NEW w \in Workers, phase[w] = "settle", HoldsClaim(claim[w]),
           SetJobStatus(claim[w][1], "done", 0),
           SetEpisodeStatus(jobEpisode[claim[w][1]], result[w]),
           result[w] = "done" => epStatus[jobEpisode[claim[w][1]]] # "deleted",
           transcript' = IF result[w] = "done"
                         THEN [transcript EXCEPT ![jobEpisode[claim[w][1]]] = claim[w]]
                         ELSE transcript,
           \/ Return(w) /\ successes' = IF result[w] = "done"
                                        THEN [successes EXCEPT ![claim[w][1]] = @ + 1]
                                        ELSE successes
           \/ Goto(w, "nack") /\ UNCHANGED successes,
           UNCHANGED <<jobEpisode, attempts, runs, crashes>>
    PROVE  PipelineInv'
<1> DEFINE j == claim[w][1]
           e == jobEpisode[j]
<1> USE DEF PipelineInv, TypeOK
<1>1. /\ j \in Jobs /\ jobStatus[j] = "processing" /\ Live(j)
      /\ e \in Episodes /\ epStatus[e] \in Busy \cup {"deleted"}
      /\ attempts[j] = claim[w][2]
  BY DEF HoldsClaim, ClaimsIssued, JobsInOrder, LiveJobIsShown, Live, Busy, Engaged, Working
<1>2. jobStatus' = [jobStatus EXCEPT ![j] = "done"] /\ due' = [due EXCEPT ![j] = 0]
  BY DEF SetJobStatus
<1>3. /\ epStatus' = [epStatus EXCEPT ![e] = epStatus'[e]]
      /\ epStatus'[e] \in {"none", "done", "deleted"}
      /\ epStatus'[e] = "done" => result[w] = "done"
      /\ result[w] = "done" => epStatus'[e] = "done"
  BY <1>1 DEF SetEpisodeStatus, Busy
<1>4. /\ phase' = [phase EXCEPT ![w] = phase'[w]] /\ phase'[w] \in {"idle", "nack"}
      /\ \A v \in Workers : phase'[v] \in Engaged => phase[v] \in Engaged /\ claim'[v] = claim[v]
      /\ claim' \in [Workers -> Claims] /\ result' \in [Workers -> {"none", "done"}]
  BY NoClaimType DEF Return, Goto, Engaged, Working
<1>5. \A k \in Jobs : Live(k)' <=> Live(k) /\ jobEpisode[k] # e
  BY <1>1, <1>2, InvOneLive DEF OneLiveJob, Live, Busy
<1>6. TypeOK'
  <2>1. transcript' \in [Episodes -> Claims]
    BY <1>1
  <2>2. epStatus' \in [Episodes -> EpisodeStatus]
    BY <1>1, <1>3 DEF EpisodeStatus
  <2>3. jobStatus' \in [Jobs -> JobStatus] /\ due' \in [Jobs -> Int]
    BY <1>1, <1>2 DEF JobStatus
  <2>4. phase' \in [Workers -> Phases] /\ successes' \in [Jobs -> Nat]
    BY <1>1, <1>4 DEF Phases, Working
  <2>5. QED
    BY <1>4, <2>1, <2>2, <2>3, <2>4
<1>7. ClaimsIssued'
  BY <1>1, <1>2, <1>4 DEF ClaimsIssued
<1>8. JobsInOrder'
  BY <1>1, <1>2 DEF JobsInOrder
<1>9. LiveIsNewest'
  BY <1>5 DEF LiveIsNewest
<1>10. LiveJobIsShown'
  BY <1>3, <1>5 DEF LiveJobIsShown, JobsInOrder, Live, Busy
<1>11. MarkerAlone'
  <2> SUFFICES ASSUME NEW v \in Workers, phase'[v] = "mark"
               PROVE  SoleMarker(v)'
    BY DEF MarkerAlone
  <2>1. \A u \in Workers : phase'[u] = "mark" => phase[u] = "mark" /\ claim'[u] = claim[u]
    BY <1>4 DEF Engaged
  <2>2. /\ claim[v][1] \in Jobs \ {j}
        /\ jobEpisode[claim[v][1]] \in Episodes \ {e}
    BY <1>1, <2>1 DEF MarkerAlone, SoleMarker, ClaimsIssued, JobsInOrder, Engaged, Live, Busy
  <2>3. /\ epStatus'[jobEpisode[claim[v][1]]] = epStatus[jobEpisode[claim[v][1]]]
        /\ jobStatus'[claim[v][1]] = jobStatus[claim[v][1]]
    BY <1>2, <1>3, <2>2
  <2>4. QED
    BY <1>5, <2>1, <2>3 DEF MarkerAlone, SoleMarker
<1>12. TranscriptIsSettled'
  BY <1>1, <1>2 DEF TranscriptIsSettled
<1>13. DoneIsNewest'
  <2> SUFFICES ASSUME NEW f \in Episodes, epStatus'[f] = "done"
               PROVE  /\ transcript'[f] # NoClaim
                      /\ \A k \in Jobs : jobEpisode[k] = f => k <= transcript'[f][1]
    BY DEF DoneIsNewest
  <2>1. CASE f = e
    <3>1. transcript'[e] = claim[w]
      BY <1>1, <1>3, <2>1
    <3>2. claim[w] # NoClaim
      BY <1>1, PipelineAssumption DEF NoClaim, NoJob, Jobs
    <3>3. QED
      BY <1>1, <2>1, <3>1, <3>2 DEF LiveIsNewest
  <2>2. CASE f # e
    BY <1>1, <1>3, <2>2 DEF DoneIsNewest
  <2>3. QED
    BY <2>1, <2>2
<1>14. RunsAreClaims' /\ SuccessCountedOnce'
  BY <1>1, <1>2 DEF RunsAreClaims, SuccessCountedOnce
<1>15. QED
  BY <1>6, <1>7, <1>8, <1>9, <1>10, <1>11, <1>12, <1>13, <1>14

\* Every step of a worker keeps the invariant.
LEMMA WorkerStepInv ==
    ASSUME PipelineInv, NEW w \in Workers, WorkerStep(w)
    PROVE  PipelineInv'
<1> DEFINE c == claim[w]
<1>t. TypeOK
  BY DEF PipelineInv
<1>i. /\ "idle" \in Phases \ {"mark"} /\ "idle" \notin Engaged
      /\ \A p \in {"progress", "work", "settle", "ack", "nack"} :
            p \in Phases \ {"mark"} /\ p \in Engaged
      /\ \A p \in {"load", "progress", "work", "settle", "ack", "nack", "bury", "mark"} :
            p \in Engaged
  BY DEF Phases, Engaged, Working
<1>r. ASSUME Return(w)
      PROVE  /\ phase' = [phase EXCEPT ![w] = "idle"]
             /\ claim' = [claim EXCEPT ![w] = NoClaim]
             /\ result' \in [Workers -> {"none", "done"}]
  BY <1>t, <1>r DEF Return, TypeOK
<1>g. ASSUME NEW p, Goto(w, p)
      PROVE  /\ phase' = [phase EXCEPT ![w] = p] /\ claim' = claim
             /\ result' \in [Workers -> {"none", "done"}]
  BY <1>t, <1>g DEF Goto, TypeOK
<1>u. crashes \in Nat
  BY <1>t DEF TypeOK
<1>1. CASE ClaimJob(w)
  BY <1>1, ClaimInv
<1>2. CASE DeadLetter(w)
  <2>1. /\ phase[w] \in Engaged
        /\ UNCHANGED <<epStatus, transcript, jobEpisode, attempts, runs, successes, crashes>>
    BY <1>2, <1>i DEF DeadLetter
  <2>2. CASE Return(w) /\ UNCHANGED <<jobStatus, due>>
    BY <2>1, <2>2, <1>i, <1>r, <1>u, QuietInv DEF table
  <2>3. CASE Return(w) /\ HoldsClaim(c) /\ SetJobStatus(c[1], "failed", 0)
    BY <2>1, <2>3, <1>r, FinishInv
  <2>4. CASE Goto(w, "mark") /\ HoldsClaim(c) /\ SetJobStatus(c[1], "failed", 0)
    BY <2>1, <2>4, <1>g, FinishInv
  <2>5. QED
    BY <1>2, <2>2, <2>3, <2>4 DEF DeadLetter
<1>3. CASE LoadEpisode(w)
  <2>1. /\ phase[w] \in Engaged
        /\ UNCHANGED <<table, runs, successes, crashes>>
        /\ \E p \in {"ack", "progress", "nack"} : Goto(w, p)
    BY <1>3, <1>i DEF LoadEpisode
  <2>2. QED
    BY <2>1, <1>i, <1>g, <1>u, QuietInv
<1>4. CASE MarkProcessing(w)
  BY <1>4, MarkProcessingInv
<1>5. CASE Transcribe(w)
  <2>1. /\ phase[w] \in Engaged
        /\ UNCHANGED <<table, claim, runs, successes, crashes>>
        /\ \E p \in {"nack", "settle"} : phase' = [phase EXCEPT ![w] = p]
        /\ result' \in [Workers -> {"none", "done"}]
    BY <1>5, <1>i, <1>t DEF Transcribe, TypeOK
  <2>2. QED
    BY <2>1, <1>i, <1>u, QuietInv
<1>6. CASE SettleAndComplete(w)
  <2>1. phase[w] = "settle" /\ UNCHANGED <<jobEpisode, attempts, runs, crashes>>
    BY <1>6 DEF SettleAndComplete
  <2>2. CASE /\ Return(w) \/ Goto(w, "nack")
             /\ UNCHANGED <<epStatus, transcript, jobStatus, due, successes>>
    BY <2>1, <2>2, <1>i, <1>r, <1>g, <1>u, QuietInv DEF table
  <2>3. QED
    BY <1>6, <2>1, <2>2, SettleInv DEF SettleAndComplete
<1>7. CASE Ack(w)
  <2>1. /\ phase[w] \in Engaged /\ Return(w)
        /\ UNCHANGED <<epStatus, transcript, jobEpisode, attempts, runs, successes, crashes>>
    BY <1>7, <1>i DEF Ack
  <2>2. CASE UNCHANGED <<jobStatus, due>>
    BY <2>1, <2>2, <1>i, <1>r, <1>u, QuietInv DEF table
  <2>3. CASE HoldsClaim(c) /\ SetJobStatus(c[1], "done", 0)
    BY <2>1, <2>3, <1>r, FinishInv
  <2>4. QED
    BY <1>7, <2>2, <2>3 DEF Ack
<1>8. CASE Nack(w)
  <2>1. /\ phase[w] \in Engaged
        /\ UNCHANGED <<epStatus, transcript, jobEpisode, attempts, runs, successes, crashes>>
    BY <1>8, <1>i DEF Nack
  <2>2. CASE Return(w) /\ UNCHANGED <<jobStatus, due>>
    BY <2>1, <2>2, <1>i, <1>r, <1>u, QuietInv DEF table
  <2>3. CASE Return(w) /\ HoldsClaim(c) /\ SetJobStatus(c[1], "failed", 0)
    BY <2>1, <2>3, <1>r, FinishInv
  <2>4. CASE Goto(w, "mark") /\ HoldsClaim(c) /\ SetJobStatus(c[1], "failed", 0)
    BY <2>1, <2>4, <1>g, FinishInv
  <2>5. CASE Return(w) /\ HoldsClaim(c) /\ SetJobStatus(c[1], "pending", Backoff(c[2]))
    <3>1. c[2] \in Nat /\ c[2] >= 1
      BY <2>1, <1>t DEF PipelineInv, TypeOK, Claims, ClaimsIssued
    <3>2. Backoff(c[2]) \in Int
      BY <3>1, BackoffIsNat
    <3>3. QED
      BY <2>1, <2>5, <3>2, RescheduleInv
  <2>6. QED
    BY <1>8, <2>2, <2>3, <2>4, <2>5 DEF Nack
<1>9. CASE MarkFailed(w)
  BY <1>9, MarkFailedInv
<1>10. CASE Run(w)
  <2>1. UNCHANGED <<table, runs, successes, crashes>> /\ Goto(w, "idle")
    BY <1>10 DEF Run
  <2>2. QED
    BY <2>1, <1>i, <1>g, <1>u, QuietInv
<1>11. QED
  BY <1>1, <1>2, <1>3, <1>4, <1>5, <1>6, <1>7, <1>8, <1>9, <1>10 DEF WorkerStep

\* A crash forgets the worker's claim and nothing else.
LEMMA CrashInv ==
    ASSUME PipelineInv, NEW w \in Workers, Crash(w)
    PROVE  PipelineInv'
<1>1. /\ "down" \in Phases \ {"mark"} /\ "down" \notin Engaged
      /\ phase' = [phase EXCEPT ![w] = "down"]
      /\ claim' = [claim EXCEPT ![w] = NoClaim]
      /\ UNCHANGED <<table, runs, successes>>
  BY DEF Crash, Phases, Engaged, Working
<1>2. result' \in [Workers -> {"none", "done"}] /\ crashes' \in Nat
  BY DEF Crash, PipelineInv, TypeOK
<1>3. QED
  BY <1>1, <1>2, QuietInv

\* PipelineInv is inductive.
LEMMA NextInv == PipelineInv /\ [Next]_vars => PipelineInv'
<1> SUFFICES ASSUME PipelineInv, [Next]_vars PROVE PipelineInv'
  OBVIOUS
<1>1. CASE UNCHANGED vars
  BY <1>1 DEF vars, PipelineInv, TypeOK, ClaimsIssued, JobsInOrder, LiveIsNewest, LiveJobIsShown,
     MarkerAlone, SoleMarker, TranscriptIsSettled, DoneIsNewest, RunsAreClaims,
     SuccessCountedOnce, Live
<1>2. ASSUME NEW e \in Episodes, EnqueueTranscription(e) \/ DeleteEpisode(e) PROVE PipelineInv'
  BY <1>2, EnqueueInv, DeleteInv
<1>3. ASSUME NEW w \in Workers, WorkerStep(w) \/ Crash(w) PROVE PipelineInv'
  BY <1>3, WorkerStepInv, CrashInv
<1>4. CASE Tick
  BY <1>4, TickInv
<1>5. QED
  BY <1>1, <1>2, <1>3, <1>4 DEF Next

\* The invariant holds in every behaviour, for any number of episodes, workers,
\* jobs, attempts, crashes and store failures.
THEOREM PipelineInvariant == Spec => []PipelineInv
<1>1. QED
  BY InitInv, NextInv, PTL DEF Spec

\* Every variable keeps its type in every behaviour.
THEOREM TypeCorrect == Spec => []TypeOK
<1>1. PipelineInv => TypeOK
  BY DEF PipelineInv
<1>2. QED
  BY <1>1, PipelineInvariant, PTL

\* No interleaving of requests, reclaims, crashes and failed store calls leaves
\* an episode with two jobs that are queued or running.
THEOREM OneLiveJobAlways == Spec => []OneLiveJob
  BY InvOneLive, PipelineInvariant, PTL

\* A queued or running job is always visible in its episode's status.
THEOREM LiveJobIsShownAlways == Spec => []LiveJobIsShown
<1>1. PipelineInv => LiveJobIsShown
  BY DEF PipelineInv
<1>2. QED
  BY <1>1, PipelineInvariant, PTL

\* No stale attempt ever gets its transcript stored.
THEOREM TranscriptIsSettledAlways == Spec => []TranscriptIsSettled
<1>1. PipelineInv => TranscriptIsSettled
  BY DEF PipelineInv
<1>2. QED
  BY <1>1, PipelineInvariant, PTL

\* An episode shown as done has the transcript of its newest request.
THEOREM DoneIsNewestAlways == Spec => []DoneIsNewest
<1>1. PipelineInv => DoneIsNewest
  BY DEF PipelineInv
<1>2. QED
  BY <1>1, PipelineInvariant, PTL

\* A job is run at most MaxAttempts times, whatever crashes.
THEOREM RunsBoundedAlways == Spec => []RunsBounded
<1>1. PipelineInv => RunsBounded
  BY DEF PipelineInv, RunsAreClaims, RunsBounded
<1>2. QED
  BY <1>1, PipelineInvariant, PTL

\* A job is counted as a success at most once.
THEOREM SuccessCountedOnceAlways == Spec => []SuccessCountedOnce
<1>1. PipelineInv => SuccessCountedOnce
  BY DEF PipelineInv
<1>2. QED
  BY <1>1, PipelineInvariant, PTL

-----------------------------------------------------------------------------
\* A step never moves a job that is done or failed: every write of jobs.status
\* is fenced by status = 'processing' or picks a live job.
LEMMA TerminalStep ==
    ASSUME PipelineInv, [Next]_vars, NEW j \in Jobs, jobStatus[j] \in {"done", "failed"}
    PROVE  jobStatus'[j] = jobStatus[j] /\ attempts'[j] = attempts[j]
<1> USE DEF PipelineInv, TypeOK
<1>1. CASE UNCHANGED <<jobStatus, attempts>>
  BY <1>1
<1>2. ASSUME NEW e \in Episodes, EnqueueTranscription(e) PROVE jobStatus'[j] = jobStatus[j] /\ attempts'[j] = attempts[j]
  BY <1>2 DEF EnqueueTranscription, SetJobStatus
<1>3. ASSUME NEW w \in Workers, ClaimJob(w) PROVE jobStatus'[j] = jobStatus[j] /\ attempts'[j] = attempts[j]
  BY <1>3 DEF ClaimJob, SetJobStatus, Oldest, Runnable, Live, Busy
<1>4. ASSUME NEW w \in Workers,
             DeadLetter(w) \/ SettleAndComplete(w) \/ Ack(w) \/ Nack(w)
      PROVE  jobStatus'[j] = jobStatus[j] /\ attempts'[j] = attempts[j]
  <2>1. UNCHANGED attempts
    BY <1>4 DEF DeadLetter, SettleAndComplete, Ack, Nack
  <2>2. \/ UNCHANGED jobStatus
        \/ HoldsClaim(claim[w]) /\ \E s \in JobStatus : jobStatus' = [jobStatus EXCEPT ![claim[w][1]] = s]
    BY <1>4 DEF DeadLetter, SettleAndComplete, Ack, Nack, SetJobStatus, JobStatus
  <2>3. QED
    BY <2>1, <2>2 DEF HoldsClaim
<1>5. QED
  BY <1>1, <1>2, <1>3, <1>4 DEF Next, vars, table, WorkerStep, DeleteEpisode, Tick, LoadEpisode,
     MarkProcessing, Transcribe, MarkFailed, Crash, Run

\* Terminal job states are final.
THEOREM TerminalJobsFinalAlways == Spec => TerminalJobsFinal
<1>1. PipelineInv /\ [Next]_vars =>
        [\A j \in Jobs : jobStatus[j] \in {"done", "failed"} =>
            jobStatus'[j] = jobStatus[j] /\ attempts'[j] = attempts[j]]_vars
  BY TerminalStep
<1>2. QED
  BY <1>1, PipelineInvariant, PTL DEF Spec, TerminalJobsFinal

-----------------------------------------------------------------------------
(* The pipeline implements the transcription service.                      *)

Visible == <<epStatus, transcript, jobEpisode>>

\* What a fenced write does to an episode: it moves the busy episode e to s.
Moves(e, s) ==
    /\ epStatus[e] \in Busy
    /\ epStatus' = [epStatus EXCEPT ![e] = s]
    /\ UNCHANGED jobEpisode

\* Seen from the episodes, a step of the pipeline is a request, a deletion, a
\* progress mark, an answer, or nothing.
LEMMA EpisodeStep ==
    ASSUME PipelineInv, [Next]_vars
    PROVE  \/ UNCHANGED Visible
           \/ \E e \in Episodes :
                \/ EnqueueTranscription(e)
                \/ DeleteEpisode(e)
                \/ \E s \in {"processing", "none", "failed"} : Moves(e, s) /\ UNCHANGED transcript
                \/ /\ Moves(e, "done")
                   /\ \E c \in Claims :
                        /\ c[1] \in Jobs /\ jobEpisode[c[1]] = e
                        /\ \A k \in Jobs : jobEpisode[k] = e => k <= c[1]
                        /\ transcript' = [transcript EXCEPT ![e] = c]
<1> USE DEF PipelineInv, TypeOK
<1>1. ASSUME NEW w \in Workers, phase[w] \in Engaged
      PROVE  claim[w] \in Claims /\ claim[w][1] \in Jobs /\ jobEpisode[claim[w][1]] \in Episodes
  BY <1>1 DEF ClaimsIssued, JobsInOrder
<1>2. ASSUME NEW w \in Workers, MarkProcessing(w) \/ MarkFailed(w)
      PROVE  \/ UNCHANGED Visible
             \/ \E e \in Episodes, s \in {"processing", "none", "failed"} :
                    Moves(e, s) /\ UNCHANGED transcript
  <2> DEFINE e == jobEpisode[claim[w][1]]
  <2>1. UNCHANGED <<transcript, jobEpisode>>
    BY <1>2 DEF MarkProcessing, MarkFailed
  <2>2. e \in Episodes
    BY <1>1, <1>2 DEF MarkProcessing, MarkFailed, Engaged, Working
  <2>3. CASE UNCHANGED epStatus
    BY <2>1, <2>3 DEF Visible
  <2>4. CASE MarkProcessing(w) /\ HoldsClaim(claim[w]) /\ SetEpisodeStatus(e, "processing")
    <3>1. epStatus[e] \in Busy \cup {"deleted"}
      BY <1>1, <2>4 DEF MarkProcessing, HoldsClaim, LiveJobIsShown, Live, Busy, Engaged, Working
    <3>2. CASE epStatus[e] = "deleted"
      BY <2>1, <2>4, <3>2 DEF SetEpisodeStatus, Visible
    <3>3. CASE epStatus[e] \in Busy
      BY <2>1, <2>2, <2>4, <3>3 DEF SetEpisodeStatus, Moves, Busy
    <3>4. QED
      BY <3>1, <3>2, <3>3
  <2>5. CASE MarkFailed(w) /\ SetEpisodeStatus(e, "failed")
    <3>1. epStatus[e] \in Busy \cup {"deleted"}
      BY <2>5 DEF MarkFailed, MarkerAlone, SoleMarker
    <3>2. CASE epStatus[e] = "deleted"
      BY <2>1, <2>5, <3>2 DEF SetEpisodeStatus, Visible
    <3>3. CASE epStatus[e] \in Busy
      BY <2>1, <2>2, <2>5, <3>3 DEF SetEpisodeStatus, Moves, Busy
    <3>4. QED
      BY <3>1, <3>2, <3>3
  <2>6. QED
    BY <1>2, <2>3, <2>4, <2>5 DEF MarkProcessing, MarkFailed
<1>3. ASSUME NEW w \in Workers, SettleAndComplete(w)
      PROVE  \/ UNCHANGED Visible
             \/ \E e \in Episodes :
                  \/ Moves(e, "none") /\ UNCHANGED transcript
                  \/ /\ Moves(e, "done")
                     /\ \E c \in Claims :
                          /\ c[1] \in Jobs /\ jobEpisode[c[1]] = e
                          /\ \A k \in Jobs : jobEpisode[k] = e => k <= c[1]
                          /\ transcript' = [transcript EXCEPT ![e] = c]
  <2> DEFINE e == jobEpisode[claim[w][1]]
  <2>1. UNCHANGED jobEpisode /\ claim[w] \in Claims /\ claim[w][1] \in Jobs /\ e \in Episodes
    BY <1>1, <1>3 DEF SettleAndComplete, Engaged, Working
  <2>2. CASE UNCHANGED <<epStatus, transcript>>
    BY <2>1, <2>2 DEF Visible
  <2>3. CASE /\ HoldsClaim(claim[w]) /\ SetEpisodeStatus(e, result[w])
             /\ ~(result[w] = "done" /\ epStatus[e] = "deleted")
             /\ transcript' = IF result[w] = "done" THEN [transcript EXCEPT ![e] = claim[w]]
                                                    ELSE transcript
    <3>1. Live(claim[w][1]) /\ epStatus[e] \in Busy \cup {"deleted"}
      BY <2>1, <2>3 DEF HoldsClaim, LiveJobIsShown, Live, Busy
    <3>2. CASE epStatus[e] = "deleted"
      BY <2>1, <2>3, <3>2 DEF SetEpisodeStatus, Visible
    <3>3. CASE epStatus[e] \in Busy /\ result[w] = "none"
      BY <2>1, <2>3, <3>3 DEF SetEpisodeStatus, Moves, Busy
    <3>4. CASE epStatus[e] \in Busy /\ result[w] = "done"
      <4>1. Moves(e, "done")
        BY <2>1, <2>3, <3>4 DEF SetEpisodeStatus, Moves, Busy
      <4>2. \A k \in Jobs : jobEpisode[k] = e => k <= claim[w][1]
        BY <2>1, <3>1 DEF LiveIsNewest
      <4>3. QED
        BY <2>1, <2>3, <3>4, <4>1, <4>2
    <3>5. QED
      BY <3>1, <3>2, <3>3, <3>4
  <2>4. QED
    BY <1>3, <2>2, <2>3 DEF SettleAndComplete
<1>4. QED
  BY <1>2, <1>3 DEF Next, vars, table, Visible, WorkerStep, Tick, ClaimJob, DeadLetter,
     LoadEpisode, Transcribe, Ack, Nack, Crash, Run

\* The payload of a job that exists is never changed.
LEMMA PayloadKept ==
    ASSUME PipelineInv, [Next]_vars, NEW j \in Jobs, jobStatus[j] # "absent"
    PROVE  jobEpisode'[j] = jobEpisode[j]
<1>1. CASE UNCHANGED jobEpisode
  BY <1>1
<1>2. ASSUME NEW e \in Episodes, EnqueueTranscription(e) PROVE jobEpisode'[j] = jobEpisode[j]
  BY <1>2 DEF EnqueueTranscription, PipelineInv, TypeOK
<1>3. QED
  BY <1>1, <1>2 DEF Next, vars, table, WorkerStep, DeleteEpisode, Tick, ClaimJob, DeadLetter,
     LoadEpisode, MarkProcessing, Transcribe, SettleAndComplete, Ack, Nack, MarkFailed, Crash, Run

\* A deleted episode stays deleted.
LEMMA DeletedStays ==
    ASSUME PipelineInv, [Next]_vars, NEW e \in Episodes, epStatus[e] = "deleted"
    PROVE  epStatus'[e] = "deleted"
<1> USE DEF PipelineInv, TypeOK
<1>1. ASSUME NEW f \in Episodes, EnqueueTranscription(f) PROVE epStatus'[e] = "deleted"
  BY <1>1 DEF EnqueueTranscription, SetEpisodeStatus
<1>2. ASSUME NEW f \in Episodes, DeleteEpisode(f) PROVE epStatus'[e] = "deleted"
  BY <1>2 DEF DeleteEpisode
<1>3. ASSUME NEW f \in Episodes, NEW s, Moves(f, s) PROVE epStatus'[e] = "deleted"
  BY <1>3 DEF Moves, Busy
<1>4. QED
  BY <1>1, <1>2, <1>3, EpisodeStep DEF Visible

\* A worker's place and claim change only by a step of its own.
LEMMA OwnSteps ==
    ASSUME PipelineInv, [Next]_vars, NEW w \in Workers
    PROVE  \/ phase'[w] = phase[w] /\ claim'[w] = claim[w]
           \/ WorkerStep(w) \/ Crash(w)
<1> USE DEF PipelineInv, TypeOK
<1>1. CASE UNCHANGED <<phase, claim>>
  BY <1>1
<1>2. ASSUME NEW v \in Workers, v # w, WorkerStep(v) \/ Crash(v)
      PROVE  phase'[w] = phase[w] /\ claim'[w] = claim[w]
  <2>1. CASE ClaimJob(v)
    BY <1>2, <2>1 DEF ClaimJob
  <2>2. CASE DeadLetter(v) \/ Nack(v)
    BY <1>2, <2>2 DEF DeadLetter, Nack, Goto, Return
  <2>3. CASE LoadEpisode(v) \/ MarkProcessing(v) \/ Transcribe(v) \/ Run(v)
    BY <1>2, <2>3 DEF LoadEpisode, MarkProcessing, Transcribe, Run, Goto
  <2>4. CASE SettleAndComplete(v)
    BY <1>2, <2>4 DEF SettleAndComplete, Goto, Return
  <2>5. CASE Ack(v) \/ MarkFailed(v) \/ Crash(v)
    BY <1>2, <2>5 DEF Ack, MarkFailed, Crash, Return
  <2>6. QED
    BY <1>2, <2>1, <2>2, <2>3, <2>4, <2>5 DEF WorkerStep
<1>3. QED
  BY <1>1, <1>2 DEF Next, vars, EnqueueTranscription, DeleteEpisode, Tick

\* A worker that acknowledges a job has seen that its episode is gone, and gone it
\* stays; one that marks an episode has failed the job itself, and a failed job is final.
LEMMA HandOverStep ==
    ASSUME PipelineInv, HandOverInv, [Next]_vars
    PROVE  HandOverInv'
<1> USE DEF PipelineInv, TypeOK
<1> SUFFICES ASSUME NEW w \in Workers
             PROVE  /\ phase'[w] = "ack" => epStatus'[jobEpisode'[claim'[w][1]]] = "deleted"
                    /\ phase'[w] = "mark" => HoldsFailedClaim(claim[w])' /\ claim'[w] = claim[w]
  BY DEF HandOverInv, HoldsFailedClaim
<1>1. CASE phase'[w] = phase[w] /\ claim'[w] = claim[w]
  <2>1. ASSUME phase[w] \in {"ack", "mark"}
        PROVE  /\ claim[w][1] \in Jobs /\ jobStatus[claim[w][1]] # "absent"
               /\ jobEpisode[claim[w][1]] \in Episodes
    BY <2>1 DEF ClaimsIssued, JobsInOrder, Engaged, Working
  <2>2. CASE phase[w] = "ack"
    BY <1>1, <2>1, <2>2, PayloadKept, DeletedStays DEF HandOverInv
  <2>3. CASE phase[w] = "mark"
    <3>1. jobStatus[claim[w][1]] = "failed" /\ attempts[claim[w][1]] = claim[w][2]
      BY <2>3 DEF HandOverInv, HoldsFailedClaim, MarkerAlone, SoleMarker
    <3>2. jobStatus'[claim[w][1]] = "failed" /\ attempts'[claim[w][1]] = claim[w][2]
      BY <2>1, <2>3, <3>1, TerminalStep
    <3>3. QED
      BY <1>1, <2>3, <3>2 DEF HoldsFailedClaim
  <2>4. QED
    BY <1>1, <2>2, <2>3
<1>2. CASE WorkerStep(w) \/ Crash(w)
  <2>1. CASE LoadEpisode(w)
    BY <2>1 DEF LoadEpisode, Goto, table
  <2>2. CASE DeadLetter(w)
    <3>1. phase'[w] # "ack"
      BY <2>2 DEF DeadLetter, Goto, Return
    <3>2. CASE phase'[w] = "mark"
      <4>1. /\ HoldsClaim(claim[w]) /\ SetJobStatus(claim[w][1], "failed", 0)
            /\ claim' = claim /\ attempts' = attempts
        BY <2>2, <3>2 DEF DeadLetter, Goto, Return
      <4>2. claim[w][1] \in Jobs
        BY <2>2 DEF DeadLetter, ClaimsIssued, Engaged
      <4>3. QED
        BY <3>1, <4>1, <4>2 DEF HoldsClaim, HoldsFailedClaim, SetJobStatus
    <3>3. QED
      BY <3>1, <3>2
  <2>3. CASE Nack(w)
    <3>1. phase'[w] # "ack"
      BY <2>3 DEF Nack, Goto, Return
    <3>2. CASE phase'[w] = "mark"
      <4>1. /\ HoldsClaim(claim[w]) /\ SetJobStatus(claim[w][1], "failed", 0)
            /\ claim' = claim /\ attempts' = attempts
        BY <2>3, <3>2 DEF Nack, Goto, Return
      <4>2. claim[w][1] \in Jobs
        BY <2>3 DEF Nack, ClaimsIssued, Engaged, Working
      <4>3. QED
        BY <3>1, <4>1, <4>2 DEF HoldsClaim, HoldsFailedClaim, SetJobStatus
    <3>3. QED
      BY <3>1, <3>2
  <2>4. CASE ClaimJob(w)
    BY <2>4 DEF ClaimJob
  <2>5. CASE MarkProcessing(w) \/ Transcribe(w) \/ Run(w) \/ Crash(w)
    BY <2>5 DEF MarkProcessing, Transcribe, Run, Crash, Goto
  <2>6. CASE SettleAndComplete(w)
    BY <2>6 DEF SettleAndComplete, Goto, Return
  <2>7. CASE Ack(w) \/ MarkFailed(w)
    BY <2>7 DEF Ack, MarkFailed, Return
  <2>8. QED
    BY <1>2, <2>1, <2>2, <2>3, <2>4, <2>5, <2>6, <2>7 DEF WorkerStep
<1>3. QED
  BY <1>1, <1>2, OwnSteps

\* A live job stops being live only by the hand of a worker with a claim on it, which
\* settles it, acknowledges it, or fails it.
LEMMA LiveJobEnds ==
    ASSUME PipelineInv, [Next]_vars, NEW j \in Jobs, Live(j), ~Live(j)'
    PROVE  \E w \in Workers :
             /\ claim[w][1] = j
             /\ DeadLetter(w) \/ SettleAndComplete(w) \/ Ack(w) \/ Nack(w)
<1> USE DEF PipelineInv, TypeOK, Live
<1>1. jobStatus'[j] # jobStatus[j]
  OBVIOUS
<1>2. ASSUME NEW f \in Episodes, EnqueueTranscription(f) PROVE FALSE
  BY <1>2 DEF EnqueueTranscription, SetJobStatus, Busy
<1>3. ASSUME NEW w \in Workers, ClaimJob(w) PROVE FALSE
  BY <1>3 DEF ClaimJob, SetJobStatus, Busy
<1>4. ASSUME NEW w \in Workers, DeadLetter(w) \/ SettleAndComplete(w) \/ Ack(w) \/ Nack(w)
      PROVE  claim[w][1] = j
  <2>1. \/ UNCHANGED jobStatus
        \/ \E s \in JobStatus : jobStatus' = [jobStatus EXCEPT ![claim[w][1]] = s]
    BY <1>4 DEF DeadLetter, SettleAndComplete, Ack, Nack, SetJobStatus, JobStatus
  <2>2. QED
    BY <1>1, <2>1
<1>5. QED
  BY <1>1, <1>2, <1>3, <1>4 DEF Next, vars, table, WorkerStep, DeleteEpisode, Tick, LoadEpisode,
     MarkProcessing, Transcribe, MarkFailed, Crash, Run

\* An episode loses its last live job without an answer only when the reply that the job
\* has failed is lost: otherwise the worker goes on to mark it.
LEMMA LastJobEnds ==
    ASSUME PipelineInv, HandOverInv, [Next]_vars,
           NEW j \in Jobs, Live(j), ~Live(j)',
           NEW e \in Episodes, jobEpisode[j] = e, epStatus'[e] \in Busy, ~Attended(e)'
    PROVE  \E w \in Workers : GivesUp(w) /\ jobEpisode[claim[w][1]] = e
<1> USE DEF PipelineInv, TypeOK
<1>1. PICK w \in Workers :
        /\ claim[w][1] = j
        /\ DeadLetter(w) \/ SettleAndComplete(w) \/ Ack(w) \/ Nack(w)
  BY LiveJobEnds
<1>2. jobStatus'[j] # jobStatus[j] /\ jobEpisode'[j] = e
  BY PayloadKept DEF Live, Busy
<1>3. ~(phase'[w] = "mark" /\ claim'[w] = claim[w])
  BY <1>1, <1>2 DEF Attended
<1>4. CASE SettleAndComplete(w)
  <2>1. SetEpisodeStatus(e, result[w])
    BY <1>1, <1>2, <1>4 DEF SettleAndComplete
  <2>2. epStatus'[e] \in {"none", "done", "deleted"}
    BY <2>1 DEF SetEpisodeStatus
  <2>3. QED
    BY <2>2 DEF Busy
<1>5. CASE Ack(w)
  BY <1>1, <1>5 DEF Ack, HandOverInv, Busy
<1>6. CASE DeadLetter(w)
  <2>1. PICK o \in Outcomes :
          IF HoldsClaim(claim[w])
          THEN /\ IF o = "error" THEN UNCHANGED <<jobStatus, due>> ELSE SetJobStatus(j, "failed", 0)
               /\ IF o = "ok" THEN Goto(w, "mark") ELSE Return(w)
          ELSE Return(w) /\ UNCHANGED <<jobStatus, due>>
    BY <1>1, <1>6 DEF DeadLetter
  <2>2. o \notin {"ok", "error"} /\ Return(w)
    BY <1>2, <1>3, <2>1 DEF Goto
  <2>3. "unknown" \in Faults
    BY <2>2, PipelineAssumption DEF Outcomes
  <2>4. QED
    BY <1>1, <1>6, <2>2, <2>3 DEF DeadLetter, Return, GivesUp
<1>7. CASE Nack(w)
  <2>1. PICK o \in Outcomes :
          /\ IF HoldsClaim(claim[w]) /\ o # "error"
             THEN SetJobStatus(j, IF claim[w][2] >= MaxAttempts THEN "failed" ELSE "pending",
                                  IF claim[w][2] >= MaxAttempts THEN 0 ELSE Backoff(claim[w][2]))
             ELSE UNCHANGED <<jobStatus, due>>
          /\ IF HoldsClaim(claim[w]) /\ o = "ok" /\ claim[w][2] >= MaxAttempts
             THEN Goto(w, "mark") ELSE Return(w)
    BY <1>1, <1>7 DEF Nack
  <2>2. HoldsClaim(claim[w]) /\ o # "error" /\ claim[w][2] >= MaxAttempts
    BY <1>2, <2>1 DEF SetJobStatus, Live, Busy
  <2>3. o # "ok" /\ Return(w)
    BY <1>3, <2>1, <2>2 DEF Goto
  <2>4. "unknown" \in Faults
    BY <2>2, <2>3, PipelineAssumption DEF Outcomes
  <2>5. QED
    BY <1>1, <1>7, <2>3, <2>4 DEF Nack, Return, GivesUp
<1>8. QED
  BY <1>1, <1>4, <1>5, <1>6, <1>7

\* A worker that leaves an episode unmarked was refused by the store, or died: the fence
\* of the mark does not refuse it.
LEMMA MarkerEnds ==
    ASSUME PipelineInv, HandOverInv, [Next]_vars,
           NEW w \in Workers, phase[w] = "mark",
           NEW e \in Episodes, jobEpisode[claim[w][1]] = e, epStatus'[e] \in Busy, ~Attended(e)'
    PROVE  GivesUp(w)
<1> USE DEF PipelineInv, TypeOK
<1>1. claim[w][1] \in Jobs /\ jobEpisode'[claim[w][1]] = e
  BY PayloadKept DEF ClaimsIssued, Engaged
<1>2. ~(phase'[w] = "mark" /\ claim'[w] = claim[w])
  BY <1>1 DEF Attended
<1>3. MarkFailed(w) \/ Crash(w)
  BY <1>2, OwnSteps DEF WorkerStep, ClaimJob, DeadLetter, LoadEpisode, MarkProcessing,
     Transcribe, SettleAndComplete, Ack, Nack, Run
<1>4. CASE Crash(w)
  BY <1>4 DEF Crash, GivesUp
<1>5. CASE MarkFailed(w)
  <2>1. CASE SetEpisodeStatus(e, "failed")
    BY <2>1 DEF SetEpisodeStatus, Busy
  <2>2. CASE ~SetEpisodeStatus(e, "failed")
    BY <1>5, <2>2 DEF MarkFailed, HandOverInv, Return, GivesUp
  <2>3. QED
    BY <2>1, <2>2
<1>6. QED
  BY <1>3, <1>4, <1>5

\* What it takes to abandon an episode, for any step.
LEMMA AbandonStep ==
    ASSUME PipelineInv, HandOverInv, [Next]_vars,
           NEW e \in Episodes, Attended(e), epStatus'[e] \in Busy, ~Attended(e)'
    PROVE  \E w \in Workers : GivesUp(w) /\ jobEpisode[claim[w][1]] = e
<1>1. ASSUME NEW j \in Jobs, Live(j), jobEpisode[j] = e
      PROVE  \E w \in Workers : GivesUp(w) /\ jobEpisode[claim[w][1]] = e
  <2>1. jobEpisode'[j] = e
    BY <1>1, PayloadKept DEF Live, Busy
  <2>2. ~Live(j)'
    BY <2>1 DEF Attended
  <2>3. QED
    BY <1>1, <2>2, LastJobEnds
<1>2. QED
  BY <1>1, MarkerEnds DEF Attended

\* An episode becomes busy only by a request, which queues its job in the same step.
LEMMA BusyStep ==
    ASSUME PipelineInv, [Next]_vars, NEW e \in Episodes, epStatus[e] \notin Busy, epStatus'[e] \in Busy
    PROVE  Attended(e)'
<1> USE DEF PipelineInv, TypeOK
<1>1. EnqueueTranscription(e)
  <2>1. ASSUME NEW f \in Episodes, EnqueueTranscription(f) PROVE f = e
    BY <2>1 DEF EnqueueTranscription, SetEpisodeStatus
  <2>2. ASSUME NEW f \in Episodes, DeleteEpisode(f) PROVE FALSE
    BY <2>2 DEF DeleteEpisode, Busy
  <2>3. ASSUME NEW f \in Episodes, NEW s, Moves(f, s) PROVE f = e /\ FALSE
    BY <2>3 DEF Moves
  <2>4. QED
    BY <2>1, <2>2, <2>3, EpisodeStep DEF Visible
<1>2. QED
  BY <1>1 DEF EnqueueTranscription, SetJobStatus, Attended, Live, Busy

\* What a worker knows when it hands a job or an episode over holds in every behaviour.
THEOREM HandOverInvariant == Spec => []HandOverInv
<1>1. Init => HandOverInv
  BY DEF Init, HandOverInv
<1>2. PipelineInv /\ HandOverInv /\ [Next]_vars => HandOverInv'
  BY HandOverStep
<1>3. QED
  BY <1>1, <1>2, PipelineInvariant, PTL DEF Spec

\* An episode is abandoned only where the worker with its last claim gives up between
\* failing the job and marking the episode.
THEOREM AbandonedOnlyByGivingUpAlways == Spec => AbandonedOnlyByGivingUp
<1>1. PipelineInv /\ HandOverInv /\ [Next]_vars =>
        [\A e \in Episodes :
            Attended(e) /\ epStatus'[e] \in Busy /\ ~Attended(e)' =>
                \E w \in Workers : GivesUp(w) /\ jobEpisode[claim[w][1]] = e]_vars
  BY AbandonStep
<1>2. QED
  BY <1>1, PipelineInvariant, HandOverInvariant, PTL DEF Spec, AbandonedOnlyByGivingUp

\* With a store that does not fail, and as long as no worker dies, every queued or
\* running episode has somebody to move it on.
THEOREM PendingHasJobUntilCrashAlways == Spec => []PendingHasJobUntilCrash
<1>1. Init => PendingHasJobUntilCrash
  BY DEF Init, PendingHasJobUntilCrash, PendingHasJob, Busy
<1>2. ASSUME PipelineInv, HandOverInv, [Next]_vars, PendingHasJobUntilCrash
      PROVE  PendingHasJobUntilCrash'
  <2> SUFFICES ASSUME Faults = {}, crashes' = 0, NEW e \in Episodes, epStatus'[e] \in Busy
               PROVE  Attended(e)'
    BY DEF PendingHasJobUntilCrash, PendingHasJob
  <2>1. \A w \in Workers : ~Crash(w)
    BY <1>2 DEF Crash, PipelineInv, TypeOK
  <2>2. crashes = 0
    BY <1>2, <2>1 DEF Next, vars, WorkerStep, EnqueueTranscription, DeleteEpisode, Tick, ClaimJob,
       DeadLetter, LoadEpisode, MarkProcessing, Transcribe, SettleAndComplete, Ack, Nack, MarkFailed, Run
  <2>3. \A w \in Workers : ~GivesUp(w)
    <3> SUFFICES ASSUME NEW w \in Workers, GivesUp(w) PROVE FALSE
      OBVIOUS
    <3>1. phase[w] = "mark" /\ phase'[w] = "down"
      BY DEF GivesUp
    <3>2. WorkerStep(w)
      BY <1>2, <2>1, <3>1, OwnSteps
    <3>3. QED
      BY <3>1, <3>2, <1>2 DEF PipelineInv, TypeOK, WorkerStep, ClaimJob, DeadLetter, LoadEpisode,
         MarkProcessing, Transcribe, SettleAndComplete, Ack, Nack, Run, MarkFailed, Return
  <2>4. CASE epStatus[e] \notin Busy
    BY <1>2, <2>4, BusyStep
  <2>5. CASE epStatus[e] \in Busy
    BY <1>2, <2>2, <2>3, <2>5, AbandonStep DEF PendingHasJobUntilCrash, PendingHasJob
  <2>6. QED
    BY <2>4, <2>5
<1>3. QED
  BY <1>1, <1>2, PipelineInvariant, HandOverInvariant, PTL DEF Spec

\* An episode leaves "done" only by deletion or by a new request.
THEOREM DoneNotDowngradedAlways == Spec => DoneNotDowngraded
<1> DEFINE Kept ==
      \A e \in Episodes : epStatus[e] = "done" =>
          \/ epStatus'[e] \in {"done", "deleted"}
          \/ /\ epStatus'[e] = "pending"
             /\ \E j \in Jobs : /\ jobStatus[j] = "absent" /\ jobStatus'[j] = "pending"
                               /\ jobEpisode'[j] = e
<1>1. ASSUME PipelineInv, [Next]_vars PROVE Kept
  <2> USE <1>1 DEF PipelineInv, TypeOK
  <2>1. CASE UNCHANGED Visible
    BY <2>1 DEF Visible
  <2>2. ASSUME NEW f \in Episodes, EnqueueTranscription(f) PROVE Kept
    BY <2>2 DEF EnqueueTranscription, SetJobStatus, SetEpisodeStatus
  <2>3. ASSUME NEW f \in Episodes, DeleteEpisode(f) PROVE Kept
    BY <2>3 DEF DeleteEpisode
  <2>4. ASSUME NEW f \in Episodes, NEW s, Moves(f, s) PROVE Kept
    BY <2>4 DEF Moves, Busy
  <2>5. QED
    BY <2>1, <2>2, <2>3, <2>4, EpisodeStep
<1>2. PipelineInv /\ [Next]_vars => [Kept]_vars
  BY <1>1
<1>3. QED
  BY <1>2, PipelineInvariant, PTL DEF Spec, DoneNotDowngraded

\* A transcript is replaced only by one that answers a newer request: the job that is
\* settled is live and the newest, that of the old transcript is done.
THEOREM TranscriptsAdvanceAlways == Spec => TranscriptsAdvance
<1> DEFINE Advance ==
      \A e \in Episodes : transcript'[e] # transcript[e] =>
          transcript[e][1] < transcript'[e][1] \/ epStatus'[e] = "deleted"
<1>1. ASSUME PipelineInv, [Next]_vars PROVE Advance
  <2>0. \/ UNCHANGED transcript
        \/ \E f \in Episodes : DeleteEpisode(f)
        \/ \E w \in Workers : SettleAndComplete(w)
    BY <1>1 DEF Next, vars, table, WorkerStep, EnqueueTranscription, Tick, ClaimJob, DeadLetter,
       LoadEpisode, MarkProcessing, Transcribe, Ack, Nack, MarkFailed, Crash, Run
  <2> USE <1>1 DEF PipelineInv, TypeOK
  <2>1. CASE UNCHANGED transcript
    BY <2>1
  <2>2. ASSUME NEW f \in Episodes, DeleteEpisode(f) PROVE Advance
    BY <2>2 DEF DeleteEpisode
  <2>3. ASSUME NEW w \in Workers, SettleAndComplete(w), ~UNCHANGED transcript PROVE Advance
    <3> DEFINE j == claim[w][1]
               f == jobEpisode[j]
    <3>1. j \in Jobs /\ f \in Episodes /\ claim[w] \in Claims
      BY <2>3 DEF SettleAndComplete, ClaimsIssued, JobsInOrder, Engaged, Working
    <3>2. HoldsClaim(claim[w]) /\ transcript' = [transcript EXCEPT ![f] = claim[w]]
      BY <2>3 DEF SettleAndComplete
    <3>3. Live(j)
      BY <3>2 DEF HoldsClaim, Live, Busy
    <3>4. transcript[f][1] < j
      <4>1. CASE transcript[f] = NoClaim
        BY <3>1, <4>1, JobsAreNat, PipelineAssumption DEF NoClaim, NoJob, Jobs
      <4>2. CASE transcript[f] # NoClaim
        <5>1. /\ transcript[f][1] \in Jobs /\ jobEpisode[transcript[f][1]] = f
              /\ jobStatus[transcript[f][1]] = "done"
          BY <3>1, <4>2 DEF TranscriptIsSettled
        <5>2. transcript[f][1] <= j /\ transcript[f][1] # j
          BY <3>1, <3>2, <3>3, <5>1 DEF LiveIsNewest, HoldsClaim
        <5>3. transcript[f][1] \in Nat /\ j \in Nat
          BY <3>1, <5>1, JobsAreNat
        <5>4. QED
          BY <5>2, <5>3
      <4>3. QED
        BY <4>1, <4>2
    <3>5. QED
      BY <3>1, <3>2, <3>4
  <2>4. QED
    BY <2>0, <2>1, <2>2, <2>3
<1>2. PipelineInv /\ [Next]_vars => [Advance]_vars
  BY <1>1
<1>3. QED
  BY <1>2, PipelineInvariant, PTL DEF Spec, TranscriptsAdvance

\* The pipeline's initial state is one of the service.
LEMMA InitService == Init => Service!ServiceInit
  BY JobsAreNat, PipelineAssumption
  DEF Init, Service!ServiceInit, NoClaim, NoJob

\* Each step of the pipeline is a step of the service, or one it does not see.
LEMMA StepService ==
    ASSUME PipelineInv, [Next]_vars
    PROVE  [Service!ServiceNext]_(Service!svars)
<1> USE DEF PipelineInv, TypeOK
<1> DEFINE reqs == [e \in Episodes |-> {j \in Jobs : jobEpisode[j] = e}]
           ver  == [e \in Episodes |-> transcript[e][1]]
<1>1. CASE UNCHANGED Visible
  BY <1>1 DEF Visible, Service!svars
<1>2. ASSUME NEW e \in Episodes, EnqueueTranscription(e) PROVE Service!Request(e)
  <2>1. epStatus[e] \in {"none", "done", "failed"}
    BY <1>2 DEF EnqueueTranscription, Startable, Busy, EpisodeStatus
  <2>2. epStatus' = [epStatus EXCEPT ![e] = "pending"] /\ UNCHANGED transcript
    BY <1>2, <2>1 DEF EnqueueTranscription, SetEpisodeStatus
  <2>3. PICK r \in Jobs : /\ jobStatus[r] = "absent"
                          /\ \A k \in Jobs : k < r => jobStatus[k] # "absent"
                          /\ jobEpisode' = [jobEpisode EXCEPT ![r] = e]
    BY <1>2 DEF EnqueueTranscription
  <2>4. jobEpisode[r] = NoEpisode /\ NoEpisode \notin Episodes
    BY <2>3, PipelineAssumption DEF JobsInOrder
  <2>5. \A q \in Jobs : jobEpisode[q] = e => q < r
    <3> SUFFICES ASSUME NEW q \in Jobs, jobEpisode[q] = e PROVE q < r
      OBVIOUS
    <3>1. jobStatus[q] # "absent"
      BY <2>4 DEF JobsInOrder
    <3>2. ~(r < q) /\ q # r
      BY <2>3, <3>1 DEF JobsInOrder
    <3>3. QED
      BY <3>2, JobsAreNat
  <2>6. reqs' = [reqs EXCEPT ![e] = @ \cup {r}]
    <3>1. ASSUME NEW f \in Episodes
          PROVE  {j \in Jobs : jobEpisode'[j] = f} =
                 IF f = e THEN {j \in Jobs : jobEpisode[j] = f} \cup {r}
                          ELSE {j \in Jobs : jobEpisode[j] = f}
      <4>1. \A j \in Jobs : jobEpisode'[j] = IF j = r THEN e ELSE jobEpisode[j]
        BY <2>3
      <4>2. jobEpisode[r] # f
        BY <2>4
      <4>3. QED
        BY <4>1, <4>2
    <3>2. \A f \in Episodes : reqs'[f] = [reqs EXCEPT ![e] = @ \cup {r}][f]
      BY <3>1
    <3>3. /\ reqs' = [f \in Episodes |-> reqs'[f]]
          /\ [reqs EXCEPT ![e] = @ \cup {r}] = [f \in Episodes |-> [reqs EXCEPT ![e] = @ \cup {r}][f]]
      OBVIOUS
    <3>4. QED
      BY <3>2, <3>3, Zenon
  <2>7. QED
    BY <2>1, <2>2, <2>5, <2>6 DEF Service!Request, Service!Closed
<1>3. ASSUME NEW e \in Episodes, DeleteEpisode(e) PROVE Service!Remove(e)
  <2>1. ver' = [ver EXCEPT ![e] = 0]
    BY <1>3 DEF DeleteEpisode, NoClaim, NoJob
  <2>2. QED
    BY <1>3, <2>1 DEF DeleteEpisode, Service!Remove
<1>4. ASSUME NEW e \in Episodes, NEW s \in {"processing", "none", "failed"},
             Moves(e, s), UNCHANGED transcript
      PROVE  Service!Start(e) \/ Service!Answer(e)
  BY <1>4 DEF Moves, Busy, Service!Start, Service!Answer, Service!Open
<1>5. ASSUME NEW e \in Episodes, Moves(e, "done"), NEW c \in Claims,
             c[1] \in Jobs, jobEpisode[c[1]] = e,
             \A k \in Jobs : jobEpisode[k] = e => k <= c[1],
             transcript' = [transcript EXCEPT ![e] = c]
      PROVE  Service!Answer(e)
  <2>1. ver' = [ver EXCEPT ![e] = c[1]]
    BY <1>5
  <2>2. Service!Newest(e, c[1]) /\ c[1] \in reqs[e]
    BY <1>5 DEF Service!Newest
  <2>3. epStatus[e] \in {"pending", "processing"} /\ epStatus' = [epStatus EXCEPT ![e] = "done"]
        /\ UNCHANGED reqs
    BY <1>5 DEF Moves, Busy
  <2>4. \E r \in reqs[e] : Service!Newest(e, r) /\ ver' = [ver EXCEPT ![e] = r]
    BY <2>1, <2>2
  <2>5. QED
    BY <2>3, <2>4 DEF Service!Answer, Service!Open
<1>6. QED
  BY <1>1, <1>2, <1>3, <1>4, <1>5, EpisodeStep DEF Service!ServiceNext

\* The jobs, leases, fences and retries of the pipeline implement the service
\* that the owner of an episode is promised.
THEOREM PipelineImplementsService == Spec => ImplementsService
<1>1. PipelineInv /\ [Next]_vars => [Service!ServiceNext]_(Service!svars)
  BY StepService
<1>2. QED
  BY <1>1, InitService, PipelineInvariant, PTL DEF Spec, ImplementsService, Service!ServiceSpec
=============================================================================
