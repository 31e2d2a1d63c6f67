------------------------ MODULE TranscriptionPipeline ------------------------
(***************************************************************************)
(* The transcription job pipeline: the jobs, episodes and transcripts      *)
(* tables of the sqlite store, the retry policy of queue/dbqueue and the   *)
(* worker loop of worker/worker.go.                                        *)
(*                                                                         *)
(* Every store call is one transaction on a single-writer pool, so it is   *)
(* one atomic step; everything a worker does between two store calls       *)
(* interleaves with the other workers, with the HTTP handlers, with the    *)
(* passing of time (leases expire under a worker that is merely slow) and  *)
(* with crashes.                                                           *)
(*                                                                         *)
(* Time.  run_after is kept relative to the present: due[j] is             *)
(* run_after - now in whole seconds, and Tick lets a second pass.          *)
(*                                                                         *)
(* Store failures.  A call may fail having written nothing ("error") or    *)
(* having committed ("unknown": its context expired while it committed);   *)
(* Faults says which of the two a model admits.                            *)
(***************************************************************************)
EXTENDS Integers, Sequences

CONSTANTS
    Episodes,      \* episodes of the library
    NoEpisode,     \* the payload of a job that does not exist yet
    Workers,       \* worker loops sharing the database
    MaxJobs,       \* bound: number of jobs ever enqueued
    MaxAttempts,   \* dbqueue.WithMaxAttempts
    MaxClaims,     \* bound: number of times one job is claimed, and once more for every crash
    Lease,         \* dbqueue.WithLease, in ticks
    BackoffUnit,   \* the minute of defaultBackoff, in ticks
    BackoffCap,    \* maxBackoff, in ticks
    Horizon,       \* bound: how long, in ticks, a runnable job is left unclaimed
    MaxCrashes,    \* bound: number of worker crashes
    Faults         \* how a store call may fail

Jobs     == 1..MaxJobs
NoJob    == 0
Claims   == (Jobs \cup {NoJob}) \X Nat
NoClaim  == <<NoJob, 0>>
Outcomes == {"ok"} \cup Faults

ASSUME PipelineAssumption ==
    /\ NoEpisode \notin Episodes
    /\ MaxJobs \in Nat /\ MaxClaims \in Nat /\ MaxCrashes \in Nat /\ Horizon \in Nat
    /\ MaxAttempts \in Nat \ {0}
    /\ Lease \in Nat \ {0}
    /\ BackoffUnit \in Nat \ {0} /\ BackoffCap \in Nat \ {0}
    /\ Faults \subseteq {"error", "unknown"}

VARIABLES
    epStatus,      \* episodes.transcript_status, or "deleted"
    transcript,    \* the claim <<job, attempt>> whose result is the transcripts row
    jobEpisode,    \* jobs.payload: the episode to transcribe
    jobStatus,     \* jobs.status, or "absent"
    attempts,      \* jobs.attempts: the claims made, and the fencing token
    due,           \* jobs.run_after, relative to now
    phase,         \* the store call or the work each worker is about to do
    claim,         \* the claim <<job, attempt>> a worker acts on
    result,        \* the terminal status its transcription produced
    runs,          \* history: how often Dequeue handed a job out to be run
    successes,     \* castlet_transcription_jobs_total{outcome="success"}, by job
    crashes        \* history: worker crashes so far

table == <<epStatus, transcript, jobEpisode, jobStatus, attempts, due>>
vars  == <<epStatus, transcript, jobEpisode, jobStatus, attempts, due,
           phase, claim, result, runs, successes, crashes>>

EpisodeStatus == {"none", "pending", "processing", "done", "failed", "deleted"}
JobStatus     == {"absent", "pending", "processing", "done", "failed"}
Busy          == {"pending", "processing"}
Working       == {"load", "progress", "work", "settle", "ack", "nack"}
Phases        == {"down", "idle", "bury", "mark"} \cup Working

TypeOK ==
    /\ epStatus \in [Episodes -> EpisodeStatus]
    /\ transcript \in [Episodes -> Claims]
    /\ jobEpisode \in [Jobs -> Episodes \cup {NoEpisode}]
    /\ jobStatus \in [Jobs -> JobStatus]
    /\ attempts \in [Jobs -> Nat]
    /\ due \in [Jobs -> Int]
    /\ phase \in [Workers -> Phases]
    /\ claim \in [Workers -> Claims]
    /\ result \in [Workers -> {"none", "done"}]
    /\ runs \in [Jobs -> Nat]
    /\ successes \in [Jobs -> Nat]
    /\ crashes \in Nat

-----------------------------------------------------------------------------
(* The store: jobs.                                                        *)

Live(j) == jobStatus[j] \in Busy

\* Mutant: an expired lease is never reclaimed.
RunnableWhenPending(j) == jobStatus[j] = "pending" /\ due[j] <= 0

\* runnableJobPredicate: status IN (pending, processing) AND run_after <= now.
Runnable(j) == Live(j) /\ due[j] <= 0

\* ORDER BY run_after ASC, created_at ASC LIMIT 1.  Ids are issued in creation order.
Oldest(j) ==
    /\ Runnable(j)
    /\ \A k \in Jobs : Runnable(k) => due[j] < due[k] \/ (due[j] = due[k] /\ j <= k)

\* Mutants of the fence: the token, the status, or both are not compared.
HoldsClaimAnyToken(c)  == jobStatus[c[1]] = "processing"
HoldsClaimAnyStatus(c) == attempts[c[1]] = c[2]
HoldsClaimUnfenced(c)  == jobStatus[c[1]] # "absent"

\* The fence of every settlement: attempts = token AND status = 'processing'.
HoldsClaim(c) == jobStatus[c[1]] = "processing" /\ attempts[c[1]] = c[2]

\* Mutant: the failed mark uses the fence of the other settlements.
HoldsFailedClaimStrict(c) == HoldsClaim(c)

\* The fence of the transcript-less TranscriptFailed mark, which also runs
\* against the job its own claim has just failed.
HoldsFailedClaim(c) == jobStatus[c[1]] \in {"processing", "failed"} /\ attempts[c[1]] = c[2]

\* setJobStatus.  run_after of a finished job is never read again: it is dropped.
SetJobStatus(j, s, d) ==
    /\ jobStatus' = [jobStatus EXCEPT ![j] = s]
    /\ due' = [due EXCEPT ![j] = d]

\* setEpisodeStatusTx: an UPDATE, so a deleted episode stays deleted.
SetEpisodeStatus(e, s) ==
    epStatus' = [epStatus EXCEPT ![e] = IF @ = "deleted" THEN @ ELSE s]

\* Mutant: a queued episode may be queued again.
StartableWhenPending(e) == epStatus[e] \notin {"processing", "deleted"}

\* The conditional UPDATE of EnqueueTranscriptionJob matches the episode.
Startable(e) == epStatus[e] \notin Busy \cup {"deleted"}

\* Mutant: one attempt too many is handed out.
PastLimitOffByOne(attempt) == attempt > MaxAttempts + 1

\* Dequeue dead-letters a claim past the limit instead of handing it out.
PastLimit(attempt) == attempt > MaxAttempts

\* defaultBackoff: minute << attempt, saturated at the cap from attempt 6 on.
Backoff(attempt) ==
    IF attempt >= 6 THEN BackoffCap
    ELSE LET d == BackoffUnit * <<2, 4, 8, 16, 32>>[attempt]
         IN  IF d > BackoffCap THEN BackoffCap ELSE d

-----------------------------------------------------------------------------
(* HTTP handlers and time.                                                 *)

\* handleEpisodeTranscribe and the end of handleEpisodeCreate: one transaction
\* marks the episode pending and inserts the job.  A conflict, a missing episode
\* and an "error" change nothing; an "unknown" failure changes what success does.
EnqueueTranscription(e) ==
    /\ Startable(e)
    /\ \E j \in Jobs :
        /\ jobStatus[j] = "absent"
        /\ \A k \in Jobs : k < j => jobStatus[k] # "absent"
        /\ jobEpisode' = [jobEpisode EXCEPT ![j] = e]
        /\ SetJobStatus(j, "pending", 0)
    /\ SetEpisodeStatus(e, "pending")
    /\ UNCHANGED <<transcript, attempts, phase, claim, result, runs, successes, crashes>>

\* DeleteEpisode: the row goes, and its transcript by ON DELETE CASCADE; its jobs stay.
DeleteEpisode(e) ==
    /\ epStatus[e] # "deleted"
    /\ epStatus' = [epStatus EXCEPT ![e] = "deleted"]
    /\ transcript' = [transcript EXCEPT ![e] = NoClaim]
    /\ UNCHANGED <<jobEpisode, jobStatus, attempts, due,
                   phase, claim, result, runs, successes, crashes>>

Tick ==
    /\ \E j \in Jobs : Live(j)
    /\ \A j \in Jobs : Live(j) => due[j] > -Horizon
    /\ due' = [j \in Jobs |-> IF Live(j) THEN due[j] - 1 ELSE due[j]]
    /\ UNCHANGED <<epStatus, transcript, jobEpisode, jobStatus, attempts,
                   phase, claim, result, runs, successes, crashes>>

-----------------------------------------------------------------------------
(* The worker.                                                             *)

Goto(w, p) == phase' = [phase EXCEPT ![w] = p] /\ UNCHANGED <<claim, result>>

\* processOne returns to the loop.
Return(w) ==
    /\ phase' = [phase EXCEPT ![w] = "idle"]
    /\ claim' = [claim EXCEPT ![w] = NoClaim]
    /\ result' = [result EXCEPT ![w] = "none"]

\* Dequeue, first half: ClaimJob leases the oldest runnable job.  A claim past
\* the attempt limit is to be dead-lettered, any other is handed to handle().
\* After an "unknown" failure the job is leased to nobody.
ClaimJob(w) ==
    /\ phase[w] = "idle"
    /\ \E j \in Jobs, d \in {Lease, Lease + 1}, o \in Outcomes \ {"error"} :
        /\ Oldest(j)
        /\ attempts[j] < MaxClaims + crashes
        /\ SetJobStatus(j, "processing", d)
        /\ attempts' = [attempts EXCEPT ![j] = @ + 1]
        /\ IF o = "ok"
           THEN /\ claim' = [claim EXCEPT ![w] = <<j, attempts[j] + 1>>]
                /\ phase' = [phase EXCEPT ![w] =
                       IF PastLimit(attempts[j] + 1) THEN "bury" ELSE "load"]
                /\ runs' = [runs EXCEPT ![j] =
                       IF PastLimit(attempts[j] + 1) THEN @ ELSE @ + 1]
           ELSE UNCHANGED <<claim, phase, runs>>
    /\ UNCHANGED <<epStatus, transcript, jobEpisode, result, successes, crashes>>

\* Dequeue, second half: FailJob of a job past its attempts.  Any failure, a
\* stale claim included, is Dequeue's error: the worker does not go on to mark
\* the episode.
DeadLetter(w) ==
    /\ phase[w] = "bury"
    /\ \E o \in Outcomes :
        IF HoldsClaim(claim[w])
        THEN /\ IF o = "error" THEN UNCHANGED <<jobStatus, due>>
                ELSE SetJobStatus(claim[w][1], "failed", 0)
             /\ IF o = "ok" THEN Goto(w, "mark") ELSE Return(w)
        ELSE Return(w) /\ UNCHANGED <<jobStatus, due>>
    /\ UNCHANGED <<epStatus, transcript, jobEpisode, attempts, runs, successes, crashes>>

\* Mutant: an episode that could not be loaded is taken for one that is gone.
LoadEpisodeOrAck(w) ==
    /\ phase[w] = "load"
    /\ \/ Goto(w, IF epStatus[jobEpisode[claim[w][1]]] = "deleted" THEN "ack" ELSE "progress")
       \/ Faults # {} /\ Goto(w, "ack")
    /\ UNCHANGED <<table, runs, successes, crashes>>

\* handle, transcribe: EpisodeByID.
LoadEpisode(w) ==
    /\ phase[w] = "load"
    /\ \/ Goto(w, IF epStatus[jobEpisode[claim[w][1]]] = "deleted" THEN "ack" ELSE "progress")
       \/ Faults # {} /\ Goto(w, "nack")
    /\ UNCHANGED <<table, runs, successes, crashes>>

\* transcribe: the best-effort, fenced TranscriptProcessing marker.
MarkProcessing(w) ==
    /\ phase[w] = "progress"
    /\ \/ HoldsClaim(claim[w]) /\ SetEpisodeStatus(jobEpisode[claim[w][1]], "processing")
       \/ (~HoldsClaim(claim[w]) \/ "error" \in Faults) /\ UNCHANGED epStatus
    /\ Goto(w, "work")
    /\ UNCHANGED <<transcript, jobEpisode, jobStatus, attempts, due, runs, successes, crashes>>

\* transcribe: blobs.Get and Transcribe fail or are cancelled, report
\* ErrUnsupported, or produce a transcript.
Transcribe(w) ==
    /\ phase[w] = "work"
    /\ \/ phase' = [phase EXCEPT ![w] = "nack"] /\ UNCHANGED result
       \/ \E r \in {"none", "done"} :
            /\ phase' = [phase EXCEPT ![w] = "settle"]
            /\ result' = [result EXCEPT ![w] = r]
    /\ UNCHANGED <<table, claim, runs, successes, crashes>>

\* settleAndComplete: SettleEpisodeTranscriptAndCompleteJob completes the job,
\* saves the transcript and sets the episode status in one fenced transaction.
\* Saving the transcript of a deleted episode breaks the foreign key and rolls
\* everything back.  An error is Nacked; a stale claim is dropped in silence.
SettleAndComplete(w) ==
    LET j == claim[w][1]
        e == jobEpisode[j]
        orphan == result[w] = "done" /\ epStatus[e] = "deleted"
    IN  /\ phase[w] = "settle"
        /\ IF ~HoldsClaim(claim[w])
           THEN Return(w) /\ UNCHANGED <<epStatus, transcript, jobStatus, due, successes>>
           ELSE \/ /\ orphan \/ "error" \in Faults
                   /\ Goto(w, "nack")
                   /\ UNCHANGED <<epStatus, transcript, jobStatus, due, successes>>
                \/ /\ ~orphan
                   /\ SetJobStatus(j, "done", 0)
                   /\ SetEpisodeStatus(e, result[w])
                   /\ transcript' = IF result[w] = "done"
                                    THEN [transcript EXCEPT ![e] = claim[w]]
                                    ELSE transcript
                   /\ \/ /\ Return(w)
                         /\ successes' = IF result[w] = "done"
                                         THEN [successes EXCEPT ![j] = @ + 1]
                                         ELSE successes
                      \/ "unknown" \in Faults /\ Goto(w, "nack") /\ UNCHANGED successes
        /\ UNCHANGED <<jobEpisode, attempts, runs, crashes>>

\* ack: CompleteJob of a job whose episode is gone.
Ack(w) ==
    /\ phase[w] = "ack"
    /\ \/ HoldsClaim(claim[w]) /\ SetJobStatus(claim[w][1], "done", 0)
       \/ (~HoldsClaim(claim[w]) \/ "error" \in Faults) /\ UNCHANGED <<jobStatus, due>>
    /\ Return(w)
    /\ UNCHANGED <<epStatus, transcript, jobEpisode, attempts, runs, successes, crashes>>

\* fail: Nack reschedules with backoff, or fails the job once its attempts are
\* spent; only when that is reported back does the worker go on to mark the episode.
Nack(w) ==
    LET j == claim[w][1]
        exhausted == claim[w][2] >= MaxAttempts
    IN  /\ phase[w] = "nack"
        /\ \E o \in Outcomes :
            /\ IF HoldsClaim(claim[w]) /\ o # "error"
               THEN SetJobStatus(j, IF exhausted THEN "failed" ELSE "pending",
                                    IF exhausted THEN 0 ELSE Backoff(claim[w][2]))
               ELSE UNCHANGED <<jobStatus, due>>
            /\ IF HoldsClaim(claim[w]) /\ o = "ok" /\ exhausted
               THEN Goto(w, "mark")
               ELSE Return(w)
        /\ UNCHANGED <<epStatus, transcript, jobEpisode, attempts, runs, successes, crashes>>

\* markTranscript(TranscriptFailed): fenced and best-effort.
MarkFailed(w) ==
    /\ phase[w] = "mark"
    /\ \/ HoldsFailedClaim(claim[w]) /\ SetEpisodeStatus(jobEpisode[claim[w][1]], "failed")
       \/ (~HoldsFailedClaim(claim[w]) \/ "error" \in Faults) /\ UNCHANGED epStatus
    /\ Return(w)
    /\ UNCHANGED <<transcript, jobEpisode, jobStatus, attempts, due, runs, successes, crashes>>

\* The process dies at any point and is started again.
Crash(w) ==
    /\ phase[w] # "down"
    /\ crashes < MaxCrashes
    /\ crashes' = crashes + 1
    /\ phase' = [phase EXCEPT ![w] = "down"]
    /\ claim' = [claim EXCEPT ![w] = NoClaim]
    /\ result' = [result EXCEPT ![w] = "none"]
    /\ UNCHANGED <<table, runs, successes>>

Run(w) ==
    /\ phase[w] = "down"
    /\ Goto(w, "idle")
    /\ UNCHANGED <<table, runs, successes, crashes>>

-----------------------------------------------------------------------------
\* A library of episodes that were never queued, and workers about to poll.
Init ==
    /\ epStatus = [e \in Episodes |-> "none"]
    /\ transcript = [e \in Episodes |-> NoClaim]
    /\ jobEpisode = [j \in Jobs |-> NoEpisode]
    /\ jobStatus = [j \in Jobs |-> "absent"]
    /\ attempts = [j \in Jobs |-> 0]
    /\ due = [j \in Jobs |-> 0]
    /\ phase = [w \in Workers |-> "idle"]
    /\ claim = [w \in Workers |-> NoClaim]
    /\ result = [w \in Workers |-> "none"]
    /\ runs = [j \in Jobs |-> 0]
    /\ successes = [j \in Jobs |-> 0]
    /\ crashes = 0

\* What the goroutine of worker.Run does, one store call or one piece of work at a time.
WorkerStep(w) ==
    \/ ClaimJob(w)
    \/ DeadLetter(w)
    \/ LoadEpisode(w)
    \/ MarkProcessing(w)
    \/ Transcribe(w)
    \/ SettleAndComplete(w)
    \/ Ack(w)
    \/ Nack(w)
    \/ MarkFailed(w)
    \/ Run(w)

Next ==
    \/ \E e \in Episodes : EnqueueTranscription(e) \/ DeleteEpisode(e)
    \/ \E w \in Workers : WorkerStep(w) \/ Crash(w)
    \/ Tick

Spec == Init /\ [][Next]_vars

\* Time passes, a worker loop polls on its ticker and its work is cut off by
\* the job timeout, and a supervisor restarts a process that died.  Nobody has
\* to queue or delete anything.
FairSpec == Spec /\ WF_vars(Tick) /\ \A w \in Workers : WF_vars(WorkerStep(w))

-----------------------------------------------------------------------------
(* Properties.                                                             *)

\* An episode never has two jobs that are queued or running, however
\* transcription requests, reclaims, crashes and failed store calls interleave
\* (the guard of EnqueueTranscriptionJob).
OneLiveJob ==
    \A j, k \in Jobs : Live(j) /\ Live(k) /\ jobEpisode[j] = jobEpisode[k] => j = k

\* The episode of a queued or running job shows it: no settlement, by whichever
\* attempt, leaves a job behind that will still run (JobQueue.EnqueueTranscription:
\* "nor a queued job whose episode status was left stale").
LiveJobIsShown ==
    \A j \in Jobs : Live(j) => epStatus[jobEpisode[j]] \in Busy \cup {"deleted"}

\* The stored transcript is the result of the very claim that completed its job:
\* a slow attempt whose job was reclaimed never gets its result in
\* (SettleEpisodeTranscriptAndCompleteJob).
TranscriptIsSettled ==
    \A e \in Episodes : transcript[e] # NoClaim =>
        LET j == transcript[e][1] IN
        /\ j \in Jobs /\ jobEpisode[j] = e
        /\ jobStatus[j] = "done"
        /\ attempts[j] = transcript[e][2]

\* An episode that says "done" has a transcript, and it answers the newest
\* request made for the episode.
DoneIsNewest ==
    \A e \in Episodes : epStatus[e] = "done" =>
        /\ transcript[e] # NoClaim
        /\ \A j \in Jobs : jobEpisode[j] = e => j <= transcript[e][1]

\* A job is handed to the transcriber at most MaxAttempts times, crashes, lost
\* claims and reclaims included (Dequeue: "a poison job that keeps crashing must
\* be dead-lettered").
RunsBounded == \A j \in Jobs : runs[j] <= MaxAttempts

\* The success metric counts a job at most once, and only a job that completed
\* (processOne: "counting this stale no-op would double-count").
SuccessCountedOnce ==
    \A j \in Jobs : successes[j] > 0 => successes[j] = 1 /\ jobStatus[j] = "done"

-----------------------------------------------------------------------------
(* The inductive invariant behind the properties above.                    *)

Engaged == Working \cup {"bury", "mark"}

\* A worker acts on a claim that was really issued.
ClaimsIssued ==
    \A w \in Workers : phase[w] \in Engaged =>
        /\ claim[w][1] \in Jobs
        /\ jobStatus[claim[w][1]] # "absent"
        /\ 1 <= claim[w][2] /\ claim[w][2] <= attempts[claim[w][1]]

\* Jobs are created in the order of their ids, each for an episode.
JobsInOrder ==
    \A j \in Jobs :
        /\ jobStatus[j] = "absent" =>
              jobEpisode[j] = NoEpisode /\ \A k \in Jobs : j < k => jobStatus[k] = "absent"
        /\ jobStatus[j] # "absent" => jobEpisode[j] \in Episodes

\* Only the newest job of an episode is queued or running.
LiveIsNewest ==
    \A j, k \in Jobs : Live(j) /\ jobEpisode[k] = jobEpisode[j] => k <= j

\* While a worker is about to mark an episode failed, nobody else can move it:
\* its job is dead, no other job of the episode is live, the episode is still
\* shown as busy (so none can be queued), and no other worker is to mark it.
SoleMarker(w) ==
    LET j == claim[w][1] IN
    /\ jobStatus[j] = "failed"
    /\ epStatus[jobEpisode[j]] \in Busy \cup {"deleted"}
    /\ \A k \in Jobs : jobEpisode[k] = jobEpisode[j] => ~Live(k)
    /\ \A v \in Workers :
          phase[v] = "mark" /\ jobEpisode[claim[v][1]] = jobEpisode[j] => v = w

MarkerAlone == \A w \in Workers : phase[w] = "mark" => SoleMarker(w)

\* Runs are claims, and a claim past the limit is no run.
RunsAreClaims == \A j \in Jobs : runs[j] <= attempts[j] /\ runs[j] <= MaxAttempts

\* The pipeline's inductive invariant: every safety property above follows from it.
PipelineInv ==
    /\ TypeOK
    /\ ClaimsIssued
    /\ JobsInOrder
    /\ LiveIsNewest
    /\ LiveJobIsShown
    /\ MarkerAlone
    /\ TranscriptIsSettled
    /\ DoneIsNewest
    /\ RunsAreClaims
    /\ SuccessCountedOnce

-----------------------------------------------------------------------------
\* Somebody will move the episode on: a job that will run, or a worker that is about
\* to mark it failed.
Attended(e) ==
    \/ \E j \in Jobs : Live(j) /\ jobEpisode[j] = e
    \/ \E w \in Workers : phase[w] = "mark" /\ jobEpisode[claim[w][1]] = e

\* A queued or running episode has a job that will run, or a worker that is
\* about to mark it failed (JobQueue.EnqueueTranscription: "there is never a
\* pending episode with no job to run it").
PendingHasJob == \A e \in Episodes : epStatus[e] \in Busy => Attended(e)

\* The same, as far as the code goes: with a store that does not fail, only a worker that
\* dies may leave an episode queued or running with nobody to move it (Worker.fail,
\* Worker.processOne).
PendingHasJobUntilCrash == Faults = {} /\ crashes = 0 => PendingHasJob

\* The worker gives up between failing a job and marking its episode: the reply to
\* FailJob or Nack is lost, the mark is refused by the store, or the worker dies.
GivesUp(w) ==
    \/ phase[w] \in {"bury", "nack"} /\ phase'[w] = "idle" /\ "unknown" \in Faults
    \/ phase[w] = "mark" /\ phase'[w] = "idle" /\ "error" \in Faults
    \/ phase[w] = "mark" /\ phase'[w] = "down"

\* Where exactly an episode is abandoned: it stays queued or running with nobody to move
\* it only if the worker with its last claim gives up between failing the job and marking the
\* episode.  No other crash, failed call, reclaim, stale settlement, acknowledgement or
\* deletion does that (Worker.processOne, Worker.fail, Queue.Dequeue).
AbandonedOnlyByGivingUp ==
    [][\A e \in Episodes :
          Attended(e) /\ epStatus'[e] \in Busy /\ ~Attended(e)' =>
              \E w \in Workers : GivesUp(w) /\ jobEpisode[claim[w][1]] = e]_vars

\* What a worker has made sure of before it acknowledges a job, and before it marks an
\* episode: that the episode is gone, and that the failed job is still its own claim.
HandOverInv ==
    \A w \in Workers :
        /\ phase[w] = "ack" => epStatus[jobEpisode[claim[w][1]]] = "deleted"
        /\ phase[w] = "mark" => HoldsFailedClaim(claim[w])

\* A finished job is never touched again: neither its status nor its claim count
\* changes (setJobStatus: "makes terminal states final").
TerminalJobsFinal ==
    [][\A j \in Jobs : jobStatus[j] \in {"done", "failed"} =>
          jobStatus'[j] = jobStatus[j] /\ attempts'[j] = attempts[j]]_vars

\* A finished transcription is not downgraded by a late worker: an episode leaves
\* "done" only by being deleted or by a new request, which queues a new job in
\* the same step.
DoneNotDowngraded ==
    [][\A e \in Episodes : epStatus[e] = "done" =>
          \/ epStatus'[e] \in {"done", "deleted"}
          \/ /\ epStatus'[e] = "pending"
             /\ \E j \in Jobs : /\ jobStatus[j] = "absent" /\ jobStatus'[j] = "pending"
                               /\ jobEpisode'[j] = e]_vars

\* The transcript of an episode is replaced only by the answer to a newer request, whichever
\* attempts of whichever jobs come in late; otherwise it goes with the episode
\* (SettleEpisodeTranscriptAndCompleteJob).
TranscriptsAdvance ==
    [][\A e \in Episodes : transcript'[e] # transcript[e] =>
          transcript[e][1] < transcript'[e][1] \/ epStatus'[e] = "deleted"]_vars

\* Every queued job is finished in the end, though workers crash, attempts fail
\* and leases expire under a live worker (up to MaxClaims times).
JobFinishes == \A j \in Jobs : Live(j) ~> ~Live(j)

\* Every queued episode reaches a terminal status again, as long as no worker
\* dies on the way.
EpisodeSettles ==
    [](crashes = 0) => \A e \in Episodes : epStatus[e] \in Busy ~> epStatus[e] \notin Busy

\* The pipeline implements the service: the requests for an episode are its
\* jobs, and the version shown is the job whose result is stored.
Service == INSTANCE TranscriptionService WITH
    RequestIds <- Jobs,
    status   <- epStatus,
    requests <- [e \in Episodes |-> {j \in Jobs : jobEpisode[j] = e}],
    version  <- [e \in Episodes |-> transcript[e][1]]

\* Whatever the workers, leases and failures do, the owner of an episode sees
\* requests opened one at a time, each answered at most once, and no answer to
\* an older request (the contract of JobQueue and of the store's settlements).
ImplementsService == Service!ServiceSpec
=============================================================================
