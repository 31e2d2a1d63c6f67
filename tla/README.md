# Castlet in TLA+

A verification project for Castlet, a self-hosted podcast server: TLA+ modules
translated from the Go source, TLC runs on small instances, and TLAPS proofs for
every instance. Paths are relative to `src/`.

## 1. The system

One process (or several, on one SQLite file) runs an HTTP server and a
transcription worker. They share the metadata store (`store/sqlite`), a blob
store (`blob/localfs` or `blob/s3`) and a context that a signal cancels; besides it
only the login limiter is shared memory. The store has a single
writer, so each store call is one atomic transaction, and everything between two
calls interleaves. The protocols modelled here live in those gaps.

| Component | State | Operations | Talks to | What is hard |
|---|---|---|---|---|
| Job store and queue (`store/sqlite/sqlite_jobs.go`, `queue/dbqueue`) | `jobs`: status, attempts, run_after | EnqueueTranscription, Dequeue (ClaimJob, FailJob), Ack, Nack | worker, admin handlers | leases expire under live workers; attempt limit; lost replies |
| Worker (`worker/worker.go`) | a claim in memory | load, mark, transcribe, settle, ack, fail | queue, store, blobs, transcriber | stale claims, crash between two writes, shutdown |
| Episodes and transcripts (`sqlite_crud.go`) | `episodes.transcript_status`, `transcripts` | settlements, DeleteEpisode | worker, handlers | status and job are separate rows |
| Media blobs (`server/handlers_admin.go`, `sqlite_crud.go`, `blob/*`) | blobs by content hash, `blob_reservations`, `blob_delete_leases` | upload, delete, orphan cleanup | store, blob store | two stores without a common transaction; deadlines against TTLs |
| Accounts (`handlers_auth.go`, `handlers_oidc.go`) | `users` | sign-up, login, callback, link, provision | store, identity provider | check and write in two calls |
| Sessions (`internal/session`, `middleware.go`) | signed cookie with an epoch; `users.session_epoch` | Issue, verify, log out everywhere | accounts | epoch read early, used late |
| Login limiter (`server/ratelimit.go`) | failure windows by client | blocked, fail, reset, sweep | login | check before, charge after; cap |
| Episode order and publication | `position`, `status` | move, publish, update | handlers | read, compute, write |
| Upload staging (`handlers_admin.go`) | a temporary file, a read deadline | read the parts of a body under caps | net/http, blobs | many ways out; a deadline that changes hands |
| Media endpoint (`handlers_media.go`) | a write deadline | serve a key, or a link to it | store, blobs | visibility changes while serving; stalled clients |
| Command transcriber (`transcribe/command`) | a process group, a pipe, a capped buffer | Transcribe | worker, os/exec | processes that fork, hang and escape; cancellation |
| Lifecycle (`server.go`, `app.go`) | goroutines, store handle | Run, Serve, shutdown | all | order of stopping |
| Channels, feeds, pages, CSRF, metrics, configuration | little or none | | | sequential or pure I/O |

What makes them correct: a transcription request is answered at most once and
never by an outdated attempt; a queued episode is settled in the end; no episode
loses its media; what is published is found and what is withdrawn gets out of
reach; neither a client nor a command can hold the server; a logout ends every session it covers; an account is reached
only by whoever proved to own it. `PROJECT.json` lists the hazards at their lines
and the properties that would catch each one.

## 2. Plan

Done, in this order: (1) the transcription pipeline, with its abstract service,
since it has the most actors; (2) the blob lifecycle; (3) accounts and sessions;
(4) the login limiter; (5) the episode catalog: metadata, publication and order;
(6) the application lifecycle; (7) `MediaStore`, the contract of the blob lifecycle,
with the refinement proved, and deletes that are applied late; (8) the path of
media built on that contract: upload staging, publication and the media endpoint;
(9) the command transcriber, inside the lifecycle; (10) `SessionService` and
`EpisodeShelf`, the contracts of accounts and catalog, with the refinements proved;
(11) the safety half of what must not be lost or stuck: where an episode is
abandoned, where a blob is forgotten, and why nothing keeps a stopping process.
Each component has its runs, its inductive invariant and its proofs.

Next, in this order:

1. The safety halves of `UploadEnds`, `WithdrawnInTheEnd` and `KeyUnblocked`, in the
   manner of `NobodyStuck` and `NoSetback`: a rank that no step raises.
2. Composition of the pipeline with the media path (a worker that opens a blob
   while its last episode is deleted) and with `AppLifecycle` (leases across a restart,
   and what the exit status tells).
3. S3 connections: the idle timeout that spans both directions of a transfer, and
   the temporary files of Put and Get.

## 3. Modules

| Module | Models |
|---|---|
| `TranscriptionPipeline` | jobs, episodes, transcripts, dbqueue and worker |
| `TranscriptionService` | the promise to an episode's owner: no jobs, leases or workers |
| `TranscriptionPipeline_proofs` | the invariant, the theorems on it and the refinement |
| `BlobLifecycle`, `BlobLifecycle_proofs` | uploads, deletions, reservations, delete leases, clocks |
| `MediaStore` | the promise of the blob lifecycle to the rest of the system |
| `ContentTypes` | media keys, and the content types media is stored and served as |
| `UploadStaging` | how the body of an upload is read |
| `MediaEndpoint` | how media is served |
| `MediaPath`, `MediaPath_proofs` | the two composed over `MediaStore`, with publication, deletion and crashes |
| `CommandTranscriber` | one run of the external command |
| `Accounts`, `Accounts_proofs` | users, links, sessions, OIDC callbacks |
| `SessionService` | the promise of accounts and sessions to a user: no rows, epochs or requests |
| `LoginLimiter`, `LoginLimiter_proofs` | the limiter's map and the logins that use it |
| `EpisodeCatalog`, `EpisodeCatalog_proofs` | episode rows and the handlers that edit, publish and move them |
| `EpisodeShelf` | the promise of the catalog to the owner: no positions, copies or requests |
| `AppLifecycle`, `AppLifecycle_proofs` | goroutines, connections, the store and the command from start to exit |
| `MC...` | the symmetry sets of the runs, and the constants a cfg cannot write |

### TranscriptionPipeline

State: `epStatus`, `transcript`, `jobEpisode`, `jobStatus`, `attempts` and `due` are
columns; `phase`, `claim` and `result` are what a worker's goroutine holds between
calls; `runs`, `successes` and `crashes` are counters for the properties. A
transcript is represented by the claim (job, attempt) that produced it, which is
all the properties tell apart. `due` is `run_after - now`, so time is the action
`Tick` and needs no clock. A lease may be a tick longer than asked for, because
run_after is rounded up to a second.

Each worker action is one store call with all that follows from its result:
`ClaimJob` and `DeadLetter` are the two halves of Dequeue; `LoadEpisode`,
`MarkProcessing`, `Transcribe` are `transcribe`; `SettleAndComplete`, `Ack`, `Nack` and
`MarkFailed` are the settlements with their fences. `Faults` says how a store call
may fail: "error" wrote nothing, "unknown" committed and lost the reply.
`Crash` stops a worker anywhere; `Run` starts it again. A job with a payload that
cannot be parsed or of another kind is never queued and is left out.

### BlobLifecycle

State: `blobs` is the blob store; `episodeKey`, `reservationKey`, `leaseKey` with
their ages are the tables; the rest is what a handler holds. Ages replace
timestamps: a row is active while its age is below its TTL, as in `created_at >
now - TTL`. A handler's `age` is the time since its current deadline started.
`ReserveBlob`'s guard is the deadline of `protectCtx`, because the database call
takes that context; `PutBlob` has no such guard because `localfs.Put` does not look
at it. A lease's created_at is read before the transaction waits for the
database, so it may start old: `DbWait` bounds that wait and must fit, together
with `BlobDeleteTimeout`, into `BlobDeleteLeaseTTL`; the code leaves 4.5 minutes.
`LateDeletes` says how a delete may take effect after its deadline: "hangs" is an
`os.Remove` that does not return (the local store does not look at its context),
"abandoned" is a DELETE that the S3 client gave up on and the service still has
(`unanswered`, applied by `ServiceDelete` at any time). `late` is history: the keys of
such deletes. A PUT may be with the service in the same way, when its sender gave
up or died (`unstored`, stored by `ServicePut` at any time); one that comes late adds
an object nobody asks for, and takes none away. The time between the lease's commit
and the start of the delete's own timeout is part of `DbWait`. Ids of rows that are
gone are reused only when no handler holds them, which stands for AUTOINCREMENT.

`MediaStore` has the same blobs, late keys and rows and nothing else: a row is
created only over bytes that are there, bytes go only while no row has them, and
a late key is exempt. `BlobLifecycle` implements it with the identity as refinement
mapping; reservations, leases, handlers and clocks are gone.

### UploadStaging, MediaEndpoint, MediaPath

An upload is a record: where its handler is, the read deadline in force with the
seconds since it was set, what has been read of body, parts and text, the key and
the type. The actions are the turns of `stageMultipartUpload`'s loop, with media
copied byte by byte; `BeginUpload` is everything before the long deadline, `Abort`
and `Leave` are the two ways out with their deferred removals, before and after the
last part. `LastPart` is NextPart's io.EOF: the parts are all read, and the body may go
on after the final boundary (`whole`). What the handler leaves unread net/http drains
(`Drained`, external) under the deadline in force. The contents of fields do not
matter, only their sizes.

A request for media is a record too: the key, the type found, the writes left, the
seconds left of the write deadline or the link, and two histories (`steady`,
`allowed`) about the rows while it was served. `LookUp` is the one look at the store;
`Redirect` and `Open` are the two ways to answer, chosen once at start (`direct`). The
bytes of a stream are `Writes` writes, each of which waits for the client and is taken
whole: progress is a write that ends, as it is for the code's deadline, and a client
slower than one write in a window is cut.

`MediaPath` adds the rest of the upload's handler, the owner (`SetPublished`,
`DeleteEpisode`), the actions of `MediaStore`, a crash that ends every request, and
time. A crash leaves its temporary files on disk, under names no later request
uses, so `temp` forgets them.

### Accounts

An account is its canonical mailbox, one row each by the unique index. `cookies`
holds every cookie ever issued, since a copy can be presented at any time;
clearing or expiry only takes away from it. `by` is the proof a cookie was issued
for and exists for the property only, as does `revoked`. `Vouches` is what providers
ever vouch for; any other claim comes unverified. The allowlist is a variable, the
mailboxes in the allowed domains and {} for no list, as in the code: `Restart` ends
every request and may bring another list in, under the accounts and links that the
old one admitted. Store calls
are steps; `Finish` alternatives are refusals and failed calls, also failures
after the commit. Wrong passwords, refused callbacks and stale logouts change
nothing and are not steps. `castlet user-create` is `Signup` without a session.

`SessionService` has users with proofs, and sessions that are issued, live and told
to have ended. Under the refinement mapping a user's proofs are the password and
the link of the row, the live sessions are the cookies whose epoch is the row's,
and the ones told are `revoked`. Requests, epochs and callbacks are gone: a logout
ends all sessions of its user at once and nobody else's; a session that was
overtaken by a logout is handed out but is not live, and never will be.

### LoginLimiter

The mutex makes `blocked`, `fail` and `reset` atomic: `Check`, `Fail` and `Right` are one
action each, with the sweep inside `Fail`. The password is hashed in between, and
the time each call works with was read before the mutex was taken; `age` is how
long ago, up to `Lag`. Times are relative to now: `left` is `resetAt - now`, `sinceSweep`
is `now - lastSweep`, so nothing grows. A login that fails for lack of an account is
charged as a wrong password is.

### EpisodeCatalog

One channel of one owner. `row` holds the columns; `loaded` and `order` are what a
request has read and still means to use. `Load` is `ownedEpisode`, the other
actions are the store call that ends a handler; `ListEpisodes` returns any order that
its ORDER BY allows. Timestamps are seconds, so ties happen. `CreateEpisode`,
`DeleteEpisode` and `SetTranscriptStatus` are the writes of the upload, the delete and
the pipeline, here as one step each: their own protocols are the modules above.
A move uses nothing of the row it loads but its id. `manual` is history.

`EpisodeShelf` has the episodes of the channel, those at the front, the order as a
relation, and the published ones. Under the refinement mapping an episode is
before another if its position is smaller, and at the front at position 0. So an
upload goes in front of all that have a place and moves nobody, a deletion leaves
the order of the others alone, an accepted move is some total order of all
episodes there are, and an edit, a publication or the worker is no step of the
order at all.

### AppLifecycle

`main`, `server`, `accept` and `worker` are the program counters of four goroutines;
`conn` is the state of a connection, where "orphan" is a handler whose connection
was closed under it. While the worker is "working" it runs `CommandTranscriber`:
`run` is where Transcribe is; `proc` the processes, "member" of the command's group or
"escaped"; `holders` those that have the output pipe open; `watch` the goroutine of
os/exec that waits for the context; `written`, `taken` and `stdout` the bytes on their
way to the buffer. `Cancel` is setProcessGroup's; `Reap`, `CopyOutput` and the processes
themselves are external. The job's timeout passes at any time. The parts of net/http are modelled from how `Server.Run` uses
them: Shutdown waits for active connections, Close does not. A job is what the
queue says of it; leases and attempts are the pipeline's. `Worker.Run` returns no
error, so the branch of `App.Serve` for one is left out.

## 4. Runs

Every cfg has CHECK_DEADLOCK FALSE: a server with no requests, and a model whose
bounds are used up, really stops.

| Run | Bounds | States | Shows |
|---|---|---|---|
| `pipeline_race` | 1 episode, 2 workers, 2 jobs, 2 attempts, 4 claims a job, 1 crash, both faults | 319 851 | `PipelineInv`, `OneLiveJob`, `RunsBounded`; `AbandonedOnlyByGivingUp`, `TerminalJobsFinal`, `TranscriptsAdvance`; `ImplementsService` |
| `pipeline_liveness` | 1 episode, 2 workers, 2 jobs, 2 crashes, no store fault, fair | 120 141 | `PendingHasJobUntilCrash`, `EpisodeSettles`, `JobFinishes` |
| `pipeline_lost_mark` | 1 of each, 1 crash | | `PendingHasJob` is violated (finding) |
| `blob_race` | 1 key, 2 episodes, 2 handlers, all faults, late PUTs and both kinds of late deletes, fair | 473 898 | `BlobInv`; `ForgottenOnlyAtTheEnd`, `KeyUnblocked`, `ImplementsMediaStore` |
| `blob_late_delete` | 1 key, 2 handlers, abandoned deletes, no other fault | | `MediaPresent` is violated (finding) |
| `blob_forgotten` | 1 key, 2 handlers, no fault | | `BlobsAccounted` is violated (finding) |
| `media_path` | 1 upload at a time, 1 listener, 1 key, 2 episodes, bodies of 3 bytes, all deadlines 1 or 2, fair | 275 880 | `MediaPathInv`, `HalfReadNotDrainedLong`, `SteadyUploadNotCut`, `PublicIsFound`, `ServedWasPublic`, `ProgressNotCut`; `WithdrawnInTheEnd`, `UploadEnds` |
| `upload_drain` | the same, safety only | | `NoDrainUnderLongDeadline` is violated (finding) |
| `accounts` | 2 mailboxes, 2 identities, 2 requests, no allowlist or one with one mailbox, 2 bumps of one epoch | 1 387 125 | `AccountsInv`, `LogoutIsFinal`, `LinkIsVouched`; `AllowlistEnforced`, `ImplementsSessions` |
| `limiter_race` | 3 clients, 3 requests, limit 2, window 2, cap 2, lag 1 | 69 995 | `LimiterInv`; `ThrottleHolds` |
| `catalog` | 2 episodes, 2 requests of any kind, 2 transcript statuses, 2 seconds | 878 597 | `CatalogInv`; `ColumnsKept`, `PublishTimeKept`, `ImplementsShelf` |
| `lifecycle_stop` | 1 connection, 1 job, 2 processes, buffer of 2 bytes, 3 bytes of output, fair | 174 770 | `LifecycleInv`, `NoClaimLeft`, `TranscriptIsWhole`, `NobodyStuck`; `NoSetback`, `StopsInTheEnd` |

Why the bounds are enough: two workers and two jobs of one episode give a stale
attempt, its reclaim and a newer request at once; two attempts give a retry, an
exhausted Nack and a dead letter, and MaxClaims above MaxAttempts lets lost
claims happen too; a crash allows one claim more, so that the bound never stops a
job whose last claim died with its worker. Keys do not interact, so one is enough;
two handlers are an upload against a delete, or two of a kind, and a handler that
is done serves the next request. TTLs are the smallest numbers that keep
the order of the code's constants with an age to spare on each side. `Horizon`
bounds only how far a runnable job is overdue, which nothing but the order of
claims depends on. Two episodes share the one key of the media path, so that one
can be withdrawn or deleted while the other makes the bytes public; a cap of three
bytes at two a second does not divide evenly; two parts are a file and a field or
two fields, one of which overruns the text cap of one byte; a playable type and
another tell the row that is served. Two requests suffice for check-then-write
races, and for two logouts with a login between them, since a request that is
answered makes room for another; epochs of different accounts do not interact, so
one of them is bumped. One identity is vouched for under both addresses and the
other under one, which gives two callbacks for one account, one identity for two,
and a claim that is never verified; a list that admits one mailbox, and none, turn
about by restarts, give a link made before the list that excludes it. Three clients
overfill a map of two, and a window of two with a lag of one lets a call be late
within a window and across its end. Two episodes can tie and be swapped; larger
channels are left to the theorems. One job is handled, cancelled, put back and
handled again; two processes are a command and a child that stays, escapes or
outlives it; three bytes overflow a buffer of two in one write, in two and after it
is full. The safety properties do not rest on the bounds: they are proved.

Each property has a mutant: a definition with a guard dropped, a fence weakened or
a bound off by one, under which TLC finds it violated.

### Fairness

`FairSpec` of the pipeline: time passes (WF on Tick); a worker takes its next step
(WF on WorkerStep), because the loop polls on a ticker, a transcription is cut off
by the job timeout, store calls have deadlines, and a supervisor restarts a dead
process. Nobody is obliged to queue or delete anything, and no outcome is assumed
fair: a transcription may fail every time. `MaxClaims` is part of what `JobFinishes`
rests on: a job is claimed that often, and once more for every crash, so a live
holder is outrun by its lease only finitely often. A worker that outlived every lease
of a job for ever would have each of its settlements refused as stale; the code
counts on the lease (`config.JobLease`) being long against the one store call of a
dead letter. `FairSpec` of blobs: time passes, and a
handler that is alive runs on; the S3 service need not apply what it has.
`FairSpec` of the media path: time passes, a handler takes its next step, and a read
or write whose deadline has passed returns; clients may stop sending or reading
at any time, and need never follow a link. `FairSpec` of the lifecycle: main, the
server's goroutine and the worker run on, as every wait of theirs ends at a
deadline (`shutdownTimeout`, `shutdownDrainGrace`, the job timeout, `WaitDelay`,
`settleTimeout`); handlers, clients, net/http and the command owe nothing.

### Findings

1. `pipeline_lost_mark`: after a crash (or a failed write) between FailJob and the
   episode's failed mark, the episode stays busy for ever and refuses new
   requests. The queue's contract and the worker's comments say otherwise.
   `AbandonedOnlyByGivingUp`, proved, says that this gap is the only one: a worker
   that dies in it, whose mark the store refuses, or that does not hear that the
   job was failed. Every other crash, failure, reclaim or deletion leaves somebody.
2. `blob_late_delete`: the lease of a delete is released when its client gives up,
   not when the delete can no longer happen. A DELETE that the service applies
   late, or a local remove that hangs past the lease, takes the media of an episode
   uploaded meanwhile; the comments call this impossible.
3. `blob_forgotten`: an episode that is deleted before the upload that created it
   has released its reservation leaves its blob behind for good: the deletion
   counts on the reservation's owner, and the release does not look. The same end
   is reached through a failed Put after a deletion, through a crash after which the
   reservation or the lease expires, and through a PUT that the service applies when
   its sender has gone. A row counts only while it is in force, as in the code's own
   checks. `ForgottenOnlyAtTheEnd`, proved, says where to repair it: a blob is lost only
   by the last step of the handler that works on the key (the release of a reservation
   or a lease, an orphan check that fails, a crash), when a row expires that no handler
   owns any more, and by a late PUT; never by the deletion of an episode, by the failure
   of an upload, or by the age of a row whose handler is still at work.
4. `upload_drain`: the parts of an upload end at the final boundary, its body need not.
   A refusal after the last part (400, 503 or 500) returns without `abortUpload`, so what
   follows the boundary is drained under the long deadline, which the comment on
   `handleEpisodeCreate` rules out. It is bounded by the cap on the body and by that
   deadline. `HalfReadNotDrainedLong`, proved, is what the code ensures: on every way
   out before the last part the long deadline is gone when net/http drains.

Seen on the way, and kept as hazards or notes rather than as runs, because no
property of section 4 is at stake: of two overlapping moves the second undoes the
first; an unpublish that loaded its episode before it was published writes NULL
over the publication time (`handlers_admin.go:724` says it leaves it intact;
`PublishTimeKept` says when it does); handlers may outlive `Serve` after a shutdown that
ran out of time or a listener that failed (`app.go:199` says nothing does), and one
whose process ends leaves its temporary file, which `stagingDir` never sweeps; a
client that breaks off in the media part is answered with a 500, though
`handlers_admin.go:100` says that client problems map to a 4xx (`io.Copy` does not
tell who failed); a listener error is dropped when a signal comes first; a command
that ends by itself while a process of its group holds the pipe fails with
ErrWaitDelay and the process runs on beside the retry; a process that left the
group (setsid, a container) is out of reach; the allowlist is checked on the address
the provider reports and not on the account's own, so an account of a domain that
was removed from it is still reached by its identity once the provider reports that
one under an address of a permitted domain (`handlers_oidc.go:114` says that removing a
domain blocks its previously linked users; `AllowlistEnforced` says what is checked).

## 5. Proofs

The safety properties of all components are theorems, for any finite or
infinite sets of episodes, workers, handlers, mailboxes, requests, uploads,
listeners and processes, any number of jobs, claims and crashes, any caps and
timeouts, and all faults. Assumptions are the named ASSUMEs of
the modules: positive parameters, distinct null values, the order of the blob
timing constants, and a read deadline no longer than the floor of the upload
window (30 seconds and 5 minutes in the code).

- **Pipeline.** `OneLiveJob` and `TranscriptIsSettled` are not inductive. `PipelineInv`
  adds that a worker acts on a claim really issued (`ClaimsIssued`), that ids are
  issued in order (`JobsInOrder`), that only the newest job of an episode is live
  (`LiveIsNewest`) and, for the one write whose fence also accepts a failed job,
  that nobody else can move the episode while its failed mark is pending
  (`MarkerAlone`): its job is dead and it still looks busy, so no request is
  accepted. From there: the other safety theorems, and `PipelineImplementsService`:
  every step maps to a step of the service or a stutter. `AbandonedOnlyByGivingUp`
  needs two facts more (`HandOverInv`): a worker acknowledges a job without settling
  it only when the episode is gone, and the job of a pending mark is still failed
  under the worker's own claim, so that the mark is taken. Then every action that
  ends a job either settles its episode or leaves a worker about to mark it, and the
  exceptions are `GivesUp`. `PendingHasJobUntilCrash` follows: without faults and
  crashes there is no exception. `TranscriptsAdvance` is where `JobsInOrder` and
  `LiveIsNewest` pay off: a settlement is of the newest job, and the transcript in
  place is of an older one.
- **Blobs.** `BlobInv` couples an upload to its reservation and a delete to its lease
  by age (`AgesBounded`): a reservation is no older than the upload's deadline, a
  lease no older than its delete plus `DbWait`; with the assumed inequalities both
  are unexpired while their owner can act, hence a delete that can take effect and
  an upload that can commit exclude each other. Deletes past their deadline are
  in the model, and the invariant exempts their keys and no others;
  `blob_late_delete` shows that it must. `MediaStoreImplemented` follows: a row is
  created over bytes because its upload is alive, and an erase in time finds no
  row because of `EraseIsUnwanted`. `ForgottenOnlyAtTheEnd` is a second, separate
  argument, about all handlers and not only the live ones: a handler that drops a row
  drops one of its own key (`TokensNameKeys`), a lease that is taken over is replaced
  by one of the same key, and whoever skips a blob saw a row that names it and is in
  force. With time only rows without an owner matter: while a handler that is past its
  reservation is at work it accounts for its key itself.
- **Media path.** `MediaPathInv` has a part for each component. `RequestOK`: which of its
  states a request has a temporary file in, and that the long window goes with
  reading and the short one with draining, unless the parts have all been read; so no
  path leaves a file behind and no part is drained under the long window, and
  `SteadyUploadNotCut` is arithmetic on the rounding. `ViewOK`: the histories agree with the rows as they are now, so a look
  that finds nothing shows that the key was withdrawn, and the time a write has
  waited and what is left of its deadline add up. `RowsInv`: rows over bytes, from
  `MediaStore`, so a look that finds a row and an open that finds no object show a
  change in between, or a late delete.
- **Accounts.** `AccountsInv` says that what cookies and requests know of an epoch is
  never ahead of the row and that revoked sessions are behind it, that a request
  about to sign in has its proof, and that a callback that is to find, link or
  provision its account was vouched for and admitted by the list in force, which a
  restart replaces only together with every request. The rest is the conditional
  update and the unique index. `AllowlistEnforced` is an action property on top.
  `AccountsImplementSessions` rests on the same facts: no cookie is ahead of its row,
  so a bump ends every session of its user, and a request with a stale epoch hands
  out a session that is dead from the start; linking is a `Join` because the update
  requires an account without a link and the index an identity without an account.
- **Limiter.** `FailuresBounded` is not inductive: it needs `OvershootInv`, which counts
  the failures of a window together with the logins that may still be charged to
  it. A login joins them only below the limit, and a failure leaves them as the
  count grows. `ThrottleHolds` is an action property on top.
- **Catalog.** `CatalogInv` adds to the three properties that ids are not given out
  again, so that the last manual order speaks of the same episodes. A list that
  `ReorderEpisodes` accepts is shown to be onto (`OrderIsOnto`, by counting), hence
  renumbering leaves no tie; every other write keeps the position of its row.
  `CatalogImplementsShelf` uses both: the order after an accepted move is total
  because the list is onto and has no repetition, and the front is its first episode.
- **Lifecycle.** `LifecycleInv` ties where main is to what the worker may be doing, and
  the worker's place to the claims in the queue. Its part `CommandInv` relates the
  buffer to what was read and written, the pipe to the living, and the end of the
  wait to the end of the child; a transcript is then whole because it is returned
  only at the end of the pipe without an overflow. `NobodyStuck` and `NoSetback` are
  the safety half of `StopsInTheEnd`: while the process is to stop one of main, the
  server and the worker can go on without help from outside, and each of their steps
  lowers `StepsLeft`, which is 17 at most and which nothing else raises. What
  fairness adds is only that whoever can go on does. `StoppingInv` excludes the ways to
  wait for ever: Serve waits for the worker only once the context is cancelled, and a
  child that has not ended is watched, so that its group is killed and `WaitDelay` ends
  the wait for the pipe.

Only model-checked: liveness (`EpisodeSettles`, `JobFinishes`, `KeyUnblocked`,
`WithdrawnInTheEnd`, `UploadEnds`, `StopsInTheEnd`), which needs fairness. Every other
property of a passing run is a theorem. Conjuncts of the
invariants that have a theorem of their own but no line in a cfg (`DoneIsNewest`,
`MediaPresentUnlessLate`, `SessionIsOwners`, `FailuresBounded`, `ManualOrderKept`,
`NoStrayProcess`, `TranscriptIsSettled`...) are checked with them; `DoneNotDowngraded`
and `LinkIsFinal` are proved only, as the refinements say as much of the same steps.

## 6. Not modelled

Listed in `PROJECT.json` with reasons. Besides the planned parts of section 2:
HTML, feeds, metrics text, configuration, CSRF and headers have no shared state;
password hashing, cookie signatures and OIDC token verification are taken as
correct; the contents of media and transcripts are abstracted to who produced
them; the cover-art column counted by the orphan check and looked up by the media
endpoint is never written by the program, so no cover art and no sniffed type
occurs; S3 signing and encoding are functions of one request; metrics are
counters that nothing reads back. How long the job timeout is, and what the
fallbacks of the configuration are, no property here tells apart.
