----------------------------- MODULE AppLifecycle -----------------------------
(***************************************************************************)
(* How castlet serve starts and stops: the main goroutine, the goroutine   *)
(* of the HTTP server with net/http's accept loop and its connections, and *)
(* the transcription worker with the job it runs and the command that      *)
(* transcribes it (CommandTranscriber).                                    *)
(*                                                                         *)
(* They share a context, which a signal cancels, and the store, which main *)
(* closes once Serve has returned.                                         *)
(***************************************************************************)
EXTENDS FiniteSets, CommandTranscriber

CONSTANTS
    Conns,         \* bound: client connections open at once
    Jobs           \* bound: jobs that are queued

VARIABLES
    main,          \* where the main goroutine is
    store,         \* the metadata store
    cancelled,     \* the context of Serve is cancelled
    server,        \* where the goroutine of server.Run is
    accept,        \* the accept loop of net/http
    conn,          \* the connections; the handler of an "active" or "orphan" one runs
    worker,        \* where the worker's loop is
    job,           \* what the queue says of each job
    timedOut,      \* the job's own timeout has passed
    failed         \* history: the jobs whose outcome the store could not take

vars == <<main, store, cancelled, server, accept, conn, worker, job, timedOut, failed, command>>

ConnStates == {"free", "idle", "active", "orphan"}

TypeOK ==
    /\ main \in {"opened", "migrated", "bound", "serving", "joining", "returned", "closed"}
    /\ store \in {"open", "closed"}
    /\ cancelled \in BOOLEAN
    /\ server \in {"off", "serving", "draining", "unwinding", "done"}
    /\ accept \in {"off", "running", "returned"}
    /\ conn \in [Conns -> ConnStates]
    /\ worker \in {"off", "idle", "working", "settling", "nacking", "done"}
    /\ job \in [Jobs -> {"queued", "claimed", "done"}]
    /\ timedOut \in BOOLEAN
    /\ failed \subseteq Jobs

-----------------------------------------------------------------------------
(* The main goroutine: cmdServe, and App.Serve which it calls.             *)

\* Migrate, after which signals are caught.  An error ends cmdServe.
Migrate ==
    /\ main = "opened"
    /\ main' \in {"migrated", "returned"}
    /\ UNCHANGED <<store, cancelled, server, accept, conn, worker, job, failed>>

\* Server.Run binds the listener and starts its two goroutines.  If the address is
\* taken Serve returns.
Bind ==
    /\ main = "migrated"
    /\ \/ main' = "bound" /\ server' = "serving" /\ accept' = "running"
       \/ main' = "returned" /\ UNCHANGED <<server, accept>>
    /\ UNCHANGED <<store, cancelled, conn, worker, job, failed>>

\* Worker.Run, which cannot fail.
StartWorker ==
    /\ main = "bound"
    /\ main' = "serving"
    /\ worker' = "idle"
    /\ UNCHANGED <<store, cancelled, server, accept, conn, job, failed>>

\* <-srvCtrl.Done(), then cancel().
JoinServer ==
    /\ main = "serving" /\ server = "done"
    /\ main' = "joining"
    /\ cancelled' = TRUE
    /\ UNCHANGED <<store, server, accept, conn, worker, job, failed>>

\* Mutant: nobody waits for the worker.
WorkerGoneAtOnce == TRUE

\* What Serve waits for last: <-wkCtrl.Done().
WorkerGone == worker = "done"

JoinWorker ==
    /\ main = "joining" /\ WorkerGone
    /\ main' = "returned"
    /\ UNCHANGED <<store, cancelled, server, accept, conn, worker, job, failed>>

\* The deferred application.Close().
CloseStore ==
    /\ main = "returned"
    /\ main' = "closed"
    /\ store' = "closed"
    /\ UNCHANGED <<cancelled, server, accept, conn, worker, job, failed>>

\* SIGTERM or Ctrl-C.
Signal ==
    /\ main \notin {"opened", "closed"}
    /\ ~cancelled
    /\ cancelled' = TRUE
    /\ UNCHANGED <<main, store, server, accept, conn, worker, job, failed>>

-----------------------------------------------------------------------------
(* The goroutine of Server.Run.                                            *)

\* ctx.Done(): Shutdown closes the listener.
Shutdown ==
    /\ server = "serving" /\ cancelled
    /\ server' = "draining"
    /\ UNCHANGED <<main, store, cancelled, accept, conn, worker, job, failed>>

\* Shutdown returns nil: nobody connects any more and no handler runs.
Drained ==
    /\ server = "draining" /\ accept = "returned"
    /\ \A c \in Conns : conn[c] # "active"
    /\ server' = "unwinding"
    /\ conn' = [c \in Conns |-> "free"]
    /\ UNCHANGED <<main, store, cancelled, accept, worker, job, failed>>

\* shutdownTimeout has passed: Close drops every connection, and the handlers that are
\* still running are not waited for.
DrainTimesOut ==
    /\ server = "draining"
    /\ server' = "unwinding"
    /\ conn' = [c \in Conns |-> IF conn[c] = "active" THEN "orphan" ELSE "free"]
    /\ UNCHANGED <<main, store, cancelled, accept, worker, job, failed>>

\* <-serveErr, or shutdownDrainGrace has passed.
Unwound ==
    /\ server = "unwinding"
    /\ server' = "done"
    /\ UNCHANGED <<main, store, cancelled, accept, conn, worker, job, failed>>

\* <-serveErr without a shutdown: the listener failed.  No connection is closed.
ServeFailed ==
    /\ server = "serving" /\ accept = "returned"
    /\ server' = "done"
    /\ UNCHANGED <<main, store, cancelled, accept, conn, worker, job, failed>>

-----------------------------------------------------------------------------
(* net/http.                                                               *)

\* Serve returns: its listener is closed, or Accept has failed for good.
AcceptReturns ==
    /\ accept = "running"
    /\ accept' = "returned"
    /\ UNCHANGED <<main, store, cancelled, server, conn, worker, job, failed>>

\* A client connects.
Connect(c) ==
    /\ accept = "running" /\ conn[c] = "free"
    /\ conn' = [conn EXCEPT ![c] = "idle"]
    /\ UNCHANGED <<main, store, cancelled, server, accept, worker, job, failed>>

\* A request is read and its handler started.
Request(c) ==
    /\ conn[c] = "idle"
    /\ conn' = [conn EXCEPT ![c] = "active"]
    /\ UNCHANGED <<main, store, cancelled, server, accept, worker, job, failed>>

\* The handler returns; its connection is kept alive or closed.
Respond(c) ==
    /\ conn[c] \in {"active", "orphan"}
    /\ \E s \in {"idle", "free"} :
           /\ s = "idle" => conn[c] = "active" /\ server # "draining"
           /\ conn' = [conn EXCEPT ![c] = s]
    /\ UNCHANGED <<main, store, cancelled, server, accept, worker, job, failed>>

\* The client, the idle timeout, or Shutdown closes an idle connection.
CloseIdle(c) ==
    /\ conn[c] = "idle"
    /\ conn' = [conn EXCEPT ![c] = "free"]
    /\ UNCHANGED <<main, store, cancelled, server, accept, worker, job, failed>>

-----------------------------------------------------------------------------
(* The worker.                                                             *)

Claimed == {j \in Jobs : job[j] = "claimed"}

\* loop: a cancelled context ends the worker between two jobs.
StopWorker ==
    /\ worker = "idle" /\ cancelled
    /\ worker' = "done"
    /\ UNCHANGED <<main, store, cancelled, server, accept, conn, job, failed>>

\* Mutant: the loop goes on with the next job.
DequeueUncancelled(j) ==
    /\ worker = "idle"
    /\ store = "open" /\ job[j] = "queued"
    /\ worker' = "working"
    /\ job' = [job EXCEPT ![j] = "claimed"]
    /\ UNCHANGED <<main, store, cancelled, server, accept, conn, failed>>

\* Dequeue, under the context of Serve.  (The claim itself, its lease and the jobs that it
\* buries: TranscriptionPipeline.)
Dequeue(j) ==
    /\ worker = "idle" /\ ~cancelled
    /\ store = "open" /\ job[j] = "queued"
    /\ worker' = "working"
    /\ job' = [job EXCEPT ![j] = "claimed"]
    /\ UNCHANGED <<main, store, cancelled, server, accept, conn, failed>>

\* handle returns without having transcribed: the episode is gone or no transcriber is
\* configured, or something failed.
HandleWithout ==
    /\ worker = "working" /\ run = "off"
    /\ worker' \in {"settling", "nacking"}
    /\ UNCHANGED <<main, store, cancelled, server, accept, conn, job, failed>>

\* The context of the job is over: the process is told to stop, or its timeout has passed.
JobOver == cancelled \/ timedOut

JobTimesOut ==
    /\ worker = "working" /\ run \in {"staging"} \cup InRun /\ ~timedOut
    /\ timedOut' = TRUE
    /\ UNCHANGED <<main, store, cancelled, server, accept, conn, worker, job, failed, command>>

\* A step of Transcribe, which handle waits for.
Transcribe ==
    /\ worker = "working"
    /\ \/ StageAudio
       \/ StartCommand(JobOver)
       \/ Cancel(JobOver)
       \/ Reap
       \/ \E n \in 1..MaxOutput : CopyOutput(n)
       \/ FinishCommand
       \/ GiveUpOutput
    /\ UNCHANGED <<main, store, cancelled, server, accept, conn, worker, job, timedOut, failed>>

\* handle returns what Transcribe has: a transcript to settle, or an error.
Handled ==
    /\ worker = "working" /\ run \in Results
    /\ worker' = IF run = "transcript" THEN "settling" ELSE "nacking"
    /\ run' = "off"
    /\ timedOut' = FALSE
    /\ UNCHANGED <<main, store, cancelled, server, accept, conn, job, failed, audio, proc, holders, exit,
                   watch, written, taken, stdout>>

\* Mutant: outcomes are recorded under the context of Serve.
CanRecordUntilCancelled == store = "open" /\ ~cancelled

\* Outcomes are recorded under a context of their own.
CanRecord == store = "open"

\* settleAndComplete, or the Ack of a job with nothing to settle.  An error falls back to
\* Nack.
Settle ==
    /\ worker = "settling"
    /\ \/ /\ CanRecord
          /\ worker' = "idle"
          /\ job' = [j \in Jobs |-> IF j \in Claimed \ failed THEN "done" ELSE job[j]]
       \/ worker' = "nacking" /\ UNCHANGED job
    /\ UNCHANGED <<main, store, cancelled, server, accept, conn, failed>>

\* fail: Nack queues the job again, or buries it.
Nack ==
    /\ worker = "nacking"
    /\ worker' = "idle"
    /\ IF CanRecord
       THEN \E s \in {"queued", "done"} :
                job' = [j \in Jobs |-> IF j \in Claimed \ failed THEN s ELSE job[j]]
       ELSE UNCHANGED job
    /\ UNCHANGED <<main, store, cancelled, server, accept, conn, failed>>

\* The store fails, or exceeds settleTimeout: the claim is left to its lease.
NackFails ==
    /\ worker = "nacking"
    /\ worker' = "idle"
    /\ failed' = failed \cup Claimed
    /\ UNCHANGED <<main, store, cancelled, server, accept, conn, job>>

Init ==
    /\ main = "opened"
    /\ store = "open"
    /\ cancelled = FALSE
    /\ server = "off"
    /\ accept = "off"
    /\ conn = [c \in Conns |-> "free"]
    /\ worker = "off"
    /\ job = [j \in Jobs |-> "queued"]
    /\ timedOut = FALSE
    /\ failed = {}
    /\ CommandInit

MainNext   == Migrate \/ Bind \/ StartWorker \/ JoinServer \/ JoinWorker \/ CloseStore
ServerNext == Shutdown \/ Drained \/ DrainTimesOut \/ Unwound \/ ServeFailed
ConnNext   == \E c \in Conns : Connect(c) \/ Request(c) \/ Respond(c) \/ CloseIdle(c)
LoopNext   == StopWorker \/ (\E j \in Jobs : Dequeue(j)) \/ HandleWithout \/ Settle \/ Nack \/ NackFails

\* Steps that leave the command alone, and the command's own.
NoTranscribe(A) == A /\ UNCHANGED <<timedOut, command>>
CommandRuns     == ProcNext /\ UNCHANGED <<main, store, cancelled, server, accept, conn, worker, job, timedOut, failed>>

MainSteps   == NoTranscribe(MainNext)
ServerSteps == NoTranscribe(ServerNext)
WorkerSteps == NoTranscribe(LoopNext) \/ JobTimesOut \/ Transcribe \/ Handled

Next ==
    \/ MainSteps \/ ServerSteps \/ WorkerSteps \/ CommandRuns
    \/ NoTranscribe(AcceptReturns \/ ConnNext \/ Signal)

Spec == Init /\ [][Next]_vars

\* The goroutines run, and every wait in them has a deadline: shutdownTimeout,
\* shutdownDrainGrace, the job timeout, WaitDelay and settleTimeout.  Nothing is assumed
\* of handlers, clients and commands.
FairSpec == Spec /\ WF_vars(MainSteps) /\ WF_vars(ServerSteps) /\ WF_vars(WorkerSteps)

-----------------------------------------------------------------------------
(* Properties.                                                             *)

\* App.Serve: when the store is closed the worker is gone, or was never started, on every
\* path that leads there: a failed migration, a failed bind, a failed listener, a signal.
StoreOutlivesWorker ==
    store = "closed" => worker \in {"off", "done"}

\* processOne: a job that was being worked on when the process was told to stop has its
\* outcome, or its return to the queue, in the store before the store is closed.  Only
\* the store itself can leave a claim behind.
NoClaimLeft ==
    store = "closed" => Claimed \subseteq failed

\* The inductive invariant: what each goroutine knows of the others, and what is true of
\* the command.
LifecycleInv ==
    /\ TypeOK
    /\ store = "closed" <=> main = "closed"
    /\ main \in {"opened", "migrated", "bound"} => worker = "off"
    /\ main \in {"serving", "joining"} => worker # "off"
    /\ main \in {"returned", "closed"} => worker \in {"off", "done"}
    /\ worker \in {"off", "idle", "done"} => Claimed \subseteq failed
    /\ worker # "working" => run = "off"
    /\ CommandInv

\* The process is told to stop, or its listener has failed.
Stopping == cancelled \/ accept = "returned"

\* What each goroutine waits for is there.
MainCanStep ==
    \/ main \in {"opened", "migrated", "bound", "returned"}
    \/ main = "serving" /\ server = "done"
    \/ main = "joining" /\ WorkerGone

ServerCanStep ==
    \/ server = "serving" /\ Stopping
    \/ server \in {"draining", "unwinding"}

CommandCanStep ==
    \/ run \in {"off", "staging"} \cup Results
    \/ run = "running" /\ (proc[Child] = "gone" \/ (watch = "on" /\ JobOver))
    \/ run = "waiting" /\ (WaitDelayPasses \/ taken < written \/ (holders = {} /\ taken = written))

WorkerCanStep ==
    \/ worker = "idle" /\ cancelled
    \/ worker = "working" /\ CommandCanStep
    \/ worker \in {"settling", "nacking"}

\* App.Serve, Server.Run, Transcribe: from the moment the process is to stop until its store
\* is closed one of the goroutines can go on without waiting for a handler, a client or a
\* process of the command: main, the server and the worker never all wait, be it for
\* each other, for a child that ignores its end or for a pipe that is held open.
NobodyStuck ==
    Stopping /\ store = "open" => MainCanStep \/ ServerCanStep \/ WorkerCanStep

\* How far main, the server and the worker have to go from where they are.
MainLeft(m) ==
    CASE m = "opened" -> 6 [] m = "migrated" -> 5 [] m = "bound" -> 4 [] m = "serving" -> 3
      [] m = "joining" -> 2 [] m = "returned" -> 1 [] m = "closed" -> 0

ServerLeft(s) ==
    CASE s \in {"off", "serving"} -> 3 [] s = "draining" -> 2 [] s = "unwinding" -> 1 [] s = "done" -> 0

CommandLeft(r) ==
    CASE r = "off" -> 4 [] r = "staging" -> 3 [] r = "running" -> 2 [] r = "waiting" -> 1
      [] r \in Results -> 0

WorkerLeft(w, r) ==
    CASE w = "working" -> 4 + CommandLeft(r) [] w = "settling" -> 3 [] w = "nacking" -> 2
      [] w \in {"off", "idle"} -> 1 [] w = "done" -> 0

StepsLeft == MainLeft(main) + ServerLeft(server) + WorkerLeft(worker, run)

\* App.Serve, Worker.loop: once the context is cancelled whatever main, the server and the
\* worker do brings the process nearer to its end, and nothing else, be it a connection, a
\* request, a job that is still queued or the command, takes it further away.
NoSetback ==
    [][cancelled =>
          /\ StepsLeft' <= StepsLeft
          /\ <<main, server, worker, run>>' # <<main, server, worker, run>> => StepsLeft' < StepsLeft]_vars

\* What NobodyStuck and NoSetback rest on: the server runs from Bind on, before anything
\* can stop it, Serve waits for the worker only under a cancelled context, and a command
\* that has not ended is watched.
StoppingInv ==
    /\ main \in {"opened", "migrated"} => server = "off"
    /\ main \in {"bound", "serving"} \/ accept # "off" => server # "off"
    /\ main = "joining" => cancelled
    /\ run = "running" => /\ proc[Child] \in {"member", "gone"}
                          /\ proc[Child] = "member" => watch = "on"

\* Server.Run, App.Serve: once the process is told to stop, or its listener fails, it
\* closes the store and ends, even if a handler never returns, and a process that left
\* the command's group holds on to its output.
StopsInTheEnd ==
    Stopping ~> store = "closed"
=============================================================================
