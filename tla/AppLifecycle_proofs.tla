-------------------------- MODULE AppLifecycle_proofs --------------------------
(***************************************************************************)
(* Proofs about AppLifecycle: the order in which castlet serve starts and  *)
(* stops, for every number of connections, jobs and processes of a         *)
(* command.                                                                *)
(***************************************************************************)
EXTENDS AppLifecycle, TLAPS

\* What the command's invariant depends on.
LEMMA CommandUnchanged == CommandInv /\ UNCHANGED command => CommandInv'
  BY DEF command, CommandInv, CommandTypeOK, Alive, NoStrayProcess, TranscriptIsWhole

\* Steps of Transcribe.  Output that does not overflow the buffer is in it, all of it.
LEMMA TranscribeStep ==
  ASSUME CommandInv,
         \/ StageAudio \/ StartCommand(JobOver) \/ Cancel(JobOver) \/ Reap
         \/ \E n \in 1..MaxOutput : CopyOutput(n)
         \/ FinishCommand \/ GiveUpOutput
  PROVE  CommandInv'
<1> USE CommandAssumption
    DEF CommandInv, CommandTypeOK, Alive, NoStrayProcess, TranscriptIsWhole, Results, InRun, Return
<1>1. CASE StageAudio             BY <1>1 DEF StageAudio
<1>2. CASE StartCommand(JobOver)
  <2>1. CASE run' = "running"
    <3>1. stdout' = [len |-> 0, overflow |-> FALSE] /\ written' = 0 /\ taken' = 0
      BY <1>2, <2>1 DEF StartCommand
    <3>2. stdout' \in [len : Nat, overflow : BOOLEAN] /\ stdout'.len = 0 /\ ~stdout'.overflow
      BY <3>1
    <3>3. /\ proc' = [p \in Procs |-> IF p = Child THEN "member" ELSE "none"]
          /\ holders' = {Child} /\ exit' = "ok" /\ watch' = "on" /\ audio
          /\ UNCHANGED audio
      BY <1>2, <2>1 DEF StartCommand
    <3> QED BY <2>1, <3>1, <3>2, <3>3
  <2>2. CASE run' = "error"
    BY <1>2, <2>2 DEF StartCommand
  <2> QED BY <1>2, <2>1, <2>2 DEF StartCommand
<1>3. CASE Cancel(JobOver)        BY <1>3 DEF Cancel, KilledGroup
<1>4. CASE Reap                   BY <1>4 DEF Reap
<1>5. ASSUME NEW n \in 1..MaxOutput, CopyOutput(n) PROVE CommandInv'
  <2>1. /\ stdout' = CappedWrite(stdout, n) /\ taken' = taken + n /\ taken' <= written
        /\ run \in InRun
        /\ UNCHANGED <<run, audio, proc, holders, exit, watch, written>>
    BY <1>5 DEF CopyOutput
  <2>2. /\ stdout' \in [len : Nat, overflow : BOOLEAN]
        /\ stdout'.len <= MaxStdoutBytes
        /\ ~stdout'.overflow => stdout'.len = taken'
    BY <2>1 DEF CappedWrite
  <2> QED BY <2>1, <2>2
<1>6. CASE FinishCommand          BY <1>6 DEF FinishCommand
<1>7. CASE GiveUpOutput           BY <1>7 DEF GiveUpOutput, WaitDelayPasses
<1> QED BY <1>1, <1>2, <1>3, <1>4, <1>5, <1>6, <1>7

\* Steps of the command: a process that is not in the group forks none that is.
LEMMA ProcStep == CommandInv /\ ProcNext => CommandInv'
<1> SUFFICES ASSUME CommandInv, ProcNext PROVE CommandInv'
  OBVIOUS
<1> USE CommandAssumption
    DEF CommandInv, CommandTypeOK, Alive, NoStrayProcess, TranscriptIsWhole, Results, InRun
<1>1. ASSUME NEW p \in Procs, NEW q \in Procs, Fork(p, q) PROVE CommandInv'
  BY <1>1 DEF Fork
<1>2. ASSUME NEW p \in Procs, WriteOutput(p) PROVE CommandInv'
  BY <1>2 DEF WriteOutput
<1>3. ASSUME NEW p \in Procs, CloseOutput(p) PROVE CommandInv'
  BY <1>3 DEF CloseOutput
<1>4. ASSUME NEW p \in Procs, Exit(p) PROVE CommandInv'
  BY <1>4 DEF Exit
<1> QED BY <1>1, <1>2, <1>3, <1>4 DEF ProcNext

\* Steps of main: each one moves main along, and the worker as it knows it to be.
LEMMA MainStep == LifecycleInv /\ MainSteps => LifecycleInv'
<1> SUFFICES ASSUME LifecycleInv, MainSteps PROVE LifecycleInv'
  OBVIOUS
<1>0. CommandInv' /\ UNCHANGED <<timedOut, run>>
  BY CommandUnchanged DEF LifecycleInv, MainSteps, NoTranscribe, command
<1> USE <1>0 DEF LifecycleInv, TypeOK, Claimed
<1>1. CASE Migrate      BY <1>1 DEF Migrate
<1>2. CASE Bind         BY <1>2 DEF Bind
<1>3. CASE StartWorker  BY <1>3 DEF StartWorker
<1>4. CASE JoinServer   BY <1>4 DEF JoinServer
<1>5. CASE JoinWorker   BY <1>5 DEF JoinWorker, WorkerGone
<1>6. CASE CloseStore   BY <1>6 DEF CloseStore
<1> QED BY <1>1, <1>2, <1>3, <1>4, <1>5, <1>6 DEF MainSteps, NoTranscribe, MainNext

\* Steps of the server, its connections and the signal leave the rest alone.
LEMMA OtherStep ==
  LifecycleInv /\ (ServerSteps \/ NoTranscribe(AcceptReturns \/ ConnNext \/ Signal)) => LifecycleInv'
<1> SUFFICES ASSUME LifecycleInv, ServerNext \/ AcceptReturns \/ ConnNext \/ Signal,
                    UNCHANGED <<timedOut, command>>
             PROVE  LifecycleInv'
  BY DEF ServerSteps, NoTranscribe
<1>1. TypeOK'
  <2> USE DEF LifecycleInv, TypeOK, ConnStates
  <2>1. CASE ServerNext
    BY <2>1 DEF ServerNext, Shutdown, Drained, DrainTimesOut, Unwound, ServeFailed
  <2>2. CASE AcceptReturns
    BY <2>2 DEF AcceptReturns
  <2>3. ASSUME NEW c \in Conns, Connect(c) \/ Request(c) \/ Respond(c) \/ CloseIdle(c) PROVE TypeOK'
    BY <2>3 DEF Connect, Request, Respond, CloseIdle
  <2>4. CASE Signal
    BY <2>4 DEF Signal
  <2> QED BY <2>1, <2>2, <2>3, <2>4 DEF ConnNext
<1>2. UNCHANGED <<main, store, worker, job, failed>>
  BY DEF ServerNext, Shutdown, Drained, DrainTimesOut, Unwound, ServeFailed, AcceptReturns,
         ConnNext, Connect, Request, Respond, CloseIdle, Signal
<1>3. CommandInv' /\ UNCHANGED run
  BY CommandUnchanged DEF LifecycleInv, command
<1> QED BY <1>1, <1>2, <1>3 DEF LifecycleInv, Claimed

\* Steps of the worker's loop: it is running, so main has not passed its join, and it
\* goes back to its loop only with the claim given back or lost to a failing store.
LEMMA LoopStep == LifecycleInv /\ NoTranscribe(LoopNext) => LifecycleInv'
<1> SUFFICES ASSUME LifecycleInv, NoTranscribe(LoopNext) PROVE LifecycleInv'
  OBVIOUS
<1>0. CommandInv' /\ UNCHANGED <<timedOut, run>>
  BY CommandUnchanged DEF LifecycleInv, NoTranscribe, command
<1> USE <1>0 DEF LifecycleInv, TypeOK, Claimed
<1>a. ASSUME store = "closed" PROVE worker \in {"off", "done"}
  BY <1>a
<1>1. CASE StopWorker     BY <1>1 DEF StopWorker
<1>2. ASSUME NEW j \in Jobs, Dequeue(j) PROVE LifecycleInv'
  BY <1>2 DEF Dequeue
<1>3. CASE HandleWithout  BY <1>3 DEF HandleWithout
<1>4. CASE Settle         BY <1>4 DEF Settle, CanRecord
<1>5. CASE Nack           BY <1>a, <1>5 DEF Nack, CanRecord
<1>6. CASE NackFails      BY <1>6 DEF NackFails
<1> QED BY <1>1, <1>2, <1>3, <1>4, <1>5, <1>6 DEF NoTranscribe, LoopNext

\* Steps of the transcription: the worker stays at its job until it is over.
LEMMA TranscriptionStep == LifecycleInv /\ (JobTimesOut \/ Transcribe \/ Handled \/ CommandRuns) => LifecycleInv'
<1> SUFFICES ASSUME LifecycleInv, JobTimesOut \/ Transcribe \/ Handled \/ CommandRuns PROVE LifecycleInv'
  OBVIOUS
<1>1. CASE JobTimesOut
  <2>1. CommandInv' /\ UNCHANGED run
    BY <1>1, CommandUnchanged DEF LifecycleInv, JobTimesOut, command
  <2> QED BY <1>1, <2>1 DEF JobTimesOut, LifecycleInv, TypeOK, Claimed
<1>2. CASE Transcribe
  <2>1. CommandInv'
    BY <1>2, TranscribeStep DEF LifecycleInv, Transcribe
  <2> QED BY <1>2, <2>1 DEF Transcribe, LifecycleInv, TypeOK, Claimed
<1>3. CASE Handled
  <2>1. CommandInv'
    BY <1>3 DEF Handled, LifecycleInv, CommandInv, CommandTypeOK, Alive, NoStrayProcess, TranscriptIsWhole,
                Results, InRun
  <2> QED BY <1>3, <2>1 DEF Handled, LifecycleInv, TypeOK, Claimed
<1>4. CASE CommandRuns
  <2>1. CommandInv' /\ UNCHANGED run
    BY <1>4, ProcStep DEF LifecycleInv, CommandRuns, ProcNext, Fork, WriteOutput, CloseOutput, Exit
  <2> QED BY <1>4, <2>1 DEF CommandRuns, LifecycleInv, TypeOK, Claimed
<1> QED BY <1>1, <1>2, <1>3, <1>4

\* The goroutines of castlet serve start and stop in the order App.Serve promises: the
\* worker after the listener is bound, the store's Close after the worker is gone, which
\* it is not while a command runs.
THEOREM LifecycleInvariant == Spec => []LifecycleInv
<1>1. Init => LifecycleInv
  <2>1. ASSUME CommandInit PROVE CommandInv
    <3>1. stdout \in [len : Nat, overflow : BOOLEAN] /\ stdout.len = 0 /\ ~stdout.overflow
      BY <2>1 DEF CommandInit, NoCommand
    <3>2. /\ run = "off" /\ ~audio /\ audio \in BOOLEAN
          /\ proc = [p \in Procs |-> "none"] /\ holders = {} /\ exit = "ok" /\ watch = "off"
          /\ written = 0 /\ taken = 0
      BY <2>1 DEF CommandInit, NoCommand
    <3> QED BY <3>1, <3>2, CommandAssumption
            DEF CommandInv, CommandTypeOK, Alive, NoStrayProcess, TranscriptIsWhole, Results, InRun
  <2> QED BY <2>1 DEF Init, LifecycleInv, TypeOK, ConnStates, Claimed, CommandInit
<1>2. LifecycleInv /\ [Next]_vars => LifecycleInv'
  <2>1. LifecycleInv /\ UNCHANGED vars => LifecycleInv'
    BY CommandUnchanged DEF LifecycleInv, TypeOK, Claimed, vars, command
  <2> QED BY <2>1, MainStep, OtherStep, LoopStep, TranscriptionStep DEF Next, WorkerSteps
<1> QED BY <1>1, <1>2, PTL DEF Spec

\* A transcript that is returned is the whole of the command's output, whatever the
\* sizes in which it came.
THEOREM TranscriptIsWholeAlways == Spec => []TranscriptIsWhole
<1>1. LifecycleInv => TranscriptIsWhole
  BY DEF LifecycleInv, CommandInv
<1> QED BY <1>1, LifecycleInvariant, PTL

\* No member of the group outlives an attempt that was cancelled, however many there are.
THEOREM NoStrayProcessAlways == Spec => []NoStrayProcess
<1>1. LifecycleInv => NoStrayProcess
  BY DEF LifecycleInv, CommandInv
<1> QED BY <1>1, LifecycleInvariant, PTL

\* No path that ends with a closed store leaves a worker running on it.
THEOREM StoreOutlivesWorkerAlways == Spec => []StoreOutlivesWorker
<1>1. LifecycleInv => StoreOutlivesWorker
  BY DEF LifecycleInv, StoreOutlivesWorker
<1> QED BY <1>1, LifecycleInvariant, PTL

\* A shutdown leaves no job claimed unless the store refused to take its outcome.
THEOREM NoClaimLeftAlways == Spec => []NoClaimLeft
<1>1. LifecycleInv => NoClaimLeft
  BY DEF LifecycleInv, NoClaimLeft
<1> QED BY <1>1, LifecycleInvariant, PTL
-----------------------------------------------------------------------------
(* Stopping.                                                               *)

\* What StoppingInv says of the goroutines, and what it says of the command.
ServerStarted ==
    /\ main \in {"opened", "migrated"} => server = "off"
    /\ main \in {"bound", "serving"} \/ accept # "off" => server # "off"
    /\ main = "joining" => cancelled

ChildWatched ==
    run = "running" => /\ proc[Child] \in {"member", "gone"}
                       /\ proc[Child] = "member" => watch = "on"

\* The server is started with its accept loop and never leaves for "off".
LEMMA ServerStartedStep == LifecycleInv /\ ServerStarted /\ [Next]_vars => ServerStarted'
<1> SUFFICES ASSUME LifecycleInv, ServerStarted, [Next]_vars PROVE ServerStarted'
  OBVIOUS
<1> USE DEF ServerStarted
<1>1. CASE UNCHANGED <<main, accept, server, cancelled>>
  BY <1>1
<1>2. CASE MainNext
  BY <1>2 DEF MainNext, Migrate, Bind, StartWorker, JoinServer, JoinWorker, CloseStore
<1>3. CASE ServerNext
  BY <1>3 DEF ServerNext, Shutdown, Drained, DrainTimesOut, Unwound, ServeFailed
<1>4. CASE AcceptReturns \/ Signal
  BY <1>4 DEF AcceptReturns, Signal
<1>5. CASE ConnNext
  BY <1>1, <1>5 DEF ConnNext, Connect, Request, Respond, CloseIdle
<1>6. CASE LoopNext
  BY <1>1, <1>6 DEF LoopNext, StopWorker, Dequeue, HandleWithout, Settle, Nack, NackFails
<1>7. CASE JobTimesOut \/ Transcribe \/ Handled \/ CommandRuns
  BY <1>1, <1>7 DEF JobTimesOut, Transcribe, Handled, CommandRuns
<1> QED
  BY <1>1, <1>2, <1>3, <1>4, <1>5, <1>6, <1>7
  DEF Next, vars, MainSteps, ServerSteps, WorkerSteps, NoTranscribe

\* Whoever stops watching has killed the child, or finds it gone.
LEMMA ChildWatchedStep == LifecycleInv /\ ChildWatched /\ [Next]_vars => ChildWatched'
<1> SUFFICES ASSUME LifecycleInv, ChildWatched, [Next]_vars PROVE ChildWatched'
  OBVIOUS
<1> USE CommandAssumption DEF ChildWatched, LifecycleInv, CommandInv, CommandTypeOK
<1>1. CASE UNCHANGED command
  BY <1>1 DEF command
<1>2. CASE Transcribe
  <2>1. CASE StageAudio             BY <2>1 DEF StageAudio, Return
  <2>2. CASE StartCommand(JobOver)  BY <2>2 DEF StartCommand, Return
  <2>3. CASE Cancel(JobOver)        BY <2>3 DEF Cancel, KilledGroup
  <2>4. CASE Reap                   BY <2>4 DEF Reap
  <2>5. ASSUME NEW n \in 1..MaxOutput, CopyOutput(n) PROVE ChildWatched'
    BY <2>5 DEF CopyOutput
  <2>6. CASE FinishCommand          BY <2>6 DEF FinishCommand, Return
  <2>7. CASE GiveUpOutput           BY <2>7 DEF GiveUpOutput, Return
  <2> QED BY <1>2, <2>1, <2>2, <2>3, <2>4, <2>5, <2>6, <2>7 DEF Transcribe
<1>3. CASE Handled
  BY <1>3 DEF Handled
<1>4. CASE CommandRuns
  <2>1. ASSUME NEW p \in Procs, NEW q \in Procs, Fork(p, q) PROVE ChildWatched'
    BY <2>1 DEF Fork
  <2>2. ASSUME NEW p \in Procs, WriteOutput(p) \/ CloseOutput(p) PROVE ChildWatched'
    BY <2>2 DEF WriteOutput, CloseOutput
  <2>3. ASSUME NEW p \in Procs, Exit(p) PROVE ChildWatched'
    BY <2>3 DEF Exit
  <2> QED BY <1>4, <2>1, <2>2, <2>3 DEF CommandRuns, ProcNext
<1> QED
  BY <1>1, <1>2, <1>3, <1>4
  DEF Next, vars, MainSteps, ServerSteps, WorkerSteps, NoTranscribe, JobTimesOut

\* The goroutines know what they have to know of each other when the process stops.
THEOREM StoppingInvariant == Spec => []StoppingInv
<1>1. StoppingInv <=> ServerStarted /\ ChildWatched
  BY DEF StoppingInv, ServerStarted, ChildWatched
<1>2. Init => ServerStarted /\ ChildWatched
  BY DEF Init, CommandInit, ServerStarted, ChildWatched
<1> QED
  BY <1>1, <1>2, ServerStartedStep, ChildWatchedStep, LifecycleInvariant, PTL DEF Spec

\* Main, the server and the worker never all wait once the process is to stop: the server
\* waits for nobody, main waits for the server and then for the worker, and the worker for
\* a command that is watched and for a pipe that WaitDelay gives up.
THEOREM NobodyStuckAlways == Spec => []NobodyStuck
<1>1. LifecycleInv /\ StoppingInv => NobodyStuck
  <2> SUFFICES ASSUME LifecycleInv, StoppingInv, Stopping, store = "open"
               PROVE  MainCanStep \/ ServerCanStep \/ WorkerCanStep
    BY DEF NobodyStuck
  <2> USE DEF LifecycleInv, TypeOK, StoppingInv
  <2>1. CASE main \in {"opened", "migrated", "bound", "returned"}
    BY <2>1 DEF MainCanStep
  <2>2. CASE main = "serving"
    BY <2>2 DEF MainCanStep, ServerCanStep
  <2>3. CASE main = "joining"
    <3>1. cancelled /\ worker # "off"
      BY <2>3
    <3>2. ASSUME worker = "working" PROVE CommandCanStep
      BY <3>1, <3>2 DEF CommandInv, CommandTypeOK, CommandCanStep, JobOver, WaitDelayPasses, InRun
    <3> QED BY <2>3, <3>1, <3>2 DEF MainCanStep, WorkerGone, WorkerCanStep
  <2> QED BY <2>1, <2>2, <2>3
<1> QED BY <1>1, LifecycleInvariant, StoppingInvariant, PTL

\* The states that the distances are defined on.
MainStates   == {"opened", "migrated", "bound", "serving", "joining", "returned", "closed"}
ServerStates == {"off", "serving", "draining", "unwinding", "done"}
WorkerStates == {"off", "idle", "working", "settling", "nacking", "done"}
RunStates    == {"off", "staging"} \cup InRun \cup Results

\* The three parts of the distance are numbers.
LEMMA LeftIsNat ==
  ASSUME NEW m \in MainStates, NEW s \in ServerStates, NEW w \in WorkerStates, NEW r \in RunStates
  PROVE  MainLeft(m) \in 0..6 /\ ServerLeft(s) \in 0..3 /\ CommandLeft(r) \in 0..4 /\ WorkerLeft(w, r) \in 0..8
<1>1. MainLeft(m) \in 0..6
  BY DEF MainStates, MainLeft
<1>2. ServerLeft(s) \in 0..3
  BY DEF ServerStates, ServerLeft
<1>3. CommandLeft(r) \in 0..4
  BY DEF RunStates, CommandLeft, InRun, Results
<1>4. WorkerLeft(w, r) \in 0..8
  BY <1>3 DEF WorkerStates, WorkerLeft
<1> QED BY <1>1, <1>2, <1>3, <1>4

\* Who has moved on is nearer to the end.
LEMMA MainNearer ==
  LifecycleInv /\ MainNext => MainLeft(main') < MainLeft(main)
<1> SUFFICES ASSUME LifecycleInv, MainNext PROVE MainLeft(main') < MainLeft(main)
  OBVIOUS
<1>1. CASE Migrate      BY <1>1 DEF Migrate, MainLeft
<1>2. CASE Bind         BY <1>2 DEF Bind, MainLeft
<1>3. CASE StartWorker  BY <1>3 DEF StartWorker, MainLeft
<1>4. CASE JoinServer   BY <1>4 DEF JoinServer, MainLeft
<1>5. CASE JoinWorker   BY <1>5 DEF JoinWorker, MainLeft
<1>6. CASE CloseStore   BY <1>6 DEF CloseStore, MainLeft
<1> QED BY <1>1, <1>2, <1>3, <1>4, <1>5, <1>6 DEF MainNext

\* Main starts the server and the worker, and moves neither of them afterwards.
LEMMA MainAlone ==
  ASSUME LifecycleInv, StoppingInv, MainNext
  PROVE  /\ server' = server \/ (server = "off" /\ server' = "serving")
         /\ worker' = worker \/ (worker = "off" /\ worker' = "idle")
<1>1. CASE Migrate      BY <1>1 DEF Migrate
<1>2. CASE Bind         BY <1>2 DEF Bind, StoppingInv
<1>3. CASE StartWorker  BY <1>3 DEF StartWorker, LifecycleInv
<1>4. CASE JoinServer   BY <1>4 DEF JoinServer
<1>5. CASE JoinWorker   BY <1>5 DEF JoinWorker
<1>6. CASE CloseStore   BY <1>6 DEF CloseStore
<1> QED BY <1>1, <1>2, <1>3, <1>4, <1>5, <1>6 DEF MainNext

LEMMA ServerNearer ==
  ServerNext => ServerLeft(server') < ServerLeft(server)
<1> SUFFICES ASSUME ServerNext PROVE ServerLeft(server') < ServerLeft(server)
  OBVIOUS
<1>1. CASE Shutdown                 BY <1>1 DEF Shutdown, ServerLeft
<1>2. CASE Drained \/ DrainTimesOut BY <1>2 DEF Drained, DrainTimesOut, ServerLeft
<1>3. CASE Unwound                  BY <1>3 DEF Unwound, ServerLeft
<1>4. CASE ServeFailed              BY <1>4 DEF ServeFailed, ServerLeft
<1> QED BY <1>1, <1>2, <1>3, <1>4 DEF ServerNext

LEMMA LoopNearer ==
  ASSUME cancelled, LifecycleInv, (NoTranscribe(LoopNext) \/ Handled)
  PROVE  WorkerLeft(worker', run') < WorkerLeft(worker, run)
<1>1. run \in RunStates
  BY DEF LifecycleInv, CommandInv, CommandTypeOK, RunStates
<1>2. CommandLeft(run) \in 0..4
  BY <1>1 DEF RunStates, CommandLeft, InRun, Results
<1>3. CASE StopWorker    BY <1>3 DEF StopWorker, WorkerLeft
<1>4. ASSUME NEW j \in Jobs, Dequeue(j) PROVE FALSE
  BY <1>4 DEF Dequeue
<1>5. CASE HandleWithout BY <1>2, <1>5 DEF HandleWithout, WorkerLeft
<1>6. CASE Settle        BY <1>6 DEF Settle, WorkerLeft
<1>7. CASE Nack          BY <1>7 DEF Nack, WorkerLeft
<1>8. CASE NackFails     BY <1>8 DEF NackFails, WorkerLeft
<1>9. CASE Handled       BY <1>2, <1>9 DEF Handled, WorkerLeft
<1> QED BY <1>3, <1>4, <1>5, <1>6, <1>7, <1>8, <1>9 DEF NoTranscribe, LoopNext

LEMMA CommandNearer ==
  ASSUME LifecycleInv, Transcribe, run' # run
  PROVE  CommandLeft(run') < CommandLeft(run)
<1> USE DEF CommandLeft, Results
<1>1. CASE StageAudio             BY <1>1 DEF StageAudio, Return
<1>2. CASE StartCommand(JobOver)  BY <1>2 DEF StartCommand, Return
<1>3. CASE Cancel(JobOver)        BY <1>3 DEF Cancel
<1>4. CASE Reap                   BY <1>4 DEF Reap
<1>5. ASSUME NEW n \in 1..MaxOutput, CopyOutput(n) PROVE FALSE
  BY <1>5 DEF CopyOutput
<1>6. CASE FinishCommand          BY <1>6 DEF FinishCommand, Return
<1>7. CASE GiveUpOutput           BY <1>7 DEF GiveUpOutput, WaitDelayPasses, Return
<1> QED BY <1>1, <1>2, <1>3, <1>4, <1>5, <1>6, <1>7 DEF Transcribe

\* The sum falls when a part of it falls and the others stay.
LEMMA SumFalls ==
  ASSUME NEW a \in Nat, NEW b \in Nat, NEW c \in Nat, NEW d \in Nat, NEW e \in Nat, NEW f \in Nat,
         d <= a, e <= b, f <= c, d < a \/ e < b \/ f < c
  PROVE  d + e + f < a + b + c
OBVIOUS

\* One step, once the context is cancelled.
LEMMA StepNearer ==
  ASSUME LifecycleInv, LifecycleInv', StoppingInv, [Next]_vars, cancelled
  PROVE  /\ StepsLeft' <= StepsLeft
         /\ <<main, server, worker, run>>' # <<main, server, worker, run>> => StepsLeft' < StepsLeft
<1> DEFINE m == MainLeft(main)    m1 == MainLeft(main')
           s == ServerLeft(server) s1 == ServerLeft(server')
           w == WorkerLeft(worker, run) w1 == WorkerLeft(worker', run')
<1>a. /\ main \in MainStates /\ server \in ServerStates /\ worker \in WorkerStates /\ run \in RunStates
      /\ main' \in MainStates /\ server' \in ServerStates /\ worker' \in WorkerStates /\ run' \in RunStates
  BY DEF LifecycleInv, TypeOK, CommandInv, CommandTypeOK, MainStates, ServerStates, WorkerStates, RunStates
<1>b. /\ m \in Nat /\ s \in Nat /\ w \in Nat /\ m1 \in Nat /\ s1 \in Nat /\ w1 \in Nat
      /\ CommandLeft(run) \in Nat /\ CommandLeft(run') \in Nat
  <2>1. m \in 0..6 /\ s \in 0..3 /\ CommandLeft(run) \in 0..4 /\ w \in 0..8
    BY <1>a, LeftIsNat
  <2>2. m1 \in 0..6 /\ s1 \in 0..3 /\ CommandLeft(run') \in 0..4 /\ w1 \in 0..8
    BY <1>a, LeftIsNat
  <2> QED BY <2>1, <2>2
<1>c. StepsLeft = m + s + w /\ StepsLeft' = m1 + s1 + w1
  BY DEF StepsLeft
<1> HIDE DEF m, m1, s, s1, w, w1
<1> SUFFICES \/ m1 + s1 + w1 < m + s + w
             \/ UNCHANGED <<main, server, worker, run>> /\ m1 + s1 + w1 = m + s + w
  BY <1>b, <1>c
<1>1. CASE UNCHANGED <<main, server, worker, run>>
  BY <1>1 DEF m, m1, s, s1, w, w1
<1>2. CASE MainSteps
  <2>1. MainNext /\ run' = run
    BY <1>2 DEF MainSteps, NoTranscribe, command
  <2>2. m1 < m
    BY <2>1, MainNearer DEF m, m1
  <2>3. s1 = s
    <3>1. server' = server \/ (server = "off" /\ server' = "serving")
      BY <2>1, MainAlone
    <3> QED BY <3>1 DEF s, s1, ServerLeft
  <2>4. w1 = w
    <3>1. worker' = worker \/ (worker = "off" /\ worker' = "idle")
      BY <2>1, MainAlone
    <3> QED BY <2>1, <3>1 DEF w, w1, WorkerLeft
  <2> QED BY <1>b, <2>2, <2>3, <2>4, SumFalls
<1>3. CASE ServerSteps
  <2>1. ServerNext /\ UNCHANGED <<main, worker, run>>
    BY <1>3 DEF ServerSteps, NoTranscribe, command, ServerNext, Shutdown, Drained, DrainTimesOut, Unwound,
       ServeFailed
  <2>2. s1 < s
    BY <2>1, ServerNearer DEF s, s1
  <2>3. m1 = m /\ w1 = w
    BY <2>1 DEF m, m1, w, w1
  <2> QED BY <1>b, <2>2, <2>3, SumFalls
<1>4. CASE NoTranscribe(LoopNext) \/ Handled
  <2>1. UNCHANGED <<main, server>>
    BY <1>4 DEF NoTranscribe, LoopNext, StopWorker, Dequeue, HandleWithout, Settle, Nack, NackFails, Handled
  <2>2. w1 < w
    BY <1>4, LoopNearer DEF w, w1
  <2>3. m1 = m /\ s1 = s
    BY <2>1 DEF m, m1, s, s1
  <2> QED BY <1>b, <2>2, <2>3, SumFalls
<1>5. CASE Transcribe /\ run' # run
  <2>1. UNCHANGED <<main, server, worker>> /\ worker = "working"
    BY <1>5 DEF Transcribe
  <2>2. w = 4 + CommandLeft(run) /\ w1 = 4 + CommandLeft(run')
    BY <2>1 DEF w, w1, WorkerLeft
  <2>3. w1 < w
    BY <1>5, <1>b, <2>2, CommandNearer
  <2>4. m1 = m /\ s1 = s
    BY <2>1 DEF m, m1, s, s1
  <2> QED BY <1>b, <2>3, <2>4, SumFalls
<1>6. CASE Transcribe /\ run' = run
  BY <1>1, <1>6 DEF Transcribe
<1>7. CASE JobTimesOut \/ CommandRuns \/ NoTranscribe(AcceptReturns \/ ConnNext \/ Signal)
  <2>1. UNCHANGED <<main, server, worker, run>>
    BY <1>7 DEF JobTimesOut, CommandRuns, ProcNext, Fork, WriteOutput, CloseOutput, Exit, NoTranscribe, command,
       AcceptReturns, ConnNext, Connect, Request, Respond, CloseIdle, Signal
  <2> QED BY <1>1, <2>1
<1> QED
  BY <1>1, <1>2, <1>3, <1>4, <1>5, <1>6, <1>7 DEF Next, vars, command, WorkerSteps

\* Once the process is told to stop nothing takes it further from its end, and each move of
\* main, the server and the worker takes it nearer, in at most seventeen of them.
THEOREM NoSetbackAlways == Spec => NoSetback
<1>1. LifecycleInv /\ LifecycleInv' /\ StoppingInv /\ [Next]_vars =>
        [cancelled =>
            /\ StepsLeft' <= StepsLeft
            /\ <<main, server, worker, run>>' # <<main, server, worker, run>> => StepsLeft' < StepsLeft]_vars
  BY StepNearer
<1> QED BY <1>1, LifecycleInvariant, StoppingInvariant, PTL DEF Spec, NoSetback
=============================================================================
