-------------------------- MODULE CommandTranscriber --------------------------
(***************************************************************************)
(* Transcribe, the transcriber that runs an external command.  The audio   *)
(* is put into a temporary file and the command started in a process group *)
(* of its own; its standard output goes through a pipe, by way of a        *)
(* goroutine of os/exec, into a buffer with a cap.  A context that ends    *)
(* kills the group.  The command forks as it likes, and a process it       *)
(* forks may leave the group, or live on after the command, and holds the  *)
(* pipe open unless it lets go of it.                                      *)
(*                                                                         *)
(* An output is as many bytes as were written; whether they parse is the   *)
(* command's affair.  The standard error is captured in the same way, and  *)
(* only for messages.                                                      *)
(***************************************************************************)
EXTENDS Integers

CONSTANTS
    Procs,            \* bound: the processes of one run
    Child,            \* the command itself
    MaxStdoutBytes,
    MaxOutput         \* bound: the bytes that a run writes

ASSUME CommandAssumption ==
    /\ Child \in Procs
    /\ MaxStdoutBytes \in Nat /\ MaxOutput \in Nat

VARIABLES
    run,        \* where Transcribe is, or what it has returned
    audio,      \* the temporary file is on disk
    proc,       \* the processes of the run; a "member" is in the command's group
    holders,    \* those that have the pipe's writing end open
    exit,       \* the command's exit status
    watch,      \* the goroutine that waits for the context
    written,    \* the bytes that were written to the pipe
    taken,      \* those that were read from it
    stdout      \* the buffer

command == <<run, audio, proc, holders, exit, watch, written, taken, stdout>>

Results == {"transcript", "error"}
InRun   == {"running", "waiting"}

CommandTypeOK ==
    /\ run \in {"off", "staging"} \cup InRun \cup Results
    /\ audio \in BOOLEAN
    /\ proc \in [Procs -> {"none", "member", "escaped", "gone"}]
    /\ holders \subseteq Procs
    /\ exit \in {"ok", "failed"}
    /\ watch \in {"off", "on", "killed", "left"}
    /\ written \in Nat /\ taken \in Nat
    /\ stdout \in [len : Nat, overflow : BOOLEAN]

Alive == {p \in Procs : proc[p] \in {"member", "escaped"}}

NoCommand ==
    /\ proc = [p \in Procs |-> "none"] /\ holders = {} /\ exit = "ok" /\ watch = "off"
    /\ written = 0 /\ taken = 0 /\ stdout = [len |-> 0, overflow |-> FALSE]

CommandInit == run = "off" /\ audio = FALSE /\ NoCommand

-----------------------------------------------------------------------------
(* Transcribe.                                                             *)

\* It returns: the deferred removal of the audio runs.
Return(r) == run' = r /\ audio' = FALSE

\* os.CreateTemp.
StageAudio ==
    /\ run = "off"
    /\ \/ run' = "staging" /\ audio' = TRUE
       \/ Return("error")
    /\ UNCHANGED <<proc, holders, exit, watch, written, taken, stdout>>

\* The copy, and cmd.Start, which refuses a context that is over.  What an earlier run
\* has left behind is out of sight from here on.
StartCommand(over) ==
    /\ run = "staging"
    /\ \/ /\ ~over
          /\ run' = "running"
          /\ proc' = [p \in Procs |-> IF p = Child THEN "member" ELSE "none"]
          /\ holders' = {Child}
          /\ exit' = "ok" /\ watch' = "on"
          /\ written' = 0 /\ taken' = 0 /\ stdout' = [len |-> 0, overflow |-> FALSE]
          /\ UNCHANGED audio
       \/ /\ Return("error")
          /\ UNCHANGED <<proc, holders, exit, watch, written, taken, stdout>>

\* Mutant: only the command is killed, not its group.
KilledChild == {Child}

\* Who a kill of the group reaches.
KilledGroup == {p \in Procs : proc[p] = "member"}

\* The context is over: Cancel.  If the group is gone there is no error to report, unless
\* its remains are still to be reaped.
Cancel(over) ==
    /\ run = "running" /\ watch = "on" /\ over
    /\ watch' \in IF KilledGroup = {} THEN {"killed", "left"} ELSE {"killed"}
    /\ proc' = [p \in Procs |-> IF p \in KilledGroup THEN "gone" ELSE proc[p]]
    /\ holders' = holders \ KilledGroup
    /\ exit' = IF Child \in KilledGroup THEN "failed" ELSE exit
    /\ UNCHANGED <<run, audio, written, taken, stdout>>

\* Process.Wait returns.  From here on nobody waits for the context.
Reap ==
    /\ run = "running" /\ proc[Child] = "gone"
    /\ run' = "waiting"
    /\ watch' = IF watch = "on" THEN "left" ELSE watch
    /\ UNCHANGED <<audio, proc, holders, exit, written, taken, stdout>>

\* Mutant: a write that only partly fits goes unnoticed.
CappedWriteLenient(b, n) ==
    [len |-> IF b.len + n <= MaxStdoutBytes THEN b.len + n ELSE MaxStdoutBytes,
     overflow |-> b.overflow \/ (b.len >= MaxStdoutBytes /\ n > 0)]

\* cappedBuffer.Write
CappedWrite(b, n) ==
    IF b.len < MaxStdoutBytes /\ b.len + n <= MaxStdoutBytes THEN [b EXCEPT !.len = @ + n]
    ELSE [len |-> IF b.len < MaxStdoutBytes THEN MaxStdoutBytes ELSE b.len, overflow |-> b.overflow \/ n > 0]

\* The copying goroutine reads n bytes.
CopyOutput(n) ==
    /\ run \in InRun /\ taken + n <= written
    /\ taken' = taken + n
    /\ stdout' = CappedWrite(stdout, n)
    /\ UNCHANGED <<run, audio, proc, holders, exit, watch, written>>

\* The pipe is at its end and Run returns.  The outcome is the command's error, the
\* context's, the overflow's, the parser's, or the transcript.
FinishCommand ==
    /\ run = "waiting" /\ holders = {} /\ taken = written
    /\ \/ /\ exit = "ok" /\ watch # "killed" /\ ~stdout.overflow
          /\ Return("transcript")
       \/ Return("error")
    /\ UNCHANGED <<proc, holders, exit, watch, written, taken, stdout>>

\* Mutant: Wait waits for the end of the pipe, for ever.
WaitForEver == FALSE

\* Somebody holds the pipe open; WaitDelay bounds the wait for it.
WaitDelayPasses == run = "waiting"

\* ErrWaitDelay.
GiveUpOutput ==
    /\ WaitDelayPasses
    /\ Return("error")
    /\ UNCHANGED <<proc, holders, exit, watch, written, taken, stdout>>

-----------------------------------------------------------------------------
(* The processes of the command.                                           *)

\* p forks q, which inherits the pipe, and the group unless it leaves it.
Fork(p, q) ==
    /\ p \in Alive /\ proc[q] = "none"
    /\ \E s \in {proc[p], "escaped"} : proc' = [proc EXCEPT ![q] = s]
    /\ holders' = IF p \in holders THEN holders \cup {q} ELSE holders
    /\ UNCHANGED <<run, audio, exit, watch, written, taken, stdout>>

\* p writes a byte.
WriteOutput(p) ==
    /\ p \in holders /\ run \in InRun /\ written < MaxOutput
    /\ written' = written + 1
    /\ UNCHANGED <<run, audio, proc, holders, exit, watch, taken, stdout>>

\* p lets go of the pipe.
CloseOutput(p) ==
    /\ p \in holders
    /\ holders' = holders \ {p}
    /\ UNCHANGED <<run, audio, proc, exit, watch, written, taken, stdout>>

Exit(p) ==
    /\ p \in Alive
    /\ proc' = [proc EXCEPT ![p] = "gone"]
    /\ holders' = holders \ {p}
    /\ IF p = Child THEN exit' \in {"ok", "failed"} ELSE UNCHANGED exit
    /\ UNCHANGED <<run, audio, watch, written, taken, stdout>>

ProcNext ==
    \/ \E p, q \in Procs : Fork(p, q)
    \/ \E p \in Procs : WriteOutput(p) \/ CloseOutput(p) \/ Exit(p)

-----------------------------------------------------------------------------
(* Properties.                                                             *)

\* What is returned as the transcript is all that the command and those it shares its
\* output with have written, to the last byte (Transcribe: "Fail loudly rather than parse
\* a truncated transcript").
TranscriptIsWhole ==
    run = "transcript" => stdout.len = written /\ written <= MaxStdoutBytes

\* An attempt that was cancelled, by its timeout or a shutdown, leaves no process of the
\* command's group behind to compete with the next one (setProcessGroup).  One that left
\* the group is out of reach; one that outlives a command that ended by itself is not
\* pursued.
NoStrayProcess ==
    watch = "killed" => \A p \in Procs : proc[p] # "member"

\* The inductive invariant: the buffer holds what was read, up to the cap; the audio is
\* there as long as somebody is at work on it; the pipe is held by the living.
CommandInv ==
    /\ CommandTypeOK
    /\ audio <=> run \in {"staging"} \cup InRun
    /\ holders \subseteq Alive
    /\ taken <= written
    /\ stdout.len <= MaxStdoutBytes
    /\ ~stdout.overflow => stdout.len = taken
    /\ run = "waiting" => proc[Child] = "gone" /\ watch # "on"
    /\ NoStrayProcess
    /\ TranscriptIsWhole
===============================================================================
