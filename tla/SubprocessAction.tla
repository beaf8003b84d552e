----------------------------- MODULE SubprocessAction -----------------------------
(***************************************************************************)
(* One call of a subprocess action: the child, its three pipes, the tasks  *)
(* that read and wait, and what cancellations do to all of them.           *)
(*                                                                         *)
(* Bytes come in pieces.  The child is a program with one thread: it reads,*)
(* writes and exits as it likes, blocks on a full or an empty pipe, and may*)
(* ignore SIGTERM.  It keeps its streams until it exits, and nobody        *)
(* inherits them.  The contents of input and output are left out.          *)
(***************************************************************************)
EXTENDS Naturals

CONSTANTS
    Inputs,      \* sizes the encoded envelope may have
    HighWater,   \* what asyncio buffers of it before drain() waits
    PipeSize,    \* what the kernel's pipe to the child holds
    Limit,       \* max_stdout_bytes, max_stderr_bytes
    Buffer,      \* what the pipe of an output stream and its StreamReader hold
    MaxOutput,   \* bound: what the child writes to one stream
    MaxCancels   \* bound: cancellations of the call

\* The StreamReaders are made with a limit above that of the output.
ASSUME SubprocessAssumption ==
    /\ Inputs \subseteq Nat \ {0} /\ Inputs # {}
    /\ HighWater \in Nat /\ PipeSize \in Nat \ {0}
    /\ Limit \in Nat \ {0} /\ Buffer \in Nat /\ Buffer > Limit
    /\ MaxOutput \in Nat /\ MaxCancels \in Nat \ {0}

VARIABLES
    pc,        \* the await that the call is at
    failing,   \* _write_input is unwinding with an exception
    unsent,    \* input in asyncio's buffer
    inPipe,    \* input in the kernel's pipe
    child,     \* what the operating system and the loop know of the child
    code,      \* its exit code: 0, or 1 for any other
    doing,     \* what the child does: "in" and the streams may block it
    sawEnd,    \* it has read the end of its input
    signal,    \* the strongest signal sent to it
    held,      \* output on its way to the reader of each stream
    taken,     \* output the reader has
    reader,    \* the task of each reader
    cancels,   \* cancellations so far
    direct     \* wait_for awaits the call in the step's own task (Python 3.12 on)

vars == <<pc, failing, unsent, inPipe, child, code, doing, sawEnd, signal,
          held, taken, reader, cancels, direct>>
input  == <<unsent, inPipe>>
output == <<held, taken, reader>>
inside == <<code, doing, sawEnd>>
caller == <<cancels, direct>>

Streams == {"out", "err"}
Over    == {"returned", "raised", "interrupted"}
Place   == {"starting", "draining", "closing", "gathering", "grace", "waiting", "joining"} \cup Over

Init ==
    /\ pc = "starting" /\ failing = FALSE
    /\ unsent \in Inputs /\ inPipe = 0
    /\ child = "none" /\ code = 0 /\ doing = "busy" /\ sawEnd = FALSE /\ signal = "none"
    /\ held = [s \in Streams |-> 0] /\ taken = [s \in Streams |-> 0]
    /\ reader = [s \in Streams |-> "none"]
    /\ cancels = 0 /\ direct \in BOOLEAN

-----------------------------------------------------------------------------
(* The call: spawn, _write_input, gather *)

\* create_subprocess_exec, the tasks, writer.write.
Spawn ==
    /\ pc = "starting"
    /\ pc' = "draining" /\ child' = "running" /\ reader' = [s \in Streams |-> "reading"]
    /\ UNCHANGED <<failing, input, inside, signal, held, taken, caller>>

\* The envelope is over its limit, or the executable does not start.
SpawnFails ==
    /\ pc = "starting" /\ pc' = "raised"
    /\ UNCHANGED <<failing, input, child, inside, signal, output, caller>>

PipeIsBroken == child # "running"

\* The transport writes what the pipe takes.
Feed ==
    /\ unsent > 0 /\ inPipe < PipeSize /\ child = "running"
    /\ unsent' = unsent - 1 /\ inPipe' = inPipe + 1
    /\ UNCHANGED <<pc, failing, child, inside, signal, output, caller>>

\* drain() returns or raises; the finally clause closes the writer.
Drained ==
    /\ pc = "draining" /\ (unsent <= HighWater \/ PipeIsBroken)
    /\ pc' = "closing"
    /\ UNCHANGED <<failing, input, child, inside, signal, output, caller>>

\* The tasks that are left are cancelled.
Stopped == [s \in Streams |-> IF reader[s] = "reading" THEN "cancelled" ELSE reader[s]]

\* ... and awaited, after the child.
Join == pc' = "joining" /\ reader' = Stopped

\* Mutant: the signal is sent, and nobody waits for the child.
LeaveAfterTerm(readers) ==
    /\ signal' = IF child = "running" THEN "term" ELSE signal
    /\ Join

\* _terminate_process up to its first await.  A child that has exited and is not
\* yet reaped may be found missing, and is then awaited without a deadline.
Terminate(readers) ==
    IF child = "reaped" THEN Join /\ UNCHANGED signal
    ELSE /\ pc' \in {"grace"} \cup (IF child = "exited" THEN {"waiting"} ELSE {})
         /\ signal' = IF child = "running" THEN "term" ELSE signal
         /\ reader' = readers

\* wait_closed() returns: the input is with the child, or the pipe is broken.
Closed ==
    /\ pc = "closing" /\ (unsent = 0 \/ PipeIsBroken)
    /\ IF failing THEN Terminate(reader) ELSE pc' = "gathering" /\ UNCHANGED <<signal, reader>>
    /\ UNCHANGED <<failing, input, child, inside, held, taken, caller>>

\* A reader over its limit makes gather raise.
GatherFails ==
    /\ pc = "gathering" /\ \E s \in Streams : reader[s] = "failed"
    /\ Terminate(reader)
    /\ UNCHANGED <<failing, input, child, inside, held, taken, caller>>

\* All three tasks have returned.  The output may yet be no JSON.
Gathered ==
    /\ pc = "gathering" /\ child = "reaped" /\ \A s \in Streams : reader[s] = "done"
    /\ pc' \in {"raised"} \cup (IF code = 0 THEN {"returned"} ELSE {})
    /\ UNCHANGED <<failing, input, child, inside, signal, output, caller>>

-----------------------------------------------------------------------------
(* _read_bounded *)

\* Mutant: a reader stops at its limit and returns what it has.
Truncated(s) == IF taken'[s] >= Limit THEN "done" ELSE "reading"

Verdict(s) == IF taken'[s] > Limit THEN "failed" ELSE "reading"

Take(s) ==
    /\ reader[s] = "reading" /\ held[s] > 0
    /\ held' = [held EXCEPT ![s] = @ - 1] /\ taken' = [taken EXCEPT ![s] = @ + 1]
    /\ reader' = [reader EXCEPT ![s] = Verdict(s)]
    /\ UNCHANGED <<pc, failing, input, child, inside, signal, caller>>

AtEnd(s) ==
    /\ reader[s] = "reading" /\ held[s] = 0 /\ child \in {"exited", "reaped"}
    /\ reader' = [reader EXCEPT ![s] = "done"]
    /\ UNCHANGED <<pc, failing, input, child, inside, signal, held, taken, caller>>

-----------------------------------------------------------------------------
(* _terminate_process *)

\* Mutant: the child is told to terminate once more.
TermAgain == signal' = signal

Kill == signal' = IF child = "running" THEN "kill" ELSE signal

\* The grace period passes.
GraceExpires ==
    /\ pc = "grace" /\ child # "reaped"
    /\ pc' = "waiting" /\ Kill
    /\ UNCHANGED <<failing, input, child, inside, output, caller>>

Waited ==
    /\ pc \in {"grace", "waiting"} /\ child = "reaped" /\ Join
    /\ UNCHANGED <<failing, input, child, inside, signal, held, taken, caller>>

Joined ==
    /\ pc = "joining" /\ pc' = "raised"
    /\ UNCHANGED <<failing, input, child, inside, signal, output, caller>>

-----------------------------------------------------------------------------
(* Cancellation: by the step's deadline, by whatever ends the run *)

\* create_subprocess_exec kills a child it had started, and waits for it.
CancelSpawn ==
    /\ pc = "starting" /\ unsent' = 0
    /\ \/ pc' = "raised" /\ UNCHANGED <<child, signal>>
       \/ pc' = "waiting" /\ child' = "running" /\ signal' = "kill"
    /\ UNCHANGED <<failing, reader>>

\* In drain(), the finally clause still awaits wait_closed().
CancelDrain == pc = "draining" /\ pc' = "closing" /\ failing' = TRUE /\ UNCHANGED <<signal, reader>>

CancelClose == pc = "closing" /\ Terminate(reader) /\ UNCHANGED failing

\* gather cancels its tasks, and then raises.
CancelGather == pc = "gathering" /\ Terminate(Stopped) /\ UNCHANGED failing

\* The cleanup itself is interrupted: nothing more is done.
CancelCleanup ==
    /\ pc \in {"grace", "waiting", "joining"} /\ pc' = "interrupted"
    /\ UNCHANGED <<failing, signal, reader>>

\* Before Python 3.12 the call is a task of its own, which wait_for cancels once:
\* the next cancellation ends wait_for, and not the call.
Reaching == IF direct THEN MaxCancels ELSE 1

Cancel ==
    /\ cancels < Reaching /\ cancels' = cancels + 1
    /\ \/ CancelSpawn
       \/ /\ CancelDrain \/ CancelClose \/ CancelGather \/ CancelCleanup
          /\ UNCHANGED <<unsent, child>>
    /\ UNCHANGED <<inPipe, inside, held, taken, direct>>

-----------------------------------------------------------------------------
(* The child *)

Written(s) == held[s] + taken[s]

\* What it does next may block it.
Choose ==
    /\ child = "running" /\ doing = "busy"
    /\ doing' \in (IF sawEnd THEN {} ELSE {"in"}) \cup {s \in Streams : Written(s) < MaxOutput}
    /\ UNCHANGED <<pc, failing, input, child, code, sawEnd, signal, output, caller>>

\* Mutant: the writer is not closed before the call is over.
ClosedLate == inPipe = 0 /\ unsent = 0 /\ pc \in Over

\* The writer is closed, and all it had has been read.
AtInputEnd == inPipe = 0 /\ unsent = 0 /\ pc # "draining"

Read ==
    /\ child = "running" /\ doing = "in" /\ doing' = "busy"
    /\ \/ inPipe > 0 /\ inPipe' = inPipe - 1 /\ UNCHANGED sawEnd
       \/ AtInputEnd /\ sawEnd' = TRUE /\ UNCHANGED inPipe
    /\ UNCHANGED <<pc, failing, unsent, child, code, signal, output, caller>>

Write(s) ==
    /\ child = "running" /\ doing = s /\ held[s] < Buffer
    /\ held' = [held EXCEPT ![s] = @ + 1] /\ doing' = "busy"
    /\ UNCHANGED <<pc, failing, input, child, code, sawEnd, signal, taken, reader, caller>>

Exit ==
    /\ child = "running" /\ doing = "busy"
    /\ child' = "exited" /\ code' \in {0, 1}
    /\ UNCHANGED <<pc, failing, input, doing, sawEnd, signal, output, caller>>

\* A signal ends it, wherever it is.
Die ==
    /\ child = "running" /\ child' = "exited" /\ code' = 1
    /\ UNCHANGED <<pc, failing, input, doing, sawEnd, signal, output, caller>>

\* The loop learns of its exit: process.wait() returns.
Reap ==
    /\ child = "exited" /\ child' = "reaped"
    /\ UNCHANGED <<pc, failing, input, inside, signal, output, caller>>

-----------------------------------------------------------------------------
\* What the event loop and the kernel do of themselves.
Runner ==
    \/ Spawn \/ SpawnFails \/ Feed \/ Drained \/ Closed \/ GatherFails \/ Gathered
    \/ GraceExpires \/ Waited \/ Joined \/ Reap
    \/ \E s \in Streams : Take(s) \/ AtEnd(s)
    \/ signal = "kill" /\ Die

Child == Choose \/ Read \/ Exit \/ \E s \in Streams : Write(s)

Next == Runner \/ Child \/ Cancel \/ (signal = "term" /\ Die)

\* Nothing is assumed of the child, not even that it minds SIGTERM.
Spec == Init /\ [][Next]_vars /\ WF_vars(Runner)

-----------------------------------------------------------------------------
\* Where the call, the child and the output can be, by type.
TypeOK ==
    /\ pc \in Place /\ failing \in BOOLEAN /\ cancels \in 0..MaxCancels
    /\ unsent \in Nat /\ inPipe \in 0..PipeSize
    /\ child \in {"none", "running", "exited", "reaped"} /\ code \in {0, 1}
    /\ doing \in {"busy", "in"} \cup Streams /\ sawEnd \in BOOLEAN
    /\ signal \in {"none", "term", "kill"}
    /\ held \in [Streams -> 0..Buffer] /\ taken \in [Streams -> 0..Limit + 1]
    /\ reader \in [Streams -> {"none", "reading", "done", "failed", "cancelled"}]
    /\ direct \in BOOLEAN

\* A call that ends leaves neither its child, not even unreaped, nor a task behind.
\* The one exception is a cancellation during the termination itself, which cuts it
\* short; even then a child that lives on has been signalled.
ChildIsReaped ==
    /\ pc \in {"returned", "raised"} /\ child # "none" =>
         child = "reaped" /\ \A s \in Streams : reader[s] # "reading"
    /\ pc = "interrupted" => child # "running" \/ signal # "none"

\* A call returns only the whole output, within its limits, of a child that
\* exited by itself and with code 0.
OutputIsWhole ==
    pc = "returned" =>
        /\ child = "reaped" /\ code = 0 /\ signal = "none"
        /\ \A s \in Streams : held[s] = 0 /\ taken[s] <= Limit

\* Runner and child never wait for each other while the output is within its
\* limits: a child that goes on, whatever the order of its reads and writes, and
\* one that waits for the end of its input first, ends the call without any
\* deadline.
ExchangeEnds ==
    WF_vars(Child) /\ [](\A s \in Streams : Written(s) <= Limit) => <>(pc \in Over)

\* The step's deadline passes.
Deadline == cancels = 0 /\ Cancel

\* The deadline ends the call whatever the child does.
EndsByDeadline == WF_vars(Deadline) => <>(pc \in Over)

\* It does if it does not find the call in drain().  From there a second
\* cancellation ends the call, where it reaches it.
EndsWhenCancelled ==
    /\ WF_vars(Deadline) /\ [](~ failing) => <>(pc \in Over)
    /\ WF_vars(Cancel) /\ direct => <>(pc \in Over)
=============================================================================
