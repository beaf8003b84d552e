------------------------------ MODULE StepAttempts ------------------------------
(***************************************************************************)
(* One batch of _run_step tasks (or one wave of _run_compensation tasks,   *)
(* which has the same shape) in full: the semaphore, the attempts of each  *)
(* step, its deadline and its events, what becomes of its handler, and the *)
(* save that follows the batch.                                            *)
(*                                                                         *)
(* A coroutine handler runs on the event loop and can be cancelled.  A     *)
(* synchronous one is a job of the loop's thread pool: it can be dropped   *)
(* from the pool's queue, but once its thread runs nobody can stop it.     *)
(* The save is a job of the same pool, and so is every event if the event  *)
(* handler is synchronous.                                                 *)
(*                                                                         *)
(* What a handler does, and how long it takes, is free.  There is at most  *)
(* one event handler.  Outputs, error messages and the events' contents    *)
(* are left out.                                                           *)
(***************************************************************************)
EXTENDS Naturals, FiniteSets, SequencesExt

CONSTANTS
    Batch,           \* the steps of the batch
    Sync,            \* steps whose handler is not a coroutine function
    Retries,         \* Retries[s]: configured retries of s
    MaxConcurrency,  \* the workflow's max_concurrency
    Hosts            \* what the runner may run on

\* direct: wait_for awaits the handler in the step's own task (Python 3.12 on), and
\* not in one that it makes (3.11).  workers: threads of the loop's default executor.
Host == [direct : BOOLEAN, listener : {"none", "coroutine", "thread"}, workers : Nat \ {0}]

ASSUME AttemptsAssumption ==
    /\ IsFiniteSet(Batch) /\ Batch # {} /\ Sync \subseteq Batch
    /\ Retries \in [Batch -> Nat]
    /\ MaxConcurrency \in Nat \ {0}
    /\ Hosts \subseteq Host

VARIABLES
    host,      \* the one it runs on
    task,      \* where the task of each step is
    attempt,   \* the attempt it is in (0: none yet)
    queue,     \* the pool's jobs that wait for a thread, oldest first
    threads,   \* the pool's jobs that run
    coros,     \* steps with a live coroutine of their handler
    group      \* the two gathers, the save and the end, as run() sees them

vars == <<host, task, attempt, queue, threads, coros, group>>

Ended     == {"succeeded", "failed", "cancelled", "raised"}
Emitting  == {"starting", "reporting", "retrying", "failing", "leaving"}
TaskState == {"queued", "calling", "unwinding", "stopping"} \cup Emitting \cup Ended
Active    == TaskState \ (Ended \cup {"queued"})
Group     == {"gather", "cancelling", "cleanup", "saving", "saved", "raised"}

\* A job is what a task awaits from the pool, and is abandoned when it moves on.
Job  == Batch \X Nat \X TaskState
Save == <<"save", 0, "saving">>

In(states)    == {s \in Batch : task[s] \in states}
JobOf(s)      == <<s, attempt[s], task[s]>>
Queued(job)   == \E i \in 1..Len(queue) : queue[i] = job
Submitted(s)  == Queued(JobOf(s)) \/ JobOf(s) \in threads
Live(s)       == {job \in threads : job[1] = s /\ job[3] = "calling"}
Abandoned     == {job \in threads : IF job = Save THEN group # "saving" ELSE job # JobOf(job[1])}

Init ==
    /\ host \in Hosts
    /\ task = [s \in Batch |-> "queued"] /\ attempt = [s \in Batch |-> 0]
    /\ queue = <<>> /\ threads = {} /\ coros = {}
    /\ group = "gather"

-----------------------------------------------------------------------------
(* The events of a task *)

\* The dispatcher's lock is free: one event at a time is with the pool.
LockIsFree == \A s \in In(Emitting) : ~ Submitted(s)

\* The event is given to a synchronous event handler.
Submit(s) ==
    /\ host.listener = "thread" /\ task[s] \in Emitting /\ LockIsFree
    /\ queue' = Append(queue, JobOf(s))
    /\ UNCHANGED <<host, task, attempt, threads, coros, group>>

\* The event handler, if there is one, has returned, in its thread or on the loop.
Heard(s) ==
    /\ task[s] \in Emitting /\ (host.listener = "thread" => JobOf(s) \in threads)
    /\ threads' = threads \ {JobOf(s)}

\* It fails; what it says of a cancellation is passed over (Return).
EventFails(s) ==
    /\ host.listener # "none" /\ Heard(s) /\ task[s] # "leaving"
    /\ task' = [task EXCEPT ![s] = "raised"]
    /\ UNCHANGED <<host, attempt, queue, coros, group>>

-----------------------------------------------------------------------------
(* The attempts of one step *)

\* async with semaphore.
Acquire(s) ==
    /\ task[s] = "queued" /\ Cardinality(In(Active)) < MaxConcurrency
    /\ task' = [task EXCEPT ![s] = "starting"]
    /\ attempt' = [attempt EXCEPT ![s] = 1]
    /\ UNCHANGED <<host, queue, threads, coros, group>>

\* The attempt is announced.  wait_for(_invoke(handler, context)): a job for the
\* pool, or a coroutine.
Call(s) ==
    /\ task[s] = "starting" /\ Heard(s)
    /\ task' = [task EXCEPT ![s] = "calling"]
    /\ IF s \in Sync THEN queue' = Append(queue, <<s, attempt[s], "calling">>) /\ UNCHANGED coros
                     ELSE coros' = coros \cup {s} /\ UNCHANGED queue
    /\ UNCHANGED <<host, attempt, group>>

\* What an attempt that was not cancelled comes to.
Succeed(s) == task' = [task EXCEPT ![s] = "reporting"]
Retry(s)   == task' = [task EXCEPT ![s] = IF attempt[s] <= Retries[s] THEN "retrying" ELSE "failing"]

GiveUp(s)  == task' = [task EXCEPT ![s] = "failing"]

\* except TimeoutError: a synchronous handler's timeout ends the step.
TimedOut(s) == IF s \in Sync THEN GiveUp(s) ELSE Retry(s)

\* The handler returned a result, or raised TimeoutError, or raised anything else
\* (a result that is not finite JSON, or too big, raises too).
Outcome(s) == Succeed(s) \/ TimedOut(s) \/ Retry(s)

\* A synchronous handler returns; it may return an awaitable to await.
ThreadReturns(s) ==
    /\ task[s] = "calling" /\ JobOf(s) \in threads
    /\ threads' = threads \ {JobOf(s)}
    /\ \/ Outcome(s) /\ UNCHANGED coros
       \/ coros' = coros \cup {s} /\ UNCHANGED task
    /\ UNCHANGED <<host, attempt, queue, group>>

CoroutineReturns(s) ==
    /\ task[s] = "calling" /\ s \in coros
    /\ coros' = coros \ {s}
    /\ Outcome(s)
    /\ UNCHANGED <<host, attempt, queue, threads, group>>

\* Mutant: the job of a call that is given up stays in the pool's queue.
KeepJob(job) == queue

\* A job that no thread has taken is dropped with the future that awaits it.
DropJob(job) ==
    IF Queued(job) THEN RemoveAt(queue, CHOOSE i \in DOMAIN queue : queue[i] = job) ELSE queue

\* Mutant: the deadline is kept by the thread that runs the handler.
DeadlineInThread(s) == task[s] = "calling" /\ ~ Queued(JobOf(s))

\* wait_for's clock runs from the call, whether or not a thread has taken it.
UnderDeadline(s) == task[s] = "calling"

\* The deadline passes.  A coroutine is cancelled and awaited; a job is let go.
Deadline(s) ==
    /\ UnderDeadline(s)
    /\ queue' = DropJob(JobOf(s))
    /\ IF s \in coros THEN task' = [task EXCEPT ![s] = "unwinding"] ELSE TimedOut(s)
    /\ UNCHANGED <<host, attempt, threads, coros, group>>

\* The cancelled coroutine ends: cancelled, or after all with an outcome.
Unwind(s) ==
    /\ task[s] = "unwinding"
    /\ coros' = coros \ {s}
    /\ Outcome(s)
    /\ UNCHANGED <<host, attempt, queue, threads, group>>

\* The retry is announced, and its delay is over.
NextAttempt(s) ==
    /\ task[s] = "retrying" /\ Heard(s)
    /\ task' = [task EXCEPT ![s] = "starting"]
    /\ attempt' = [attempt EXCEPT ![s] = @ + 1]
    /\ UNCHANGED <<host, queue, coros, group>>

\* The outcome is announced and the task returns, or raises CancelledError.
Return(s) ==
    /\ Heard(s)
    /\ \/ task[s] = "reporting" /\ task' = [task EXCEPT ![s] = "succeeded"]
       \/ task[s] = "failing"   /\ task' = [task EXCEPT ![s] = "failed"]
       \/ task[s] = "leaving"   /\ task' = [task EXCEPT ![s] = "cancelled"]
    /\ UNCHANGED <<host, attempt, queue, coros, group>>

-----------------------------------------------------------------------------
(* The pool *)

\* A free thread takes the oldest job.
ThreadTakes ==
    /\ queue # <<>> /\ Cardinality(threads) < host.workers
    /\ threads' = threads \cup {Head(queue)} /\ queue' = Tail(queue)
    /\ UNCHANGED <<host, task, attempt, coros, group>>

\* A thread that nobody waits for any more ends at last, unnoticed.
AbandonedEnds(job) ==
    /\ job \in Abandoned
    /\ threads' = threads \ {job}
    /\ UNCHANGED <<host, task, attempt, queue, coros, group>>

-----------------------------------------------------------------------------
(* A task is cancelled *)

\* An attempt announces its cancellation first.  A coroutine is awaited; but where
\* wait_for runs it in a task of its own, a further cancellation ends wait_for, and
\* the coroutine is left alone.
Interrupted(s) ==
    CASE task[s] = "calling" -> IF s \in coros THEN "stopping" ELSE "leaving"
      [] task[s] \in {"unwinding", "stopping"} -> IF host.direct THEN "stopping" ELSE "leaving"
      [] task[s] = "reporting" -> "leaving"
      [] OTHER -> "cancelled"

\* Mutant: only the tasks that have begun are cancelled.
CancelledOnceBegun(s) == IF task[s] \in Ended \cup {"queued"} THEN task[s] ELSE Interrupted(s)

Cancelled(s) == IF task[s] \in Ended THEN task[s] ELSE Interrupted(s)

\* The cancellation is lost on the task: a coroutine event handler swallows it, or
\* the handler's own task had just ended, and wait_for returns what it came to.
MayGoOn(s) ==
    \/ task[s] \in Emitting /\ host.listener = "coroutine"
    \/ task[s] \in {"reporting", "retrying", "failing"} /\ ~ host.direct /\ ~ Submitted(s)

\* Every task is cancelled, and no job that no thread has taken is waited for.
CancelAll ==
    /\ \E going \in SUBSET {s \in Batch : MayGoOn(s)} :
         task' = [s \in Batch |-> IF s \in going THEN task[s] ELSE Cancelled(s)]
    /\ queue' = <<>>
    /\ UNCHANGED <<host, attempt, threads, coros>>

\* The cancelled coroutine ends.  One that swallows the cancellation lets a task
\* that awaits it directly go on with its outcome.
Stop(s) ==
    /\ task[s] = "stopping"
    /\ coros' = coros \ {s}
    /\ task' = [task EXCEPT ![s] = "leaving"] \/ (host.direct /\ Outcome(s))
    /\ UNCHANGED <<host, attempt, queue, threads, group>>

\* A coroutine that was left alone ends.
OrphanEnds(s) ==
    /\ s \in coros /\ task[s] \in {"leaving", "cancelled"}
    /\ coros' = coros \ {s}
    /\ UNCHANGED <<host, task, attempt, queue, threads, group>>

-----------------------------------------------------------------------------
(* run(): the two gathers and the save *)

\* The caller cancels run(), and may do so again: gather passes it on.
Interrupt ==
    /\ group \in {"gather", "cancelling", "cleanup"} /\ CancelAll
    /\ group' = IF group = "gather" THEN "cancelling" ELSE group

\* Mutant: run() does not wait for the tasks it cancelled.
NobodyCalls == In({"starting", "calling"}) = {}

AllEnded == In(Ended) = Batch

\* The first task that raises or is cancelled, or the last to end, makes a gather
\* raise that is not to return: run() cancels every task (once more).
Cleanup ==
    /\ \/ group \in {"gather", "cancelling"} /\ In({"raised", "cancelled"}) # {}
       \/ group = "cancelling" /\ AllEnded
    /\ CancelAll /\ group' = "cleanup"

\* The second gather returns, and run() raises.
Raise ==
    /\ group = "cleanup" /\ AllEnded
    /\ group' = "raised"
    /\ UNCHANGED <<host, task, attempt, queue, threads, coros>>

\* gather returns: the results are merged and the checkpoint is saved.
Gathered ==
    /\ group = "gather" /\ AllEnded /\ In({"raised"}) = {}
    /\ group' = "saving" /\ queue' = Append(queue, Save)
    /\ UNCHANGED <<host, task, attempt, threads, coros>>

\* The store's save returns or raises, and so does _save_checkpoint.
SaveReturns ==
    /\ group = "saving" /\ Save \in threads
    /\ threads' = threads \ {Save} /\ group' \in {"saved", "raised"}
    /\ UNCHANGED <<host, task, attempt, queue, coros>>

\* The caller cancels run() in the save, which may be running then, and goes on.
CancelSave ==
    /\ group = "saving" /\ group' = "raised"
    /\ queue' = DropJob(Save)
    /\ UNCHANGED <<host, task, attempt, threads, coros>>

-----------------------------------------------------------------------------
Hears(s) == Call(s) \/ NextAttempt(s) \/ Return(s)

\* What asyncio, the pool and the runner do of themselves: no step waits for a
\* handler to return, because every call has a deadline.
Runner ==
    \/ \E s \in Batch : \/ Acquire(s) \/ Submit(s) \/ Deadline(s)
                        \/ host.listener = "none" /\ Hears(s)
    \/ Cleanup \/ ThreadTakes \/ Gathered \/ Raise

\* What handlers, event handlers, the store and the caller may do at any time.
Environment ==
    \/ \E s \in Batch : \/ ThreadReturns(s) \/ CoroutineReturns(s) \/ Unwind(s) \/ Stop(s)
                        \/ OrphanEnds(s) \/ Hears(s) \/ EventFails(s)
    \/ \E job \in threads : AbandonedEnds(job)
    \/ SaveReturns \/ Interrupt \/ CancelSave

Next == Runner \/ Environment

Spec == Init /\ [][Next]_vars /\ WF_vars(Runner)

\* A coroutine handler ends at last when it is cancelled.
CancelledHandlersEnd == WF_vars(\E s \in Batch : Unwind(s) \/ Stop(s))

\* An event handler returns or fails at last, awaited or not.
ListenersReturn ==
    /\ WF_vars(\E s \in Batch : Hears(s) \/ EventFails(s))
    /\ WF_vars(\E job \in threads : job[3] \in Emitting /\ AbandonedEnds(job))

StoreReturns == WF_vars(SaveReturns)

\* Threads that hang with the batch's handlers leave one to the runner.
RoomToSpare == Cardinality(Sync) < host.workers

-----------------------------------------------------------------------------
\* Where tasks, jobs, threads and coroutines can be, by type.
TypeOK ==
    /\ host \in Host
    /\ task \in [Batch -> TaskState] /\ attempt \in [Batch -> Nat]
    /\ queue \in Seq(Job \cup {Save}) /\ threads \subseteq Job \cup {Save}
    /\ coros \subseteq Batch
    /\ group \in Group

\* Two attempts of one step never run at the same time, although a timed-out
\* synchronous handler cannot be stopped: that is why its retries are skipped.
NoOverlap ==
    \A s \in Batch : Cardinality(Live(s)) + Cardinality({s} \cap coros) <= 1

\* A step reported successful has no effect still in progress.
SuccessIsQuiet == \A s \in In({"succeeded"}) : Live(s) = {} /\ s \notin coros

\* run() goes on to its report only when no coroutine handler is left.  When it
\* raises none is left either, except where a handler is a task of its own: there
\* a coroutine whose task was cancelled twice may be left running.
AsyncWorkIsOver ==
    /\ group \in {"saving", "saved"} => coros = {}
    /\ group = "raised" => IF host.direct THEN coros = {} ELSE coros \subseteq In({"cancelled"})

\* Once run() has left the batch no handler of it begins: neither a call that was
\* given up before a thread took it, nor a cancelled save, ever runs.
NothingStartsLate ==
    [][(group \in {"saving", "saved", "raised"}) =>
         /\ (threads' \subseteq threads \cup (IF group = "saving" THEN {Save} ELSE {}))
         /\ (coros' \subseteq coros)]_vars

(* The batch that WorkflowRun knows *)

Outside  == group \in {"cancelling", "cleanup", "raised"}
Place    == IF group = "gather" THEN "batch" ELSE IF Outside THEN "idle" ELSE "batchSave"
Seen(s)  == IF task[s] = "queued" THEN "queued" ELSE IF task[s] \in Ended THEN "done" ELSE "running"
Blank    == [state |-> "pending", output |-> "none"]
Came(s)  == IF task[s] = "succeeded" THEN [state |-> "succeeded", output |-> "output"]
            ELSE IF task[s] \in Ended THEN [state |-> "failed", output |-> "none"]
            ELSE Blank
Unasked  == [s \in Batch |-> [status |-> "none", context |-> [d \in Batch |-> "none"]]]

Whole == INSTANCE WorkflowRun WITH
    Steps <- Batch, Deps <- [s \in Batch |-> {}], Gated <- {}, Compensable <- {},
    Version <- 1, Outputs <- {"output"}, NoOutput <- "none", FailFast <- TRUE,
    pc        <- Place,
    task      <- [s \in Batch |-> IF group = "gather" THEN Seen(s) ELSE "none"],
    batch     <- [s \in Batch |-> IF Outside THEN Blank ELSE Came(s)],
    results   <- [s \in Batch |-> IF Place = "batchSave" THEN Came(s) ELSE Blank],
    begun     <- {s \in Batch : attempt[s] > 0},
    report    <- [status |-> IF Outside THEN "raised" ELSE "none", compensation |-> "not_requested"],
    phase     <- "forward", approvals <- Unasked, comps <- {}, undoBegun <- {},
    disk      <- [phase |-> "none", steps |-> [s \in Batch |-> Blank], approvals |-> Unasked, comps |-> {}]

\* With all attempts, deadlines, threads and cancellations a batch does only what
\* WorkflowRun lets it do: at most MaxConcurrency tasks run, each ends once with one
\* result, all are over when the results are merged, and once the invocation is
\* abandoned no step begins.
ImplementsBatch ==
    /\ group = "gather" /\ \A s \in Batch : Seen(s) = "queued"
    /\ [][\/ \E s \in Batch : Whole!StartHandler(s) \/ Whole!FinishHandler(s)
          \/ Whole!GatherBatch \/ Whole!Abort]_(Whole!vars)

(* Progress *)

\* A batch ends even if no synchronous handler ever returns: if its events need
\* the pool too, then only while the pool has a thread more than the batch has such
\* handlers.
BatchEnds ==
    CancelledHandlersEnd /\ ListenersReturn /\ (host.listener = "thread" => RoomToSpare)
      => <>(group \notin {"gather", "cancelling", "cleanup"})

\* The save of its results gets a thread although handlers that were let go never
\* return: each step leaves one thread behind at most.
ResultsAreSaved ==
    StoreReturns /\ RoomToSpare => ((group = "saving") ~> (group \in {"saved", "raised"}))
=============================================================================
