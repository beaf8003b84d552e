# TLA+ models and proofs of samsarix-orchestration

This directory models the workflow runner of `src/src/samsarix_orchestration`
(the package `helix_orchestration` is a shim that re-exports it), checks the
models with TLC and proves the main results with TLAPS. `PROJECT.json` says which
lines of the source every definition stands for.

    tlc -workers 2 -config Saga.cfg MCWorkflowRun.tla      # one run
    tlapm WorkflowRunProofs.tla                            # one module of proofs

## 1. The system

A *workflow* is a DAG of at most 256 steps. `WorkflowRunner.run` executes it in one
asyncio event loop: it repeatedly takes the steps whose dependencies have all
succeeded (the *ready group*), runs their handlers concurrently, and saves a
*checkpoint* when the group is done. Everything else a caller sees (resume,
approvals, compensation) is built on what those checkpoints hold.

| component | state it keeps | operations | what makes it correct |
|---|---|---|---|
| Runner: forward loop (`runtime.py` 688-1190) | local `results`, `pending`, the tasks of the batch | restore, block, ready group, batch, fail-fast, save | nothing durable is run again; no handler before its dependencies; the loop always goes on or ends |
| Runner: approvals (`runtime.py` 740-1119, 2028-2064) | local `approvals`, one request per gated step | request, decide, reject, withdraw siblings | a gated handler starts only under a durable approval of the outputs it receives; an undecided gate holds back the whole ready group; a rejection is final |
| Runner: compensation saga (`runtime.py` 1195-1325, 1600-1700) | the phase and `compensation_results` | turn, wave, save, seal | compensators run after the phase is durable, once per durable success, dependents first; no forward handler afterwards |
| Checkpoint record and rules (`runtime.py` 363-519, 1403-1564, 2096-2153) | the record itself | build, validate, restore, compare | the runner never offers a checkpoint the rules refuse; a checkpoint left behind can be resumed |
| Step and compensation attempts (`runtime.py` 1700-1979) | semaphore, attempt number, deadline, the handler's thread or coroutine | acquire, call, time out, retry, cancel | attempts of a step never overlap; success is quiet; a batch ends whatever its synchronous handlers do; its results get saved |
| Event dispatcher (`runtime.py` 579-641, `events.py`) | `_sequence`, `_lock` | `emit` | events arrive in order, a failure is never passed over, nobody waits for ever |
| In-memory and JSON stores (`checkpoints.py`) | one record per run | `load`, `save` | an accepted record is never lost or contradicted |
| SQLite store (`sqlite_store.py`) | one row per run, the schema's version | `load`, `save`, list, delete, initialise | the same, between processes; whoever opens a new database first, it is created once and whole |
| Workflow definitions (`spec.py`) and planning (`planning.py`) | none | validate, plan | exactly the valid DAGs are accepted; waves respect dependencies |
| Subprocess actions (`subprocess_actions.py`) | a child process and its pipes | start, feed, read, terminate | no deadlock on pipes, only whole outputs, no child survives its action |
| CLI, built-in actions, shims | none of interest | argument parsing, I/O | not modelled |

**How they interact.** `run` calls the store (`await store.load`, `await store.save`)
and the dispatcher (`await dispatcher.emit`), and creates one task per step of a
batch. Tasks share the semaphore, the dispatcher and the loop's thread pool;
synchronous handlers, synchronous event handlers and the bundled stores' I/O all
run in that pool. Two invocations meet only in the store.

**What is hard.** An invocation can end at any `await`: the process stops, the caller
cancels, an event handler raises, the store raises. Whatever was durable at that
moment is all that the next invocation sees, so the order of saves and effects is
the heart of the program. A handler in a thread cannot be stopped, so it can
outlive its deadline, its step and its run. A cancellation reaches tasks at
different awaits, and coroutines may answer it late or not at all. Approvals are
given in one invocation for outputs computed in another. A child process reads and
writes in its own order, ignores signals, or never ends, while a deadline strikes the
runner at any of its awaits. Two processes may create one database, and either may die
in the middle of it.

## 2. Modules

| module | what it is |
|---|---|
| `Checkpoints` | the durable record and the three judgements on it: well formed, monotonic, restorable. Pure operators. |
| `WorkflowRun` | all invocations of `run` for one `run_id`: forward loop, approvals, saga, saves, crashes, resumes. |
| `DurableSaga` | the abstract specification: what the application is promised about one run, without invocations, memory or crashes. |
| `WorkflowRunInvariant` | the inductive invariants `Consistent` and `Accounted`. |
| `WorkflowRunProofs`, `DurableSagaProofs` | the TLAPS proofs about `WorkflowRun`; the second ends in the refinement. |
| `StepAttempts` | one batch in full: semaphore, attempts, deadlines, events, threads, coroutines, cancellations, the pool, the save that follows. |
| `EventDispatcher` | concurrent `emit`s of one run, with cancellation and failing handlers. |
| `StoreConcurrency` | several invocations of one run that meet in the store; a save in its thread. Extends `Checkpoints`. |
| `StoreInitialization` | several processes that open one SQLite database for the first time. |
| `SubprocessAction` | one subprocess call: child, three pipes, readers, termination, cancellations. |
| `WorkflowPlan` | the validator's cycle search and the planner's waves, one step of the algorithms at a time. |
| `StepAttemptsProofs`, `EventDispatcherProofs`, `StoreConcurrencyProofs`, `StoreInitializationProofs`, `SubprocessActionProofs`, `WorkflowPlanProofs` | the proofs about each of these. |
| `MCWorkflowRun`, `MCStepAttempts`, `MCEventDispatcher`, `MCStoreConcurrency`, `MCWorkflowPlan` | graphs and model values for TLC. |

`WorkflowRun` extends `Checkpoints` and instantiates `DurableSaga` with a refinement
mapping. `StoreConcurrency` opens up `Save`, and has the invocations that `WorkflowRun`
makes one after the other overlap. `StepAttempts` opens up a task of `WorkflowRun` (one
start, one outcome) and instantiates it in turn: a batch with all its attempts is a batch of
`WorkflowRun`.
`EventDispatcher` opens up the failure of an event
handler, one of the causes of `Abort`. `SubprocessAction` opens up
one handler: `Cancel` there is a cancellation by `Deadline`, `Interrupt` or `Cleanup` of
`StepAttempts`. `StoreInitialization`
is what happens before the first `load` or `save`. `WorkflowPlan` shows that a definition
without a flaw has what `WorkflowAssumption` asks for, from which `WorkflowRun` starts.

### WorkflowRun

| variable | code |
|---|---|
| `disk` | what `store.load(run_id)` returns |
| `pc` | the await the invocation is at; `"idle"` between invocations |
| `phase`, `results`, `approvals`, `comps` | `phase`, `results`/`pending`, `approvals`, `compensation_results` of `run` |
| `task`, `batch` | the asyncio tasks of the running batch or wave, and their results |
| `report` | what the last invocation returned or raised |
| `begun`, `undoBegun` | history: handlers and compensators that were ever invoked |

The event loop runs the code between two awaits in one piece, and so does an
action. `StartFresh`, `Resume`, `Refuse` are the ways into `run`. `LoopEnds`, `Stall`,
`Deny`, `RequestApprovals`, `StayPaused`, `StartBatch` are the ways one pass of
`while pending` can go; blocking of dependents is part of each of them.
`StartHandler`, `FinishHandler`, `GatherBatch` are a batch; `StartWave`,
`StartCompensator`, `FinishCompensator`, `GatherWave`, `WavesDone` a wave.
`BeginCompensating`, `ContinueCompensating`, `Seal`, `ReportOutcome` are the end of `run`.
Each `Save...` action is one awaited save together with the code that follows it.
`Abort` is an invocation that ends at an await with nothing more saved.

Abstractions. A checkpoint belongs to one run, workflow and input; digests,
timestamps, prompts and reasons are left out, and a request carries the dependency
outputs its digest binds. A save commits when it returns: one that commits and is
interrupted before it returns is `Save...` followed by `Abort`. Events are not actions
(they save nothing); their failure is `Abort`. The semaphore's queue order is left
open. There is one invocation at a time, and a save of an invocation that has
ended no longer lands: both are the subject of `StoreConcurrency`.

### StepAttempts

One `asyncio.gather` over `_run_step` tasks; `_run_compensation` has the same shape. A
synchronous handler is a job of the pool (`queue`, then `threads`), a coroutine one
is in `coros`, and a synchronous one that returns an awaitable moves from the first
to the second. `Deadline` is `asyncio.wait_for` expiring at any moment after the call.

A task's events are the states of `Emitting`: `starting`, `reporting`, `retrying`,
`failing`, and `leaving`, which announces a cancellation. A coroutine event handler, or
none, is one step (`Heard`); a synchronous one is a job of the same pool (`Submit`), one at a
time because the dispatcher has one lock. It may fail (`EventFails`), except in `leaving`,
where the runner passes over it. An event has no deadline.

`host` is what the runner runs on, and constant: `direct` is Python from 3.12 on, where
`wait_for` awaits the handler in the step's own task; 3.11 gives it a task of its own.
`Interrupted` is where a cancellation takes a task. A coroutine that unwinds is awaited,
but on 3.11 a second cancellation ends `wait_for` and leaves the coroutine to itself
(`OrphanEnds`). From 3.12 a coroutine that swallows the cancellation lets the attempt go on
with its outcome (`Stop`). A cancellation is lost (`MayGoOn`) if a coroutine event handler
swallows it, and on 3.11 if it finds that the handler's own task has just ended.

`Interrupt` is the caller cancelling `run()`, any number of times; `Cleanup` is
runtime.py:1141-1143, a second round of cancellations for tasks that the first has not
ended. The save is one more job: it may raise (`SaveReturns`), and be cancelled queued or
running (`CancelSave`).

`ImplementsBatch` states that a batch is one of `WorkflowRun`'s (`Whole`): a task is
`queued` there until `Acquire`, `running` until it ends in any way, and `done` then, with a
result that `FinishHandler` may give it; `Gathered` is `GatherBatch`, and `Interrupt`,
`Cleanup` or a save that does not return are `Abort`. A task that raises counts as done
until then, since its siblings go on for a moment. `WorkflowRun` counts a step as begun once
it has its permit, which is earlier than its handler's first line: what is proved about
`begun` is proved about more than the handlers that ran.

### EventDispatcher

Several tasks emit through a list of handlers. A task is `waiting` for the lock
(`queue` is the order of the waiters, which a cancelled one leaves), `holding` it between two handlers, has `submitted` a job for a thread, is `calling` a
handler, or is `stopping` a cancelled coroutine. `Cancel` can strike at every await, and
only there; a cancelled thread call is abandoned and the lock released, a cancelled
coroutine is awaited first.

### StoreConcurrency

Each writer is a process with at most one invocation of `run`, cut down to what it loads,
starts and saves: `Resume` with its decisions, `RequestApprovals`, `Deny`, a batch
(`StartBatch`, one `StartHandler` per step, `FinishBatch`). `memory` is the checkpoint the
invocation builds on and `running` the steps whose handlers it has started, whether or not
they were ever started before. The workflow is of version 1 or 2, so there is no saga, and
`fail_fast` is on. A save is a job: the SQLite store performs it in one `Transaction`
(`BEGIN IMMEDIATE` to `commit`; the in-memory store, under its lock, is the same), the JSON
store in a `Compare` and a later `Replace`. `Cancel` ends an invocation and may leave its job
to run on; `Crash` takes the process and all its jobs. `MayInvoke` is the JSON store's request
for one active writer; `Patient` is whether the application also waits until abandoned
saves are over, which nothing in the API lets it observe.

The store compares whole records, timestamps included, so a save is also refused when
another invocation has meanwhile made the same result or request anew. Timestamps are left
out, and such a refusal is a `SaveFails`, which may strike any save.

An invocation that others have overtaken goes on until its next save is refused. With SQLite
it may start handlers in between whose success is durable by then, even beside a request that is
now pending or rejected: no refinement of `DurableSaga` holds for overlapping invocations.
`StartsAreJustified` is what does: each handler runs on durable outputs and, behind a gate,
under the durable approval of them. With one JSON writer at a time nothing durable runs again,
nor beside an open request.

### StoreInitialization

Each process is one store instance in `_initialize`: `Look` (the path and `was_new`), `Peek`
(the first transaction), `BeginImmediate`, `Decide` (identity, tables, refusal or schema),
`Commit`, `EnableWal`, `Check`. A process of `Readers` has `create=False`. SQLite is what it
promises: one write lock, an atomic commit, a hot journal that the next connection rolls
back, and `SQLITE_BUSY` for a waiter that gives up. `wasNew` is remembered across the await
for the lock, as in the code. Schema, identity and version are written in one
transaction, so the content is `none`, `ours` or another application's; such another
application sets no `application_id`.

### SubprocessAction

`pc` is the await of `_run_subprocess` and the functions it calls: `draining` and `closing`
are `_write_input`, `gathering` the three tasks, `grace` and `waiting` are
`_terminate_process`, `joining` the final `gather`. Each reader is a task of its own
(`Take`, `AtEnd`). Bytes come in pieces, through asyncio's buffer (`unsent`), the pipe
(`inPipe`), and the stream's pipe and reader (`held`, `taken`). `Buffer` is what these two hold
before the child blocks: more than `Limit`, because the code makes each `StreamReader` with a
limit above that of the output. The child is any program of
one thread; `doing` is the operation that may block it. `Cancel` is what the deadline or
the end of the run does, at the await the call is at: in `draining` the `finally` clause goes
on to wait for the writer, and in `starting` asyncio kills a child it has already started
(`CancelSpawn`). `direct` is Python from 3.12 on; on 3.11 the call is a task of its own, which
only the first cancellation reaches (`Reaching`).

### WorkflowPlan

`visiting`, `visited` and the frames of the recursive `visit` (`stack`), then `completed` and
`waves`, then `best_chain`. Steps and dependencies are visited in any order, which covers
the order of every definition. A flawed entry (an unknown step, or the step itself) is
reported and the search goes on without it, as in the code.

## 3. Runs

| run | instance | what it shows |
|---|---|---|
| `saga` | version 3, diamond a→b,c→d and e; gates b, c; compensable a, b, c, e | the saga and recovery rules, every save is accepted, every invocation ends, a persevering application gets the run completed, and the refinement of `DurableSaga` |
| `gates` | version 2, `fail_fast=False`, fork a→b,c,d, then b→f, and e; gates b, c; two outputs | approvals, barrier, binding of approvals to outputs, rejection, through work that goes on after a failure and through the stall |
| `attempts` | one coroutine and two synchronous steps, one retry; 2 permits; five hosts: both versions of `wait_for`, 1 to 3 threads, no event handler, a coroutine and a synchronous one | attempts do not overlap, no coroutine outlives the batch beyond the stated exception, nothing starts late, the refinement of a batch of `WorkflowRun`; the batch ends and its results get a thread to be saved, though synchronous handlers may hang for ever |
| `events` | three tasks, one coroutine and one synchronous handler | order, no lost event, coroutines one at a time, no emit is left behind in the queue or waits for ever |
| `stores` | four steps, c after a and the gate g after b; two outputs; two writers; SQLite, or JSON with a patient application | what an invocation builds on stays durable, one decision counts, decisions are final, and every handler that starts runs on durable outputs and approvals |
| `subprocess` | inputs that do and do not fit into the buffers, output up to five pieces over a limit of one, two cancellations, both versions of `wait_for` | no child survives its call, only whole outputs, no deadlock on the pipes, a call can be ended by the cancellations that reach it |
| `plan` | every graph of four steps, and each with a flawed entry | the verdict of the validator, the planner's progress, the waves |
| `first_open` | three processes, one with `create=False`, another application | an opened database is whole, content stays, no refusal without reason, whoever retries succeeds |
| `rejected_saga`, `stalled_chain`, `abandoned_save`, `stuck_writer` | small instances of the above | violations: section 6 |

**Bounds and why they are enough.** A workflow graph is a constant, so `WorkflowRun` is
finite without any counter: invocations, crashes and resumes are unbounded. Five or
six steps give every pattern the rules distinguish: a gate and an ungated step ready
together, two gates ready together, a step ready after a gate, a compensable step
below a non-compensable one, an independent step, and a batch larger than the
semaphore. The `gates` run has two outputs because approvals bind outputs; one is
enough where nothing compares them. `StepAttempts` bounds attempts by `Retries` and has
fewer permits than steps; two of its pools are as small as the number of synchronous steps or
smaller, so that hung handlers can fill them, and the others have one thread more.
Cancellations of a batch are unbounded. `EventDispatcher` bounds the
events of a task by `MaxEmits`, after which only its cancellation event remains;
three tasks give one holder and a queue of two, from the middle of which one may be
cancelled. `StoreConcurrency` bounds by `MaxAbandoned` the abandoned saves that still run
(one is enough to land at any later moment); invocations are unbounded. Its two outputs let two
invocations differ in the result of the same step; the writers are interchangeable, so
`SYMMETRY` is sound (the run has no liveness).
`SubprocessAction` bounds what the child writes (`MaxOutput`: the limit, one more, and enough
beyond it to fill pipe and reader again) and cancellations (`MaxCancels`: the deadline and
whatever ends the run); its inputs are one that the buffer takes and one that needs the child
to read. With `Limit` 1 and `Buffer` 2 a child can exceed its limit, and beyond it block.
`WorkflowPlan` has all graphs of four steps, in which cycles of every length up to
four, steps that share dependencies and steps on two paths occur; the steps other than the
one that may be flawed are interchangeable, so `SYMMETRY` is sound (the run has no liveness).
In `StoreInitialization` crashes and retries are unbounded; three processes give one that
commits, one that waits and one that looked before. Deadlock is checked for `WorkflowRun`,
`StoreConcurrency` and `StoreInitialization`; the others end (a batch is over, all events are
emitted, the call or the plan is done) and say so in their cfg.

**Fairness.** `WorkflowRun!Spec` has none: an invocation waits for handlers, event
handlers and the store, and nothing in the code obliges all of these to answer (a
subprocess action may never do so, `stuck_writer`; events and saves have no deadline). So
`EveryInvocationEnds` and `RunsComplete` state it as their premise, `HostAnswers == WF(Run)`,
and show that the loops of the runner end when their awaits do. Nothing obliges anybody to
invoke, decide or abort. `RunsComplete` also has as premises
`SF(Persevere)`, an assumption on the application (it calls `run` again and
answers every request it is shown; strong because `Abort` can keep interrupting),
and that interruptions and compensation failures cease at last. An error that the invocation
raises of itself is not such an interruption (`Disturbed` excludes the steps of `Run`).
`StepAttempts!Spec` has `WF(Runner)`, which contains no return of a handler, an event handler
or the store: asyncio, the pool, deadlines. `BatchEnds` has as its premises that a cancelled
coroutine ends (`CancelledHandlersEnd`) and an event handler returns or fails
(`ListenersReturn`), and, if event handlers are synchronous, that the pool has more threads
than the batch has synchronous handlers (`RoomToSpare`); synchronous handlers may hang for
ever. `ResultsAreSaved` has `RoomToSpare` and `StoreReturns`. Without any one of these premises
TLC finds a violation.

`EventDispatcher!Spec` has weak fairness for
each task, which includes that a handler an emit awaits returns: the dispatcher has no
deadline, so this is an assumption on the application, and with it that the pool
has a free thread. `SubprocessAction!Spec` has weak fairness of `Runner`, the event loop and
the kernel, and of nothing the child does: `ExchangeEnds` has as its premise that the child
goes on within its limits, `EndsWhenCancelled` that the deadline passes, or that whoever
wants the call ended cancels it again (from Python 3.12 on). `StoreInitialization!Spec` has weak fairness of each
process's next step; `OpensAtLast` has as its premises that the caller retries, that
interruptions cease, and that the path is not another application's.

## 4. Proofs

### WorkflowRun

`WorkflowRunProofs` and `DurableSagaProofs` prove, for every workflow graph, every set of
gates and compensable steps, every version, output set, concurrency and fail-fast setting:

| theorem | property |
|---|---|
| `TypeCorrect` | `TypeOK` |
| `ConsistentAlways` | `Consistent`, the inductive invariant |
| `ApprovalIsDurableFirst` | `DurableApprovalBeforeHandler` |
| `BarrierHolds` | `ApprovalBarrier` |
| `ApprovedOutputsAreSeen` | `HandlerSeesApprovedOutputs` |
| `RejectionIsFinal` | `NoHandlerAfterRejection` |
| `NothingIsReplayed` | `NoReplay` |
| `PhaseIsDurableFirst` | `CompensationAfterDurablePhase` |
| `SagaIsOneWay` | `NoForwardAfterCompensation` |
| `DirectDependentsUndoneFirst` | `DirectReverseOrder` |
| `SavesAreAccepted` | `SaveNeverRefused` |
| `AccountedAlways` | `Accounted`, the second inductive invariant |
| `ReportAlwaysDurable` | `ReportIsDurable` |
| `ResumesAlwaysOutsideGaps` | `ResumesOutsideGaps` |
| `ContractAlwaysKept` | `ImplementsContract`: `WorkflowRun` implements `DurableSaga` |
| `CompensationNeverStalls` | a compensation has a wave to start or nothing left: "Compensation graph unexpectedly stalled." is never raised |
| `FailFastNeverStalls` | `NeverStalls`, with `FailFast` |
| `EveryCheckpointResumesBeforeSagas` | `EveryCheckpointResumes`, with `Version < 3` |

They assume `WorkflowAssumption` (what `validate_workflow_data` guarantees: dependencies
are steps, finitely many and at least one, no cycle, gates need version 2, compensation
version 3) and `RunnerAssumption`; TLC evaluates both in every `MCWorkflowRun` run.

The argument. The properties speak of what is durable while a handler runs, but the
code decides from what is in memory, so none of them is inductive. `Consistent` supplies
the link: the memory of a live invocation extends the checkpoint it was restored from
(`MemoryExtendsDisk`), phase in memory, durable phase and position agree (`PhasesAgree`),
checkpoints and requests are made only of durable successes (`DiskSound`,
`RequestsSound`), compensations belong to eligible steps (`CompensationsSound`), and the
tasks that exist were allowed to (`TasksSound`). The three history properties are
conjuncts because a save must preserve them. The proof has one lemma per action, or per
group of actions that share a shape; `SavedDurable` and `AfterForwardSave` state once
what a save makes true. The others follow from `Consistent` and, for the action
properties, from a look at the two actions that add to `begun` and `undoBegun`.

The refinement needs more: not only what memory and checkpoint agree on, but how each came
about. `Accounted` says so: what began had its dependencies, and an outcome other than a
success comes from a failure, a rejection or a step that depends on one (`RecordSound`,
`ResultsSound`, `OutcomeSound`); how memory differs from the checkpoint just before each kind
of save (`DecisionsSound`, `BatchSound`, `UndoSound`). With it each save is one step of the
contract (`Ask`, `Decide`, `Withdraw`, `Record`, `Turn`, `RecordUndone`, `Finish`, `FinishUndo`);
starting a handler or compensator is one too (`Begin`, `BeginUndo`), and all other steps,
crashes among them, leave unchanged what the contract speaks of. `DurableSagaProofs` has one
lemma per action for `Accounted`, then one per step of the contract and one for the stutters.

Two of the code's "cannot happen" errors are settled. A wave exists while something remains
(`CompensationNeverStalls`): of what remains, some step is needed by no other, so the branch of
`StartWave` that raises is never taken. The acyclicity of `WorkflowAssumption` speaks of `Precedes`,
the smallest closed relation, and the proof that a finite set has a first and a last step
(`FirstOfSteps`, `LastOfSteps`) takes a smallest set that is closed below, or above, instead of
an induction. The loop's own stall error is reachable without `fail_fast` (`stalled_chain`), and
`FailFastNeverStalls` shows that this is the only way: with it (`FailsFast`) nothing is marked
failed or blocked while the loop goes on, so the first pending step is ready. In the same
way `EveryCheckpointResumesBeforeSagas` shows that the violation of `rejected_saga`
needs compensation.

### The other modules

| module | theorems (property) | for every |
|---|---|---|
| `StepAttemptsProofs` | `BatchTypes` (`TypeOK`), `AttemptsNeverOverlap` (`NoOverlap`), `SuccessAlwaysQuiet` (`SuccessIsQuiet`), `AsyncWorkAlwaysOver` (`AsyncWorkIsOver`), `NothingEverStartsLate` (`NothingStartsLate`), `BatchIsWorkflowRuns` (`ImplementsBatch`) | batch, host, number of permits and cancellations, retries |
| `EventDispatcherProofs` | `EmitTypes` (`TypeOK`), `OrderAlwaysKept` (`EventsInOrder`), `FailureNeverPassedOver` (`NoEventIsLost`), `CoroutinesTakeTurns` (`CoroutinesOneAtATime`), `NobodyIsEverStranded` (`NobodyIsStranded`) | set of tasks, list of handlers |
| `StoreConcurrencyProofs` | `StoreTypes` (`TypeOK`), `ViewAlwaysDurable` (`ViewIsDurable`), `OneDecisionAlwaysCounts` (`OneDecisionCounts`), `DecisionsAlwaysFinal` (`DecisionsAreFinal`), `StartsAlwaysJustified` (`StartsAreJustified`) | number of writers, workflow of version 1 or 2 |
| `StoreInitializationProofs` | `DatabaseAlwaysSound` (`DatabaseIsSound`), `RefusalAlwaysJustified` (`RefusalIsJustified`), `ContentAlwaysStays` (`ContentStays`) | number of processes |
| `SubprocessActionProofs` | `CallTypes` (`TypeOK`), `ChildAlwaysReaped` (`ChildIsReaped`), `OutputAlwaysWhole` (`OutputIsWhole`) | sizes, limits, number of cancellations |
| `WorkflowPlanProofs` | `PlanTypes` (`TypeOK`), `VerdictAlwaysRight` (`VerdictIsRight`), `PlanNeverStuck` (`PlanIsNeverStuck`), `PlanIsRight` (`WavesAreChains`), `AcceptedDefinitionsAreSound` | finite graph, flawed or not |

Each module names its inductive invariant at the top and says in its comments what each part
is for.

- `StepAttempts` (`BatchInv`): every job in the queue or in a thread belongs to the attempt its
  step is in, or to one that was abandoned; at most one of a step is live. `BatchIsWorkflowRuns`
  adds `Fenced` (only a cancellation stops tasks, it leaves none waiting for a permit, and
  nothing is saved after it) and has one lemma per kind of step of `WorkflowRun`; all that
  happens to an attempt between its permit and its task's end is a stutter there.
  `AsyncWorkAlwaysOver` needs `AttemptsSound`: a live coroutine has a task that awaits it, or
  was left alone by a cancelled one, on Python 3.11 only.
- `EventDispatcher` (`EmitInv`): exactly the task that holds the lock is with a handler; what a
  handler has seen is older than any event it is still to be given; and the handlers before
  the one a task has reached have accepted its event. `NobodyIsEverStranded` adds that
  the queue has the waiting tasks, each once (`QueueSound`), and that a task inside its handler
  has the thread or coroutine that will answer it (`CallsSound`); the lemmas about
  sequences say what a queue that loses its head or a cancelled member still holds.
- `StoreConcurrency`: a compared save stays compared (with JSON, because only one save or
  invocation goes on at a time; with SQLite, because comparison and replacement are one
  step), so a live memory is within the stored checkpoint. The theorems assume
  `Coordinated`: the store is SQLite, or the application is patient. Without it
  `DecisionsAreFinal` is false (`abandoned_save`). `StartsAlwaysJustified` adds what every
  checkpoint says of its requests, stored, remembered or on its way (`RecordsSound`: a request is
  of a gate whose dependencies have succeeded, for their outputs), and that with JSON a live
  memory is the stored checkpoint, not just within it (`ViewIsCurrent`).
- `StoreInitialization`: `DatabaseIsSound` is inductive as it stands. It ties the lock to the
  place of its holder and a remembered `was_new` to what has been written since.
- `SubprocessAction`: what each place of the call says about the child, and what a reader
  that is done has seen of its stream.
- `WorkflowPlan`: the search's frames are a path, `visiting` is the set of steps on it, and
  `visited` is closed under dependencies and has no knot. A cycle that is found is a knot on
  the path; if none is found, `visited = Steps` has none, and a wave that is empty before the
  end would be one. `AcceptedDefinitionsAreSound` closes the chain to the runner: what the
  validator accepts satisfies the part of `WorkflowAssumption` about dependencies.

**Only model-checked**: liveness (`EveryInvocationEnds`, `RunsComplete`, `BatchEnds`,
`ResultsAreSaved`, `EmitsEnd`, `ExchangeEnds`, `EndsWhenCancelled`, `OpensAtLast`), which the
prover cannot do under fairness. Every invariant and every action property of the passing runs is
a theorem.

## 5. Properties and hazards

`PROJECT.json` lists the hazards, each at its line with the properties that cover it.
The main ones: crash between effect and save (`NoReplay`, `ImplementsContract`), decision
and handler in different invocations (`DurableApprovalBeforeHandler`,
`HandlerSeesApprovedOutputs`), rejection interrupted half-way
(`NoHandlerAfterRejection`), waves chosen over several invocations
(`DirectReverseOrder`), a legal history whose save or resume is refused
(`SaveNeverRefused`, `ResumesOutsideGaps`), effects that outlive their deadline
(`NoOverlap`, `AsyncWorkIsOver`, `NothingStartsLate`), hung threads in the pool that
everything shares (`BatchEnds`, `ResultsAreSaved`), cancellation
around the dispatcher's lock (`EventsInOrder`, `NoEventIsLost`, `NobodyIsStranded`,
`EmitsEnd`), two
invocations that save over each other (`ViewIsDurable`, `OneDecisionCounts`,
`DecisionsAreFinal`, `StartsAreJustified`), two processes that create one database (`RefusalIsJustified`,
`ContentStays`, `OpensAtLast`), a child that has its own order of reads and writes or ignores
its runner (`ExchangeEnds`, `ChildIsReaped`, `EndsWhenCancelled`), and a planner that trusts the
validator (`VerdictIsRight`, `PlanIsNeverStuck`).

## 6. Where code and documentation disagree

Shown by a run whose one property TLC violates:

1. `rejected_saga`: a run rejected with something to compensate saves a checkpoint that
   `_restore_checkpoint` refuses, since it takes the rejected step for a successful one.
   If it is interrupted then, its compensation can never be finished. A second kind of
   checkpoint is refused too: an interruption between the last wave's save and the completing
   save leaves one with nothing left to compensate. `docs/ARCHITECTURE.md` says that process
   loss leaves the phase resumable. `ResumesOutsideGaps` names the two and shows that there is
   no third.
2. `stalled_chain`: with `fail_fast=False` a pass blocks direct dependents only; when
   nothing else is ready the loop raises "Workflow stalled despite successful
   validation." where the format promises blocked steps and a result.
3. `abandoned_save`: with the JSON store, a save that a cancelled `run` left in its thread
   can replace what a later `run` made durable, and turn a rejection back into an
   approval, although the application ran one `run` at a time.
4. `stuck_writer`: a deadline that finds a subprocess call still writing its input does not
   terminate the child. The `finally` clause of `_write_input` awaits `wait_closed()`, which
   waits for the child to read or to exit; `_terminate_process` comes after it. With 800 KB
   of input and a child that sleeps for six seconds without reading, a deadline of one second
   ends the call after six; a child that writes over its limit and never reads keeps the call
   for ever. Inputs of up to 100 KB fit into the buffers and are not affected. From Python 3.12
   on a second cancellation ends the call (`EndsWhenCancelled`); on 3.11 it ends only the
   step, and the call goes on in a task that nobody awaits.

Seen while modelling, with no run of their own:

5. Waves look at direct dependents only, so two compensable steps with a non-compensable
   one between them are compensated at the same time; `DirectReverseOrder` is what holds. The
   documents say reverse dependency order.
6. A synchronous handler that itself raises `TimeoutError` loses its retries, as if the
   runner's deadline had passed (`runtime.py:1916`).
7. After a cancellation a synchronous event handler may still run in its thread while the
   next event's handler starts, though handlers are documented to run one at a time;
   `CoroutinesOneAtATime` is what holds.
8. A second cancellation that arrives while a child is being terminated skips the kill: a
   child that ignores SIGTERM lives on (`subprocess_actions.py:341`). `ChildIsReaped` states
   this exception.
9. After a first commit that was interrupted, a store that looked at the file before it was
   rolled back refuses it as "an existing unowned SQLite database"; the next attempt
   succeeds. `RefusalIsJustified` states this exception, `OpensAtLast` the recovery.
10. On Python 3.11 a second cancellation (a deadline and then the caller's, or the caller's and
    then the cleanup of `runtime.py:1142`) ends `wait_for` while the handler's coroutine is still
    unwinding: `run()` raises and the coroutine, a subprocess call among them, goes on.
    `AsyncWorkIsOver` states the exception.
11. Synchronous handlers, synchronous event handlers and saves share the loop's default pool.
    Where hung handlers fill it, an event is never delivered and a save never begins, and as
    neither has a deadline `run()` does not end. `RoomToSpare` is the premise under which this
    cannot happen within one batch; threads left behind by earlier batches count too.
12. Two invocations of one run in a SQLite store: the one that is overtaken starts the handlers
    of its batch, whose success may be durable, even beside a request that is now pending or
    rejected, before its save is refused. `StartsAreJustified` is what holds.
13. `validate_workflow_data` reports more than 256 steps as an issue and still searches them for
    cycles, recursively: a dependency chain longer than Python's recursion limit raises
    `RecursionError` instead of returning the issues.

## 7. Not modelled

- CLI, built-in actions and shims: argument parsing and I/O around one call.
- Contents of events, digests, timestamps, prompts, size limits and JSON shape: no property
  here is about them.
- Handlers' own effects: a handler is an arbitrary choice of outcome and duration.
- Threads that batches before this one have left behind, and more than one event handler in a
  batch: `StepAttempts` begins with an idle pool, and `EventDispatcher` has the list of handlers.
- Definitions of more than 256 steps: `WorkflowPlan` visits without a recursion limit.
- `spec.py`: the checks of single fields. They are independent predicates on one value each,
  and the model begins where they interact, at the dependency graph.
- `sqlite_store.py`: listing, deletion and inspection, which read or delete one row on an
  operator's request, and the checks of columns and sizes.
- Descriptive fields of a plan and its rendering.
- Grandchildren of a subprocess, and a child that closes its streams before it exits.

## 8. Plan

Built in this order: the core (`Checkpoints`, `WorkflowRun`, `DurableSaga`, their invariants and
proofs), `StepAttempts`, `EventDispatcher`, `StoreConcurrency`, `SubprocessAction`, `WorkflowPlan`,
`StoreInitialization`, the proofs about each, and the refinement. What is left:

1. Deletion of a checkpoint by an operator beside a running invocation, as another writer of
   `StoreConcurrency`.
2. The saga in `StoreConcurrency` (version 3), so that two invocations that compensate at the
   same time are covered, and an abstract specification of overlapping invocations, which
   `DurableSaga` is not.
3. A child of `SubprocessAction` that closes its streams early or shares them with a
   grandchild, where end of file and exit come apart.
4. Proofs: a safety form of `ExchangeEnds` (some process of the exchange can always act: the
   pipes are never all waited for at once), and the first opening as an implementation of
   "the database is created once, by one process".
