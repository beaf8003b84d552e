------------------------------ MODULE WorkflowRun ------------------------------
(***************************************************************************)
(* WorkflowRunner.run for one run_id: the invocations of it that an        *)
(* application makes one after the other, the checkpoint they leave for    *)
(* each other, and the handlers and compensators they start.               *)
(*                                                                         *)
(* An invocation lives in memory (pc, phase, results, approvals, comps,    *)
(* task, batch); only disk survives it.  It can end at any await with      *)
(* nothing more saved: the process stops, the caller cancels, an event     *)
(* handler fails (EventDeliveryError), the store fails.  Abort is all of   *)
(* these.  Between two awaits the code is atomic (one event loop), so an   *)
(* action here is the code from one await that matters to the next.        *)
(***************************************************************************)
EXTENDS Checkpoints

CONSTANTS
    FailFast,        \* WorkflowRunner.fail_fast
    MaxConcurrency   \* the workflow's max_concurrency

ASSUME RunnerAssumption == FailFast \in BOOLEAN /\ MaxConcurrency \in Nat \ {0}

VARIABLES
    disk,       \* what the checkpoint store returns for this run_id
    pc,         \* where the invocation is; "idle" between invocations
    phase,      \* its saga phase
    results,    \* the local dict results (NotRun: still in pending)
    approvals,  \* the local dict approvals, by step
    comps,      \* the keys of the local dict compensation_results
    task,       \* the asyncio task of each step of the running batch or wave
    batch,      \* the results of those tasks that are done
    report,     \* what the last invocation returned or raised
    begun,      \* history: steps whose handler was ever invoked
    undoBegun   \* history: steps whose compensator was ever invoked

memory == <<phase, results, approvals, comps>>
work   == <<task, batch>>
vars   == <<disk, pc, memory, work, report, begun, undoBegun>>

\* The awaited saves, by what the code does after each.
ForwardSave == {"decisionSave", "cancelSave", "requestSave", "batchSave"}
PhaseSave   == {"compensatingSave", "compSave", "completeSave"}
SavePoint   == ForwardSave \cup PhaseSave
PC          == {"idle", "forward", "batch", "finish", "compensate", "compBatch"}
                 \cup SavePoint

TaskState == {"none", "queued", "running", "done"}
NoTasks   == [s \in Steps |-> "none"]
NoBatch   == NoResults

Report == [status : {"none", "raised", "paused", "succeeded", "failed", "rejected"},
           compensation : {"not_requested", "succeeded", "failed"}]
Returned(status, compensation) == [status |-> status, compensation |-> compensation]
NoReport == Returned("none", "not_requested")
Raised   == Returned("raised", "not_requested")

\* run()'s status of a run whose every step has a result.
RunStatus(res) ==
    IF InState(res, "failed") # {} THEN "failed"
    ELSE IF Succeeded(res) = Steps THEN "succeeded"
    ELSE IF InState(res, "rejected") # {} THEN "rejected"
    ELSE "failed"

Init ==
    /\ disk = NoCheckpoint
    /\ pc = "idle"
    /\ phase = "forward" /\ results = NoResults /\ approvals = NoApprovals /\ comps = {}
    /\ task = NoTasks /\ batch = NoBatch
    /\ report = NoReport
    /\ begun = {} /\ undoBegun = {}

\* run() returns or raises: its local variables are gone.
EndInvocation(outcome) ==
    /\ pc' = "idle"
    /\ phase' = "forward" /\ results' = NoResults /\ approvals' = NoApprovals /\ comps' = {}
    /\ task' = NoTasks /\ batch' = NoBatch
    /\ report' = outcome

-----------------------------------------------------------------------------
(* Invoking run() *)

StartFresh ==
    /\ pc = "idle" /\ disk.phase = "none"
    /\ pc' = "forward"
    /\ report' = NoReport
    /\ UNCHANGED <<disk, memory, work, begun, undoBegun>>

\* Where run() goes once the checkpoint is restored and decisions are saved.
AfterRestore(ph, res) ==
    IF ph = "forward" /\ Pending(res) # {} THEN "forward" ELSE "finish"

\* Mutant: decisions are applied in memory and saved with the next checkpoint.
DecisionsUnsaved(decided, ph, res) == AfterRestore(ph, res)

\* Decisions are saved before anything else happens.
FirstStop(decided, ph, res) == IF decided # {} THEN "decisionSave" ELSE AfterRestore(ph, res)

RestoredResults == disk.steps

\* run(resume=True, approval_decisions=...): approve the requests of yes,
\* reject those of no.
Resume(yes, no) ==
    LET awaiting   == {s \in Gated : disk.approvals[s].status = "pending"}
        decided(s) == IF s \in yes THEN "approved" ELSE "rejected"
    IN  /\ pc = "idle" /\ disk.phase # "none" /\ Restorable(disk)
        /\ yes \cup no \subseteq awaiting /\ yes \cap no = {}
        /\ yes \cup no # {} => disk.phase = "forward"
        /\ phase' = disk.phase /\ results' = RestoredResults /\ comps' = disk.comps
        /\ approvals' = [s \in Steps |-> IF s \in yes \cup no
                                           THEN [disk.approvals[s] EXCEPT !.status = decided(s)]
                                           ELSE disk.approvals[s]]
        /\ pc' = FirstStop(yes \cup no, disk.phase, RestoredResults)
        /\ report' = NoReport
        /\ UNCHANGED <<disk, work, begun, undoBegun>>

\* run() raises before it changes anything.  Some call always does: a fresh
\* start of a known run, a resume of an unknown one or of a checkpoint that
\* _restore_checkpoint refuses, a decision for a request that is not pending.
Refuse ==
    /\ pc = "idle"
    /\ report' = Raised
    /\ UNCHANGED <<disk, pc, memory, work, begun, undoBegun>>

\* The process stops, the caller cancels, an event handler or the store fails.
Abort ==
    /\ pc # "idle"
    /\ EndInvocation(Raised)
    /\ UNCHANGED <<disk, begun, undoBegun>>

-----------------------------------------------------------------------------
(* The forward loop, one pass of "while pending" *)

\* Steps the pass marks blocked: it looks at the results once, before marking.
BlockedByDependency(res) ==
    {s \in Pending(res) : \E d \in Deps[s] : d \notin Pending(res) /\ d \notin Succeeded(res)}

Block(set, res) == [s \in Steps |-> IF s \in set THEN TerminalWithoutRun("blocked") ELSE res[s]]
Marked(res)     == Block(BlockedByDependency(res), res)

\* Mutant: a rejected step is merely left out of the ready group.
ReadyUnlessRejected(res) ==
    {s \in Pending(res) : Deps[s] \subseteq Succeeded(res) /\ approvals[s].status # "rejected"}

Ready(res)      == {s \in Pending(res) : Deps[s] \subseteq Succeeded(res)}

HasStatus(set, statuses) == {s \in set \cap Gated : approvals[s].status \in statuses}

\* The approvals of a pass that denies nothing: every ready gate has a request.
WithRequests(ready, res) ==
    [s \in Steps |-> IF s \in HasStatus(ready, {"none"}) THEN Request(s, res) ELSE approvals[s]]

\* The pending requests a rejection takes with it.
Siblings == {s \in Steps : approvals[s].status = "pending"}
Cancelled == [s \in Steps |-> IF s \in Siblings THEN [approvals[s] EXCEPT !.status = "cancelled"]
                                                ELSE approvals[s]]

\* Mutant: a ready step whose request was only cancelled ends rejected too.
RejectDenied(res) ==
    LET denied == HasStatus(Ready(res), {"rejected", "cancelled"})
    IN  [s \in Steps |-> IF s \in denied THEN TerminalWithoutRun("rejected")
                         ELSE IF s \in Pending(res) THEN TerminalWithoutRun("blocked")
                         ELSE res[s]]

\* Ready steps whose request was rejected end rejected, every other one blocked.
RejectRun(res) ==
    LET rejected == HasStatus(Ready(res), {"rejected"})
    IN  [s \in Steps |-> IF s \in rejected THEN TerminalWithoutRun("rejected")
                         ELSE IF s \in Pending(res) THEN TerminalWithoutRun("blocked")
                         ELSE res[s]]

\* Nothing is ready: the forward part is over, or the loop raises "stalled".
LoopEnds ==
    LET res == Marked(results)
    IN  /\ pc = "forward" /\ Ready(res) = {} /\ Pending(res) = {}
        /\ pc' = "finish" /\ results' = res
        /\ UNCHANGED <<disk, phase, approvals, comps, work, report, begun, undoBegun>>

Stall ==
    LET res == Marked(results)
    IN  /\ pc = "forward" /\ Ready(res) = {} /\ Pending(res) # {}
        /\ EndInvocation(Raised)
        /\ UNCHANGED <<disk, begun, undoBegun>>

\* A ready step was rejected (or cancelled with one that was): the run ends,
\* after a save when requests of other steps have to be cancelled.
Deny ==
    LET res    == Marked(results)
        denied == HasStatus(Ready(res), {"rejected", "cancelled"})
    IN  /\ pc = "forward" /\ denied # {}
        /\ IF Siblings = {}
             THEN pc' = "finish" /\ results' = RejectRun(res) /\ UNCHANGED approvals
             ELSE pc' = "cancelSave" /\ results' = res /\ approvals' = Cancelled
        /\ UNCHANGED <<disk, phase, comps, work, report, begun, undoBegun>>

\* Some ready gate is undecided: nothing of the ready group starts.
RequestApprovals ==
    LET res     == Marked(results)
        ready   == Ready(res)
        created == HasStatus(ready, {"none"})
    IN  /\ pc = "forward"
        /\ HasStatus(ready, {"rejected", "cancelled"}) = {}
        /\ created # {}
        /\ pc' = "requestSave" /\ results' = res /\ approvals' = WithRequests(ready, res)
        /\ UNCHANGED <<disk, phase, comps, work, report, begun, undoBegun>>

StayPaused ==
    LET ready == Ready(Marked(results))
    IN  /\ pc = "forward"
        /\ HasStatus(ready, {"rejected", "cancelled", "none"}) = {}
        /\ HasStatus(ready, {"pending"}) # {}
        /\ EndInvocation(Returned("paused", "not_requested"))
        /\ UNCHANGED <<disk, begun, undoBegun>>

StartTasks(set) ==
    /\ task' = [s \in Steps |-> IF s \in set THEN "queued" ELSE "none"]
    /\ batch' = NoBatch

\* Mutant: only a denial holds the ready group back.
NothingDenied(ready) == HasStatus(ready, {"rejected", "cancelled"}) = {}

AllApproved(ready) == HasStatus(ready, ApprovalStatus \ {"approved"}) = {}

StartBatch ==
    LET res   == Marked(results)
        ready == Ready(res)
    IN  /\ pc = "forward" /\ ready # {}
        /\ AllApproved(ready)
        /\ pc' = "batch" /\ results' = res /\ StartTasks(ready)
        /\ UNCHANGED <<disk, phase, approvals, comps, report, begun, undoBegun>>

-----------------------------------------------------------------------------
(* A batch of steps, or a wave of compensations, under the semaphore *)

Running == {s \in Steps : task[s] = "running"}

\* The task of s passes the semaphore and invokes its handler.
Acquire(s) ==
    /\ task[s] = "queued"
    /\ Cardinality(Running) < MaxConcurrency
    /\ task' = [task EXCEPT ![s] = "running"]

\* _run_step raises when its gate is not approved (the invocation Aborts).
StartHandler(s) ==
    /\ pc = "batch" /\ Acquire(s)
    /\ s \in Gated => approvals[s].status = "approved"
    /\ begun' = begun \cup {s}
    /\ UNCHANGED <<disk, pc, memory, batch, report, undoBegun>>

StartCompensator(s) ==
    /\ pc = "compBatch" /\ Acquire(s)
    /\ undoBegun' = undoBegun \cup {s}
    /\ UNCHANGED <<disk, pc, memory, batch, report, begun>>

\* _run_step or _run_compensation returns: its last attempt succeeded or failed.
FinishTask(s, result) ==
    /\ task[s] = "running"
    /\ task' = [task EXCEPT ![s] = "done"]
    /\ batch' = [batch EXCEPT ![s] = result]
    /\ UNCHANGED <<disk, pc, memory, report, begun, undoBegun>>

FinishHandler(s) ==
    /\ pc = "batch"
    /\ \E result \in {TerminalWithoutRun("failed")} \cup {Success(o) : o \in Outputs} :
         FinishTask(s, result)

FinishCompensator(s) ==
    /\ pc = "compBatch"
    /\ \E result \in {TerminalWithoutRun("failed"), Success(NoOutput)} : FinishTask(s, result)

AllTasksDone == \A s \in Steps : task[s] \in {"none", "done"}

\* asyncio.gather returns; the results of the batch become the run's.
GatherBatch ==
    /\ pc = "batch" /\ AllTasksDone
    /\ results' = [s \in Steps |-> IF task[s] = "done" THEN batch[s] ELSE results[s]]
    /\ pc' = "batchSave" /\ task' = NoTasks
    /\ UNCHANGED <<disk, phase, approvals, comps, batch, report, begun, undoBegun>>

\* Mutant: each wave forgets the ones before it.
LastWave == Succeeded(batch)

Undone == comps \cup Succeeded(batch)

GatherWave ==
    /\ pc = "compBatch" /\ AllTasksDone
    /\ comps' = Undone
    /\ pc' = "compSave" /\ task' = NoTasks
    /\ UNCHANGED <<disk, phase, results, approvals, batch, report, begun, undoBegun>>

-----------------------------------------------------------------------------
(* Awaited saves *)

\* Mutant: the saga's saves leave _build_checkpoint's phase at its default.
DefaultPhase == BuildCheckpoint("forward", results, approvals, {})

Candidate ==
    IF pc \in ForwardSave THEN BuildCheckpoint("forward", results, approvals, {})
                          ELSE BuildCheckpoint(phase, results, approvals, comps)

StoreAccepts(ck) == WellFormed(ck) /\ (disk.phase # "none" => Monotonic(disk, ck))

\* store.save returns.  (When it raises instead, the invocation Aborts.)
Save == StoreAccepts(Candidate) /\ disk' = Candidate

SaveDecisions ==
    /\ pc = "decisionSave" /\ Save
    /\ pc' = AfterRestore(phase, results)
    /\ UNCHANGED <<memory, work, report, begun, undoBegun>>

SaveCancellation ==
    /\ pc = "cancelSave" /\ Save
    /\ pc' = "finish" /\ results' = RejectRun(results)
    /\ UNCHANGED <<phase, approvals, comps, work, report, begun, undoBegun>>

SaveRequests ==
    /\ pc = "requestSave" /\ Save
    /\ EndInvocation(Returned("paused", "not_requested"))
    /\ UNCHANGED <<begun, undoBegun>>

BatchFailed == InState(batch, "failed") # {}

SaveBatch ==
    LET stop == BatchFailed /\ FailFast
    IN  /\ pc = "batchSave" /\ Save
        /\ results' = IF stop THEN Block(Pending(results), results) ELSE results
        /\ pc' = IF stop \/ Pending(results) = {} THEN "finish" ELSE "forward"
        /\ batch' = NoBatch
        /\ UNCHANGED <<phase, approvals, comps, task, report, begun, undoBegun>>

-----------------------------------------------------------------------------
(* After the forward loop: the outcome, and the saga *)

Unsuccessful == RunStatus(results) \in {"failed", "rejected"}
MustUndo     == Unsuccessful /\ Eligible(results) # {}

BeginCompensating ==
    /\ pc = "finish" /\ MustUndo /\ phase = "forward"
    /\ phase' = "compensating" /\ pc' = "compensatingSave"
    /\ UNCHANGED <<disk, results, approvals, comps, work, report, begun, undoBegun>>

ContinueCompensating ==
    /\ pc = "finish" /\ MustUndo /\ phase = "compensating"
    /\ pc' = "compensate"
    /\ UNCHANGED <<disk, memory, work, report, begun, undoBegun>>

\* Nothing to undo: a version 3 run is sealed as complete.
Seal ==
    /\ pc = "finish" /\ ~ MustUndo /\ Version = 3 /\ phase = "forward"
    /\ phase' = "complete" /\ pc' = "completeSave"
    /\ UNCHANGED <<disk, results, approvals, comps, work, report, begun, undoBegun>>

\* Mutant: the phase is reported for the compensation's status.
PhaseAsStatus == IF MustUndo THEN phase ELSE "not_requested"

CompensationStatus == IF MustUndo THEN "succeeded" ELSE "not_requested"

ReportOutcome ==
    /\ pc = "finish"
    /\ IF MustUndo THEN phase = "complete" ELSE Version < 3 \/ phase # "forward"
    /\ EndInvocation(Returned(RunStatus(results), CompensationStatus))
    /\ UNCHANGED <<disk, begun, undoBegun>>

SavePhase ==
    /\ pc = "compensatingSave" /\ Save
    /\ pc' = "compensate"
    /\ UNCHANGED <<memory, work, report, begun, undoBegun>>

\* _run_compensations
\* Mutant: what was undone, in this invocation or before it, is not taken off.
EveryEligible == Eligible(results)

\* Mutants: the dependency edges are followed the wrong way, or both ways.
Dependencies(s) == Deps[s]
Neighbours(s)   == {t \in Steps : s \in Deps[t] \/ t \in Deps[s]}

Remaining     == Eligible(results) \ comps
Dependents(s) == {t \in Steps : s \in Deps[t]}
Wave          == {s \in Remaining : Dependents(s) \cap Remaining = {}}

\* Something remains, and all of it waits for more of it: the code raises.
StartWave ==
    /\ pc = "compensate" /\ Remaining # {}
    /\ IF Wave = {}
         THEN EndInvocation(Raised)
         ELSE pc' = "compBatch" /\ StartTasks(Wave) /\ UNCHANGED <<memory, report>>
    /\ UNCHANGED <<disk, begun, undoBegun>>

SaveWave ==
    /\ pc = "compSave" /\ Save
    /\ IF BatchFailed
         THEN EndInvocation(Returned(RunStatus(results), "failed"))
         ELSE pc' = "compensate" /\ batch' = NoBatch /\ UNCHANGED <<memory, task, report>>
    /\ UNCHANGED <<begun, undoBegun>>

WavesDone ==
    /\ pc = "compensate" /\ Remaining = {}
    /\ phase' = "complete" /\ pc' = "completeSave"
    /\ UNCHANGED <<disk, results, approvals, comps, work, report, begun, undoBegun>>

SaveComplete ==
    /\ pc = "completeSave" /\ Save
    /\ EndInvocation(Returned(RunStatus(results), CompensationStatus))
    /\ UNCHANGED <<begun, undoBegun>>

-----------------------------------------------------------------------------
Invoke == StartFresh \/ Refuse \/ \E yes \in SUBSET Gated : \E no \in SUBSET Gated : Resume(yes, no)

Forward == LoopEnds \/ Stall \/ Deny \/ RequestApprovals \/ StayPaused \/ StartBatch

Tasks == \/ \E s \in Steps : \/ StartHandler(s) \/ FinishHandler(s)
                             \/ StartCompensator(s) \/ FinishCompensator(s)
         \/ GatherBatch \/ GatherWave

Saves == \/ SaveDecisions \/ SaveCancellation \/ SaveRequests \/ SaveBatch
         \/ SavePhase \/ SaveWave \/ SaveComplete

Outcome == \/ BeginCompensating \/ ContinueCompensating \/ Seal \/ ReportOutcome
           \/ StartWave \/ WavesDone

\* What the runner does when nothing stops it.
Run == Forward \/ Tasks \/ Saves \/ Outcome

Next == Invoke \/ Abort \/ Run

\* Between any two steps of an invocation it may wait for a handler, an event
\* handler or the store, and none of them is obliged to answer: no fairness.
Spec == Init /\ [][Next]_vars

\* An application that keeps calling run() until the run is over, deciding
\* every request it is shown.
Persevere ==
    \/ StartFresh
    \/ \E yes \in SUBSET Gated : \E no \in SUBSET Gated :
         /\ \A s \in Gated : disk.approvals[s].status = "pending" => s \in yes \cup no
         /\ Resume(yes, no)

-----------------------------------------------------------------------------
\* What is durable, what an invocation holds and what its tasks do, by type.
TypeOK ==
    /\ disk \in Checkpoint
    /\ pc \in PC /\ phase \in Phase
    /\ results \in [Steps -> Result] /\ approvals \in [Steps -> Approval]
    /\ comps \subseteq Steps
    /\ task \in [Steps -> TaskState] /\ batch \in [Steps -> Result]
    /\ report \in Report
    /\ begun \subseteq Steps /\ undoBegun \subseteq Steps

(* Approval barrier *)

\* A gated step's handler is only ever invoked once the approval of its request
\* is durable: the decision is committed before the handler it lets start
\* (run 834-890), whatever is cancelled or crashes in between and afterwards.
DurableApprovalBeforeHandler ==
    \A s \in begun \cap Gated : disk.approvals[s].status = "approved"

\* The outputs a gated handler receives are the ones the durable approval
\* names, even when decision and handler are several invocations apart.
HandlerSeesApprovedOutputs ==
    pc = "batch" => \A s \in Running \cap Gated :
        \A d \in Deps[s] : disk.approvals[s].context[d] = results[d].output

\* While any handler runs no request is undecided, rejected or cancelled: an
\* undecided gate holds the whole ready group back, a rejection ends the run.
ApprovalBarrier ==
    pc = "batch" => \A s \in Steps : disk.approvals[s].status \in {"none", "approved"}

\* Once a rejection is durable no further handler starts, in any invocation.
NoHandlerAfterRejection ==
    [][(\E s \in Steps : disk.approvals[s].status = "rejected") => begun' = begun]_vars

(* What is replayed, what is undone *)

\* No handler runs again once its success is durable, and no compensator once
\* its own is, across any crashes and resumes.
NoReplay ==
    \A s \in Running : IF pc = "batch" THEN disk.steps[s].state # "succeeded"
                                       ELSE s \notin disk.comps

\* A compensator starts only after the compensating phase is durable, and only
\* for a step whose own success is durable.
CompensationAfterDurablePhase ==
    undoBegun # {} =>
        /\ disk.phase \in {"compensating", "complete"}
        /\ \A s \in undoBegun : disk.steps[s].state = "succeeded"

\* Once any compensator has started no forward handler ever starts again.
NoForwardAfterCompensation == [][undoBegun # {} => begun' = begun]_vars

\* A compensator runs only when the compensation of every compensable step that
\* depends on it directly is durable.
DirectReverseOrder ==
    pc = "compBatch" => \A s \in Running : \A t \in Eligible(disk.steps) :
        s \in Deps[t] => t \in disk.comps

(* The durable record *)

\* Whatever the history, the store accepts every checkpoint the runner offers:
\* it never trips over its own well-formedness and monotonicity checks.
SaveNeverRefused == pc \in SavePoint => StoreAccepts(Candidate)

\* _restore_checkpoint accepts every checkpoint an invocation leaves behind.
EveryCheckpointResumes == disk.phase # "none" => Restorable(disk)

\* The two kinds of checkpoint it refuses: a saga entered after a rejection, and
\* one whose last wave is saved but whose completion is not.
RejectedSaga == disk.phase # "forward" /\ \E s \in Steps : disk.approvals[s].status = "rejected"
UnsealedSaga == disk.phase = "compensating" /\ Eligible(disk.steps) \subseteq disk.comps

\* Every other checkpoint an invocation leaves behind can be resumed.
ResumesOutsideGaps ==
    disk.phase # "none" => Restorable(disk) \/ RejectedSaga \/ UnsealedSaga

\* What the last invocation returned is true of the checkpoint it left, so the
\* caller's next move (decide, resume, stop) is the one the checkpoint needs.
ReportIsDurable ==
    pc = "idle" =>
      /\ report.status = "paused" =>
           disk.phase = "forward" /\ \E s \in Gated : disk.approvals[s].status = "pending"
      /\ report.status = "succeeded" =>
           Succeeded(disk.steps) = Steps /\ disk.comps = {} /\ disk.phase # "compensating"
      /\ report.status = "rejected" => \E s \in Gated : disk.approvals[s].status = "rejected"
      /\ report.status \in {"failed", "rejected"} /\ Version = 3 =>
           CASE report.compensation = "failed" -> disk.phase = "compensating"
                                                   /\ ~ (Eligible(disk.steps) \subseteq disk.comps)
             [] report.compensation = "succeeded" -> disk.phase = "complete"
                                                   /\ disk.comps = Eligible(disk.steps)
             [] OTHER -> disk.phase = "complete" /\ Eligible(disk.steps) = {}

(* The contract *)

Contract == INSTANCE DurableSaga WITH
    stage    <- disk.phase,
    outcome  <- [s \in Steps |-> disk.steps[s].state],
    decision <- [s \in Steps |-> disk.approvals[s].status],
    undone   <- disk.comps

\* Every run, with its crashes, cancellations and resumes, is a run of
\* DurableSaga: what is durable, and every handler that starts, is what the
\* contract allows at that point.
ImplementsContract == Contract!Spec

(* Progress *)

\* The forward loop always has a step to run or nothing left to do.
NeverStalls ==
    pc = "forward" => LET res == Marked(results) IN Ready(res) # {} \/ Pending(res) = {}

\* Whatever a live invocation awaits answers it: handlers and event handlers
\* return or raise, and so does the store.
HostAnswers == WF_vars(Run)

\* Every invocation whose awaits are answered returns or raises: its loops of
\* groups, waves and saves (893, 1633) end.
EveryInvocationEnds == HostAnswers => ((pc # "idle") ~> (pc = "idle"))

\* Something interrupts an invocation, which is none of its own steps, or a
\* compensation fails.
Disturbed ==
    \/ Abort /\ ~ Run
    \/ \E s \in Steps : pc = "compBatch" /\ FinishTask(s, TerminalWithoutRun("failed"))

\* However a version 3 run was interrupted before, once the interruptions end
\* an application that perseveres gets it completed: every step settled and
\* every owed compensation done.  The refused checkpoints are the exception.
RunsComplete ==
    HostAnswers /\ SF_vars(Persevere) /\ <>[][~ Disturbed]_vars
      => <>[](disk.phase = "complete" \/ RejectedSaga \/ UnsealedSaga)
=============================================================================
