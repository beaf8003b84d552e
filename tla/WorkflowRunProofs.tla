--------------------------- MODULE WorkflowRunProofs ---------------------------
(***************************************************************************)
(* Proofs about WorkflowRun, for every workflow, every set of outputs, and *)
(* any number of invocations, crashes and resumes.                         *)
(***************************************************************************)
EXTENDS WorkflowRunInvariant, TLAPS

-----------------------------------------------------------------------------
(* What the operators return *)

\* The results the runner builds are results.
LEMMA ResultTypes ==
    /\ \A state \in StepState : TerminalWithoutRun(state) \in Result
    /\ \A o \in Outputs : Success(o) \in Result
    /\ Success(NoOutput) \in Result
    /\ NotRun \in Result
    /\ NoResults \in [Steps -> Result]
BY DEF TerminalWithoutRun, Success, Result, StepState, NotRun, NoResults

\* So are the values run() starts with.
LEMMA BlankTypes ==
    /\ NoApprovals \in [Steps -> Approval]
    /\ NoCheckpoint \in Checkpoint
    /\ NoTasks \in [Steps -> TaskState]
    /\ NoBatch \in [Steps -> Result]
    /\ NoReport \in Report /\ Raised \in Report
<1>1. NoApprovals \in [Steps -> Approval]
  BY DEF NoApprovals, NoApproval, Approval, ApprovalStatus, Context
<1>2. NoCheckpoint \in Checkpoint
  BY <1>1, ResultTypes DEF NoCheckpoint, Checkpoint, Phase
<1>3. NoTasks \in [Steps -> TaskState] /\ NoBatch \in [Steps -> Result]
  BY ResultTypes DEF NoTasks, TaskState, NoBatch
<1>4. NoReport \in Report /\ Raised \in Report
  BY DEF NoReport, Raised, Returned, Report
<1> QED BY <1>1, <1>2, <1>3, <1>4

\* _build_checkpoint makes checkpoints of results, approvals and compensations.
LEMMA BuildCheckpointType ==
    ASSUME NEW ph \in Phase, NEW res \in [Steps -> Result],
           NEW apps \in [Steps -> Approval], NEW cmp \in SUBSET Steps
    PROVE  BuildCheckpoint(ph, res, apps, cmp) \in Checkpoint
BY ResultTypes DEF BuildCheckpoint, Checkpoint

\* Marking steps blocked leaves every step a result.
LEMMA MarkedType ==
    ASSUME NEW res \in [Steps -> Result], NEW set
    PROVE  Block(set, res) \in [Steps -> Result] /\ Marked(res) \in [Steps -> Result]
BY ResultTypes DEF Block, Marked, StepState

\* So does ending the run for a rejection.
LEMMA RejectRunType ==
    ASSUME NEW res \in [Steps -> Result]
    PROVE  RejectRun(res) \in [Steps -> Result]
BY ResultTypes DEF RejectRun, StepState

\* A request is an approval record.
LEMMA ContextType ==
    ASSUME NEW res \in [Steps -> Result], NEW s \in Steps
    PROVE  Request(s, res) \in Approval
BY DEF Request, ContextOf, Approval, ApprovalStatus, Context, Result

\* The statuses run() computes are the ones a report may carry.
LEMMA StatusTypes ==
    /\ RunStatus(results) \in {"succeeded", "failed", "rejected"}
    /\ CompensationStatus \in {"not_requested", "succeeded"}
BY DEF RunStatus, CompensationStatus

\* What run() returns is a report.
LEMMA ReturnedType ==
    /\ Returned("paused", "not_requested") \in Report
    /\ Returned(RunStatus(results), "failed") \in Report
    /\ Returned(RunStatus(results), CompensationStatus) \in Report
BY StatusTypes DEF Returned, Report

\* What the runner offers the store is a checkpoint.
LEMMA CandidateType == TypeOK => Candidate \in Checkpoint
<1> SUFFICES ASSUME TypeOK PROVE Candidate \in Checkpoint
  OBVIOUS
<1>1. {} \in SUBSET Steps /\ "forward" \in Phase
  BY DEF Phase
<1> QED BY <1>1, BuildCheckpointType DEF Candidate, TypeOK

\* The memory an invocation leaves is well typed.
LEMMA EndInvocationType ==
    ASSUME NEW outcome \in Report, EndInvocation(outcome)
    PROVE  /\ pc' \in PC /\ phase' \in Phase
           /\ results' \in [Steps -> Result] /\ approvals' \in [Steps -> Approval]
           /\ comps' \subseteq Steps
           /\ task' \in [Steps -> TaskState] /\ batch' \in [Steps -> Result]
           /\ report' \in Report
BY BlankTypes, ResultTypes DEF EndInvocation, PC, Phase

-----------------------------------------------------------------------------
(* Type correctness *)

\* No run yet.
LEMMA TypeInit == Init => TypeOK
BY BlankTypes, ResultTypes DEF Init, TypeOK, PC, Phase

\* What the store holds after a save is a checkpoint.
LEMMA SaveType == TypeOK /\ Save => disk' \in Checkpoint
BY CandidateType DEF Save

\* Invoking run() keeps the types.
LEMMA TypeInvoke == TypeOK /\ Invoke => TypeOK'
<1> SUFFICES ASSUME TypeOK, Invoke PROVE TypeOK'
  OBVIOUS
<1>1. CASE StartFresh
  BY <1>1, BlankTypes DEF StartFresh, TypeOK, memory, work, PC
<1>2. CASE Refuse
  BY <1>2, BlankTypes DEF Refuse, TypeOK, memory, work
<1>3. ASSUME NEW yes \in SUBSET Gated, NEW no \in SUBSET Gated, Resume(yes, no)
      PROVE  TypeOK'
  <2>1. phase' \in Phase /\ results' \in [Steps -> Result] /\ comps' \subseteq Steps
    BY <1>3 DEF Resume, TypeOK, Checkpoint, RestoredResults
  <2>2. approvals' \in [Steps -> Approval]
    BY <1>3 DEF Resume, TypeOK, Checkpoint, Approval, ApprovalStatus
  <2>3. pc' \in PC
    BY <1>3 DEF Resume, FirstStop, AfterRestore, PC, SavePoint, ForwardSave
  <2> QED BY <1>3, <2>1, <2>2, <2>3, BlankTypes DEF Resume, TypeOK, work
<1> QED BY <1>1, <1>2, <1>3 DEF Invoke

\* So does a pass of the forward loop,
LEMMA TypeForward == TypeOK /\ Forward => TypeOK'
<1> SUFFICES ASSUME TypeOK, Forward PROVE TypeOK'
  OBVIOUS
<1>0. Marked(results) \in [Steps -> Result] /\ RejectRun(Marked(results)) \in [Steps -> Result]
  BY MarkedType, RejectRunType DEF TypeOK
<1>1. CASE LoopEnds
  BY <1>0, <1>1 DEF LoopEnds, TypeOK, work, PC
<1>2. CASE Stall
  BY <1>2, EndInvocationType, BlankTypes DEF Stall, TypeOK
<1>3. CASE Deny
  <2>1. Cancelled \in [Steps -> Approval]
    BY DEF Cancelled, Approval, ApprovalStatus, TypeOK
  <2> QED BY <1>0, <1>3, <2>1 DEF Deny, TypeOK, work, PC, SavePoint, ForwardSave
<1>4. CASE RequestApprovals
  <2>1. WithRequests(Ready(Marked(results)), Marked(results)) \in [Steps -> Approval]
    BY <1>0, ContextType DEF WithRequests, TypeOK
  <2> QED BY <1>0, <1>4, <2>1 DEF RequestApprovals, TypeOK, work, PC, SavePoint, ForwardSave
<1>5. CASE StayPaused
  BY <1>5, EndInvocationType, ReturnedType DEF StayPaused, TypeOK
<1>6. CASE StartBatch
  BY <1>0, <1>6, BlankTypes DEF StartBatch, StartTasks, TypeOK, PC, TaskState
<1> QED BY <1>1, <1>2, <1>3, <1>4, <1>5, <1>6 DEF Forward

\* a step of a batch or wave,
LEMMA TypeTasks == TypeOK /\ Tasks => TypeOK'
<1> SUFFICES ASSUME TypeOK, Tasks PROVE TypeOK'
  OBVIOUS
<1>0. ASSUME NEW s \in Steps, NEW result \in Result, FinishTask(s, result) PROVE TypeOK'
  BY <1>0 DEF FinishTask, TypeOK, memory, TaskState
<1>1. ASSUME NEW s \in Steps, StartHandler(s) PROVE TypeOK'
  BY <1>1 DEF StartHandler, Acquire, TypeOK, memory, TaskState
<1>2. ASSUME NEW s \in Steps, StartCompensator(s) PROVE TypeOK'
  BY <1>2 DEF StartCompensator, Acquire, TypeOK, memory, TaskState
<1>3. ASSUME NEW s \in Steps, FinishHandler(s) PROVE TypeOK'
  <2>1. \E result \in Result : FinishTask(s, result)
    BY <1>3, ResultTypes DEF FinishHandler, StepState
  <2> QED BY <1>0, <2>1
<1>4. ASSUME NEW s \in Steps, FinishCompensator(s) PROVE TypeOK'
  <2>1. \E result \in Result : FinishTask(s, result)
    BY <1>4, ResultTypes DEF FinishCompensator, StepState
  <2> QED BY <1>0, <2>1
<1>5. CASE GatherBatch
  BY <1>5, BlankTypes DEF GatherBatch, TypeOK, PC, SavePoint, ForwardSave
<1>6. CASE GatherWave
  <2>1. Undone \subseteq Steps
    BY DEF Undone, Succeeded, InState, TypeOK
  <2> QED BY <1>6, <2>1, BlankTypes DEF GatherWave, TypeOK, PC, SavePoint, PhaseSave
<1> QED BY <1>1, <1>2, <1>3, <1>4, <1>5, <1>6 DEF Tasks

\* a save,
LEMMA TypeSaves == TypeOK /\ Saves => TypeOK'
<1> SUFFICES ASSUME TypeOK, Saves PROVE TypeOK'
  OBVIOUS
<1>1. CASE SaveDecisions
  BY <1>1, SaveType DEF SaveDecisions, AfterRestore, TypeOK, memory, work, PC
<1>2. CASE SaveCancellation
  BY <1>2, SaveType, RejectRunType DEF SaveCancellation, TypeOK, work, PC
<1>3. CASE SaveRequests
  BY <1>3, SaveType, EndInvocationType, ReturnedType DEF SaveRequests, TypeOK
<1>4. CASE SaveBatch
  <2>1. Block(Pending(results), results) \in [Steps -> Result]
    BY MarkedType DEF TypeOK
  <2> QED BY <1>4, <2>1, SaveType, BlankTypes DEF SaveBatch, TypeOK, PC
<1>5. CASE SavePhase
  BY <1>5, SaveType DEF SavePhase, TypeOK, memory, work, PC
<1>6. CASE SaveWave
  <2>1. CASE BatchFailed
    BY <1>6, <2>1, SaveType, EndInvocationType, ReturnedType DEF SaveWave, TypeOK
  <2>2. CASE ~ BatchFailed
    BY <1>6, <2>2, SaveType, BlankTypes DEF SaveWave, TypeOK, memory, PC
  <2> QED BY <2>1, <2>2
<1>7. CASE SaveComplete
  BY <1>7, SaveType, EndInvocationType, ReturnedType DEF SaveComplete, TypeOK
<1> QED BY <1>1, <1>2, <1>3, <1>4, <1>5, <1>6, <1>7 DEF Saves

\* and what follows the forward loop.
LEMMA TypeOutcome == TypeOK /\ Outcome => TypeOK'
<1> SUFFICES ASSUME TypeOK, Outcome PROVE TypeOK'
  OBVIOUS
<1>1. CASE BeginCompensating
  BY <1>1 DEF BeginCompensating, TypeOK, work, PC, SavePoint, PhaseSave, Phase
<1>2. CASE ContinueCompensating
  BY <1>2 DEF ContinueCompensating, TypeOK, memory, work, PC
<1>3. CASE Seal
  BY <1>3 DEF Seal, TypeOK, work, PC, SavePoint, PhaseSave, Phase
<1>4. CASE ReportOutcome
  BY <1>4, EndInvocationType, ReturnedType DEF ReportOutcome, TypeOK
<1>5. CASE StartWave
  BY <1>5, EndInvocationType, BlankTypes DEF StartWave, StartTasks, TypeOK, memory, PC, TaskState
<1>6. CASE WavesDone
  BY <1>6 DEF WavesDone, TypeOK, work, PC, SavePoint, PhaseSave, Phase
<1> QED BY <1>1, <1>2, <1>3, <1>4, <1>5, <1>6 DEF Outcome

\* Every step keeps the types.
LEMMA TypeNext == TypeOK /\ [Next]_vars => TypeOK'
<1> SUFFICES ASSUME TypeOK, [Next]_vars PROVE TypeOK'
  OBVIOUS
<1>1. CASE Abort
  BY <1>1, EndInvocationType, BlankTypes DEF Abort, TypeOK
<1>2. CASE UNCHANGED vars
  BY <1>2 DEF vars, memory, work, TypeOK
<1> QED BY <1>1, <1>2, TypeInvoke, TypeForward, TypeTasks, TypeSaves, TypeOutcome DEF Next, Run

\* Every state of every history of invocations of run() is well typed: what the
\* runner restores, marks, gathers and reports stays a result, an approval, a
\* checkpoint or a report of the kinds the code defines.
THEOREM TypeCorrect == Spec => []TypeOK
BY TypeInit, TypeNext, PTL DEF Spec

-----------------------------------------------------------------------------
(* What the operators preserve *)

\* Marking, blocking and rejecting only give results to pending steps, and none
\* of them a success.
Keeps(new, old) ==
    /\ \A s \in Terminal(old) : new[s] = old[s]
    /\ Succeeded(new) = Succeeded(old)

\* Blocking by dependency: what it settles had a dependency that did not succeed.
LEMMA MarkedKeeps ==
    ASSUME NEW res \in [Steps -> Result]
    PROVE  /\ Keeps(Marked(res), res)
           /\ \A s \in Terminal(Marked(res)) \ Terminal(res) :
                \E d \in Deps[s] : d \notin Succeeded(res)
BY DEF Marked, Block, BlockedByDependency, TerminalWithoutRun,
       Keeps, Terminal, Pending, Succeeded, InState, Result

\* Blocking everything pending (fail-fast).
LEMMA BlockKeeps ==
    ASSUME NEW res \in [Steps -> Result]
    PROVE  Keeps(Block(Pending(res), res), res)
BY DEF Block, TerminalWithoutRun, Keeps, Terminal, Pending, Succeeded, InState, Result

\* Ending the run for a rejection.
LEMMA RejectRunKeeps ==
    ASSUME NEW res \in [Steps -> Result]
    PROVE  Keeps(RejectRun(res), res)
BY DEF RejectRun, HasStatus, Ready, TerminalWithoutRun, Keeps, Terminal, Pending, Succeeded,
       InState, Result

\* What a gate's request binds does not change when results are only added.
LEMMA ContextKept ==
    ASSUME NEW old \in [Steps -> Result], NEW new \in [Steps -> Result], NEW s \in Steps,
           \A d \in Succeeded(old) : new[d] = old[d],
           Deps[s] \subseteq Succeeded(old)
    PROVE  ContextOf(s, new) = ContextOf(s, old) /\ Deps[s] \subseteq Succeeded(new)
BY DEF ContextOf, Succeeded, InState

\* The checkpoint of the forward phase, and of the others.
LEMMA ForwardCheckpoint ==
    ASSUME NEW res \in [Steps -> Result], NEW apps, NEW cmp,
           NEW ck, ck = BuildCheckpoint("forward", res, apps, cmp)
    PROVE  /\ ck.phase = "forward" /\ ck.approvals = apps /\ ck.comps = cmp
           /\ Terminal(ck.steps) = Succeeded(res) /\ Succeeded(ck.steps) = Succeeded(res)
           /\ \A s \in Succeeded(res) : ck.steps[s] = res[s]
BY DEF BuildCheckpoint, Terminal, Pending, Succeeded, InState, NotRun, TerminalWithoutRun, Result

\* The checkpoint of the saga phases keeps everything.
LEMMA SagaCheckpoint ==
    ASSUME NEW res \in [Steps -> Result], NEW apps, NEW cmp, NEW ph, ph # "forward",
           NEW ck, ck = BuildCheckpoint(ph, res, apps, cmp)
    PROVE  ck.phase = ph /\ ck.approvals = apps /\ ck.comps = cmp /\ ck.steps = res
BY DEF BuildCheckpoint

-----------------------------------------------------------------------------
(* The inductive invariant *)

\* A run that has not begun has no result and no request.
LEMMA BlankMemory ==
    /\ Terminal(NoResults) = {} /\ Succeeded(NoResults) = {}
    /\ \A s \in Steps : NoApprovals[s].status = "none"
    /\ Eligible(NoResults) = {}
BY DEF NoResults, NotRun, TerminalWithoutRun, Terminal, Pending, Succeeded, InState,
       NoApprovals, NoApproval, Eligible

\* No run yet.
LEMMA ConsistentInit == Init => Consistent
<1> SUFFICES ASSUME Init PROVE Consistent
  OBVIOUS
<1>1. PhasesAgree
  BY DEF Init, PhasesAgree, ForwardPC, ForwardSave, UndoPC, NoCheckpoint
<1>2. DiskSound
  BY BlankMemory DEF Init, DiskSound, NoCheckpoint
<1>3. MemoryExtendsDisk
  BY DEF Init, MemoryExtendsDisk
<1>4. RequestsSound
  BY DEF Init, RequestsSound, ForwardPC, ForwardSave
<1>5. CompensationsSound
  BY DEF Init, CompensationsSound
<1>6. TasksSound
  BY DEF Init, TasksSound
<1>7. ApprovalBarrier /\ DurableApprovalBeforeHandler /\ CompensationAfterDurablePhase
  BY DEF Init, ApprovalBarrier, DurableApprovalBeforeHandler, CompensationAfterDurablePhase
<1> QED BY <1>1, <1>2, <1>3, <1>4, <1>5, <1>6, <1>7 DEF Consistent

\* What has to hold of a checkpoint for the next invocation to start from it.
Durable ==
    /\ DiskSound
    /\ Version < 3 => disk.phase \in {"none", "forward"}
    /\ DurableApprovalBeforeHandler
    /\ CompensationAfterDurablePhase

\* An invocation that ends leaves nothing but a sound checkpoint.
LEMMA ConsistentEnd ==
    ASSUME NEW outcome, EndInvocation(outcome), Durable'
    PROVE  Consistent'
<1>1. PhasesAgree'
  BY DEF EndInvocation, PhasesAgree, Durable, ForwardPC, ForwardSave, UndoPC
<1>2. MemoryExtendsDisk'
  BY DEF EndInvocation, MemoryExtendsDisk
<1>3. RequestsSound'
  BY DEF EndInvocation, RequestsSound, ForwardPC, ForwardSave
<1>4. CompensationsSound'
  BY DEF EndInvocation, CompensationsSound
<1>5. TasksSound' /\ ApprovalBarrier'
  BY DEF EndInvocation, TasksSound, ApprovalBarrier
<1> QED BY <1>1, <1>2, <1>3, <1>4, <1>5 DEF Durable, Consistent

\* The checkpoint stays sound while nothing is saved or started.
LEMMA DurableUnchanged ==
    Consistent /\ UNCHANGED <<disk, begun, undoBegun>> => Durable'
BY DEF Consistent, PhasesAgree, DiskSound, Durable, DurableApprovalBeforeHandler,
       CompensationAfterDurablePhase

(* Invoking run() *)

\* A fresh start: nothing is durable and nothing is in memory.
LEMMA ConsistentStartFresh == TypeOK /\ Consistent /\ StartFresh => Consistent'
<1> SUFFICES ASSUME TypeOK, Consistent, StartFresh PROVE Consistent'
  OBVIOUS
<1>1. PhasesAgree' /\ DiskSound'
  BY DEF StartFresh, Consistent, PhasesAgree, DiskSound, memory, ForwardPC, ForwardSave, UndoPC
<1>2. /\ results' = NoResults /\ disk' = NoCheckpoint
      /\ approvals' = NoApprovals /\ comps' = {}
  BY DEF StartFresh, Consistent, PhasesAgree, DiskSound, memory
<1>3. MemoryExtendsDisk'
  BY <1>2, BlankMemory DEF MemoryExtendsDisk, NoCheckpoint
<1>4. RequestsSound' /\ CompensationsSound'
  BY <1>2, BlankMemory DEF RequestsSound, CompensationsSound
<1>5. TasksSound' /\ ApprovalBarrier'
  BY DEF StartFresh, Consistent, TasksSound, ApprovalBarrier, work
<1>6. DurableApprovalBeforeHandler' /\ CompensationAfterDurablePhase'
  BY DEF StartFresh, Consistent, DurableApprovalBeforeHandler, CompensationAfterDurablePhase
<1> QED BY <1>1, <1>3, <1>4, <1>5, <1>6 DEF Consistent

\* A resume: memory is the checkpoint, but for the decisions just made.
LEMMA ConsistentResume ==
    ASSUME TypeOK, Consistent, NEW yes \in SUBSET Gated, NEW no \in SUBSET Gated, Resume(yes, no)
    PROVE  Consistent'
<1>1. PhasesAgree'
  BY DEF Resume, FirstStop, AfterRestore, Consistent, PhasesAgree, TypeOK, Checkpoint, Phase,
         ForwardPC, ForwardSave, UndoPC
<1>2. DiskSound' /\ DurableApprovalBeforeHandler' /\ CompensationAfterDurablePhase'
  BY DEF Resume, Consistent, DiskSound, DurableApprovalBeforeHandler, CompensationAfterDurablePhase
<1>3. /\ results' = disk.steps /\ comps' = disk.comps /\ disk' = disk
      /\ approvals' \in [Steps -> Approval]
      /\ \A s \in Steps : /\ approvals'[s].context = disk.approvals[s].context
                         /\ \/ approvals'[s] = disk.approvals[s]
                            \/ /\ s \in Gated /\ disk.approvals[s].status = "pending"
                               /\ approvals'[s].status \in {"approved", "rejected"}
  BY DEF Resume, RestoredResults, TypeOK, Checkpoint, Approval, ApprovalStatus
<1>4. yes \cup no = {} => approvals' = disk.approvals
  BY DEF Resume, TypeOK, Checkpoint
<1>5. MemoryExtendsDisk'
  <2>1. pc' \notin {"decisionSave", "cancelSave", "requestSave"} => approvals' = disk.approvals
    BY <1>4 DEF Resume, FirstStop
  <2> QED BY <1>3, <2>1 DEF MemoryExtendsDisk
<1>6. RequestsSound'
  <2>1. ASSUME NEW s \in Steps, approvals'[s].status # "none"
        PROVE  /\ s \in Gated /\ Deps[s] \subseteq Succeeded(disk.steps)
               /\ approvals'[s].context = ContextOf(s, disk.steps)
               /\ s \in Terminal(disk.steps) => approvals'[s].status = "approved"
    BY <1>3, <2>1 DEF Resume, Restorable, Consistent, DiskSound
  <2>2. ASSUME NEW s \in Terminal(disk.steps)
        PROVE  approvals'[s].status \in {"none", "approved"}
    BY <2>1, <2>2 DEF Terminal
  <2> QED BY <1>3, <2>1, <2>2 DEF RequestsSound
<1>7. CompensationsSound'
  BY <1>1, <1>3 DEF CompensationsSound, Consistent, DiskSound, Resume
<1>8. TasksSound' /\ ApprovalBarrier'
  BY DEF Resume, FirstStop, AfterRestore, Consistent, TasksSound, ApprovalBarrier, work
<1> QED BY <1>1, <1>2, <1>5, <1>6, <1>7, <1>8 DEF Consistent

\* A refused call changes nothing.
LEMMA ConsistentRefuse == Consistent /\ Refuse => Consistent'
BY DEF Refuse, memory, work, Consistent, PhasesAgree, DiskSound, MemoryExtendsDisk, RequestsSound,
       CompensationsSound, TasksSound, ApprovalBarrier, DurableApprovalBeforeHandler,
       CompensationAfterDurablePhase, Remaining

(* The forward loop *)

\* Results given to pending steps, none a success, in an invocation that neither
\* saves nor starts anything.
LEMMA KeptResults ==
    ASSUME TypeOK, Consistent, results' \in [Steps -> Result], Keeps(results', results)
    PROVE  /\ \A s \in Terminal(disk.steps) : pc # "idle" => results'[s] = disk.steps[s]
           /\ \A s \in Steps : pc # "idle" /\ approvals[s].status # "none" =>
                /\ Deps[s] \subseteq Succeeded(results')
                /\ approvals[s].context = ContextOf(s, results')
           /\ Eligible(results') = Eligible(results)
<1>1. ASSUME NEW s \in Terminal(disk.steps), pc # "idle" PROVE results'[s] = disk.steps[s]
  <2>1. results[s] = disk.steps[s] /\ s \in Steps
    BY <1>1 DEF Consistent, MemoryExtendsDisk, Terminal
  <2>2. s \in Terminal(results)
    BY <1>1, <2>1 DEF Terminal, Pending, InState
  <2> QED BY <2>1, <2>2 DEF Keeps
<1>2. ASSUME NEW s \in Steps, pc # "idle", approvals[s].status # "none"
      PROVE  Deps[s] \subseteq Succeeded(results') /\ approvals[s].context = ContextOf(s, results')
  <2>1. Deps[s] \subseteq Succeeded(results) /\ approvals[s].context = ContextOf(s, results)
    BY <1>2 DEF Consistent, RequestsSound
  <2>2. \A d \in Succeeded(results) : results'[d] = results[d]
    BY DEF Keeps, Terminal, Pending, Succeeded, InState
  <2> QED BY <2>1, <2>2, ContextKept DEF TypeOK
<1>3. Eligible(results') = Eligible(results)
  BY DEF Eligible, Keeps
<1> QED BY <1>1, <1>2, <1>3

\* The loop ends: the last pass only marks steps blocked.
LEMMA ConsistentLoopEnds == TypeOK /\ Consistent /\ LoopEnds => Consistent'
<1> SUFFICES ASSUME TypeOK, Consistent, LoopEnds PROVE Consistent'
  OBVIOUS
<1>1. /\ results' = Marked(results) /\ results' \in [Steps -> Result] /\ Keeps(results', results)
      /\ pc = "forward" /\ pc' = "finish" /\ UNCHANGED <<disk, phase, approvals, comps, task, batch>>
      /\ UNCHANGED <<begun, undoBegun>>
  BY MarkedType, MarkedKeeps DEF LoopEnds, TypeOK, work
<1>2. PhasesAgree' /\ DiskSound'
  BY <1>1 DEF Consistent, PhasesAgree, DiskSound, ForwardPC, ForwardSave, UndoPC
<1>3. MemoryExtendsDisk'
  BY <1>1, KeptResults DEF Consistent, MemoryExtendsDisk, PhasesAgree, DiskSound,
                           CompensationsSound, ForwardPC
<1>4. RequestsSound' /\ CompensationsSound'
  BY <1>1, KeptResults DEF Consistent, RequestsSound, CompensationsSound, ForwardPC, ForwardSave
<1>5. TasksSound' /\ ApprovalBarrier'
  BY <1>1 DEF Consistent, TasksSound, ApprovalBarrier
<1>6. DurableApprovalBeforeHandler' /\ CompensationAfterDurablePhase'
  BY <1>1 DEF Consistent, DurableApprovalBeforeHandler, CompensationAfterDurablePhase
<1> QED BY <1>2, <1>3, <1>4, <1>5, <1>6 DEF Consistent

\* No step that blocking by dependency settles has a request.
LEMMA MarkedRequests ==
    ASSUME TypeOK, Consistent, pc = "forward"
    PROVE  \A s \in Terminal(Marked(results)) : approvals[s].status \in {"none", "approved"}
<1> SUFFICES ASSUME NEW s \in Terminal(Marked(results)), s \notin Terminal(results)
             PROVE  approvals[s].status = "none"
  BY DEF Consistent, RequestsSound, ForwardPC
<1>1. s \in Steps
  BY DEF Terminal
<1>2. PICK d \in Deps[s] : d \notin Succeeded(results)
  BY MarkedKeeps DEF TypeOK
<1> QED BY <1>1, <1>2 DEF Consistent, RequestsSound

\* A denial ends the run, or withdraws its sibling requests first.
LEMMA ConsistentDeny == TypeOK /\ Consistent /\ Deny => Consistent'
<1> SUFFICES ASSUME TypeOK, Consistent, Deny PROVE Consistent'
  OBVIOUS
<1>1. /\ results' \in [Steps -> Result] /\ Keeps(results', results)
      /\ pc = "forward" /\ UNCHANGED <<disk, phase, comps, task, batch, begun, undoBegun>>
  <2>1. Marked(results) \in [Steps -> Result] /\ Keeps(Marked(results), results)
    BY MarkedType, MarkedKeeps DEF TypeOK
  <2>2. /\ RejectRun(Marked(results)) \in [Steps -> Result]
        /\ Keeps(RejectRun(Marked(results)), Marked(results))
    BY <2>1, RejectRunType, RejectRunKeeps
  <2>3. Keeps(RejectRun(Marked(results)), results)
    BY <2>1, <2>2 DEF Keeps, Terminal, Pending, InState
  <2> QED BY <2>1, <2>2, <2>3 DEF Deny, work
<1>2. DiskSound' /\ TasksSound' /\ ApprovalBarrier'
  BY <1>1 DEF Deny, Consistent, DiskSound, TasksSound, ApprovalBarrier
<1>3. DurableApprovalBeforeHandler' /\ CompensationAfterDurablePhase'
  BY <1>1 DEF Consistent, DurableApprovalBeforeHandler, CompensationAfterDurablePhase
<1>4. PhasesAgree'
  BY <1>1 DEF Deny, Consistent, PhasesAgree, ForwardPC, ForwardSave, UndoPC
<1>5. CompensationsSound' /\ comps = disk.comps
  BY <1>1, KeptResults DEF Consistent, CompensationsSound, PhasesAgree, DiskSound, ForwardPC
<1>6. disk.phase \in {"none", "forward"} /\ approvals = disk.approvals
  BY <1>1 DEF Consistent, PhasesAgree, MemoryExtendsDisk, ForwardPC
<1>7. CASE Siblings = {}
  <2>1. pc' = "finish" /\ approvals' = approvals
    BY <1>7 DEF Deny
  <2>2. MemoryExtendsDisk'
    BY <1>1, <1>5, <1>6, <2>1, KeptResults DEF MemoryExtendsDisk
  <2>3. RequestsSound'
    BY <1>1, <2>1, KeptResults DEF Consistent, RequestsSound, ForwardPC, ForwardSave
  <2> QED BY <1>2, <1>3, <1>4, <1>5, <2>2, <2>3 DEF Consistent
<1>8. CASE Siblings # {}
  <2>1. pc' = "cancelSave" /\ approvals' = Cancelled /\ results' = Marked(results)
    BY <1>8 DEF Deny
  <2>2. \A s \in Steps :
          /\ approvals'[s].context = approvals[s].context
          /\ approvals[s].status = "pending" => approvals'[s].status = "cancelled"
          /\ approvals[s].status # "pending" => approvals'[s] = approvals[s]
    BY <2>1 DEF Cancelled, Siblings, TypeOK, Approval
  <2>3. MemoryExtendsDisk'
    BY <1>1, <1>5, <1>6, <2>1, <2>2, KeptResults DEF MemoryExtendsDisk
  <2>4. RequestsSound'
    <3>1. ASSUME NEW s \in Steps, approvals'[s].status # "none"
          PROVE  /\ s \in Gated /\ Deps[s] \subseteq Succeeded(results')
                 /\ approvals'[s].context = ContextOf(s, results')
      BY <1>1, <2>1, <2>2, <3>1, KeptResults DEF Consistent, RequestsSound
    <3>2. ASSUME NEW s \in Terminal(results') PROVE approvals'[s].status \in {"none", "approved"}
      BY <1>1, <2>1, <2>2, MarkedRequests DEF Terminal
    <3> QED BY <3>1, <3>2 DEF RequestsSound
  <2> QED BY <1>2, <1>3, <1>4, <1>5, <2>3, <2>4 DEF Consistent
<1> QED BY <1>7, <1>8

\* New requests bind the durable successes of their dependencies.
LEMMA ConsistentRequestApprovals == TypeOK /\ Consistent /\ RequestApprovals => Consistent'
<1> SUFFICES ASSUME TypeOK, Consistent, RequestApprovals PROVE Consistent'
  OBVIOUS
<1> DEFINE created == HasStatus(Ready(results'), {"none"})
<1>1. /\ results' = Marked(results) /\ results' \in [Steps -> Result] /\ Keeps(results', results)
      /\ pc = "forward" /\ pc' = "requestSave"
      /\ UNCHANGED <<disk, phase, comps, task, batch, begun, undoBegun>>
  BY MarkedType, MarkedKeeps DEF RequestApprovals, TypeOK, work
<1>a. \A s \in created : /\ approvals[s].status = "none" /\ s \in Gated
                         /\ s \in Pending(results') /\ Deps[s] \subseteq Succeeded(results')
  BY DEF HasStatus, Ready
<1>b. approvals' = [s \in Steps |-> IF s \in created THEN Request(s, results') ELSE approvals[s]]
  BY <1>1 DEF RequestApprovals, WithRequests
<1> HIDE DEF created
<1>2. \A s \in Steps :
        IF s \in created THEN /\ approvals[s].status = "none" /\ s \in Gated
                              /\ s \notin Terminal(results')
                              /\ Deps[s] \subseteq Succeeded(results')
                              /\ approvals'[s].status = "pending"
                              /\ approvals'[s].context = ContextOf(s, results')
                         ELSE approvals'[s] = approvals[s]
  BY <1>a, <1>b DEF Request, Terminal
<1>3. DiskSound' /\ TasksSound' /\ ApprovalBarrier'
  BY <1>1 DEF Consistent, DiskSound, TasksSound, ApprovalBarrier
<1>4. DurableApprovalBeforeHandler' /\ CompensationAfterDurablePhase'
  BY <1>1 DEF Consistent, DurableApprovalBeforeHandler, CompensationAfterDurablePhase
<1>5. PhasesAgree'
  BY <1>1 DEF Consistent, PhasesAgree, ForwardPC, ForwardSave, UndoPC
<1>6. CompensationsSound' /\ comps = disk.comps
  BY <1>1, KeptResults DEF Consistent, CompensationsSound, PhasesAgree, DiskSound, ForwardPC
<1>7. disk.phase \in {"none", "forward"} /\ approvals = disk.approvals
  BY <1>1 DEF Consistent, PhasesAgree, MemoryExtendsDisk, ForwardPC
<1>8. MemoryExtendsDisk'
  BY <1>1, <1>2, <1>6, <1>7, KeptResults DEF MemoryExtendsDisk
<1>9. RequestsSound'
  <2>1. ASSUME NEW s \in Steps, approvals'[s].status # "none"
        PROVE  /\ s \in Gated /\ Deps[s] \subseteq Succeeded(results')
               /\ approvals'[s].context = ContextOf(s, results')
    BY <1>1, <1>2, <2>1, KeptResults DEF Consistent, RequestsSound
  <2>2. ASSUME NEW s \in Terminal(results') PROVE approvals'[s].status \in {"none", "approved"}
    BY <1>1, <1>2, MarkedRequests DEF Terminal
  <2> QED BY <2>1, <2>2 DEF RequestsSound
<1> QED BY <1>3, <1>4, <1>5, <1>6, <1>8, <1>9 DEF Consistent

\* A batch starts: every request there is has been approved, since each gate
\* with a request is either ready or settled.
LEMMA ConsistentStartBatch == TypeOK /\ Consistent /\ StartBatch => Consistent'
<1> SUFFICES ASSUME TypeOK, Consistent, StartBatch PROVE Consistent'
  OBVIOUS
<1>1. /\ results' = Marked(results) /\ results' \in [Steps -> Result] /\ Keeps(results', results)
      /\ pc = "forward" /\ pc' = "batch"
      /\ UNCHANGED <<disk, phase, approvals, comps, begun, undoBegun>>
  BY MarkedType, MarkedKeeps DEF StartBatch, TypeOK
<1>2. /\ disk.phase \in {"none", "forward"} /\ approvals = disk.approvals
      /\ CompensationsSound' /\ comps = disk.comps
  BY <1>1, KeptResults DEF Consistent, PhasesAgree, MemoryExtendsDisk, ForwardPC,
                           CompensationsSound, DiskSound
<1>3. PhasesAgree' /\ DiskSound'
  BY <1>1 DEF Consistent, PhasesAgree, DiskSound, ForwardPC, ForwardSave, UndoPC
<1>4. MemoryExtendsDisk'
  BY <1>1, <1>2, KeptResults DEF MemoryExtendsDisk
<1>5. RequestsSound'
  BY <1>1, KeptResults, MarkedRequests DEF Consistent, RequestsSound
<1>6. \A s \in Ready(results') \cap Gated : approvals[s].status = "approved"
  <2>1. Ready(results') \subseteq Steps /\ AllApproved(Ready(results'))
    BY <1>1 DEF StartBatch, Ready, Pending, InState
  <2> QED BY <2>1, WorkflowAssumption DEF AllApproved, HasStatus, TypeOK, Approval
<1>7. TasksSound'
  <2>1. \A s \in Steps : task'[s] # "none" => s \in Ready(results')
    BY <1>1 DEF StartBatch, StartTasks
  <2> QED BY <1>1, <1>6, <2>1 DEF TasksSound, Ready
<1>8. ApprovalBarrier'
  <2> SUFFICES ASSUME NEW s \in Steps, approvals[s].status # "none"
               PROVE  approvals[s].status = "approved"
    BY <1>1, <1>2 DEF ApprovalBarrier
  <2>1. CASE s \in Terminal(results')
    BY <1>1, <2>1, MarkedRequests
  <2>2. CASE s \notin Terminal(results')
    <3>1. s \in Gated /\ Deps[s] \subseteq Succeeded(results')
      BY <1>1, KeptResults DEF Consistent, RequestsSound
    <3> QED BY <1>6, <2>2, <3>1 DEF Terminal, Ready
  <2> QED BY <2>1, <2>2
<1>9. DurableApprovalBeforeHandler' /\ CompensationAfterDurablePhase'
  BY <1>1 DEF Consistent, DurableApprovalBeforeHandler, CompensationAfterDurablePhase
<1> QED BY <1>2, <1>3, <1>4, <1>5, <1>7, <1>8, <1>9 DEF Consistent

\* Every action of a pass.
LEMMA ConsistentForward == TypeOK /\ Consistent /\ Forward => Consistent'
<1> SUFFICES ASSUME TypeOK, Consistent, Forward PROVE Consistent'
  OBVIOUS
<1>1. CASE Stall \/ StayPaused
  BY <1>1, ConsistentEnd, DurableUnchanged DEF Stall, StayPaused
<1> QED BY <1>1, ConsistentLoopEnds, ConsistentDeny, ConsistentRequestApprovals,
           ConsistentStartBatch DEF Forward

(* Batches and waves *)

\* A handler starts: its approval is already durable.
LEMMA ConsistentStartHandler ==
    ASSUME TypeOK, Consistent, NEW s \in Steps, StartHandler(s)
    PROVE  Consistent'
<1>1. /\ pc = "batch" /\ pc' = pc /\ task' = [task EXCEPT ![s] = "running"] /\ task[s] = "queued"
      /\ begun' = begun \cup {s}
      /\ UNCHANGED <<disk, phase, results, approvals, comps, batch, undoBegun>>
  BY DEF StartHandler, Acquire, memory
<1>2. PhasesAgree' /\ DiskSound' /\ MemoryExtendsDisk' /\ RequestsSound' /\ CompensationsSound'
  BY <1>1 DEF Consistent, PhasesAgree, DiskSound, MemoryExtendsDisk, RequestsSound,
              CompensationsSound
<1>3. TasksSound'
  BY <1>1 DEF Consistent, TasksSound, TypeOK
<1>4. ApprovalBarrier' /\ CompensationAfterDurablePhase'
  BY <1>1 DEF Consistent, ApprovalBarrier, CompensationAfterDurablePhase
<1>5. DurableApprovalBeforeHandler'
  <2>1. s \in Gated => disk.approvals[s].status = "approved"
    BY <1>1 DEF Consistent, TasksSound, MemoryExtendsDisk
  <2> QED BY <1>1, <2>1 DEF Consistent, DurableApprovalBeforeHandler
<1> QED BY <1>2, <1>3, <1>4, <1>5 DEF Consistent

\* A compensator starts: phase and success are already durable.
LEMMA ConsistentStartCompensator ==
    ASSUME TypeOK, Consistent, NEW s \in Steps, StartCompensator(s)
    PROVE  Consistent'
<1>1. /\ pc = "compBatch" /\ pc' = pc /\ task' = [task EXCEPT ![s] = "running"]
      /\ task[s] = "queued" /\ undoBegun' = undoBegun \cup {s}
      /\ UNCHANGED <<disk, phase, results, approvals, comps, batch, begun>>
  BY DEF StartCompensator, Acquire, memory
<1>2. PhasesAgree' /\ DiskSound' /\ MemoryExtendsDisk' /\ RequestsSound' /\ CompensationsSound'
  BY <1>1 DEF Consistent, PhasesAgree, DiskSound, MemoryExtendsDisk, RequestsSound,
              CompensationsSound
<1>3. TasksSound'
  BY <1>1 DEF Consistent, TasksSound, TypeOK, Remaining
<1>4. ApprovalBarrier' /\ DurableApprovalBeforeHandler'
  BY <1>1 DEF Consistent, ApprovalBarrier, DurableApprovalBeforeHandler
<1>5. CompensationAfterDurablePhase'
  <2>1. disk.phase = "compensating" /\ results = disk.steps /\ s \in Eligible(results)
    BY <1>1 DEF Consistent, PhasesAgree, MemoryExtendsDisk, TasksSound, UndoPC, Remaining
  <2>2. disk.steps[s].state = "succeeded"
    BY <2>1 DEF Eligible, Succeeded, InState
  <2> QED BY <1>1, <2>1, <2>2 DEF Consistent, CompensationAfterDurablePhase
<1> QED BY <1>2, <1>3, <1>4, <1>5 DEF Consistent

\* A task finishes: only the batch changes.
LEMMA ConsistentFinishTask ==
    ASSUME TypeOK, Consistent, NEW s \in Steps, NEW result, FinishTask(s, result)
    PROVE  Consistent'
<1>1. /\ task[s] = "running" /\ task' = [task EXCEPT ![s] = "done"]
      /\ batch' = [batch EXCEPT ![s] = result]
      /\ UNCHANGED <<disk, pc, phase, results, approvals, comps, begun, undoBegun>>
  BY DEF FinishTask, memory
<1>2. PhasesAgree' /\ DiskSound' /\ MemoryExtendsDisk' /\ RequestsSound' /\ CompensationsSound'
  BY <1>1 DEF Consistent, PhasesAgree, DiskSound, MemoryExtendsDisk, RequestsSound,
              CompensationsSound
<1>3. TasksSound'
  BY <1>1 DEF Consistent, TasksSound, TypeOK, Remaining, NoTasks
<1>4. /\ ApprovalBarrier' /\ DurableApprovalBeforeHandler'
      /\ CompensationAfterDurablePhase'
  BY <1>1 DEF Consistent, ApprovalBarrier, DurableApprovalBeforeHandler,
              CompensationAfterDurablePhase
<1> QED BY <1>2, <1>3, <1>4 DEF Consistent

\* A batch is gathered: only pending steps get a result.
LEMMA ConsistentGatherBatch == TypeOK /\ Consistent /\ GatherBatch => Consistent'
<1> SUFFICES ASSUME TypeOK, Consistent, GatherBatch PROVE Consistent'
  OBVIOUS
<1>1. /\ results' = [s \in Steps |-> IF task[s] = "done" THEN batch[s] ELSE results[s]]
      /\ results' \in [Steps -> Result]
      /\ pc = "batch" /\ pc' = "batchSave" /\ task' = NoTasks /\ batch' = batch
      /\ UNCHANGED <<disk, phase, approvals, comps, begun, undoBegun>>
  BY DEF GatherBatch, TypeOK
<1>2. /\ phase = "forward" /\ comps = {} /\ disk.comps = {}
      /\ disk.phase \in {"none", "forward"} /\ approvals = disk.approvals
  BY <1>1 DEF Consistent, PhasesAgree, CompensationsSound, DiskSound, MemoryExtendsDisk, ForwardPC
<1>3. \A s \in Terminal(results) : results'[s] = results[s]
  BY <1>1 DEF Consistent, TasksSound, Terminal
<1>4. \A s \in Succeeded(results) : results'[s] = results[s]
  BY <1>3 DEF Terminal, Pending, Succeeded, InState
<1>5. PhasesAgree' /\ DiskSound' /\ CompensationsSound'
  BY <1>1, <1>2 DEF Consistent, PhasesAgree, DiskSound, CompensationsSound,
                    ForwardPC, ForwardSave, UndoPC
<1>6. MemoryExtendsDisk'
  <2>1. ASSUME NEW s \in Terminal(disk.steps) PROVE results'[s] = disk.steps[s]
    <3>1. s \in Steps /\ results[s] = disk.steps[s]
      BY <1>1 DEF Consistent, MemoryExtendsDisk, Terminal
    <3>2. s \in Terminal(results)
      BY <3>1 DEF Terminal, Pending, InState
    <3> QED BY <1>3, <3>1, <3>2
  <2> QED BY <1>1, <1>2, <2>1 DEF MemoryExtendsDisk
<1>7. RequestsSound'
  <2>1. ASSUME NEW s \in Steps, approvals[s].status # "none"
        PROVE  /\ s \in Gated /\ Deps[s] \subseteq Succeeded(results')
               /\ approvals[s].context = ContextOf(s, results')
    <3>1. /\ s \in Gated /\ Deps[s] \subseteq Succeeded(results)
          /\ approvals[s].context = ContextOf(s, results)
      BY <1>1, <2>1 DEF Consistent, RequestsSound
    <3> QED BY <1>1, <1>4, <3>1, ContextKept DEF TypeOK
  <2>2. ASSUME NEW s \in Terminal(results') PROVE approvals[s].status \in {"none", "approved"}
    BY <1>1, <1>2 DEF Consistent, ApprovalBarrier, Terminal
  <2> QED BY <1>1, <2>1, <2>2 DEF RequestsSound
<1>8. TasksSound' /\ ApprovalBarrier'
  BY <1>1 DEF TasksSound, ApprovalBarrier
<1>9. DurableApprovalBeforeHandler' /\ CompensationAfterDurablePhase'
  BY <1>1 DEF Consistent, DurableApprovalBeforeHandler, CompensationAfterDurablePhase
<1> QED BY <1>5, <1>6, <1>7, <1>8, <1>9 DEF Consistent

\* A wave is gathered: only eligible steps become undone.
LEMMA ConsistentGatherWave == TypeOK /\ Consistent /\ GatherWave => Consistent'
<1> SUFFICES ASSUME TypeOK, Consistent, GatherWave PROVE Consistent'
  OBVIOUS
<1>1. /\ comps' = comps \cup Succeeded(batch)
      /\ pc = "compBatch" /\ pc' = "compSave" /\ task' = NoTasks
      /\ UNCHANGED <<disk, phase, results, approvals, batch, begun, undoBegun>>
  BY DEF GatherWave, Undone
<1>2. Succeeded(batch) \subseteq Eligible(results)
  BY <1>1 DEF Consistent, TasksSound, Succeeded, InState, Remaining
<1>3. PhasesAgree' /\ DiskSound' /\ RequestsSound'
  BY <1>1 DEF Consistent, PhasesAgree, DiskSound, RequestsSound, ForwardPC, ForwardSave, UndoPC
<1>4. MemoryExtendsDisk'
  BY <1>1 DEF Consistent, MemoryExtendsDisk
<1>5. CompensationsSound'
  BY <1>1, <1>2 DEF Consistent, CompensationsSound, PhasesAgree, UndoPC
<1>6. TasksSound' /\ ApprovalBarrier'
  BY <1>1 DEF TasksSound, ApprovalBarrier
<1>7. DurableApprovalBeforeHandler' /\ CompensationAfterDurablePhase'
  BY <1>1 DEF Consistent, DurableApprovalBeforeHandler, CompensationAfterDurablePhase
<1> QED BY <1>3, <1>4, <1>5, <1>6, <1>7 DEF Consistent

\* Every action of a batch or wave.
LEMMA ConsistentTasks == TypeOK /\ Consistent /\ Tasks => Consistent'
<1> SUFFICES ASSUME TypeOK, Consistent, Tasks PROVE Consistent'
  OBVIOUS
<1>1. ASSUME NEW s \in Steps, FinishHandler(s) \/ FinishCompensator(s) PROVE Consistent'
  BY <1>1, ConsistentFinishTask DEF FinishHandler, FinishCompensator
<1> QED BY <1>1, ConsistentStartHandler, ConsistentStartCompensator, ConsistentGatherBatch,
           ConsistentGatherWave DEF Tasks

(* Saves *)

\* The checkpoint the runner offers extends the stored one, and the next
\* invocation can start from it.
LEMMA CandidateShape ==
    ASSUME TypeOK, Consistent, pc \in SavePoint
    PROVE  /\ Candidate.approvals = approvals
           /\ pc \in ForwardSave =>
                /\ Candidate.phase = "forward" /\ Candidate.comps = {}
                /\ Terminal(Candidate.steps) = Succeeded(results)
                /\ Succeeded(Candidate.steps) = Succeeded(results)
                /\ \A s \in Succeeded(results) : Candidate.steps[s] = results[s]
           /\ pc \in PhaseSave =>
                /\ Candidate.phase = phase /\ phase # "forward"
                /\ Candidate.comps = comps /\ Candidate.steps = results
<1>1. CASE pc \in ForwardSave
  <2>1. Candidate = BuildCheckpoint("forward", results, approvals, {})
    BY <1>1 DEF Candidate
  <2>2. pc \notin PhaseSave
    BY <1>1 DEF ForwardSave, PhaseSave
  <2> QED BY <1>1, <2>1, <2>2, ForwardCheckpoint DEF TypeOK
<1>2. CASE pc \notin ForwardSave
  <2>1. Candidate = BuildCheckpoint(phase, results, approvals, comps)
    BY <1>2 DEF Candidate
  <2>2. pc \in PhaseSave /\ phase # "forward"
    BY <1>2 DEF SavePoint, PhaseSave, Consistent, PhasesAgree, UndoPC
  <2> QED BY <1>2, <2>1, <2>2, SagaCheckpoint DEF TypeOK
<1> QED BY <1>1, <1>2

\* The checkpoint a save leaves is sound.
LEMMA SavedDurable ==
    ASSUME TypeOK, Consistent, pc \in SavePoint, Save, UNCHANGED <<begun, undoBegun>>
    PROVE  Durable'
<1>1. disk' = Candidate
  BY DEF Save
<1>2. pc \in ForwardSave \/ pc \in PhaseSave
  BY DEF SavePoint
<1>3. pc # "idle" /\ (pc \in ForwardSave => disk.phase \in {"none", "forward"})
  BY DEF SavePoint, ForwardSave, PhaseSave, ForwardPC, Consistent, PhasesAgree
<1>4. DiskSound'
  <2>1. disk'.phase # "none" /\ (disk'.phase = "forward" => pc \in ForwardSave)
    BY <1>1, <1>2, CandidateShape DEF TypeOK, Phase
  <2>2. Succeeded(disk'.steps) = Succeeded(results)
    BY <1>1, <1>2, CandidateShape
  <2>3. disk'.comps \subseteq Eligible(disk'.steps)
    BY <1>1, <1>2, <2>2, CandidateShape DEF Eligible, Consistent, CompensationsSound
  <2>4. \A s \in Steps : disk'.approvals[s].status # "none" =>
          s \in Gated /\ Deps[s] \subseteq Succeeded(disk'.steps)
    BY <1>1, <1>3, <2>2, CandidateShape DEF Consistent, RequestsSound
  <2> QED BY <1>1, <2>1, <2>2, <2>3, <2>4, CandidateShape DEF DiskSound
<1>5. Version < 3 => disk'.phase \in {"none", "forward"}
  BY <1>1, <1>2, CandidateShape DEF Consistent, PhasesAgree
<1>6. DurableApprovalBeforeHandler'
  BY <1>1, <1>3, CandidateShape, WorkflowAssumption DEF Consistent, DurableApprovalBeforeHandler,
                                                        MemoryExtendsDisk
<1>7. CompensationAfterDurablePhase'
  <2> SUFFICES ASSUME undoBegun # {} PROVE CompensationAfterDurablePhase'
    BY DEF CompensationAfterDurablePhase
  <2>1. /\ disk.phase \in {"compensating", "complete"}
        /\ \A s \in undoBegun : disk.steps[s].state = "succeeded"
    BY DEF Consistent, CompensationAfterDurablePhase
  <2>2. pc \in PhaseSave /\ results = disk.steps
    BY <1>2, <1>3, <2>1 DEF Consistent, MemoryExtendsDisk
  <2>3. disk'.phase = phase /\ phase # "forward" /\ disk'.steps = disk.steps
    BY <1>1, <2>2, CandidateShape
  <2>4. disk'.phase \in {"compensating", "complete"}
    BY <2>3 DEF TypeOK, Phase
  <2> QED BY <2>1, <2>3, <2>4 DEF CompensationAfterDurablePhase
<1> QED BY <1>4, <1>5, <1>6, <1>7 DEF Durable

\* After a save of the forward phase the memory that goes on holds exactly the
\* durable requests, and every durable result.
LEMMA AfterForwardSave ==
    ASSUME TypeOK, Consistent, pc \in ForwardSave, Save,
           results' \in [Steps -> Result], Keeps(results', results),
           UNCHANGED <<phase, approvals, comps, task, begun, undoBegun>>,
           pc' \in {"forward", "finish"},
           pc' = "forward" => results' = results
    PROVE  Consistent'
<1>1. /\ disk'.phase = "forward" /\ disk'.comps = {} /\ disk'.approvals = approvals
      /\ Terminal(disk'.steps) = Succeeded(results)
      /\ \A s \in Succeeded(results) : disk'.steps[s] = results[s]
  BY CandidateShape DEF Save, SavePoint
<1>2. pc # "idle" /\ pc \in ForwardPC /\ pc \notin {"batch", "compBatch"}
  BY DEF ForwardSave, ForwardPC
<1>3. phase = "forward" /\ comps = {} /\ task = NoTasks
  BY <1>2 DEF Consistent, PhasesAgree, CompensationsSound, TasksSound
<1>4. Durable'
  BY SavedDurable DEF SavePoint
<1>5. PhasesAgree'
  BY <1>1, <1>3 DEF PhasesAgree, ForwardPC, ForwardSave, UndoPC
<1>6. MemoryExtendsDisk'
  <2>1. ASSUME NEW s \in Terminal(disk'.steps) PROVE results'[s] = disk'.steps[s]
    <3>1. s \in Succeeded(results) /\ s \in Terminal(results)
      BY <1>1, <2>1 DEF Succeeded, Terminal, Pending, InState
    <3> QED BY <1>1, <3>1 DEF Keeps
  <2> QED BY <1>1, <1>3, <2>1 DEF MemoryExtendsDisk
<1>7. RequestsSound'
  <2>1. pc' \in ForwardPC => results' = results
    BY DEF ForwardPC, ForwardSave
  <2> QED BY <1>2, <2>1, KeptResults DEF Consistent, RequestsSound
<1>8. CompensationsSound' /\ TasksSound' /\ ApprovalBarrier'
  BY <1>3 DEF CompensationsSound, TasksSound, ApprovalBarrier
<1> QED BY <1>4, <1>5, <1>6, <1>7, <1>8 DEF Durable, Consistent

\* Every save.
LEMMA ConsistentSaves == TypeOK /\ Consistent /\ Saves => Consistent'
<1> SUFFICES ASSUME TypeOK, Consistent, Saves PROVE Consistent'
  OBVIOUS
<1>0. Keeps(results, results) /\ results \in [Steps -> Result]
  BY DEF Keeps, TypeOK
<1>1. CASE SaveDecisions
  <2>1. phase = "forward"
    BY <1>1 DEF SaveDecisions, Consistent, PhasesAgree, ForwardPC, ForwardSave
  <2> QED BY <1>0, <1>1, <2>1, AfterForwardSave
          DEF SaveDecisions, AfterRestore, ForwardSave, memory, work
<1>2. CASE SaveCancellation
  BY <1>2, AfterForwardSave, RejectRunType, RejectRunKeeps
     DEF SaveCancellation, ForwardSave, work, TypeOK
<1>3. CASE SaveRequests
  BY <1>3, SavedDurable, ConsistentEnd DEF SaveRequests, SavePoint, ForwardSave
<1>4. CASE SaveBatch
  <2>1. Block(Pending(results), results) \in [Steps -> Result]
    BY MarkedType DEF TypeOK
  <2> QED BY <1>0, <1>4, <2>1, AfterForwardSave, BlockKeeps DEF SaveBatch, ForwardSave, TypeOK
<1>5. CASE SavePhase
  <2>1. /\ disk'.phase = "compensating" /\ disk'.steps = results /\ disk'.comps = comps
        /\ disk'.approvals = approvals /\ phase = "compensating" /\ pc' = "compensate"
        /\ UNCHANGED <<phase, results, approvals, comps, task, batch, begun, undoBegun>>
    BY <1>5, CandidateShape DEF SavePhase, Save, SavePoint, PhaseSave, memory, work,
                                Consistent, PhasesAgree
  <2>2. Durable'
    BY <1>5, SavedDurable DEF SavePhase, SavePoint, PhaseSave
  <2>3. PhasesAgree' /\ MemoryExtendsDisk'
    BY <1>5, <2>1 DEF SavePhase, Consistent, PhasesAgree, MemoryExtendsDisk, ForwardPC, ForwardSave
  <2>4. RequestsSound' /\ CompensationsSound' /\ TasksSound' /\ ApprovalBarrier'
    BY <1>5, <2>1 DEF SavePhase, Consistent, RequestsSound, CompensationsSound, TasksSound,
                      ApprovalBarrier, ForwardPC, ForwardSave
  <2> QED BY <2>2, <2>3, <2>4 DEF Durable, Consistent
<1>6. CASE SaveWave
  <2>1. /\ disk'.phase = "compensating" /\ disk'.steps = results /\ disk'.comps = comps
        /\ disk'.approvals = approvals /\ phase = "compensating"
        /\ UNCHANGED <<begun, undoBegun>>
    BY <1>6, CandidateShape DEF SaveWave, Save, SavePoint, PhaseSave, Consistent, PhasesAgree, UndoPC
  <2>2. Durable'
    BY <1>6, <2>1, SavedDurable DEF SaveWave, SavePoint, PhaseSave
  <2>3. CASE BatchFailed
    BY <1>6, <2>2, <2>3, ConsistentEnd DEF SaveWave
  <2>4. CASE ~ BatchFailed
    <3>1. /\ pc' = "compensate" /\ batch' = NoBatch /\ pc = "compSave"
          /\ UNCHANGED <<phase, results, approvals, comps, task>>
      BY <1>6, <2>4 DEF SaveWave, memory
    <3>2. PhasesAgree' /\ MemoryExtendsDisk'
      BY <2>1, <3>1 DEF Consistent, PhasesAgree, MemoryExtendsDisk, ForwardPC, ForwardSave
    <3>3. RequestsSound' /\ CompensationsSound' /\ TasksSound' /\ ApprovalBarrier'
      BY <2>1, <3>1 DEF Consistent, RequestsSound, CompensationsSound, TasksSound, ApprovalBarrier,
                        ForwardPC, ForwardSave
    <3> QED BY <2>2, <3>2, <3>3 DEF Durable, Consistent
  <2> QED BY <2>3, <2>4
<1>7. CASE SaveComplete
  BY <1>7, SavedDurable, ConsistentEnd DEF SaveComplete, SavePoint, PhaseSave
<1> QED BY <1>1, <1>2, <1>3, <1>4, <1>5, <1>6, <1>7 DEF Saves

(* After the forward loop *)

\* Every action between the forward loop and the report.
LEMMA ConsistentOutcome == TypeOK /\ Consistent /\ Outcome => Consistent'
<1> SUFFICES ASSUME TypeOK, Consistent, Outcome PROVE Consistent'
  OBVIOUS
<1>1. CASE BeginCompensating \/ Seal
  <2>1. /\ pc = "finish" /\ phase = "forward"
        /\ \/ pc' = "compensatingSave" /\ phase' = "compensating"
           \/ pc' = "completeSave" /\ phase' = "complete"
        /\ UNCHANGED <<disk, results, approvals, comps, task, batch, begun, undoBegun>>
    BY <1>1 DEF BeginCompensating, Seal, work
  <2>2. Version = 3
    BY <1>1, WorkflowAssumption DEF BeginCompensating, Seal, MustUndo, Eligible
  <2>3. PhasesAgree'
    BY <2>1, <2>2 DEF Consistent, PhasesAgree, ForwardPC, ForwardSave, UndoPC
  <2>4. DiskSound' /\ MemoryExtendsDisk' /\ RequestsSound'
    BY <2>1 DEF Consistent, DiskSound, MemoryExtendsDisk, RequestsSound, ForwardPC, ForwardSave
  <2>5. CompensationsSound' /\ TasksSound' /\ ApprovalBarrier'
    BY <2>1 DEF Consistent, CompensationsSound, TasksSound, ApprovalBarrier
  <2>6. DurableApprovalBeforeHandler' /\ CompensationAfterDurablePhase'
    BY <2>1 DEF Consistent, DurableApprovalBeforeHandler, CompensationAfterDurablePhase
  <2> QED BY <2>3, <2>4, <2>5, <2>6 DEF Consistent
<1>2. CASE ContinueCompensating
  <2>1. /\ pc = "finish" /\ pc' = "compensate" /\ phase = "compensating"
        /\ UNCHANGED <<disk, phase, results, approvals, comps, task, batch, begun, undoBegun>>
    BY <1>2 DEF ContinueCompensating, memory, work
  <2>2. PhasesAgree' /\ DiskSound' /\ MemoryExtendsDisk' /\ RequestsSound'
    BY <2>1 DEF Consistent, PhasesAgree, DiskSound, MemoryExtendsDisk, RequestsSound,
                ForwardPC, ForwardSave, UndoPC
  <2>3. CompensationsSound' /\ TasksSound' /\ ApprovalBarrier'
    BY <2>1 DEF Consistent, CompensationsSound, TasksSound, ApprovalBarrier
  <2>4. DurableApprovalBeforeHandler' /\ CompensationAfterDurablePhase'
    BY <2>1 DEF Consistent, DurableApprovalBeforeHandler, CompensationAfterDurablePhase
  <2> QED BY <2>2, <2>3, <2>4 DEF Consistent
<1>3. CASE ReportOutcome
  BY <1>3, ConsistentEnd, DurableUnchanged DEF ReportOutcome
<1>7. CASE StartWave /\ Wave = {}
  BY <1>7, ConsistentEnd, DurableUnchanged DEF StartWave
<1>4. CASE StartWave /\ Wave # {}
  <2>1. /\ pc = "compensate" /\ pc' = "compBatch" /\ batch' = NoBatch
        /\ task' = [s \in Steps |-> IF s \in Wave THEN "queued" ELSE "none"]
        /\ UNCHANGED <<disk, phase, results, approvals, comps, begun, undoBegun>>
    BY <1>4 DEF StartWave, StartTasks, memory
  <2>2. PhasesAgree' /\ DiskSound' /\ MemoryExtendsDisk' /\ RequestsSound' /\ CompensationsSound'
    BY <2>1 DEF Consistent, PhasesAgree, DiskSound, MemoryExtendsDisk, RequestsSound,
                CompensationsSound, ForwardPC, ForwardSave, UndoPC
  <2>3. TasksSound' /\ ApprovalBarrier'
    <3>1. \A s \in Wave : s \in Remaining /\ Dependents(s) \cap Eligible(results) \subseteq comps
      BY DEF Wave, Remaining
    <3>2. \A s \in Steps : NoBatch[s].state # "succeeded"
      BY DEF NoBatch, NoResults, NotRun, TerminalWithoutRun
    <3> QED BY <2>1, <3>1, <3>2 DEF TasksSound, ApprovalBarrier, Remaining, Dependents
  <2>4. DurableApprovalBeforeHandler' /\ CompensationAfterDurablePhase'
    BY <2>1 DEF Consistent, DurableApprovalBeforeHandler, CompensationAfterDurablePhase
  <2> QED BY <2>2, <2>3, <2>4 DEF Consistent
<1>5. CASE WavesDone
  <2>1. /\ pc = "compensate" /\ pc' = "completeSave" /\ phase' = "complete"
        /\ UNCHANGED <<disk, results, approvals, comps, task, batch, begun, undoBegun>>
    BY <1>5 DEF WavesDone, work
  <2>2. PhasesAgree' /\ DiskSound' /\ MemoryExtendsDisk' /\ RequestsSound' /\ CompensationsSound'
    BY <2>1 DEF Consistent, PhasesAgree, DiskSound, MemoryExtendsDisk, RequestsSound,
                CompensationsSound, ForwardPC, ForwardSave, UndoPC
  <2>3. TasksSound' /\ ApprovalBarrier'
    BY <2>1 DEF Consistent, TasksSound, ApprovalBarrier
  <2>4. DurableApprovalBeforeHandler' /\ CompensationAfterDurablePhase'
    BY <2>1 DEF Consistent, DurableApprovalBeforeHandler, CompensationAfterDurablePhase
  <2> QED BY <2>2, <2>3, <2>4 DEF Consistent
<1> QED BY <1>1, <1>2, <1>3, <1>4, <1>5, <1>7 DEF Outcome

\* Every step.
LEMMA ConsistentNext == TypeOK /\ Consistent /\ [Next]_vars => Consistent'
<1> SUFFICES ASSUME TypeOK, Consistent, [Next]_vars PROVE Consistent'
  OBVIOUS
<1>1. CASE Invoke
  BY <1>1, ConsistentStartFresh, ConsistentRefuse, ConsistentResume DEF Invoke
<1>2. CASE Abort
  BY <1>2, ConsistentEnd, DurableUnchanged DEF Abort
<1>3. CASE UNCHANGED vars
  BY <1>3 DEF vars, memory, work, Consistent, PhasesAgree, DiskSound, MemoryExtendsDisk,
              RequestsSound, CompensationsSound, TasksSound, ApprovalBarrier,
              DurableApprovalBeforeHandler, CompensationAfterDurablePhase, Remaining
<1> QED BY <1>1, <1>2, <1>3, ConsistentForward, ConsistentTasks, ConsistentSaves,
           ConsistentOutcome DEF Next, Run

-----------------------------------------------------------------------------
(* The theorems *)

\* The memory of every invocation extends the checkpoint it started from in the
\* way the code relies on, across any number of saves, crashes and resumes.
THEOREM ConsistentAlways == Spec => []Consistent
<1>1. Init => TypeOK /\ Consistent
  BY TypeInit, ConsistentInit
<1>2. TypeOK /\ Consistent /\ [Next]_vars => (TypeOK /\ Consistent)'
  BY TypeNext, ConsistentNext
<1> QED BY <1>1, <1>2, PTL DEF Spec

\* A gated handler is only ever invoked once its approval is durable, for every
\* workflow and any history of decisions, crashes and resumes.
THEOREM ApprovalIsDurableFirst == Spec => []DurableApprovalBeforeHandler
BY ConsistentAlways, PTL DEF Consistent

\* No handler runs beside an undecided, rejected or cancelled request.
THEOREM BarrierHolds == Spec => []ApprovalBarrier
BY ConsistentAlways, PTL DEF Consistent

\* A gated handler receives exactly the outputs its durable approval names.
THEOREM ApprovedOutputsAreSeen == Spec => []HandlerSeesApprovedOutputs
<1>1. TypeOK /\ Consistent => HandlerSeesApprovedOutputs
  <2> SUFFICES ASSUME TypeOK, Consistent, pc = "batch",
                      NEW s \in Running \cap Gated, NEW d \in Deps[s]
               PROVE  disk.approvals[s].context[d] = results[d].output
    BY DEF HandlerSeesApprovedOutputs
  <2>1. s \in Steps /\ d \in Steps /\ task[s] = "running"
    BY WorkflowAssumption DEF Running
  <2>2. approvals[s].status = "approved" /\ disk.approvals = approvals
    BY <2>1 DEF Consistent, TasksSound, MemoryExtendsDisk
  <2>3. approvals[s].context = ContextOf(s, results)
    BY <2>1, <2>2 DEF Consistent, RequestsSound
  <2> QED BY <2>1, <2>2, <2>3 DEF ContextOf
<1> QED BY <1>1, TypeCorrect, ConsistentAlways, PTL

\* Once a rejection is durable no further handler starts, in any invocation.
THEOREM RejectionIsFinal == Spec => NoHandlerAfterRejection
<1>1. Consistent /\ [Next]_vars =>
        [(\E s \in Steps : disk.approvals[s].status = "rejected") => begun' = begun]_vars
  <2> SUFFICES ASSUME Consistent, Next, NEW r \in Steps, disk.approvals[r].status = "rejected"
               PROVE  begun' = begun
    OBVIOUS
  <2>1. pc # "batch"
    BY DEF Consistent, ApprovalBarrier
  <2> QED BY <2>1 DEF Next, Invoke, StartFresh, Refuse, Resume, Abort, Run, Forward, LoopEnds, Stall,
          Deny, RequestApprovals, StayPaused, StartBatch, Tasks, StartHandler, FinishHandler,
          StartCompensator, FinishCompensator, FinishTask, GatherBatch, GatherWave, Saves,
          SaveDecisions, SaveCancellation, SaveRequests, SaveBatch, SavePhase, SaveWave,
          SaveComplete, Outcome, BeginCompensating, ContinueCompensating, Seal, ReportOutcome,
          StartWave, WavesDone
<1> QED BY <1>1, ConsistentAlways, PTL DEF Spec, NoHandlerAfterRejection

\* No handler and no compensator runs again once its success is durable.
THEOREM NothingIsReplayed == Spec => []NoReplay
<1>1. TypeOK /\ Consistent => NoReplay
  <2> SUFFICES ASSUME TypeOK, Consistent, NEW s \in Steps, task[s] = "running"
               PROVE  IF pc = "batch" THEN disk.steps[s].state # "succeeded" ELSE s \notin disk.comps
    BY DEF NoReplay, Running
  <2>1. CASE pc = "batch"
    <3>1. results[s].state = "pending"
      BY <2>1 DEF Consistent, TasksSound, Pending, InState
    <3>2. s \in Terminal(disk.steps) => results[s] = disk.steps[s]
      BY <2>1 DEF Consistent, MemoryExtendsDisk
    <3> QED BY <2>1, <3>1, <3>2 DEF Terminal, Pending, InState
  <2>2. CASE pc # "batch"
    <3>1. pc = "compBatch"
      BY <2>2 DEF Consistent, TasksSound, NoTasks
    <3> QED BY <3>1 DEF Consistent, TasksSound, MemoryExtendsDisk, Remaining
  <2> QED BY <2>1, <2>2
<1> QED BY <1>1, TypeCorrect, ConsistentAlways, PTL

\* A compensator starts only after the compensating phase is durable, and only
\* for a durable success.
THEOREM PhaseIsDurableFirst == Spec => []CompensationAfterDurablePhase
BY ConsistentAlways, PTL DEF Consistent

\* Once a compensator has started no forward handler ever starts again.
THEOREM SagaIsOneWay == Spec => NoForwardAfterCompensation
<1>1. Consistent /\ [Next]_vars => [undoBegun # {} => begun' = begun]_vars
  <2> SUFFICES ASSUME Consistent, Next, undoBegun # {} PROVE begun' = begun
    OBVIOUS
  <2>1. pc # "batch"
    BY DEF Consistent, CompensationAfterDurablePhase, PhasesAgree, ForwardPC
  <2> QED BY <2>1 DEF Next, Invoke, StartFresh, Refuse, Resume, Abort, Run, Forward, LoopEnds, Stall,
          Deny, RequestApprovals, StayPaused, StartBatch, Tasks, StartHandler, FinishHandler,
          StartCompensator, FinishCompensator, FinishTask, GatherBatch, GatherWave, Saves,
          SaveDecisions, SaveCancellation, SaveRequests, SaveBatch, SavePhase, SaveWave,
          SaveComplete, Outcome, BeginCompensating, ContinueCompensating, Seal, ReportOutcome,
          StartWave, WavesDone
<1> QED BY <1>1, ConsistentAlways, PTL DEF Spec, NoForwardAfterCompensation

\* A compensator runs only when the compensation of every compensable step that
\* depends on it directly is durable.
THEOREM DirectDependentsUndoneFirst == Spec => []DirectReverseOrder
<1>1. TypeOK /\ Consistent => DirectReverseOrder
  <2> SUFFICES ASSUME Consistent, pc = "compBatch", NEW s \in Steps, task[s] = "running",
                      NEW t \in Eligible(disk.steps), s \in Deps[t]
               PROVE  t \in disk.comps
    BY DEF DirectReverseOrder, Running
  <2>1. results = disk.steps /\ comps = disk.comps
    BY DEF Consistent, PhasesAgree, MemoryExtendsDisk, UndoPC
  <2>2. Dependents(s) \cap Eligible(results) \subseteq comps
    BY DEF Consistent, TasksSound
  <2> QED BY <2>1, <2>2, WorkflowAssumption DEF Dependents, Eligible
<1> QED BY <1>1, TypeCorrect, ConsistentAlways, PTL

\* The store accepts every checkpoint the runner offers it: the code never trips
\* over its own well-formedness and monotonicity checks.
THEOREM SavesAreAccepted == Spec => []SaveNeverRefused
<1>1. TypeOK /\ Consistent => SaveNeverRefused
  <2> SUFFICES ASSUME TypeOK, Consistent, pc \in SavePoint PROVE StoreAccepts(Candidate)
    BY DEF SaveNeverRefused
  <2>1. pc \in ForwardSave \/ pc \in PhaseSave
    BY DEF SavePoint
  <2>2. /\ pc # "idle" /\ disk.phase # "complete"
        /\ pc \in ForwardSave => disk.phase \in {"none", "forward"}
        /\ pc \in PhaseSave => phase \in {"compensating", "complete"} /\ Version = 3
        /\ pc \in PhaseSave /\ phase = "compensating" => disk.phase \in {"none", "forward", "compensating"}
    BY WorkflowAssumption DEF SavePoint, ForwardSave, PhaseSave, ForwardPC, UndoPC, Consistent,
                              PhasesAgree
  <2>3. Terminal(disk.steps) \subseteq Steps
    BY DEF Terminal
  <2>4. WellFormed(Candidate)
    <3>1. Version = 1 => \A s \in Steps : approvals[s].status = "none"
      BY <2>2, WorkflowAssumption DEF Consistent, RequestsSound
    <3>2. comps \subseteq Succeeded(results)
      BY DEF Consistent, CompensationsSound, Eligible
    <3> QED BY <2>1, <2>2, <3>1, <3>2, CandidateShape, WorkflowAssumption DEF WellFormed
  <2>5. ASSUME disk.phase # "none" PROVE Monotonic(disk, Candidate)
    <3>1. PhaseOrder[Candidate.phase] >= PhaseOrder[disk.phase]
      BY <2>1, <2>2, <2>5, CandidateShape DEF PhaseOrder, TypeOK, Checkpoint, Phase
    <3>2. ASSUME NEW s \in Terminal(disk.steps) PROVE Candidate.steps[s] = disk.steps[s]
      <4>1. results[s] = disk.steps[s]
        BY <2>2 DEF Consistent, MemoryExtendsDisk
      <4>2. pc \in ForwardSave => s \in Succeeded(results)
        BY <2>2, <4>1 DEF Consistent, DiskSound, Succeeded, InState
      <4> QED BY <2>1, <4>1, <4>2, CandidateShape
    <3>3. ASSUME NEW s \in Steps
          PROVE  /\ disk.approvals[s].status # "none" =>
                      /\ Candidate.approvals[s].status # "none"
                      /\ Candidate.approvals[s].context = disk.approvals[s].context
                 /\ disk.approvals[s].status \notin {"none", "pending"} =>
                      Candidate.approvals[s] = disk.approvals[s]
      BY <2>2, CandidateShape DEF Consistent, MemoryExtendsDisk
    <3>4. disk.comps \subseteq Candidate.comps
      BY <2>1, <2>2, CandidateShape DEF Consistent, DiskSound, MemoryExtendsDisk
    <3> QED BY <2>2, <3>1, <3>2, <3>3, <3>4 DEF Monotonic
  <2> QED BY <2>4, <2>5 DEF StoreAccepts
<1> QED BY <1>1, TypeCorrect, ConsistentAlways, PTL
=============================================================================
