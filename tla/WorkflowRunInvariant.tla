-------------------------- MODULE WorkflowRunInvariant --------------------------
(***************************************************************************)
(* The inductive invariant of WorkflowRun: what ties the memory of a live  *)
(* invocation to the checkpoint it started from and keeps extending.       *)
(***************************************************************************)
EXTENDS WorkflowRun

ForwardPC == {"forward", "batch"} \cup ForwardSave
UndoPC    == {"compensate", "compBatch", "compSave"}

\* The saga phase in memory, the durable one, and where the invocation is.
PhasesAgree ==
    /\ pc = "idle" => phase = "forward" /\ results = NoResults
                      /\ approvals = NoApprovals /\ comps = {}
    /\ pc \in ForwardPC => phase = "forward" /\ disk.phase \in {"none", "forward"}
    /\ pc = "finish" => phase = disk.phase \/ (phase = "forward" /\ disk.phase = "none")
    /\ pc = "compensatingSave" => phase = "compensating" /\ disk.phase \in {"none", "forward"}
    /\ pc \in UndoPC => phase = "compensating" /\ disk.phase = "compensating"
    /\ pc = "completeSave" => phase = "complete" /\ disk.phase # "complete"
    /\ Version < 3 => phase = "forward" /\ disk.phase \in {"none", "forward"}

\* What a checkpoint holds: only successes and no compensation while the run
\* goes forward, compensations of eligible steps only, requests of gates whose
\* dependencies are durable successes.
DiskSound ==
    /\ disk.phase = "none" => disk = NoCheckpoint
    /\ disk.phase \in {"none", "forward"} =>
         disk.comps = {} /\ Terminal(disk.steps) = Succeeded(disk.steps)
    /\ disk.comps \subseteq Eligible(disk.steps)
    /\ \A s \in Steps : disk.approvals[s].status # "none" =>
         s \in Gated /\ Deps[s] \subseteq Succeeded(disk.steps)

\* The memory of a live invocation holds at least what the checkpoint holds, and
\* exactly that where the code relies on it.
MemoryExtendsDisk ==
    pc # "idle" =>
      /\ \A s \in Terminal(disk.steps) : results[s] = disk.steps[s]
      /\ disk.phase \in {"compensating", "complete"} => results = disk.steps
      /\ \A s \in Steps :
           /\ disk.approvals[s].status # "none" =>
                approvals[s].status # "none" /\ approvals[s].context = disk.approvals[s].context
           /\ disk.approvals[s].status \notin {"none", "pending"} =>
                approvals[s] = disk.approvals[s]
      /\ pc \notin {"decisionSave", "cancelSave", "requestSave"} => approvals = disk.approvals
      /\ disk.comps \subseteq comps
      /\ pc \in {"finish", "compensate", "compBatch"} => comps = disk.comps

\* A request is made only once the dependencies have succeeded, on their
\* outputs, and until the forward part ends only an approved gate has a result.
RequestsSound ==
    /\ pc # "idle" => \A s \in Steps : approvals[s].status # "none" =>
         /\ s \in Gated
         /\ Deps[s] \subseteq Succeeded(results)
         /\ approvals[s].context = ContextOf(s, results)
    /\ pc \in ForwardPC => \A s \in Terminal(results) : approvals[s].status \in {"none", "approved"}

CompensationsSound ==
    /\ comps \subseteq Eligible(results)
    /\ phase = "forward" => comps = {}

\* The tasks of a batch are pending approved steps, those of a wave are eligible
\* steps whose direct compensable dependents are done.
TasksSound ==
    /\ pc \notin {"batch", "compBatch"} => task = NoTasks
    /\ pc = "batch" => \A s \in Steps : task[s] # "none" =>
         s \in Pending(results) /\ (s \in Gated => approvals[s].status = "approved")
    /\ pc = "compBatch" => \A s \in Steps :
         /\ task[s] # "none" =>
              s \in Remaining /\ Dependents(s) \cap Eligible(results) \subseteq comps
         /\ batch[s].state = "succeeded" => task[s] = "done"

\* Memory and checkpoint agree, and what the handlers and compensators that ever
\* started relied on is durable.
Consistent ==
    /\ PhasesAgree /\ DiskSound /\ MemoryExtendsDisk
    /\ RequestsSound /\ CompensationsSound /\ TasksSound
    /\ ApprovalBarrier
    /\ DurableApprovalBeforeHandler
    /\ CompensationAfterDurablePhase

-----------------------------------------------------------------------------
(* What every step came to, so that each save is a step of the contract *)

Goes        == disk.phase \in {"none", "forward"}
Status(s)   == disk.approvals[s].status
Asked(st)   == {s \in Steps : Status(s) = st}
Met(s)      == Deps[s] \subseteq Succeeded(disk.steps)
Broken(res) == InState(res, "failed") \cup InState(res, "rejected")

\* The checkpoint: what began had its dependencies, requests are bound to the
\* outputs, made together and withdrawn only by a rejection, and once the run no
\* longer goes forward every step has its outcome.
RecordSound ==
    /\ \A s \in begun \cup Succeeded(disk.steps) : Met(s)
    /\ \A s \in Steps \ Asked("none") : disk.approvals[s].context = ContextOf(s, disk.steps)
    /\ Asked("cancelled") # {} => Asked("rejected") # {}
    /\ Asked("pending") # {} => Goes /\ \A s \in Gated \cap Pending(disk.steps) \cap Asked("none") : ~ Met(s)
    /\ Goes => \A s \in Succeeded(disk.steps) : Status(s) \in {"none", "approved"}
    /\ ~ Goes =>
         /\ Pending(disk.steps) = {}
         /\ InState(disk.steps, "rejected") \subseteq Asked("rejected")
         /\ Succeeded(disk.steps) # Steps => Broken(disk.steps) # {}
    /\ disk.phase = "compensating" => Succeeded(disk.steps) # Steps /\ Eligible(disk.steps) # {}
    /\ disk.phase = "complete" =>
         disk.comps = IF Succeeded(disk.steps) = Steps THEN {} ELSE Eligible(disk.steps)

\* A live invocation: its successes are durable, and what it gave no success failed
\* in a handler or needs such a step.
ResultsSound ==
    /\ pc \notin {"idle", "batchSave"} => Succeeded(results) = Succeeded(disk.steps)
    /\ pc = "forward" /\ disk.phase = "none" => Terminal(results) = {}
    /\ pc \in ForwardPC =>
         /\ InState(results, "rejected") = {} /\ InState(results, "failed") \subseteq begun
         /\ \A s \in InState(results, "blocked") :
              \E d \in Deps[s] : results[d].state \in {"failed", "blocked"}
         /\ InState(results, "blocked") # {} => InState(results, "failed") # {}

\* Saves that change requests: how memory differs from the checkpoint.
DecisionsSound ==
    /\ pc = "decisionSave" =>
         /\ \E s \in Steps : approvals[s] # disk.approvals[s]
         /\ \A s \in Steps : approvals[s] # disk.approvals[s] =>
              Status(s) = "pending" /\ approvals[s].status \in {"approved", "rejected"}
    /\ pc = "cancelSave" =>
         /\ Asked("rejected") # {} /\ Asked("pending") # {}
         /\ \A s \in Steps : approvals[s] = IF s \in Asked("pending")
                                              THEN [disk.approvals[s] EXCEPT !.status = "cancelled"]
                                              ELSE disk.approvals[s]
    /\ pc = "requestSave" =>
         /\ Asked("none") \cup Asked("approved") = Steps
         /\ \E s \in Steps : approvals[s].status = "pending"
         /\ \A s \in Steps : approvals[s] # disk.approvals[s] =>
              /\ s \in Gated \cap Asked("none") \cap Pending(results) /\ Met(s)
              /\ approvals[s].status = "pending"
         /\ \A s \in Gated \cap Pending(results) : Met(s) => approvals[s].status # "none"

\* Every step that ever began and still has no result is in the batch, and what a
\* batch adds began in it or before.
BatchSound ==
    /\ pc = "batch" => \A s \in Steps :
         /\ s \in begun \cap Pending(results) => task[s] # "none"
         /\ task[s] # "none" => Met(s)
         /\ task[s] \in {"running", "done"} => s \in begun
         /\ task[s] = "done" => batch[s].state \in {"failed", "succeeded"}
         /\ batch[s].state = "failed" => task[s] = "done"
    /\ pc = "batchSave" =>
         /\ Asked("none") \cup Asked("approved") = Steps
         /\ begun \subseteq Terminal(results)
         /\ \A s \in Succeeded(results) : s \in begun \/ s \in Succeeded(disk.steps)
         /\ \A s \in Succeeded(results) : Met(s)
         /\ InState(batch, "failed") \subseteq InState(results, "failed")

\* The forward part is over: the outcomes that the saga's first save makes durable.
OutcomeSound ==
    pc \in {"finish", "compensatingSave", "completeSave"} /\ Goes =>
      /\ disk.phase = "forward" /\ Asked("pending") = {} /\ Pending(results) = {}
      /\ InState(results, "rejected") = Asked("rejected")
      /\ InState(results, "failed") \subseteq begun
      /\ Asked("rejected") = {} => InState(results, "blocked") \cap begun = {}
      /\ Succeeded(results) # Steps => Broken(results) # {}

\* The saga: what is owed, what began, and what the wave that was gathered adds.
UndoSound ==
    /\ pc = "compensatingSave" =>
         comps = {} /\ Succeeded(results) # Steps /\ Eligible(results) # {}
    /\ pc = "compBatch" => \A s \in Steps :
         /\ task[s] \in {"running", "done"} => s \in undoBegun
         /\ batch[s].state # "pending" => task[s] = "done"
    /\ pc = "compSave" =>
         /\ comps \subseteq disk.comps \cup undoBegun
         /\ InState(batch, "failed") \subseteq Eligible(results) \ comps
    /\ pc = "completeSave" =>
         IF Goes THEN comps = {} /\ (Succeeded(results) # Steps => Eligible(results) = {})
                 ELSE comps = Eligible(results) /\ comps = disk.comps

\* Every outcome, request and compensation is accounted for.
Accounted ==
    /\ RecordSound /\ ResultsSound /\ DecisionsSound /\ BatchSound /\ OutcomeSound
    /\ UndoSound /\ ReportIsDurable
=============================================================================
