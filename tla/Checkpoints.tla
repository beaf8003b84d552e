------------------------------ MODULE Checkpoints ------------------------------
(***************************************************************************)
(* The durable record of one workflow run and the three judgements the     *)
(* code passes on it: WorkflowCheckpoint.from_dict (is it well formed?),   *)
(* _require_monotonic_checkpoint (may it replace the stored one?) and      *)
(* WorkflowRunner._restore_checkpoint (may an invocation resume from it?). *)
(*                                                                         *)
(* A checkpoint belongs to one run_id, workflow and input.  Digests,       *)
(* timestamps, prompts, actors and reasons are left out; a request is      *)
(* identified, as in the code, by the step it gates and by the dependency  *)
(* outputs its digest binds.                                               *)
(***************************************************************************)
EXTENDS Naturals, FiniteSets

CONSTANTS
    Steps,        \* the step ids of the workflow
    Deps,         \* Deps[s]: the steps s names in depends_on
    Gated,        \* steps with an approval policy
    Compensable,  \* steps with a compensation policy
    Version,      \* workflow schema version, also the checkpoint's
    Outputs,      \* JSON values a handler may return
    NoOutput      \* the output of a step that returned nothing

\* Does step b need step a, directly or through other steps?  a is in every
\* set that holds the dependencies of b and is closed under dependency.
Precedes(a, b) ==
    \A U \in SUBSET Steps :
        (Deps[b] \subseteq U /\ \A u \in U : Deps[u] \subseteq U) => a \in U

\* What validate_workflow_data guarantees of a definition the runner accepts.
ASSUME WorkflowAssumption ==
    /\ IsFiniteSet(Steps) /\ Steps # {}
    /\ Deps \in [Steps -> SUBSET Steps]
    /\ \A s \in Steps : ~ Precedes(s, s)
    /\ Gated \subseteq Steps
    /\ Compensable \subseteq Steps
    /\ Version \in 1..3
    /\ Gated # {} => Version >= 2
    /\ Compensable # {} => Version = 3
    /\ NoOutput \notin Outputs

-----------------------------------------------------------------------------
(* Step results, approval records, checkpoints *)

StepState == {"pending", "succeeded", "failed", "blocked", "rejected"}
Result    == [state : StepState, output : Outputs \cup {NoOutput}]

TerminalWithoutRun(state) == [state |-> state, output |-> NoOutput]
Success(output)           == [state |-> "succeeded", output |-> output]
NotRun                    == TerminalWithoutRun("pending")
NoResults                 == [s \in Steps |-> NotRun]

InState(res, state) == {s \in Steps : res[s].state = state}
Pending(res)        == InState(res, "pending")
Succeeded(res)      == InState(res, "succeeded")
Terminal(res)       == Steps \ Pending(res)

ApprovalStatus == {"none", "pending", "approved", "rejected", "cancelled"}
Context        == [Steps -> Outputs \cup {NoOutput}]
Approval       == [status : ApprovalStatus, context : Context]

\* Mutant: the request's digest leaves the dependency outputs out.
UnboundContext(s, res) == [d \in Steps |-> NoOutput]

ContextOf(s, res) == [d \in Steps |-> IF d \in Deps[s] THEN res[d].output ELSE NoOutput]

Request(s, res) == [status |-> "pending", context |-> ContextOf(s, res)]
NoApproval        == [status |-> "none", context |-> [d \in Steps |-> NoOutput]]
NoApprovals       == [s \in Steps |-> NoApproval]

Phase      == {"forward", "compensating", "complete"}
Checkpoint == [phase     : Phase \cup {"none"},
               steps     : [Steps -> Result],
               approvals : [Steps -> Approval],
               comps     : SUBSET Steps]

\* The store has no checkpoint for this run_id.
NoCheckpoint ==
    [phase |-> "none", steps |-> NoResults, approvals |-> NoApprovals, comps |-> {}]

\* Mutant: only successes are kept, in every phase.
BuildFromSuccesses(phase, res, apps, comps) ==
    [phase |-> phase, approvals |-> apps, comps |-> comps,
     steps |-> [s \in Steps |-> IF res[s].state = "succeeded" THEN res[s] ELSE NotRun]]

\* _build_checkpoint: a forward checkpoint keeps only the successful results.
BuildCheckpoint(phase, res, apps, comps) ==
    [phase     |-> phase,
     steps     |-> [s \in Steps |-> IF phase = "forward" /\ res[s].state # "succeeded"
                                      THEN NotRun ELSE res[s]],
     approvals |-> apps,
     comps     |-> comps]

\* The steps whose effect a failed or rejected run must undo.
Eligible(res) == Compensable \cap Succeeded(res)

-----------------------------------------------------------------------------
(* The three judgements *)

\* WorkflowCheckpoint.from_dict, on what a checkpoint says of steps and phases.
WellFormed(ck) ==
    /\ Version < 3 => /\ Terminal(ck.steps) = Succeeded(ck.steps)
                      /\ ck.phase = "forward"
                      /\ ck.comps = {}
    /\ Version = 1 => \A s \in Steps : ck.approvals[s].status = "none"
    /\ ck.comps \subseteq Succeeded(ck.steps)
    /\ ck.phase = "forward" => ck.comps = {}

PhaseOrder == [forward |-> 0, compensating |-> 1, complete |-> 2]

\* _require_monotonic_checkpoint.  A complete checkpoint accepts only itself,
\* saved_at included, so no later save of it is accepted.
Monotonic(existing, candidate) ==
    /\ PhaseOrder[candidate.phase] >= PhaseOrder[existing.phase]
    /\ existing.phase # "complete"
    /\ \A s \in Terminal(existing.steps) : candidate.steps[s] = existing.steps[s]
    /\ \A s \in Steps :
         LET old == existing.approvals[s]
             new == candidate.approvals[s]
         IN  /\ old.status # "none" => new.status # "none" /\ new.context = old.context
             /\ old.status \notin {"none", "pending"} => new = old
    /\ existing.comps \subseteq candidate.comps

\* _restore_checkpoint: every condition under which it does not raise.
Restorable(ck) ==
    LET restored == Terminal(ck.steps)
        unsuccessful == Succeeded(ck.steps) # Steps
    IN  /\ \A s \in restored : Deps[s] \subseteq restored
        /\ ck.comps \subseteq Compensable \cap restored
        /\ \A s \in Steps : ck.approvals[s].status # "none" =>
             /\ s \in Gated
             /\ Deps[s] \subseteq restored
             /\ ck.approvals[s].context = ContextOf(s, ck.steps)
             /\ s \in restored => ck.approvals[s].status = "approved"
        /\ ck.phase # "forward" => restored = Steps
        /\ ck.phase = "compensating" =>
             unsuccessful /\ ~ (Eligible(ck.steps) \subseteq ck.comps)
        /\ ck.phase = "complete" =>
             IF unsuccessful THEN ck.comps = Eligible(ck.steps) ELSE ck.comps = {}
=============================================================================
