--------------------------- MODULE DurableSagaProofs ---------------------------
(***************************************************************************)
(* WorkflowRun implements DurableSaga: every step of every invocation is a *)
(* step of the contract, or changes nothing the contract speaks of.  The   *)
(* proof needs to know what every outcome, request and compensation came   *)
(* from, which is the invariant Accounted.                                 *)
(***************************************************************************)
EXTENDS WorkflowRunProofs, FiniteSetTheorems

\* No run yet.
LEMMA AccountedInit == Init => Accounted
<1> SUFFICES ASSUME Init PROVE Accounted
  OBVIOUS
<1>1. /\ Succeeded(disk.steps) = {} /\ begun = {} /\ pc = "idle"
      /\ disk.phase = "none" /\ report.status = "none"
      /\ Asked("none") = Steps
      /\ \A st \in ApprovalStatus \ {"none"} : Asked(st) = {}
  BY BlankMemory DEF Init, NoCheckpoint, NoReport, Returned, Asked, Status
<1>2. RecordSound
  <2>1. Steps \ Asked("none") = {} /\ Asked("pending") = {} /\ Asked("cancelled") = {}
    BY <1>1 DEF ApprovalStatus
  <2> QED BY <1>1, <2>1 DEF RecordSound, Goes
<1>3. ResultsSound /\ DecisionsSound /\ BatchSound /\ OutcomeSound /\ UndoSound
  BY <1>1 DEF ResultsSound, DecisionsSound, BatchSound, OutcomeSound, UndoSound, ForwardPC,
              ForwardSave
<1>4. ReportIsDurable
  BY <1>1 DEF ReportIsDurable
<1> QED BY <1>2, <1>3, <1>4 DEF Accounted

\* What a checkpoint accounts for stays accounted for while nothing is saved or
\* started.
LEMMA RecordUnchanged == Accounted /\ UNCHANGED <<disk, begun>> => RecordSound'
BY DEF Accounted, RecordSound, Goes, Status, Asked, Met

\* An invocation that ends leaves its checkpoint and its report.
LEMMA AccountedEnd ==
    ASSUME NEW outcome, EndInvocation(outcome), RecordSound', ReportIsDurable'
    PROVE  Accounted'
<1>1. pc' = "idle"
  BY DEF EndInvocation
<1>2. /\ ResultsSound' /\ DecisionsSound' /\ BatchSound' /\ OutcomeSound' /\ UndoSound'
  BY <1>1 DEF ResultsSound, DecisionsSound, BatchSound, OutcomeSound, UndoSound, ForwardPC,
              ForwardSave
<1> QED BY <1>2 DEF Accounted

\* A call that raises promises nothing of the checkpoint.
LEMMA AccountedRaise ==
    ASSUME Accounted, EndInvocation(Raised), UNCHANGED <<disk, begun>>
    PROVE  Accounted'
<1>1. report'.status = "raised"
  BY DEF EndInvocation, Raised, Returned
<1>2. ReportIsDurable'
  BY <1>1 DEF ReportIsDurable
<1> QED BY <1>2, RecordUnchanged, AccountedEnd

-----------------------------------------------------------------------------
(* Invoking run() *)

\* A fresh start has no result.
LEMMA AccountedStartFresh == TypeOK /\ Consistent /\ Accounted /\ StartFresh => Accounted'
<1> SUFFICES ASSUME TypeOK, Consistent, Accounted, StartFresh PROVE Accounted'
  OBVIOUS
<1>1. /\ results' = NoResults /\ disk' = disk /\ disk = NoCheckpoint /\ pc' = "forward"
      /\ begun' = begun
  BY DEF StartFresh, Consistent, PhasesAgree, DiskSound, memory
<1>2. RecordSound'
  BY <1>1, RecordUnchanged
<1>3. /\ Terminal(results') = {} /\ Succeeded(results') = {} /\ Succeeded(disk'.steps) = {}
      /\ InState(results', "rejected") = {} /\ InState(results', "failed") = {}
      /\ InState(results', "blocked") = {}
  BY <1>1, BlankMemory DEF NoCheckpoint, InState, NoResults, NotRun, TerminalWithoutRun
<1>4. ResultsSound'
  BY <1>1, <1>3 DEF ResultsSound
<1>5. DecisionsSound' /\ BatchSound' /\ OutcomeSound' /\ UndoSound' /\ ReportIsDurable'
  BY <1>1 DEF DecisionsSound, BatchSound, OutcomeSound, UndoSound, ReportIsDurable
<1> QED BY <1>2, <1>4, <1>5 DEF Accounted

\* A refused call raises.
LEMMA AccountedRefuse == Accounted /\ Refuse => Accounted'
<1> SUFFICES ASSUME Accounted, Refuse PROVE Accounted'
  OBVIOUS
<1>1. /\ pc = "idle" /\ pc' = "idle" /\ UNCHANGED <<disk, begun>> /\ report'.status = "raised"
  BY DEF Refuse, Raised, Returned
<1>2. ResultsSound' /\ DecisionsSound' /\ BatchSound' /\ OutcomeSound' /\ UndoSound'
  BY <1>1 DEF ResultsSound, DecisionsSound, BatchSound, OutcomeSound, UndoSound, ForwardPC,
              ForwardSave
<1>3. ReportIsDurable'
  BY <1>1 DEF ReportIsDurable
<1> QED BY <1>1, <1>2, <1>3, RecordUnchanged DEF Accounted

\* A resume starts from a checkpoint of successes, or with every step settled.
LEMMA AccountedResume ==
    ASSUME TypeOK, Consistent, Accounted,
           NEW yes \in SUBSET Gated, NEW no \in SUBSET Gated, Resume(yes, no)
    PROVE  Accounted'
<1>1. /\ results' = disk.steps /\ disk' = disk /\ begun' = begun /\ phase' = disk.phase
      /\ disk.phase # "none" /\ pc' \in {"decisionSave", "forward", "finish"}
      /\ pc' = "finish" => disk.phase # "forward" \/ Pending(disk.steps) = {}
      /\ pc' # "finish" => disk.phase = "forward"
  BY DEF Resume, RestoredResults, FirstStop, AfterRestore
<1>2. RecordSound'
  BY <1>1, RecordUnchanged
<1>3. disk.phase = "forward" => \A s \in Steps : disk.steps[s].state \in {"pending", "succeeded"}
  BY DEF Consistent, DiskSound, Terminal, Pending, Succeeded, InState
<1>4. ResultsSound'
  BY <1>1, <1>3 DEF ResultsSound, InState, ForwardPC, ForwardSave
<1>5. DecisionsSound'
  <2> SUFFICES ASSUME pc' = "decisionSave"
               PROVE  /\ \E s \in Steps : approvals'[s] # disk.approvals[s]
                      /\ \A s \in Steps : approvals'[s] # disk.approvals[s] =>
                           /\ Status(s) = "pending"
                           /\ approvals'[s].status \in {"approved", "rejected"}
    BY <1>1 DEF DecisionsSound, Status
  <2>1. \A s \in Steps : disk.approvals[s] \in Approval
    BY DEF TypeOK, Checkpoint
  <2>2. ASSUME NEW s \in Steps
        PROVE  /\ s \in yes \cup no => /\ Status(s) = "pending"
                                      /\ approvals'[s].status \in {"approved", "rejected"}
               /\ s \notin yes \cup no => approvals'[s] = disk.approvals[s]
    BY <2>1, <2>2 DEF Resume, Status, Approval
  <2>3. yes \cup no # {} /\ yes \cup no \subseteq Steps
    BY WorkflowAssumption DEF Resume, FirstStop, AfterRestore
  <2> QED BY <2>2, <2>3 DEF Status
<1>6. OutcomeSound'
  <2> SUFFICES ASSUME pc' = "finish", Goes
               PROVE  /\ disk.phase = "forward" /\ Asked("pending") = {} /\ Pending(disk.steps) = {}
                      /\ InState(disk.steps, "rejected") = Asked("rejected")
                      /\ InState(disk.steps, "failed") \subseteq begun
                      /\ InState(disk.steps, "blocked") = {}
                      /\ Succeeded(disk.steps) = Steps
    BY <1>1 DEF OutcomeSound, Goes, Asked, Status
  <2>1. disk.phase = "forward" /\ Pending(disk.steps) = {}
    BY <1>1 DEF Goes
  <2>2. Succeeded(disk.steps) = Steps
    BY <1>3, <2>1 DEF Pending, Succeeded, InState
  <2>3. /\ InState(disk.steps, "rejected") = {} /\ InState(disk.steps, "failed") = {}
        /\ InState(disk.steps, "blocked") = {}
    BY <1>3, <2>1 DEF InState
  <2>4. \A s \in Steps : Status(s) \in {"none", "approved"}
    BY <2>2 DEF Accounted, RecordSound
  <2> QED BY <2>1, <2>2, <2>3, <2>4 DEF Asked
<1>7. BatchSound' /\ UndoSound' /\ ReportIsDurable'
  BY <1>1 DEF BatchSound, UndoSound, ReportIsDurable
<1> QED BY <1>2, <1>4, <1>5, <1>6, <1>7 DEF Accounted

-----------------------------------------------------------------------------
(* The forward loop *)

\* Blocking by dependency: who fails, who is rejected and who succeeds stays,
\* and whatever is blocked goes back to a failure.
LEMMA MarkedAccounted ==
    ASSUME TypeOK, Consistent, Accounted, pc = "forward",
           NEW res, res = Marked(results)
    PROVE  /\ res \in [Steps -> Result]
           /\ Succeeded(res) = Succeeded(disk.steps)
           /\ InState(res, "rejected") = {} /\ InState(res, "failed") \subseteq begun
           /\ \A s \in InState(res, "blocked") : \E d \in Deps[s] : res[d].state \in {"failed", "blocked"}
           /\ InState(res, "blocked") # {} => InState(res, "failed") # {}
           /\ disk.phase = "none" => Pending(res) = Steps
<1> DEFINE new == BlockedByDependency(results)
<1>1. /\ Succeeded(results) = Succeeded(disk.steps)
      /\ disk.phase = "none" => Terminal(results) = {}
      /\ InState(results, "rejected") = {} /\ InState(results, "failed") \subseteq begun
      /\ \A s \in InState(results, "blocked") : \E d \in Deps[s] : results[d].state \in {"failed", "blocked"}
      /\ InState(results, "blocked") # {} => InState(results, "failed") # {}
  BY DEF Accounted, ResultsSound, ForwardPC
<1>2. res \in [Steps -> Result] /\ Keeps(res, results)
  BY MarkedType, MarkedKeeps DEF TypeOK
<1>3. /\ new \subseteq Pending(results)
      /\ \A s \in Steps : res[s] = IF s \in new THEN TerminalWithoutRun("blocked") ELSE results[s]
      /\ \A s \in new : \E d \in Deps[s] : d \notin Pending(results) /\ d \notin Succeeded(results)
  BY DEF Marked, Block, BlockedByDependency
<1> HIDE DEF new
<1>4. \A s \in Steps : /\ s \in new => res[s].state = "blocked" /\ results[s].state = "pending"
                       /\ s \notin new => res[s] = results[s]
  BY <1>3 DEF TerminalWithoutRun, Pending, InState
<1>5. /\ InState(res, "rejected") = {}
      /\ InState(res, "failed") = InState(results, "failed")
  BY <1>1, <1>4 DEF InState
<1>6. ASSUME NEW s \in new
      PROVE  \E d \in Deps[s] : d \in Steps /\ results[d].state \in {"failed", "blocked"}
  <2>1. PICK d \in Deps[s] : d \notin Pending(results) /\ d \notin Succeeded(results)
    BY <1>3
  <2>2. s \in Steps /\ d \in Steps
    BY <1>3, WorkflowAssumption DEF Pending, InState
  <2>3. results[d].state \in StepState
    BY <2>2 DEF TypeOK, Result
  <2>4. results[d].state \in {"failed", "blocked"}
    BY <1>1, <2>1, <2>2, <2>3 DEF StepState, Pending, Succeeded, InState
  <2> QED BY <2>2, <2>4
<1>7. ASSUME NEW s \in InState(res, "blocked")
      PROVE  \E d \in Deps[s] : d \in Steps /\ results[d].state \in {"failed", "blocked"}
  <2>1. s \in Steps /\ Deps[s] \subseteq Steps
    BY WorkflowAssumption DEF InState
  <2>2. s \notin new => s \in InState(results, "blocked")
    BY <1>4, <2>1 DEF InState
  <2> QED BY <1>1, <1>6, <2>1, <2>2
<1>8. ASSUME NEW d \in Steps, results[d].state \in {"failed", "blocked"} PROVE res[d] = results[d]
  BY <1>4, <1>8
<1>9. ASSUME InState(res, "blocked") # {} PROVE InState(res, "failed") # {}
  <2>1. PICK s : s \in InState(res, "blocked")
    BY <1>9
  <2>2. PICK d \in Deps[s] : d \in Steps /\ results[d].state \in {"failed", "blocked"}
    BY <1>7, <2>1
  <2>3. d \in InState(results, "failed") \/ d \in InState(results, "blocked")
    BY <2>2 DEF InState
  <2> QED BY <1>1, <1>5, <2>3
<1>10. ASSUME disk.phase = "none" PROVE Pending(res) = Steps
  <2>1. Terminal(results) = {}
    BY <1>1, <1>10
  <2>2. new = {}
    BY <1>6, <1>3, <2>1 DEF Terminal, Pending, InState
  <2> QED BY <1>4, <2>1, <2>2 DEF Terminal, Pending, InState
<1>11. \A s \in InState(res, "blocked") : \E d \in Deps[s] : res[d].state \in {"failed", "blocked"}
  BY <1>7, <1>8
<1>12. Succeeded(res) = Succeeded(disk.steps)
  BY <1>1, <1>2 DEF Keeps
<1> QED BY <1>1, <1>2, <1>5, <1>9, <1>10, <1>11, <1>12

\* What a settled forward part without a rejection came to.
LEMMA ForwardOver ==
    ASSUME NEW res \in [Steps -> Result], NEW ran \in SUBSET Steps, Pending(res) = {},
           InState(res, "rejected") = {},
           \A s \in InState(res, "blocked") : \E d \in Deps[s] : res[d].state \in {"failed", "blocked"},
           InState(res, "blocked") # {} => InState(res, "failed") # {},
           \A s \in ran : Deps[s] \subseteq Succeeded(res)
    PROVE  /\ InState(res, "blocked") \cap ran = {}
           /\ Succeeded(res) # Steps => Broken(res) # {}
<1>1. ASSUME NEW s \in InState(res, "blocked"), s \in ran PROVE FALSE
  <2>1. PICK d \in Deps[s] : res[d].state \in {"failed", "blocked"}
    OBVIOUS
  <2>2. d \in Succeeded(res)
    BY <1>1
  <2> QED BY <2>1, <2>2 DEF Succeeded, InState
<1>2. ASSUME Succeeded(res) # Steps PROVE InState(res, "failed") # {}
  <2>1. PICK s \in Steps : s \notin Succeeded(res)
    BY <1>2 DEF Succeeded, InState
  <2>2. res[s].state \in StepState
    BY DEF Result
  <2>3. s \in InState(res, "failed") \/ s \in InState(res, "blocked")
    BY <2>1, <2>2 DEF StepState, Succeeded, Pending, InState
  <2> QED BY <2>3
<1> QED BY <1>1, <1>2 DEF Broken

\* The steps a rejection ends: those whose request was rejected.
LEMMA RejectRunAccounted ==
    ASSUME NEW res \in [Steps -> Result], NEW new, new = RejectRun(res),
           InState(res, "rejected") = {},
           NEW denied, denied = {s \in Steps : approvals[s].status = "rejected"},
           \A s \in denied : s \in Gated /\ s \in Pending(res) /\ Deps[s] \subseteq Succeeded(res)
    PROVE  /\ InState(new, "rejected") = denied
           /\ InState(new, "failed") = InState(res, "failed")
           /\ Pending(new) = {}
<1>1. HasStatus(Ready(res), {"rejected"}) = denied
  BY DEF HasStatus, Ready, Pending, InState
<1>2. \A s \in Steps : new[s] = IF s \in denied THEN TerminalWithoutRun("rejected")
                                ELSE IF s \in Pending(res) THEN TerminalWithoutRun("blocked")
                                ELSE res[s]
  BY <1>1 DEF RejectRun
<1>3. ASSUME NEW s \in Steps
      PROVE  /\ s \in denied => new[s].state = "rejected" /\ res[s].state = "pending"
             /\ s \notin denied /\ s \in Pending(res) => new[s].state = "blocked"
             /\ s \notin Pending(res) => new[s] = res[s] /\ res[s].state # "pending"
  BY <1>2 DEF TerminalWithoutRun, Pending, InState
<1>4. InState(new, "rejected") = denied
  BY <1>3 DEF InState, Pending
<1>5. InState(new, "failed") = InState(res, "failed")
  BY <1>3 DEF InState, Pending
<1>6. Pending(new) = {}
  BY <1>3 DEF InState, Pending
<1> QED BY <1>4, <1>5, <1>6

\* A live invocation between saves: memory and checkpoint hold the same requests,
\* each of a gate whose dependencies succeeded.
LEMMA ForwardRequests ==
    ASSUME TypeOK, Consistent, Accounted, pc = "forward"
    PROVE  /\ approvals = disk.approvals /\ disk.phase \in {"none", "forward"} /\ comps = {}
           /\ \A s \in Steps : approvals[s].status # "none" =>
                disk.phase = "forward" /\ s \in Gated /\ Deps[s] \subseteq Succeeded(disk.steps)
           /\ \A s \in Steps : approvals[s].status \in {"pending", "rejected", "cancelled"} =>
                s \in Ready(Marked(results))
<1>1. approvals = disk.approvals /\ disk.phase \in {"none", "forward"} /\ comps = {}
  BY DEF Consistent, PhasesAgree, MemoryExtendsDisk, CompensationsSound, ForwardPC
<1>2. \A s \in Steps : disk.approvals[s].status # "none" => disk.phase # "none"
  BY BlankMemory DEF Consistent, DiskSound, NoCheckpoint
<1>3. ASSUME NEW s \in Steps, approvals[s].status \in {"pending", "rejected", "cancelled"}
      PROVE  s \in Ready(Marked(results))
  <2>1. s \notin Terminal(Marked(results))
    BY <1>3, MarkedRequests
  <2>2. Deps[s] \subseteq Succeeded(results)
    BY <1>3 DEF Consistent, RequestsSound
  <2>3. Succeeded(Marked(results)) = Succeeded(results)
    BY MarkedKeeps DEF TypeOK, Keeps
  <2> QED BY <2>1, <2>2, <2>3 DEF Ready, Terminal
<1> QED BY <1>1, <1>2, <1>3 DEF Consistent, DiskSound

\* The loop ends with no request undecided or rejected.
LEMMA AccountedLoopEnds == TypeOK /\ Consistent /\ Accounted /\ LoopEnds => Accounted'
<1> SUFFICES ASSUME TypeOK, Consistent, Accounted, LoopEnds PROVE Accounted'
  OBVIOUS
<1>1. /\ results' = Marked(results) /\ pc = "forward" /\ pc' = "finish"
      /\ Pending(results') = {} /\ Ready(Marked(results)) = {}
      /\ UNCHANGED <<disk, approvals, begun>>
  BY DEF LoopEnds
<1>2. /\ results' \in [Steps -> Result]
      /\ Succeeded(results') = Succeeded(disk.steps)
      /\ InState(results', "rejected") = {} /\ InState(results', "failed") \subseteq begun
      /\ \A s \in InState(results', "blocked") : \E d \in Deps[s] : results'[d].state \in {"failed", "blocked"}
      /\ InState(results', "blocked") # {} => InState(results', "failed") # {}
      /\ disk.phase = "none" => Pending(results') = Steps
  BY <1>1, MarkedAccounted
<1>3. RecordSound'
  BY <1>1, RecordUnchanged
<1>4. ResultsSound'
  BY <1>1, <1>2 DEF ResultsSound, ForwardPC, ForwardSave
<1>5. Asked("pending") = {} /\ Asked("rejected") = {}
  BY <1>1, ForwardRequests DEF Asked, Status
<1>6. disk.phase = "forward"
  BY <1>1, <1>2, ForwardRequests, WorkflowAssumption
<1>7. \A s \in begun : Deps[s] \subseteq Succeeded(results')
  BY <1>2 DEF Accounted, RecordSound, Met
<1>8. /\ InState(results', "blocked") \cap begun = {}
      /\ Succeeded(results') # Steps => Broken(results') # {}
  BY <1>1, <1>2, <1>7, ForwardOver DEF TypeOK
<1>9. Asked("pending")' = {} /\ Asked("rejected")' = {}
  BY <1>1, <1>5 DEF Asked, Status
<1>10. OutcomeSound'
  BY <1>1, <1>2, <1>6, <1>8, <1>9 DEF OutcomeSound, Broken
<1>11. DecisionsSound' /\ BatchSound' /\ UndoSound' /\ ReportIsDurable'
  BY <1>1 DEF DecisionsSound, BatchSound, UndoSound, ReportIsDurable
<1> QED BY <1>3, <1>4, <1>10, <1>11 DEF Accounted

\* A rejection ends the run, once the undecided requests are withdrawn.
LEMMA AccountedDeny == TypeOK /\ Consistent /\ Accounted /\ Deny => Accounted'
<1> SUFFICES ASSUME TypeOK, Consistent, Accounted, Deny PROVE Accounted'
  OBVIOUS
<1> DEFINE res == Marked(results)
           denied == {s \in Steps : approvals[s].status = "rejected"}
<1>1. /\ pc = "forward" /\ HasStatus(Ready(res), {"rejected", "cancelled"}) # {}
      /\ \/ Siblings = {} /\ pc' = "finish" /\ results' = RejectRun(res) /\ approvals' = approvals
         \/ Siblings # {} /\ pc' = "cancelSave" /\ results' = res /\ approvals' = Cancelled
      /\ UNCHANGED <<disk, begun>>
  BY DEF Deny
<1>2. /\ res \in [Steps -> Result]
      /\ Succeeded(res) = Succeeded(disk.steps)
      /\ InState(res, "rejected") = {} /\ InState(res, "failed") \subseteq begun
      /\ \A s \in InState(res, "blocked") : \E d \in Deps[s] : res[d].state \in {"failed", "blocked"}
      /\ InState(res, "blocked") # {} => InState(res, "failed") # {}
  BY <1>1, MarkedAccounted
<1>3. /\ approvals = disk.approvals /\ disk.phase = "forward"
      /\ Asked("rejected") # {} /\ Asked("rejected") = denied /\ Asked("pending") = Siblings
      /\ \A s \in denied : s \in Gated /\ s \in Pending(res) /\ Deps[s] \subseteq Succeeded(res)
  <2>1. PICK s \in Steps : approvals[s].status \in {"rejected", "cancelled"}
    BY <1>1, WorkflowAssumption DEF HasStatus
  <2>2. approvals = disk.approvals /\ disk.phase = "forward"
    BY <1>1, <2>1, ForwardRequests
  <2>3. s \in Asked("rejected") \/ s \in Asked("cancelled")
    BY <2>1, <2>2 DEF Asked, Status
  <2>4. Asked("rejected") # {}
    BY <2>3 DEF Accounted, RecordSound
  <2>5. \A t \in denied : t \in Ready(res) /\ t \in Gated
    BY <1>1, ForwardRequests
  <2> QED BY <2>2, <2>4, <2>5 DEF Asked, Status, Siblings, Ready
<1> HIDE DEF res, denied
<1>4. RecordSound'
  BY <1>1, RecordUnchanged
<1>5. /\ BatchSound' /\ UndoSound' /\ ReportIsDurable'
  BY <1>1 DEF BatchSound, UndoSound, ReportIsDurable
<1>6. CASE Siblings = {}
  <2>1. pc' = "finish" /\ results' = RejectRun(res)
    BY <1>1, <1>6
  <2>2. /\ InState(results', "rejected") = denied /\ InState(results', "failed") = InState(res, "failed")
        /\ Pending(results') = {}
    BY <1>2, <1>3, <2>1, RejectRunAccounted DEF denied
  <2>3. Succeeded(results') = Succeeded(disk.steps)
    BY <1>2, <2>1, RejectRunKeeps DEF Keeps
  <2>4. ResultsSound'
    BY <1>1, <2>1, <2>3 DEF ResultsSound, ForwardPC, ForwardSave
  <2>5. Asked("rejected")' = denied /\ Asked("pending")' = {} /\ disk'.phase = "forward"
    BY <1>1, <1>3, <1>6 DEF Asked, Status
  <2>6. OutcomeSound'
    BY <1>1, <1>2, <1>3, <2>2, <2>5 DEF OutcomeSound, Broken
  <2>7. DecisionsSound'
    BY <2>1 DEF DecisionsSound
  <2> QED BY <1>4, <1>5, <2>4, <2>6, <2>7 DEF Accounted
<1>7. CASE Siblings # {}
  <2>1. pc' = "cancelSave" /\ results' = res /\ approvals' = Cancelled
    BY <1>1, <1>7
  <2>2. ResultsSound'
    BY <1>1, <1>2, <2>1 DEF ResultsSound
  <2>3. Asked("rejected")' # {} /\ Asked("pending")' = Asked("pending") /\ Asked("pending") # {}
    BY <1>1, <1>3, <1>7 DEF Asked, Status
  <2>4. \A s \in Steps : approvals'[s] = IF s \in Asked("pending")
                                          THEN [disk.approvals[s] EXCEPT !.status = "cancelled"]
                                          ELSE disk.approvals[s]
    BY <1>3, <2>1 DEF Cancelled
  <2>5. DecisionsSound'
    BY <1>1, <2>1, <2>3, <2>4 DEF DecisionsSound
  <2>6. OutcomeSound'
    BY <2>1 DEF OutcomeSound
  <2> QED BY <1>4, <1>5, <2>2, <2>5, <2>6 DEF Accounted
<1> QED BY <1>6, <1>7

\* Requests are made together, and only when nothing else is undecided.
LEMMA AccountedRequestApprovals ==
    TypeOK /\ Consistent /\ Accounted /\ RequestApprovals => Accounted'
<1> SUFFICES ASSUME TypeOK, Consistent, Accounted, RequestApprovals PROVE Accounted'
  OBVIOUS
<1> DEFINE res == Marked(results)
           ready == Ready(res)
           created == HasStatus(ready, {"none"})
<1>1. /\ pc = "forward" /\ HasStatus(ready, {"rejected", "cancelled"}) = {} /\ created # {}
      /\ pc' = "requestSave" /\ results' = res /\ approvals' = WithRequests(ready, res)
      /\ UNCHANGED <<disk, begun>>
  BY DEF RequestApprovals
<1>2. /\ res \in [Steps -> Result]
      /\ Succeeded(res) = Succeeded(disk.steps)
      /\ InState(res, "rejected") = {} /\ InState(res, "failed") \subseteq begun
      /\ \A s \in InState(res, "blocked") : \E d \in Deps[s] : res[d].state \in {"failed", "blocked"}
      /\ InState(res, "blocked") # {} => InState(res, "failed") # {}
      /\ disk.phase = "none" => Pending(res) = Steps
  BY <1>1, MarkedAccounted
<1>3. /\ approvals = disk.approvals
      /\ \A s \in Steps : approvals[s].status \in {"pending", "rejected", "cancelled"} =>
           s \in ready /\ s \in Gated
  BY <1>1, ForwardRequests
<1>4. \A s \in Steps : approvals[s].status \in ApprovalStatus
  BY DEF TypeOK, Approval
<1>5. /\ \A s \in ready : s \in Steps /\ s \in Pending(res) /\ Met(s)
      /\ \A s \in created : s \in ready /\ s \in Gated /\ Status(s) = "none"
      /\ \A s \in Gated \cap ready : Status(s) = "none" => s \in created
      /\ \A s \in Steps : s \in Pending(res) /\ Met(s) => s \in ready
  BY <1>2, <1>3 DEF Ready, Met, HasStatus, Status, Pending, InState
<1>6. /\ \A s \in created : approvals'[s].status = "pending"
      /\ \A s \in Steps \ created : approvals'[s] = approvals[s]
  BY <1>1, <1>5 DEF WithRequests, Request
<1>7. \A s \in Steps : approvals[s].status \notin {"rejected", "cancelled"}
  BY <1>1, <1>3 DEF HasStatus
<1> HIDE DEF res, ready, created
<1>8. \A s \in Pending(res) : s \in Pending(disk.steps)
  BY <1>1, <1>2 DEF Consistent, DiskSound, PhasesAgree, ForwardPC, Pending, Succeeded,
                    Terminal, InState, Result
<1>9. Asked("pending") = {}
  <2>1. PICK c \in created : TRUE
    BY <1>1
  <2>2. c \in Gated /\ c \in Pending(disk.steps) /\ Met(c) /\ c \in Asked("none")
    BY <1>5, <1>8 DEF Asked
  <2> QED BY <2>2 DEF Accounted, RecordSound
<1>10. Asked("none") \cup Asked("approved") = Steps
  BY <1>3, <1>4, <1>7, <1>9 DEF Asked, Status, ApprovalStatus
<1>11. DecisionsSound'
  <2>1. \E s \in Steps : approvals'[s].status = "pending"
    BY <1>1, <1>5, <1>6
  <2>2. ASSUME NEW s \in Steps, approvals'[s] # disk.approvals[s]
        PROVE  /\ s \in Gated \cap Asked("none") \cap Pending(res) /\ Met(s)
               /\ approvals'[s].status = "pending"
    BY <1>3, <1>5, <1>6, <2>2 DEF Asked
  <2>3. ASSUME NEW s \in Gated \cap Pending(res), Met(s) PROVE approvals'[s].status # "none"
    <3>1. s \in Steps /\ s \in ready
      BY <1>5, <2>3, WorkflowAssumption
    <3> QED BY <1>3, <1>5, <1>6, <3>1 DEF Status
  <2> QED BY <1>1, <1>10, <2>1, <2>2, <2>3 DEF DecisionsSound, Asked, Status, Met
<1>12. ResultsSound'
  BY <1>1, <1>2 DEF ResultsSound
<1>13. RecordSound'
  BY <1>1, RecordUnchanged
<1>14. BatchSound' /\ OutcomeSound' /\ UndoSound' /\ ReportIsDurable'
  BY <1>1 DEF BatchSound, OutcomeSound, UndoSound, ReportIsDurable
<1> QED BY <1>11, <1>12, <1>13, <1>14 DEF Accounted

\* A run stays paused on a request that is durable.
LEMMA AccountedStayPaused == TypeOK /\ Consistent /\ Accounted /\ StayPaused => Accounted'
<1> SUFFICES ASSUME TypeOK, Consistent, Accounted, StayPaused PROVE Accounted'
  OBVIOUS
<1>1. /\ pc = "forward" /\ HasStatus(Ready(Marked(results)), {"pending"}) # {}
      /\ EndInvocation(Returned("paused", "not_requested")) /\ UNCHANGED <<disk, begun>>
  BY DEF StayPaused
<1>2. PICK s \in Gated : approvals[s].status = "pending"
  BY <1>1 DEF HasStatus
<1>3. disk.phase = "forward" /\ disk.approvals[s].status = "pending"
  BY <1>1, <1>2, ForwardRequests, WorkflowAssumption
<1>4. ReportIsDurable'
  BY <1>1, <1>3 DEF EndInvocation, Returned, ReportIsDurable
<1> QED BY <1>1, <1>4, RecordUnchanged, AccountedEnd

\* A batch takes every ready step, and with it every step that began before.
LEMMA AccountedStartBatch == TypeOK /\ Consistent /\ Accounted /\ StartBatch => Accounted'
<1> SUFFICES ASSUME TypeOK, Consistent, Accounted, StartBatch PROVE Accounted'
  OBVIOUS
<1> DEFINE ready == Ready(Marked(results))
<1>1. /\ pc = "forward" /\ pc' = "batch" /\ results' = Marked(results)
      /\ task' = [s \in Steps |-> IF s \in ready THEN "queued" ELSE "none"]
      /\ batch' = NoBatch /\ UNCHANGED <<disk, begun>>
  BY DEF StartBatch, StartTasks
<1>2. /\ Succeeded(results') = Succeeded(disk.steps)
      /\ InState(results', "rejected") = {} /\ InState(results', "failed") \subseteq begun
      /\ \A s \in InState(results', "blocked") : \E d \in Deps[s] : results'[d].state \in {"failed", "blocked"}
      /\ InState(results', "blocked") # {} => InState(results', "failed") # {}
  BY <1>1, MarkedAccounted
<1>3. \A s \in Steps : s \in ready <=> s \in Pending(results') /\ Met(s)
  BY <1>1, <1>2 DEF Ready, Met
<1> HIDE DEF ready
<1>4. \A s \in Steps : batch'[s].state = "pending"
  BY <1>1 DEF NoBatch, NoResults, NotRun, TerminalWithoutRun
<1>5. ASSUME NEW s \in Steps
      PROVE  /\ s \in begun \cap Pending(results') => task'[s] # "none"
             /\ task'[s] # "none" => Met(s)
             /\ task'[s] \notin {"running", "done"}
  <2>1. s \in begun => Met(s)
    BY DEF Accounted, RecordSound
  <2> QED BY <1>1, <1>3, <2>1
<1>6. BatchSound'
  BY <1>1, <1>4, <1>5 DEF BatchSound, Met
<1>7. ResultsSound'
  BY <1>1, <1>2 DEF ResultsSound
<1>8. RecordSound'
  BY <1>1, RecordUnchanged
<1>9. DecisionsSound' /\ OutcomeSound' /\ UndoSound' /\ ReportIsDurable'
  BY <1>1 DEF DecisionsSound, OutcomeSound, UndoSound, ReportIsDurable
<1> QED BY <1>6, <1>7, <1>8, <1>9 DEF Accounted

\* Every action of a pass.
LEMMA AccountedForward == TypeOK /\ Consistent /\ Accounted /\ Forward => Accounted'
<1> SUFFICES ASSUME TypeOK, Consistent, Accounted, Forward PROVE Accounted'
  OBVIOUS
<1>1. CASE Stall
  BY <1>1, AccountedRaise DEF Stall
<1> QED BY <1>1, AccountedLoopEnds, AccountedDeny, AccountedRequestApprovals, AccountedStayPaused,
           AccountedStartBatch DEF Forward

-----------------------------------------------------------------------------
(* Batches and waves *)

\* A handler starts: its dependencies are durable successes.
LEMMA AccountedStartHandler ==
    ASSUME TypeOK, Consistent, Accounted, NEW s \in Steps, StartHandler(s)
    PROVE  Accounted'
<1>1. /\ pc = "batch" /\ pc' = pc /\ task' = [task EXCEPT ![s] = "running"] /\ task[s] = "queued"
      /\ begun' = begun \cup {s} /\ UNCHANGED <<disk, results, batch>>
  BY DEF StartHandler, Acquire, memory
<1>2. Met(s)
  BY <1>1 DEF Accounted, BatchSound
<1>3. RecordSound'
  BY <1>1, <1>2 DEF Accounted, RecordSound, Goes, Status, Asked, Met
<1>4. ResultsSound'
  BY <1>1 DEF Accounted, ResultsSound, ForwardPC, ForwardSave
<1>5. \A t \in Steps : task'[t] = IF t = s THEN "running" ELSE task[t]
  BY <1>1 DEF TypeOK
<1>6. BatchSound'
  BY <1>1, <1>2, <1>5 DEF Accounted, BatchSound, Met
<1>7. DecisionsSound' /\ OutcomeSound' /\ UndoSound' /\ ReportIsDurable'
  BY <1>1 DEF DecisionsSound, OutcomeSound, UndoSound, ReportIsDurable
<1> QED BY <1>3, <1>4, <1>6, <1>7 DEF Accounted

\* A compensator starts.
LEMMA AccountedStartCompensator ==
    ASSUME TypeOK, Consistent, Accounted, NEW s \in Steps, StartCompensator(s)
    PROVE  Accounted'
<1>1. /\ pc = "compBatch" /\ pc' = pc /\ task' = [task EXCEPT ![s] = "running"] /\ task[s] = "queued"
      /\ undoBegun' = undoBegun \cup {s} /\ UNCHANGED <<disk, results, batch, begun>>
  BY DEF StartCompensator, Acquire, memory
<1>2. RecordSound'
  BY <1>1, RecordUnchanged
<1>3. \A t \in Steps : task'[t] = IF t = s THEN "running" ELSE task[t]
  BY <1>1 DEF TypeOK
<1>4. UndoSound'
  BY <1>1, <1>3 DEF Accounted, UndoSound
<1>5. ResultsSound' /\ DecisionsSound' /\ BatchSound' /\ OutcomeSound' /\ ReportIsDurable'
  BY <1>1 DEF Accounted, ResultsSound, DecisionsSound, BatchSound, OutcomeSound, ReportIsDurable,
              ForwardPC, ForwardSave
<1> QED BY <1>2, <1>4, <1>5 DEF Accounted

\* A task ends with a success or a failure.
LEMMA AccountedFinishTask ==
    ASSUME TypeOK, Consistent, Accounted, NEW s \in Steps, NEW result,
           result.state \in {"failed", "succeeded"}, FinishTask(s, result)
    PROVE  Accounted'
<1>1. /\ task[s] = "running" /\ task' = [task EXCEPT ![s] = "done"]
      /\ batch' = [batch EXCEPT ![s] = result]
      /\ UNCHANGED <<disk, pc, results, approvals, comps, report, begun, undoBegun>>
  BY DEF FinishTask, memory
<1>2. pc \in {"batch", "compBatch"}
  BY <1>1 DEF Consistent, TasksSound, NoTasks
<1>3. /\ \A t \in Steps : task'[t] = IF t = s THEN "done" ELSE task[t]
      /\ \A t \in Steps : batch'[t] = IF t = s THEN result ELSE batch[t]
  BY <1>1 DEF TypeOK
<1>4. BatchSound'
  <2>1. CASE pc = "batch"
    BY <1>1, <1>3, <2>1 DEF Accounted, BatchSound, Met
  <2>2. CASE pc # "batch"
    BY <1>1, <1>2, <2>2 DEF BatchSound
  <2> QED BY <2>1, <2>2
<1>5. UndoSound'
  BY <1>1, <1>2, <1>3 DEF Accounted, UndoSound
<1>6. RecordSound'
  BY <1>1, RecordUnchanged
<1>7. ResultsSound' /\ DecisionsSound' /\ OutcomeSound' /\ ReportIsDurable'
  BY <1>1, <1>2 DEF Accounted, ResultsSound, DecisionsSound, OutcomeSound, ReportIsDurable,
                    ForwardPC, ForwardSave
<1> QED BY <1>4, <1>5, <1>6, <1>7 DEF Accounted

\* A batch is gathered: what it failed or succeeded in began.
LEMMA AccountedGatherBatch == TypeOK /\ Consistent /\ Accounted /\ GatherBatch => Accounted'
<1> SUFFICES ASSUME TypeOK, Consistent, Accounted, GatherBatch PROVE Accounted'
  OBVIOUS
<1>1. /\ \A s \in Steps : results'[s] = IF task[s] = "done" THEN batch[s] ELSE results[s]
      /\ pc = "batch" /\ pc' = "batchSave" /\ UNCHANGED <<disk, batch, begun, report>>
      /\ \A s \in Steps : task[s] \in {"none", "done"}
  BY DEF GatherBatch, AllTasksDone
<1>2. \A s \in Steps :
        /\ s \in begun /\ results[s].state = "pending" => task[s] # "none"
        /\ task[s] # "none" => Met(s)
        /\ task[s] = "done" => s \in begun /\ batch[s].state \in {"failed", "succeeded"}
        /\ batch[s].state = "failed" => task[s] = "done"
        /\ task[s] # "none" => results[s].state = "pending"
  BY <1>1 DEF Accounted, BatchSound, Consistent, TasksSound, Pending, InState
<1>3. /\ Succeeded(results) = Succeeded(disk.steps)
      /\ InState(results, "rejected") = {} /\ InState(results, "failed") \subseteq begun
      /\ \A s \in InState(results, "blocked") : \E d \in Deps[s] : results[d].state \in {"failed", "blocked"}
      /\ InState(results, "blocked") # {} => InState(results, "failed") # {}
  BY <1>1 DEF Accounted, ResultsSound, ForwardPC
<1>4. ASSUME NEW s \in Steps, results[s].state # "pending" PROVE results'[s] = results[s]
  BY <1>1, <1>2, <1>4
<1>5. ResultsSound'
  <2>1. InState(results', "rejected") = {} /\ InState(results', "failed") \subseteq begun
    BY <1>1, <1>2, <1>3 DEF InState
  <2>2. InState(results', "blocked") = InState(results, "blocked")
    BY <1>1, <1>2 DEF InState
  <2>3. ASSUME NEW s \in InState(results, "blocked")
        PROVE  \E d \in Deps[s] : results'[d].state \in {"failed", "blocked"}
    <3>1. PICK d \in Deps[s] : results[d].state \in {"failed", "blocked"}
      BY <1>3
    <3>2. d \in Steps
      BY WorkflowAssumption DEF InState
    <3> QED BY <1>4, <3>1, <3>2
  <2>4. InState(results, "failed") \subseteq InState(results', "failed")
    BY <1>4 DEF InState
  <2> QED BY <1>1, <1>3, <2>1, <2>2, <2>3, <2>4 DEF ResultsSound
<1>6. BatchSound'
  <2>1. Asked("none") \cup Asked("approved") = Steps
    BY <1>1 DEF Consistent, ApprovalBarrier, Asked, Status
  <2>2. begun \subseteq Terminal(results')
    BY <1>1, <1>2 DEF Terminal, Pending, InState, TypeOK
  <2>3. ASSUME NEW s \in Succeeded(results')
        PROVE  (s \in begun \/ s \in Succeeded(disk.steps)) /\ Met(s)
    <3>1. s \in Steps /\ results'[s].state = "succeeded"
      BY DEF Succeeded, InState
    <3>2. CASE task[s] = "done"
      BY <1>2, <3>1, <3>2
    <3>3. CASE task[s] # "done"
      <4>1. s \in Succeeded(disk.steps)
        BY <1>1, <1>3, <3>1, <3>3 DEF Succeeded, InState
      <4> QED BY <4>1 DEF Accounted, RecordSound
    <3> QED BY <3>2, <3>3
  <2>4. InState(batch, "failed") \subseteq InState(results', "failed")
    BY <1>1, <1>2 DEF InState
  <2> QED BY <1>1, <2>1, <2>2, <2>3, <2>4 DEF BatchSound, Asked, Status, Met
<1>7. RecordSound'
  BY <1>1, RecordUnchanged
<1>8. DecisionsSound' /\ OutcomeSound' /\ UndoSound' /\ ReportIsDurable'
  BY <1>1 DEF DecisionsSound, OutcomeSound, UndoSound, ReportIsDurable
<1> QED BY <1>5, <1>6, <1>7, <1>8 DEF Accounted

\* A wave is gathered: what it adds began, what it failed in is still owed.
LEMMA AccountedGatherWave == TypeOK /\ Consistent /\ Accounted /\ GatherWave => Accounted'
<1> SUFFICES ASSUME TypeOK, Consistent, Accounted, GatherWave PROVE Accounted'
  OBVIOUS
<1>1. /\ comps' = comps \cup Succeeded(batch) /\ pc = "compBatch" /\ pc' = "compSave"
      /\ UNCHANGED <<disk, results, batch, begun, undoBegun>>
  BY DEF GatherWave, Undone
<1>2. comps = disk.comps
  BY <1>1 DEF Consistent, MemoryExtendsDisk
<1>3. ASSUME NEW s \in Steps, batch[s].state # "pending"
      PROVE  s \in undoBegun /\ s \in Eligible(results) /\ s \notin comps
  <2>1. task[s] = "done"
    BY <1>1, <1>3 DEF Accounted, UndoSound
  <2> QED BY <1>1, <2>1 DEF Accounted, UndoSound, Consistent, TasksSound, Remaining
<1>4. UndoSound'
  BY <1>1, <1>2, <1>3 DEF UndoSound, Succeeded, InState
<1>5. ResultsSound'
  BY <1>1 DEF Accounted, ResultsSound, ForwardPC, ForwardSave
<1>6. RecordSound'
  BY <1>1, RecordUnchanged
<1>7. DecisionsSound' /\ BatchSound' /\ OutcomeSound' /\ ReportIsDurable'
  BY <1>1 DEF DecisionsSound, BatchSound, OutcomeSound, ReportIsDurable
<1> QED BY <1>4, <1>5, <1>6, <1>7 DEF Accounted

\* Every action of a batch or wave.
LEMMA AccountedTasks == TypeOK /\ Consistent /\ Accounted /\ Tasks => Accounted'
<1> SUFFICES ASSUME TypeOK, Consistent, Accounted, Tasks PROVE Accounted'
  OBVIOUS
<1>1. /\ TerminalWithoutRun("failed").state = "failed"
      /\ \A o : Success(o).state = "succeeded"
  BY DEF TerminalWithoutRun, Success
<1>2. ASSUME NEW s \in Steps, FinishHandler(s) \/ FinishCompensator(s) PROVE Accounted'
  <2>1. PICK result : result.state \in {"failed", "succeeded"} /\ FinishTask(s, result)
    BY <1>1, <1>2 DEF FinishHandler, FinishCompensator
  <2> QED BY <2>1, AccountedFinishTask
<1> QED BY <1>2, AccountedStartHandler, AccountedStartCompensator, AccountedGatherBatch,
           AccountedGatherWave DEF Tasks

-----------------------------------------------------------------------------
(* Saves *)

\* What a save of the forward part leaves.
LEMMA ForwardSaved ==
    ASSUME TypeOK, Consistent, Accounted, pc \in ForwardSave, Save
    PROVE  /\ disk'.phase = "forward" /\ disk'.approvals = approvals /\ disk'.comps = {}
           /\ Succeeded(disk'.steps) = Succeeded(results)
           /\ Terminal(disk'.steps) = Succeeded(results)
           /\ \A s \in Steps : approvals[s].status # "none" =>
                s \in Gated /\ approvals[s].context = ContextOf(s, disk'.steps)
           /\ \A s \in Terminal(results) : approvals[s].status \in {"none", "approved"}
           /\ Succeeded(disk.steps) \subseteq Succeeded(results)
           /\ disk.phase \in {"none", "forward"} /\ disk.comps = {} /\ comps = {}
           /\ pc \in ForwardPC /\ pc # "idle" /\ phase = "forward"
<1>1. /\ disk'.phase = "forward" /\ disk'.approvals = approvals /\ disk'.comps = {}
      /\ Succeeded(disk'.steps) = Succeeded(results)
      /\ Terminal(disk'.steps) = Succeeded(results)
      /\ \A s \in Succeeded(results) : disk'.steps[s] = results[s]
  BY CandidateShape DEF Save, SavePoint
<1>2. pc \in ForwardPC /\ pc # "idle"
  BY DEF ForwardSave, ForwardPC
<1>3. /\ disk.phase \in {"none", "forward"} /\ disk.comps = {} /\ comps = {} /\ phase = "forward"
      /\ \A s \in Terminal(results) : approvals[s].status \in {"none", "approved"}
  BY <1>2 DEF Consistent, PhasesAgree, DiskSound, CompensationsSound, RequestsSound
<1>4. disk' \in Checkpoint
  BY SaveType
<1>5. ASSUME NEW s \in Steps, approvals[s].status # "none"
      PROVE  s \in Gated /\ approvals[s].context = ContextOf(s, disk'.steps)
  <2>1. /\ s \in Gated /\ Deps[s] \subseteq Succeeded(results)
        /\ approvals[s].context = ContextOf(s, results)
    BY <1>2, <1>5 DEF Consistent, RequestsSound
  <2>2. results \in [Steps -> Result] /\ disk'.steps \in [Steps -> Result]
    BY <1>4 DEF TypeOK, Checkpoint
  <2>3. ContextOf(s, disk'.steps) = ContextOf(s, results)
    BY <1>1, <2>1, <2>2, ContextKept
  <2> QED BY <2>1, <2>3
<1>6. Succeeded(disk.steps) \subseteq Succeeded(results)
  <2> SUFFICES ASSUME NEW s \in Succeeded(disk.steps) PROVE s \in Succeeded(results)
    OBVIOUS
  <2>1. s \in Steps /\ s \in Terminal(disk.steps) /\ disk.steps[s].state = "succeeded"
    BY DEF Succeeded, Terminal, Pending, InState
  <2>2. results[s] = disk.steps[s]
    BY <1>2, <2>1 DEF Consistent, MemoryExtendsDisk
  <2> QED BY <2>1, <2>2 DEF Succeeded, InState
<1> QED BY <1>1, <1>2, <1>3, <1>5, <1>6

\* The checkpoint of such a save is accounted for when its requests are.
LEMMA RecordAfterForward ==
    ASSUME TypeOK, Consistent, Accounted, pc \in ForwardSave, Save, UNCHANGED begun,
           \A s \in begun \cup Succeeded(results) : Deps[s] \subseteq Succeeded(results),
           (\E s \in Steps : approvals[s].status = "cancelled") =>
             \E s \in Steps : approvals[s].status = "rejected",
           (\E s \in Steps : approvals[s].status = "pending") =>
             \A s \in Gated \ Succeeded(results) :
               approvals[s].status = "none" => ~ (Deps[s] \subseteq Succeeded(results))
    PROVE  RecordSound'
<1>1. /\ disk'.phase = "forward" /\ disk'.approvals = approvals /\ disk'.comps = {}
      /\ Succeeded(disk'.steps) = Succeeded(results)
      /\ Terminal(disk'.steps) = Succeeded(results)
      /\ \A s \in Steps : approvals[s].status # "none" =>
           approvals[s].context = ContextOf(s, disk'.steps)
      /\ \A s \in Terminal(results) : approvals[s].status \in {"none", "approved"}
  BY ForwardSaved
<1>2. Succeeded(results) \subseteq Terminal(results) /\ Succeeded(results) \subseteq Steps
  BY DEF Succeeded, Terminal, Pending, InState
<1>3. Pending(disk'.steps) \cap Succeeded(results) = {}
  BY <1>1 DEF Terminal
<1>4. \A s \in begun' \cup Succeeded(disk'.steps) : Met(s)'
  BY <1>1 DEF Met
<1>5. \A s \in Steps \ Asked("none")' : disk'.approvals[s].context = ContextOf(s, disk'.steps)
  BY <1>1 DEF Asked, Status
<1>6. Asked("cancelled")' # {} => Asked("rejected")' # {}
  BY <1>1 DEF Asked, Status
<1>7. Asked("pending")' # {} =>
        \A s \in Gated \cap Pending(disk'.steps) \cap Asked("none")' : ~ Met(s)'
  BY <1>1, <1>3 DEF Asked, Status, Met
<1>8. \A s \in Succeeded(disk'.steps) : Status(s)' \in {"none", "approved"}
  BY <1>1, <1>2 DEF Status
<1> QED BY <1>1, <1>4, <1>5, <1>6, <1>7, <1>8 DEF RecordSound, Goes

\* Decisions are saved: the run goes on, or is over.
LEMMA AccountedSaveDecisions == TypeOK /\ Consistent /\ Accounted /\ SaveDecisions => Accounted'
<1> SUFFICES ASSUME TypeOK, Consistent, Accounted, SaveDecisions PROVE Accounted'
  OBVIOUS
<1>1. /\ pc = "decisionSave" /\ Save /\ pc \in ForwardSave
      /\ UNCHANGED <<phase, results, approvals, begun>>
      /\ pc' = AfterRestore(phase, results)
  BY DEF SaveDecisions, ForwardSave, memory
<1>2. /\ disk'.phase = "forward" /\ disk'.approvals = approvals
      /\ Succeeded(disk'.steps) = Succeeded(results)
      /\ \A s \in Terminal(results) : approvals[s].status \in {"none", "approved"}
      /\ disk.phase \in {"none", "forward"} /\ phase = "forward"
  BY <1>1, ForwardSaved
<1>3. /\ Succeeded(results) = Succeeded(disk.steps)
      /\ InState(results, "rejected") = {} /\ InState(results, "failed") \subseteq begun
      /\ \A s \in InState(results, "blocked") : \E d \in Deps[s] : results[d].state \in {"failed", "blocked"}
      /\ InState(results, "blocked") # {} => InState(results, "failed") # {}
  BY <1>1 DEF Accounted, ResultsSound, ForwardPC, ForwardSave
<1>4. \A s \in begun \cup Succeeded(results) : Deps[s] \subseteq Succeeded(results)
  BY <1>3 DEF Accounted, RecordSound, Met
<1>5. \A s \in Steps : approvals[s] # disk.approvals[s] =>
        Status(s) = "pending" /\ approvals[s].status \in {"approved", "rejected"}
  BY <1>1 DEF Accounted, DecisionsSound
<1>6. RecordSound'
  <2>1. ASSUME NEW c \in Steps, approvals[c].status = "cancelled"
        PROVE  \E s \in Steps : approvals[s].status = "rejected"
    <3>1. c \in Asked("cancelled")
      BY <1>5, <2>1 DEF Asked, Status
    <3>2. PICK s \in Asked("rejected") : TRUE
      BY <3>1 DEF Accounted, RecordSound
    <3>3. s \in Steps /\ Status(s) = "rejected"
      BY <3>2 DEF Asked
    <3> QED BY <1>5, <3>3 DEF Status
  <2>2. ASSUME NEW p \in Steps, approvals[p].status = "pending",
               NEW s \in Gated \ Succeeded(results), approvals[s].status = "none"
        PROVE  ~ (Deps[s] \subseteq Succeeded(results))
    <3>1. p \in Asked("pending") /\ s \in Asked("none") /\ s \in Steps
      BY <1>5, <2>2, WorkflowAssumption DEF Asked, Status
    <3>2. s \in Pending(disk.steps)
      BY <1>2, <1>3, <2>2, <3>1 DEF Consistent, DiskSound, Terminal
    <3> QED BY <1>3, <3>1, <3>2 DEF Accounted, RecordSound, Met
  <2> QED BY <1>1, <1>4, <2>1, <2>2, RecordAfterForward
<1>7. pc' = IF Pending(results) # {} THEN "forward" ELSE "finish"
  BY <1>1, <1>2 DEF AfterRestore
<1>8. ResultsSound'
  BY <1>1, <1>2, <1>3, <1>7 DEF ResultsSound
<1>9. OutcomeSound'
  <2> SUFFICES ASSUME pc' = "finish" PROVE OutcomeSound'
    BY <1>7 DEF OutcomeSound
  <2>1. Pending(results) = {}
    BY <1>7
  <2>2. /\ InState(results, "blocked") \cap begun = {}
        /\ Succeeded(results) # Steps => Broken(results) # {}
    BY <1>3, <1>4, <2>1, ForwardOver DEF TypeOK
  <2>3. Asked("pending")' = {} /\ Asked("rejected")' = {}
    BY <1>2, <2>1 DEF Asked, Status, Terminal
  <2> QED BY <1>1, <1>2, <1>3, <2>1, <2>2, <2>3 DEF OutcomeSound, Broken
<1>10. DecisionsSound' /\ BatchSound' /\ UndoSound' /\ ReportIsDurable'
  BY <1>7 DEF DecisionsSound, BatchSound, UndoSound, ReportIsDurable
<1> QED BY <1>6, <1>8, <1>9, <1>10 DEF Accounted

\* The withdrawn requests are saved: the run is over.
LEMMA AccountedSaveCancellation ==
    TypeOK /\ Consistent /\ Accounted /\ SaveCancellation => Accounted'
<1> SUFFICES ASSUME TypeOK, Consistent, Accounted, SaveCancellation PROVE Accounted'
  OBVIOUS
<1> DEFINE denied == {s \in Steps : approvals[s].status = "rejected"}
<1>1. /\ pc = "cancelSave" /\ Save /\ pc \in ForwardSave /\ pc' = "finish"
      /\ results' = RejectRun(results) /\ UNCHANGED <<approvals, begun>>
  BY DEF SaveCancellation, ForwardSave
<1>2. /\ disk'.phase = "forward" /\ disk'.approvals = approvals
      /\ Succeeded(disk'.steps) = Succeeded(results)
      /\ \A s \in Terminal(results) : approvals[s].status \in {"none", "approved"}
      /\ \A s \in Steps : approvals[s].status # "none" => s \in Gated
  BY <1>1, ForwardSaved
<1>3. /\ Succeeded(results) = Succeeded(disk.steps)
      /\ InState(results, "rejected") = {} /\ InState(results, "failed") \subseteq begun
  BY <1>1 DEF Accounted, ResultsSound, ForwardPC, ForwardSave
<1>4. \A s \in begun \cup Succeeded(results) : Deps[s] \subseteq Succeeded(results)
  BY <1>3 DEF Accounted, RecordSound, Met
<1>5. \A s \in Steps : approvals[s].status # "pending" /\ disk.approvals[s] \in Approval
  <2>1. \A s \in Steps : disk.approvals[s] \in Approval
    BY DEF TypeOK, Checkpoint
  <2>2. \A s \in Steps : approvals[s] = IF s \in Asked("pending")
                                          THEN [disk.approvals[s] EXCEPT !.status = "cancelled"]
                                          ELSE disk.approvals[s]
    BY <1>1 DEF Accounted, DecisionsSound
  <2> QED BY <2>1, <2>2 DEF Asked, Status, Approval
<1>6. denied # {}
  <2>1. PICK s \in Asked("rejected") : TRUE
    BY <1>1 DEF Accounted, DecisionsSound
  <2>2. s \in Steps /\ s \notin Asked("pending") /\ disk.approvals[s].status = "rejected"
    BY <2>1 DEF Asked, Status
  <2>3. approvals[s] = disk.approvals[s]
    BY <1>1, <2>2 DEF Accounted, DecisionsSound
  <2> QED BY <2>2, <2>3
<1>7. \A s \in denied : s \in Gated /\ s \in Pending(results) /\ Deps[s] \subseteq Succeeded(results)
  BY <1>1, <1>2 DEF Terminal, Consistent, RequestsSound
<1>8. RecordSound'
  BY <1>1, <1>4, <1>5, <1>6, RecordAfterForward
<1>9. /\ InState(results', "rejected") = denied /\ InState(results', "failed") = InState(results, "failed")
      /\ Pending(results') = {}
  BY <1>1, <1>3, <1>7, RejectRunAccounted DEF TypeOK
<1>10. Succeeded(results') = Succeeded(results)
  BY <1>1, RejectRunKeeps DEF TypeOK, Keeps
<1>11. ResultsSound'
  BY <1>1, <1>2, <1>10 DEF ResultsSound, ForwardPC, ForwardSave
<1>12. Asked("rejected")' = denied /\ Asked("pending")' = {}
  BY <1>2, <1>5 DEF Asked, Status
<1> HIDE DEF denied
<1>13. OutcomeSound'
  BY <1>1, <1>2, <1>3, <1>6, <1>9, <1>12 DEF OutcomeSound, Broken
<1>14. DecisionsSound' /\ BatchSound' /\ UndoSound' /\ ReportIsDurable'
  BY <1>1 DEF DecisionsSound, BatchSound, UndoSound, ReportIsDurable
<1> QED BY <1>8, <1>11, <1>13, <1>14 DEF Accounted

\* New requests are saved: no gate that could be asked about is left out.
LEMMA AccountedSaveRequests == TypeOK /\ Consistent /\ Accounted /\ SaveRequests => Accounted'
<1> SUFFICES ASSUME TypeOK, Consistent, Accounted, SaveRequests PROVE Accounted'
  OBVIOUS
<1>1. /\ pc = "requestSave" /\ Save /\ pc \in ForwardSave /\ begun' = begun
      /\ EndInvocation(Returned("paused", "not_requested"))
  BY DEF SaveRequests, ForwardSave
<1>2. /\ disk'.phase = "forward" /\ disk'.approvals = approvals
      /\ \A s \in Steps : approvals[s].status # "none" => s \in Gated
  BY <1>1, ForwardSaved
<1>3. /\ Succeeded(results) = Succeeded(disk.steps)
      /\ InState(results, "rejected") = {} /\ InState(results, "failed") \subseteq begun
      /\ \A s \in InState(results, "blocked") : \E d \in Deps[s] : results[d].state \in {"failed", "blocked"}
  BY <1>1 DEF Accounted, ResultsSound, ForwardPC, ForwardSave
<1>4. /\ \E s \in Steps : approvals[s].status = "pending"
      /\ \A s \in Steps : Status(s) \in {"none", "approved"}
      /\ \A s \in Steps : approvals[s] # disk.approvals[s] => approvals[s].status = "pending"
      /\ \A s \in Gated \cap Pending(results) : Met(s) => approvals[s].status # "none"
  BY <1>1 DEF Accounted, DecisionsSound, Asked
<1>5. \A s \in begun \cup Succeeded(results) : Deps[s] \subseteq Succeeded(results)
  BY <1>3 DEF Accounted, RecordSound, Met
<1>6. ASSUME NEW s \in Gated \ Succeeded(results), approvals[s].status = "none"
      PROVE  ~ (Deps[s] \subseteq Succeeded(results))
  <2>1. s \in Steps /\ results[s].state \in StepState
    BY WorkflowAssumption DEF TypeOK, Result
  <2>2. CASE results[s].state = "pending"
    BY <1>3, <1>4, <1>6, <2>1, <2>2 DEF Pending, InState, Met
  <2>3. CASE results[s].state = "failed"
    <3>1. s \in begun
      BY <1>3, <2>1, <2>3 DEF InState
    <3>2. disk.approvals[s].status = "approved"
      BY <3>1 DEF Consistent, DurableApprovalBeforeHandler
    <3> QED BY <1>4, <1>6, <2>1, <3>2
  <2>4. CASE results[s].state = "blocked"
    BY <1>3, <2>1, <2>4 DEF InState, Succeeded
  <2> QED BY <1>3, <1>6, <2>1, <2>2, <2>3, <2>4 DEF StepState, InState, Succeeded
<1>7. \A s \in Steps : approvals[s].status # "cancelled"
  BY <1>4 DEF Status
<1>8. RecordSound'
  BY <1>1, <1>5, <1>6, <1>7, RecordAfterForward
<1>9. ReportIsDurable'
  BY <1>1, <1>2, <1>4 DEF EndInvocation, Returned, ReportIsDurable
<1> QED BY <1>1, <1>8, <1>9, AccountedEnd

\* A batch is saved: its successes had their dependencies.
LEMMA AccountedSaveBatch == TypeOK /\ Consistent /\ Accounted /\ SaveBatch => Accounted'
<1> SUFFICES ASSUME TypeOK, Consistent, Accounted, SaveBatch PROVE Accounted'
  OBVIOUS
<1> DEFINE stop == BatchFailed /\ FailFast
<1>1. /\ pc = "batchSave" /\ Save /\ pc \in ForwardSave /\ UNCHANGED <<approvals, begun>>
      /\ results' = IF stop THEN Block(Pending(results), results) ELSE results
      /\ pc' = IF stop \/ Pending(results) = {} THEN "finish" ELSE "forward"
  BY DEF SaveBatch, ForwardSave
<1>2. /\ disk'.phase = "forward" /\ disk'.approvals = approvals
      /\ Succeeded(disk'.steps) = Succeeded(results)
      /\ Succeeded(disk.steps) \subseteq Succeeded(results)
  BY <1>1, ForwardSaved
<1>3. /\ InState(results, "rejected") = {} /\ InState(results, "failed") \subseteq begun
      /\ \A s \in InState(results, "blocked") : \E d \in Deps[s] : results[d].state \in {"failed", "blocked"}
      /\ InState(results, "blocked") # {} => InState(results, "failed") # {}
  BY <1>1 DEF Accounted, ResultsSound, ForwardPC, ForwardSave
<1>4. /\ \A s \in Steps : Status(s) \in {"none", "approved"}
      /\ begun \subseteq Terminal(results)
      /\ \A s \in Succeeded(results) : Deps[s] \subseteq Succeeded(disk.steps)
      /\ InState(batch, "failed") \subseteq InState(results, "failed")
  BY <1>1 DEF Accounted, BatchSound, Asked, Met
<1>5. approvals = disk.approvals
  BY <1>1 DEF Consistent, MemoryExtendsDisk
<1>6. \A s \in begun \cup Succeeded(results) : Deps[s] \subseteq Succeeded(results)
  BY <1>2, <1>4 DEF Accounted, RecordSound, Met
<1>7. RecordSound'
  <2>1. \A s \in Steps : approvals[s].status \notin {"cancelled", "pending"}
    BY <1>4, <1>5 DEF Status
  <2> QED BY <1>1, <1>6, <2>1, RecordAfterForward
<1>8. results' \in [Steps -> Result] /\ Succeeded(results') = Succeeded(results)
  BY <1>1, MarkedType, BlockKeeps DEF TypeOK, Keeps
<1>9. ResultsSound'
  <2>1. pc' = "forward" => results' = results
    BY <1>1
  <2>2. pc' \in {"forward", "finish"} /\ disk'.phase # "none"
    BY <1>1, <1>2
  <2> QED BY <1>1, <1>2, <1>3, <1>8, <2>1, <2>2 DEF ResultsSound, ForwardPC, ForwardSave
<1>10. OutcomeSound'
  <2> SUFFICES ASSUME pc' = "finish" PROVE OutcomeSound'
    BY <1>1 DEF OutcomeSound
  <2>1. Asked("pending")' = {} /\ Asked("rejected")' = {}
    BY <1>2, <1>4, <1>5 DEF Asked, Status
  <2>2. CASE stop
    <3>1. \A s \in Steps : results'[s] = IF results[s].state = "pending"
                                           THEN TerminalWithoutRun("blocked") ELSE results[s]
      BY <1>1, <2>2 DEF Block, Pending, InState
    <3>2. ASSUME NEW s \in Steps
          PROVE  /\ results[s].state = "pending" => results'[s].state = "blocked"
                 /\ results[s].state # "pending" => results'[s] = results[s]
      BY <3>1 DEF TerminalWithoutRun
    <3>3. /\ Pending(results') = {} /\ InState(results', "rejected") = {}
          /\ InState(results', "failed") = InState(results, "failed")
      BY <1>3, <3>2 DEF Pending, InState
    <3>4. ASSUME NEW s \in InState(results', "blocked"), s \in begun PROVE FALSE
      <4>1. s \in InState(results, "blocked")
        BY <1>4, <3>2, <3>4 DEF InState, Terminal, Pending
      <4>2. PICK t \in Deps[s] : results[t].state \in {"failed", "blocked"}
        BY <1>3, <4>1
      <4>3. t \in Succeeded(results)
        BY <1>6, <3>4
      <4> QED BY <4>2, <4>3 DEF Succeeded, InState
    <3>5. Broken(results') # {}
      BY <1>4, <2>2, <3>3 DEF BatchFailed, Broken
    <3> QED BY <1>1, <1>2, <1>3, <2>1, <3>3, <3>4, <3>5 DEF OutcomeSound, Broken
  <2>3. CASE ~ stop
    <3>1. Pending(results) = {} /\ results' = results
      BY <1>1, <2>3
    <3>2. /\ InState(results, "blocked") \cap begun = {}
          /\ Succeeded(results) # Steps => Broken(results) # {}
      BY <1>3, <1>6, <3>1, ForwardOver DEF TypeOK
    <3> QED BY <1>1, <1>2, <1>3, <2>1, <3>1, <3>2 DEF OutcomeSound, Broken
  <2> QED BY <2>2, <2>3
<1>11. DecisionsSound' /\ BatchSound' /\ UndoSound' /\ ReportIsDurable'
  BY <1>1 DEF DecisionsSound, BatchSound, UndoSound, ReportIsDurable
<1> QED BY <1>7, <1>9, <1>10, <1>11 DEF Accounted

\* What a save of the saga leaves.
LEMMA SagaSaved ==
    ASSUME TypeOK, Consistent, Accounted, pc \in PhaseSave, Save
    PROVE  /\ disk'.phase = phase /\ disk'.approvals = approvals /\ approvals = disk.approvals
           /\ disk'.steps = results /\ disk'.comps = comps
           /\ phase \in {"compensating", "complete"}
           /\ Succeeded(results) = Succeeded(disk.steps)
           /\ ~ Goes => results = disk.steps
<1>1. /\ disk'.phase = phase /\ phase # "forward" /\ disk'.approvals = approvals
      /\ disk'.steps = results /\ disk'.comps = comps
  BY CandidateShape DEF Save, SavePoint
<1>2. phase \in {"compensating", "complete"}
  BY <1>1 DEF TypeOK, Phase
<1>3. approvals = disk.approvals
  BY DEF PhaseSave, Consistent, MemoryExtendsDisk
<1>4. Succeeded(results) = Succeeded(disk.steps)
  BY DEF PhaseSave, Accounted, ResultsSound
<1>5. ~ Goes => results = disk.steps
  BY DEF Goes, PhaseSave, Consistent, MemoryExtendsDisk, TypeOK, Checkpoint, Phase
<1> QED BY <1>1, <1>2, <1>3, <1>4, <1>5

\* The checkpoint of such a save is accounted for when its outcomes are.
LEMMA RecordAfterSaga ==
    ASSUME TypeOK, Consistent, Accounted, pc \in PhaseSave, Save, UNCHANGED begun,
           pc # "compSave" \/ ~ Goes,
           phase = "compensating" => Succeeded(results) # Steps /\ Eligible(results) # {},
           phase = "complete" =>
             comps = IF Succeeded(results) = Steps THEN {} ELSE Eligible(results)
    PROVE  RecordSound'
<1>1. /\ disk'.phase = phase /\ disk'.approvals = disk.approvals
      /\ disk'.steps = results /\ disk'.comps = comps
      /\ phase \in {"compensating", "complete"}
      /\ Succeeded(results) = Succeeded(disk.steps)
      /\ ~ Goes => results = disk.steps
  BY SagaSaved
<1>2. \A st : Asked(st)' = Asked(st)
  BY <1>1 DEF Asked, Status
<1>3. /\ Asked("pending") = {} /\ Pending(results) = {}
      /\ InState(results, "rejected") \subseteq Asked("rejected")
      /\ Succeeded(results) # Steps => Broken(results) # {}
  <2>1. CASE Goes
    BY <2>1 DEF PhaseSave, Accounted, OutcomeSound
  <2>2. CASE ~ Goes
    BY <1>1, <2>2 DEF Accounted, RecordSound
  <2> QED BY <2>1, <2>2
<1>4. \A s \in begun' \cup Succeeded(disk'.steps) : Met(s)'
  BY <1>1 DEF Accounted, RecordSound, Met
<1>5. ASSUME NEW s \in Steps \ Asked("none")'
      PROVE  disk'.approvals[s].context = ContextOf(s, disk'.steps)
  <2>1. s \in Steps /\ approvals[s].status # "none" /\ pc # "idle" /\ approvals = disk.approvals
    BY <1>2, SagaSaved DEF Asked, Status, PhaseSave
  <2> QED BY <1>1, <2>1 DEF Consistent, RequestsSound
<1>6. Asked("cancelled")' # {} => Asked("rejected")' # {}
  BY <1>2 DEF Accounted, RecordSound
<1>7. Asked("pending")' = {} /\ ~ Goes'
  BY <1>1, <1>2, <1>3 DEF Goes
<1>8. /\ Pending(disk'.steps) = {} /\ InState(disk'.steps, "rejected") \subseteq Asked("rejected")'
      /\ Succeeded(disk'.steps) # Steps => Broken(disk'.steps) # {}
  BY <1>1, <1>2, <1>3
<1> QED BY <1>1, <1>4, <1>5, <1>6, <1>7, <1>8 DEF RecordSound

\* The compensating phase is saved with every outcome.
LEMMA AccountedSavePhase == TypeOK /\ Consistent /\ Accounted /\ SavePhase => Accounted'
<1> SUFFICES ASSUME TypeOK, Consistent, Accounted, SavePhase PROVE Accounted'
  OBVIOUS
<1>1. /\ pc = "compensatingSave" /\ pc \in PhaseSave /\ Save /\ pc' = "compensate"
      /\ UNCHANGED <<results, begun>>
  BY DEF SavePhase, PhaseSave, memory
<1>2. phase = "compensating" /\ Succeeded(results) # Steps /\ Eligible(results) # {}
  BY <1>1 DEF Consistent, PhasesAgree, Accounted, UndoSound
<1>3. RecordSound'
  BY <1>1, <1>2, RecordAfterSaga
<1>4. ResultsSound'
  BY <1>1, SagaSaved DEF ResultsSound, ForwardPC, ForwardSave
<1>5. DecisionsSound' /\ BatchSound' /\ OutcomeSound' /\ UndoSound' /\ ReportIsDurable'
  BY <1>1 DEF DecisionsSound, BatchSound, OutcomeSound, UndoSound, ReportIsDurable
<1> QED BY <1>3, <1>4, <1>5 DEF Accounted

\* A wave is saved: the saga goes on, or reports a compensation that is owed.
LEMMA AccountedSaveWave == TypeOK /\ Consistent /\ Accounted /\ SaveWave => Accounted'
<1> SUFFICES ASSUME TypeOK, Consistent, Accounted, SaveWave PROVE Accounted'
  OBVIOUS
<1>1. /\ pc = "compSave" /\ pc \in PhaseSave /\ Save /\ begun' = begun
  BY DEF SaveWave, PhaseSave
<1>2. phase = "compensating" /\ disk.phase = "compensating" /\ ~ Goes
  BY <1>1 DEF Consistent, PhasesAgree, UndoPC, Goes
<1>3. /\ disk'.phase = "compensating" /\ disk'.approvals = disk.approvals
      /\ disk'.steps = results /\ disk'.comps = comps /\ results = disk.steps
  BY <1>1, <1>2, SagaSaved
<1>4. Succeeded(results) # Steps /\ Eligible(results) # {}
  BY <1>2, <1>3 DEF Accounted, RecordSound
<1>5. RecordSound'
  BY <1>1, <1>2, <1>4, RecordAfterSaga
<1>6. CASE BatchFailed
  <2>1. EndInvocation(Returned(RunStatus(results), "failed"))
    BY <1>6 DEF SaveWave
  <2>2. report'.status = RunStatus(results) /\ report'.compensation = "failed" /\ pc' = "idle"
    BY <2>1 DEF EndInvocation, Returned
  <2>3. ~ (Eligible(disk'.steps) \subseteq disk'.comps)
    BY <1>1, <1>3, <1>6 DEF BatchFailed, Accounted, UndoSound
  <2>4. RunStatus(results) \in {"failed", "rejected"}
    BY <1>4 DEF RunStatus
  <2>5. ASSUME RunStatus(results) = "rejected"
        PROVE  \E s \in Gated : disk'.approvals[s].status = "rejected"
    <3>1. PICK s \in InState(results, "rejected") : TRUE
      BY <2>5 DEF RunStatus
    <3>2. s \in Steps /\ disk.approvals[s].status = "rejected"
      BY <1>2, <1>3, <3>1 DEF Accounted, RecordSound, Asked, Status
    <3> QED BY <1>3, <3>2 DEF Consistent, DiskSound
  <2>6. ReportIsDurable'
    BY <1>3, <2>2, <2>3, <2>4, <2>5 DEF ReportIsDurable
  <2> QED BY <1>5, <2>1, <2>6, AccountedEnd
<1>7. CASE ~ BatchFailed
  <2>1. pc' = "compensate" /\ results' = results
    BY <1>7 DEF SaveWave, memory
  <2>2. ResultsSound'
    BY <1>3, <2>1 DEF ResultsSound, ForwardPC, ForwardSave
  <2>3. DecisionsSound' /\ BatchSound' /\ OutcomeSound' /\ UndoSound' /\ ReportIsDurable'
    BY <2>1 DEF DecisionsSound, BatchSound, OutcomeSound, UndoSound, ReportIsDurable
  <2> QED BY <1>5, <2>2, <2>3 DEF Accounted
<1> QED BY <1>6, <1>7

\* The completion is saved and reported.
LEMMA AccountedSaveComplete == TypeOK /\ Consistent /\ Accounted /\ SaveComplete => Accounted'
<1> SUFFICES ASSUME TypeOK, Consistent, Accounted, SaveComplete PROVE Accounted'
  OBVIOUS
<1>1. /\ pc = "completeSave" /\ pc \in PhaseSave /\ Save /\ begun' = begun /\ phase = "complete"
      /\ EndInvocation(Returned(RunStatus(results), CompensationStatus))
  BY DEF SaveComplete, PhaseSave, Consistent, PhasesAgree
<1>2. /\ disk'.phase = "complete" /\ disk'.approvals = disk.approvals
      /\ disk'.steps = results /\ disk'.comps = comps
      /\ ~ Goes => results = disk.steps
  BY <1>1, SagaSaved
<1>3. /\ Goes => comps = {} /\ (Succeeded(results) # Steps => Eligible(results) = {})
      /\ ~ Goes => comps = Eligible(results)
  BY <1>1 DEF Accounted, UndoSound
<1>4. ~ Goes => Succeeded(results) # Steps
  <2> SUFFICES ASSUME ~ Goes PROVE disk.phase = "compensating"
    BY <1>2 DEF Accounted, RecordSound
  <2> QED BY <1>1 DEF Goes, Consistent, PhasesAgree, TypeOK, Checkpoint, Phase
<1>5. comps = IF Succeeded(results) = Steps THEN {} ELSE Eligible(results)
  BY <1>3, <1>4
<1>6. RecordSound'
  BY <1>1, <1>5, RecordAfterSaga
<1>7. /\ report'.status = RunStatus(results) /\ report'.compensation = CompensationStatus
      /\ pc' = "idle"
  BY <1>1 DEF EndInvocation, Returned
<1>8. ASSUME RunStatus(results) = "rejected"
      PROVE  \E s \in Gated : disk'.approvals[s].status = "rejected"
  <2>1. PICK s \in InState(results, "rejected") : TRUE
    BY <1>8 DEF RunStatus
  <2>2. s \in Asked("rejected")
    <3>1. Goes => InState(results, "rejected") = Asked("rejected")
      BY <1>1 DEF Accounted, OutcomeSound
    <3>2. ~ Goes => InState(results, "rejected") \subseteq Asked("rejected")
      BY <1>2 DEF Accounted, RecordSound
    <3> QED BY <2>1, <3>1, <3>2
  <2>3. s \in Steps /\ disk.approvals[s].status = "rejected"
    BY <2>2 DEF Asked, Status
  <2> QED BY <1>2, <2>3 DEF Consistent, DiskSound
<1>9. RunStatus(results) = "succeeded" => Succeeded(results) = Steps
  BY DEF RunStatus
<1>10. RunStatus(results) \in {"failed", "rejected"} =>
         /\ CompensationStatus = "succeeded" => comps = Eligible(results)
         /\ CompensationStatus # "succeeded" => Eligible(results) = {}
  <2>1. RunStatus(results) \in {"failed", "rejected"} =>
          (CompensationStatus = "succeeded" <=> Eligible(results) # {})
    BY DEF CompensationStatus, MustUndo, Unsuccessful
  <2>2. Eligible(results) # {} => comps = Eligible(results) \/ Succeeded(results) = Steps
    BY <1>5
  <2>3. ASSUME RunStatus(results) \in {"failed", "rejected"} PROVE Succeeded(results) # Steps
    BY <2>3 DEF RunStatus, InState, Succeeded
  <2> QED BY <2>1, <2>2, <2>3
<1>11. CompensationStatus \in {"not_requested", "succeeded"}
  BY StatusTypes
<1>12. ReportIsDurable'
  <2>1. report'.status # "paused"
    BY <1>7, StatusTypes
  <2>2. report'.status = "succeeded" => Succeeded(disk'.steps) = Steps /\ disk'.comps = {}
    BY <1>2, <1>5, <1>7, <1>9
  <2>3. report'.compensation # "failed"
    BY <1>7, <1>11
  <2> QED BY <1>2, <1>7, <1>8, <1>10, <2>1, <2>2, <2>3 DEF ReportIsDurable, Eligible
<1> QED BY <1>1, <1>6, <1>12, AccountedEnd

\* Every save.
LEMMA AccountedSaves == TypeOK /\ Consistent /\ Accounted /\ Saves => Accounted'
BY AccountedSaveDecisions, AccountedSaveCancellation, AccountedSaveRequests, AccountedSaveBatch,
   AccountedSavePhase, AccountedSaveWave, AccountedSaveComplete DEF Saves

-----------------------------------------------------------------------------
(* After the forward loop *)

\* A run whose status is not success has a step without one.
LEMMA UnsuccessfulSteps == Unsuccessful <=> Succeeded(results) # Steps
BY DEF Unsuccessful, RunStatus, Succeeded, InState

\* The outcome is reported from a checkpoint that has it.
LEMMA AccountedReportOutcome == TypeOK /\ Consistent /\ Accounted /\ ReportOutcome => Accounted'
<1> SUFFICES ASSUME TypeOK, Consistent, Accounted, ReportOutcome PROVE Accounted'
  OBVIOUS
<1>1. /\ pc = "finish" /\ UNCHANGED <<disk, begun>>
      /\ IF MustUndo THEN phase = "complete" ELSE Version < 3 \/ phase # "forward"
      /\ EndInvocation(Returned(RunStatus(results), CompensationStatus))
  BY DEF ReportOutcome
<1>2. /\ report'.status = RunStatus(results) /\ report'.compensation = CompensationStatus
      /\ pc' = "idle"
  BY <1>1 DEF EndInvocation, Returned
<1>3. /\ Succeeded(results) = Succeeded(disk.steps)
      /\ disk.phase \in {"compensating", "complete"} => results = disk.steps
      /\ phase # "forward" => disk.phase = phase
  BY <1>1 DEF Accounted, ResultsSound, Consistent, MemoryExtendsDisk, PhasesAgree
<1>4. ASSUME RunStatus(results) = "succeeded"
      PROVE  Succeeded(disk.steps) = Steps /\ disk.comps = {} /\ disk.phase # "compensating"
  <2>1. Succeeded(disk.steps) = Steps
    BY <1>3, <1>4 DEF RunStatus
  <2>2. disk.phase # "compensating"
    BY <2>1 DEF Accounted, RecordSound
  <2>3. disk.comps = {}
    BY <2>1, <2>2 DEF Accounted, RecordSound, Consistent, DiskSound, TypeOK, Checkpoint, Phase
  <2> QED BY <2>1, <2>2, <2>3
<1>5. ASSUME RunStatus(results) = "rejected"
      PROVE  \E s \in Gated : disk.approvals[s].status = "rejected"
  <2>1. PICK s \in InState(results, "rejected") : TRUE
    BY <1>5 DEF RunStatus
  <2>2. Goes => InState(results, "rejected") = Asked("rejected")
    BY <1>1 DEF Accounted, OutcomeSound
  <2>3. ~ Goes => results = disk.steps /\ InState(disk.steps, "rejected") \subseteq Asked("rejected")
    BY <1>3 DEF Goes, Accounted, RecordSound, TypeOK, Checkpoint, Phase
  <2>4. s \in Steps /\ disk.approvals[s].status = "rejected"
    BY <2>1, <2>2, <2>3 DEF Asked, Status
  <2> QED BY <2>4 DEF Consistent, DiskSound
<1>6. ASSUME RunStatus(results) \in {"failed", "rejected"}, Version = 3
      PROVE  /\ CompensationStatus \in {"succeeded", "not_requested"}
             /\ disk.phase = "complete"
             /\ CompensationStatus = "succeeded" => disk.comps = Eligible(disk.steps)
             /\ CompensationStatus # "succeeded" => Eligible(disk.steps) = {}
  <2>1. phase # "forward" /\ disk.phase = phase
    BY <1>1, <1>3, <1>6
  <2>2. phase \in {"compensating", "complete"} /\ results = disk.steps
    BY <1>3, <2>1 DEF TypeOK, Phase
  <2>3. Unsuccessful /\ Succeeded(results) # Steps
    BY <1>6, UnsuccessfulSteps DEF Unsuccessful
  <2>4. phase = "compensating" => MustUndo
    BY <2>1, <2>2, <2>3 DEF MustUndo, Accounted, RecordSound
  <2>5. disk.phase = "complete"
    BY <1>1, <2>1, <2>2, <2>4
  <2>6. disk.comps = Eligible(disk.steps)
    BY <2>2, <2>3, <2>5 DEF Accounted, RecordSound
  <2> QED BY <2>2, <2>3, <2>5, <2>6, StatusTypes DEF CompensationStatus, MustUndo
<1>7. ReportIsDurable'
  <2>1. report'.status \in {"succeeded", "failed", "rejected"}
    BY <1>2, StatusTypes
  <2> QED BY <1>1, <1>2, <1>4, <1>5, <1>6, <2>1 DEF ReportIsDurable, Eligible
<1> QED BY <1>1, <1>7, RecordUnchanged, AccountedEnd

\* Every action between the forward loop and the report.
LEMMA AccountedOutcome == TypeOK /\ Consistent /\ Accounted /\ Outcome => Accounted'
<1> SUFFICES ASSUME TypeOK, Consistent, Accounted, Outcome PROVE Accounted'
  OBVIOUS
<1>1. CASE BeginCompensating
  <2>1. /\ pc = "finish" /\ pc' = "compensatingSave" /\ MustUndo /\ phase = "forward"
        /\ UNCHANGED <<disk, results, comps, begun>>
    BY <1>1 DEF BeginCompensating
  <2>2. ResultsSound' /\ RecordSound'
    BY <2>1, RecordUnchanged DEF Accounted, ResultsSound, ForwardPC, ForwardSave
  <2>3. OutcomeSound'
    BY <2>1 DEF Accounted, OutcomeSound, Goes, Asked, Status
  <2>4. UndoSound'
    BY <2>1, UnsuccessfulSteps DEF UndoSound, MustUndo, Consistent, CompensationsSound
  <2>5. DecisionsSound' /\ BatchSound' /\ ReportIsDurable'
    BY <2>1 DEF DecisionsSound, BatchSound, ReportIsDurable
  <2> QED BY <2>2, <2>3, <2>4, <2>5 DEF Accounted
<1>2. CASE ContinueCompensating
  <2>1. pc = "finish" /\ pc' = "compensate" /\ UNCHANGED <<disk, results, begun>>
    BY <1>2 DEF ContinueCompensating, memory
  <2>2. ResultsSound' /\ RecordSound'
    BY <2>1, RecordUnchanged DEF Accounted, ResultsSound, ForwardPC, ForwardSave
  <2>3. DecisionsSound' /\ BatchSound' /\ OutcomeSound' /\ UndoSound' /\ ReportIsDurable'
    BY <2>1 DEF DecisionsSound, BatchSound, OutcomeSound, UndoSound, ReportIsDurable
  <2> QED BY <2>2, <2>3 DEF Accounted
<1>3. CASE Seal
  <2>1. /\ pc = "finish" /\ pc' = "completeSave" /\ ~ MustUndo /\ phase = "forward"
        /\ UNCHANGED <<disk, results, comps, begun>>
    BY <1>3 DEF Seal
  <2>2. ResultsSound' /\ RecordSound'
    BY <2>1, RecordUnchanged DEF Accounted, ResultsSound, ForwardPC, ForwardSave
  <2>3. OutcomeSound'
    BY <2>1 DEF Accounted, OutcomeSound, Goes, Asked, Status
  <2>4. Goes /\ comps = {} /\ (Succeeded(results) # Steps => Eligible(results) = {})
    BY <2>1, UnsuccessfulSteps DEF Consistent, PhasesAgree, CompensationsSound, MustUndo, Goes
  <2>5. UndoSound'
    BY <2>1, <2>4 DEF UndoSound, Goes
  <2>6. DecisionsSound' /\ BatchSound' /\ ReportIsDurable'
    BY <2>1 DEF DecisionsSound, BatchSound, ReportIsDurable
  <2> QED BY <2>2, <2>3, <2>5, <2>6 DEF Accounted
<1>7. CASE StartWave /\ Wave = {}
  BY <1>7, AccountedRaise DEF StartWave
<1>4. CASE StartWave /\ Wave # {}
  <2>1. /\ pc = "compensate" /\ pc' = "compBatch" /\ batch' = NoBatch
        /\ \A s \in Steps : task'[s] \in {"queued", "none"}
        /\ UNCHANGED <<disk, results, begun>>
    BY <1>4 DEF StartWave, StartTasks, memory
  <2>2. \A s \in Steps : NoBatch[s].state = "pending"
    BY DEF NoBatch, NoResults, NotRun, TerminalWithoutRun
  <2>3. UndoSound'
    BY <2>1, <2>2 DEF UndoSound
  <2>4. ResultsSound' /\ RecordSound'
    BY <2>1, RecordUnchanged DEF Accounted, ResultsSound, ForwardPC, ForwardSave
  <2>5. DecisionsSound' /\ BatchSound' /\ OutcomeSound' /\ ReportIsDurable'
    BY <2>1 DEF DecisionsSound, BatchSound, OutcomeSound, ReportIsDurable
  <2> QED BY <2>3, <2>4, <2>5 DEF Accounted
<1>5. CASE WavesDone
  <2>1. /\ pc = "compensate" /\ pc' = "completeSave" /\ Remaining = {}
        /\ UNCHANGED <<disk, results, comps, begun>>
    BY <1>5 DEF WavesDone
  <2>2. disk.phase = "compensating" /\ ~ Goes /\ comps = disk.comps
    BY <2>1 DEF Consistent, PhasesAgree, MemoryExtendsDisk, UndoPC, Goes
  <2>3. comps = Eligible(results)
    BY <2>1 DEF Remaining, Consistent, CompensationsSound
  <2>4. UndoSound' /\ OutcomeSound'
    BY <2>1, <2>2, <2>3 DEF UndoSound, OutcomeSound, Goes, Eligible
  <2>5. ResultsSound' /\ RecordSound'
    BY <2>1, RecordUnchanged DEF Accounted, ResultsSound, ForwardPC, ForwardSave
  <2>6. DecisionsSound' /\ BatchSound' /\ ReportIsDurable'
    BY <2>1 DEF DecisionsSound, BatchSound, ReportIsDurable
  <2> QED BY <2>4, <2>5, <2>6 DEF Accounted
<1> QED BY <1>1, <1>2, <1>3, <1>4, <1>5, <1>7, AccountedReportOutcome DEF Outcome

\* Every step.
LEMMA AccountedNext == TypeOK /\ Consistent /\ Accounted /\ [Next]_vars => Accounted'
<1> SUFFICES ASSUME TypeOK, Consistent, Accounted, [Next]_vars PROVE Accounted'
  OBVIOUS
<1>1. CASE Invoke
  BY <1>1, AccountedStartFresh, AccountedRefuse, AccountedResume DEF Invoke
<1>2. CASE Abort
  BY <1>2, AccountedRaise DEF Abort
<1>3. CASE UNCHANGED vars
  <2>1. /\ UNCHANGED <<disk, pc, phase, results, approvals, comps>>
        /\ UNCHANGED <<task, batch, report, begun, undoBegun>>
    BY <1>3 DEF vars, memory, work
  <2>2. RecordSound'
    BY <2>1, RecordUnchanged
  <2>3. ResultsSound' /\ DecisionsSound' /\ BatchSound'
    BY <2>1 DEF Accounted, ResultsSound, DecisionsSound, BatchSound, Asked, Status, Met
  <2>4. OutcomeSound' /\ UndoSound' /\ ReportIsDurable'
    BY <2>1 DEF Accounted, OutcomeSound, UndoSound, ReportIsDurable, Goes, Asked, Status
  <2> QED BY <2>2, <2>3, <2>4 DEF Accounted
<1> QED BY <1>1, <1>2, <1>3, AccountedForward, AccountedTasks, AccountedSaves, AccountedOutcome
        DEF Next, Run

-----------------------------------------------------------------------------
(* The theorems *)

\* Whatever is interrupted when, every durable outcome, request and compensation
\* is accounted for by what began and what was decided.
THEOREM AccountedAlways == Spec => []Accounted
<1>1. TypeOK /\ Consistent /\ Accounted /\ [Next]_vars => Accounted'
  BY AccountedNext
<1> QED BY <1>1, AccountedInit, TypeCorrect, ConsistentAlways, PTL DEF Spec

\* What the last invocation of run() returned is true of the checkpoint it left.
THEOREM ReportAlwaysDurable == Spec => []ReportIsDurable
BY AccountedAlways, PTL DEF Accounted

\* Every checkpoint an invocation leaves can be resumed, but for a saga entered
\* after a rejection and one that is complete but not sealed: _restore_checkpoint
\* has no third gap.
THEOREM ResumesAlwaysOutsideGaps == Spec => []ResumesOutsideGaps
<1>1. TypeOK /\ Consistent /\ Accounted => ResumesOutsideGaps
  <2> SUFFICES ASSUME TypeOK, Consistent, Accounted, disk.phase # "none",
                      ~ RejectedSaga, ~ UnsealedSaga
               PROVE  Restorable(disk)
    BY DEF ResumesOutsideGaps
  <2>1. disk.phase \in Phase
    BY DEF TypeOK, Checkpoint
  <2>2. Succeeded(disk.steps) \subseteq Terminal(disk.steps) /\ Terminal(disk.steps) \subseteq Steps
    BY DEF Succeeded, Terminal, Pending, InState
  <2>3. IF Goes THEN Terminal(disk.steps) = Succeeded(disk.steps) /\ disk.phase = "forward"
                ELSE Terminal(disk.steps) = Steps /\ disk.phase # "forward"
    <3>1. Goes => Terminal(disk.steps) = Succeeded(disk.steps)
      BY DEF Goes, Consistent, DiskSound
    <3>2. ~ Goes => Terminal(disk.steps) = Steps
      BY DEF Accounted, RecordSound, Terminal
    <3> QED BY <3>1, <3>2 DEF Goes
  <2>4. ASSUME NEW s \in Terminal(disk.steps) PROVE Deps[s] \subseteq Terminal(disk.steps)
    <3>1. CASE Goes
      BY <2>3, <2>4, <3>1 DEF Accounted, RecordSound, Met
    <3>2. CASE ~ Goes
      BY <2>2, <2>3, <2>4, <3>2, WorkflowAssumption
    <3> QED BY <3>1, <3>2
  <2>5. disk.comps \subseteq Compensable \cap Terminal(disk.steps)
    BY <2>2 DEF Consistent, DiskSound, Eligible
  <2>6. ASSUME NEW s \in Steps, disk.approvals[s].status # "none"
        PROVE  /\ s \in Gated
               /\ Deps[s] \subseteq Terminal(disk.steps)
               /\ disk.approvals[s].context = ContextOf(s, disk.steps)
               /\ s \in Terminal(disk.steps) => disk.approvals[s].status = "approved"
    <3>1. s \in Gated /\ Deps[s] \subseteq Terminal(disk.steps)
      BY <2>2, <2>6 DEF Consistent, DiskSound
    <3>2. disk.approvals[s].context = ContextOf(s, disk.steps)
      BY <2>6 DEF Accounted, RecordSound, Asked, Status
    <3>3. CASE Goes
      BY <2>3, <2>6, <3>1, <3>2, <3>3 DEF Accounted, RecordSound, Status
    <3>4. CASE ~ Goes
      <4>1. Asked("rejected") = {}
        BY <2>3, <3>4 DEF RejectedSaga, Asked, Status
      <4>2. Asked("pending") = {} /\ Asked("cancelled") = {}
        BY <3>4, <4>1 DEF Accounted, RecordSound
      <4>3. disk.approvals[s].status \in ApprovalStatus
        BY DEF TypeOK, Checkpoint, Approval
      <4>4. disk.approvals[s].status = "approved"
        BY <2>6, <4>1, <4>2, <4>3 DEF Asked, Status, ApprovalStatus
      <4> QED BY <3>1, <3>2, <4>4
    <3> QED BY <3>3, <3>4
  <2>7. disk.phase = "compensating" =>
          Succeeded(disk.steps) # Steps /\ ~ (Eligible(disk.steps) \subseteq disk.comps)
    BY DEF Accounted, RecordSound, UnsealedSaga
  <2>8. disk.phase = "complete" =>
          disk.comps = IF Succeeded(disk.steps) = Steps THEN {} ELSE Eligible(disk.steps)
    BY DEF Accounted, RecordSound
  <2>9. disk.phase # "forward" => Terminal(disk.steps) = Steps
    BY <2>3
  <2>10. \A s \in Steps : disk.approvals[s].status # "none" =>
           /\ s \in Gated
           /\ Deps[s] \subseteq Terminal(disk.steps)
           /\ disk.approvals[s].context = ContextOf(s, disk.steps)
           /\ s \in Terminal(disk.steps) => disk.approvals[s].status = "approved"
    BY <2>6
  <2> QED BY <2>4, <2>5, <2>7, <2>8, <2>9, <2>10 DEF Restorable
<1> QED BY <1>1, TypeCorrect, ConsistentAlways, AccountedAlways, PTL

-----------------------------------------------------------------------------
(* WorkflowRun implements DurableSaga *)

\* The contract's view of a checkpoint.
LEMMA ContractView ==
    ASSUME TypeOK, Consistent
    PROVE  /\ \A state : Contract!In(state) = InState(disk.steps, state)
           /\ \A status : Contract!Asked(status) = Asked(status)
           /\ Contract!Owed = Eligible(disk.steps) \ disk.comps
           /\ Goes => Steps \ Succeeded(disk.steps) = Pending(disk.steps)
           /\ Goes /\ (\E s \in Steps : Status(s) # "none") => disk.phase = "forward"
<1>1. \A state : Contract!In(state) = InState(disk.steps, state)
  BY DEF Contract!In, InState
<1>2. \A status : Contract!Asked(status) = Asked(status)
  BY DEF Contract!Asked, Asked, Status
<1>3. Contract!Owed = Eligible(disk.steps) \ disk.comps
  BY <1>1 DEF Contract!Owed, Eligible, Succeeded
<1>4. Goes => Steps \ Succeeded(disk.steps) = Pending(disk.steps)
  BY DEF Goes, Consistent, DiskSound, Terminal, Pending, Succeeded, InState
<1>5. Goes /\ (\E s \in Steps : Status(s) # "none") => disk.phase = "forward"
  BY BlankMemory DEF Goes, Status, Consistent, DiskSound, NoCheckpoint
<1> QED BY <1>1, <1>2, <1>3, <1>4, <1>5

\* What neither saves nor starts anything is no step of the contract.
LEMMA ContractStutter ==
    ASSUME UNCHANGED <<disk, begun, undoBegun>>
    PROVE  UNCHANGED Contract!vars
BY DEF Contract!vars

\* No run yet.
LEMMA ContractInit == Init => Contract!Init
BY DEF Init, NoCheckpoint, NoResults, NoApprovals, NoApproval, NotRun, TerminalWithoutRun,
       Contract!Init

\* A handler starts only where the contract lets it begin.
LEMMA BeginIsKept ==
    ASSUME TypeOK, Consistent, Accounted, NEW s \in Steps, StartHandler(s)
    PROVE  Contract!Begin(s)
<1>1. /\ pc = "batch" /\ task[s] = "queued" /\ begun' = begun \cup {s}
      /\ s \in Gated => approvals[s].status = "approved"
      /\ UNCHANGED <<disk, undoBegun>>
  BY DEF StartHandler, Acquire
<1>2. Goes /\ approvals = disk.approvals /\ Asked("none") \cup Asked("approved") = Steps
  BY <1>1 DEF Consistent, PhasesAgree, MemoryExtendsDisk, ApprovalBarrier, ForwardPC, Goes,
              Asked, Status
<1>3. Contract!Open
  BY <1>2, ContractView DEF Contract!Open, Goes
<1>4. s \in Pending(disk.steps) /\ Deps[s] \subseteq Succeeded(disk.steps)
  <2>1. results[s].state = "pending" /\ Met(s)
    BY <1>1 DEF Consistent, TasksSound, Pending, InState, Accounted, BatchSound
  <2>2. s \in Terminal(disk.steps) => results[s] = disk.steps[s]
    BY <1>1 DEF Consistent, MemoryExtendsDisk
  <2> QED BY <2>1, <2>2 DEF Met, Terminal, Pending, InState
<1>5. Contract!Enabled(s)
  BY <1>4, ContractView DEF Contract!Enabled, Pending, Succeeded
<1> QED BY <1>1, <1>2, <1>3, <1>5 DEF Contract!Begin

\* So does a compensator.
LEMMA BeginUndoIsKept ==
    ASSUME TypeOK, Consistent, Accounted, NEW s \in Steps, StartCompensator(s)
    PROVE  Contract!BeginUndo(s)
<1>1. /\ pc = "compBatch" /\ task[s] = "queued" /\ undoBegun' = undoBegun \cup {s}
      /\ UNCHANGED <<disk, begun>>
  BY DEF StartCompensator, Acquire
<1>2. disk.phase = "compensating" /\ results = disk.steps /\ comps = disk.comps
  BY <1>1 DEF Consistent, PhasesAgree, MemoryExtendsDisk, UndoPC
<1>3. s \in Remaining /\ Dependents(s) \cap Eligible(results) \subseteq comps
  BY <1>1 DEF Consistent, TasksSound
<1>4. s \in Contract!Owed /\ \A t \in Contract!Owed : s \notin Deps[t]
  BY <1>2, <1>3, ContractView, WorkflowAssumption DEF Remaining, Dependents, Eligible
<1> QED BY <1>1, <1>2, <1>4 DEF Contract!BeginUndo

\* The outcomes and compensations a save of the forward part leaves, where it
\* adds no success.
LEMMA ForwardOutcomes ==
    ASSUME TypeOK, Consistent, Accounted, pc \in ForwardSave, Save
    PROVE  /\ \A s \in Steps : disk'.steps[s].state =
                IF s \in Succeeded(results) THEN "succeeded" ELSE "pending"
           /\ \A s \in Steps : disk.steps[s].state =
                IF s \in Succeeded(disk.steps) THEN "succeeded" ELSE "pending"
           /\ disk'.comps = disk.comps /\ Goes
<1>1. /\ Terminal(disk'.steps) = Succeeded(results) /\ Succeeded(disk'.steps) = Succeeded(results)
      /\ disk'.comps = disk.comps /\ Goes
  BY ForwardSaved DEF Goes
<1>2. Terminal(disk.steps) = Succeeded(disk.steps)
  BY <1>1 DEF Goes, Consistent, DiskSound
<1> QED BY <1>1, <1>2 DEF Terminal, Pending, Succeeded, InState

\* Saved decisions are decisions of durable undecided requests.
LEMMA DecideIsKept ==
    ASSUME TypeOK, Consistent, Accounted, SaveDecisions
    PROVE  \E yes, no \in SUBSET Steps : Contract!Decide(yes, no)
<1> DEFINE changed == {s \in Steps : approvals[s] # disk.approvals[s]}
           yes == {s \in changed : approvals[s].status = "approved"}
           no == {s \in changed : approvals[s].status = "rejected"}
<1>1. /\ pc = "decisionSave" /\ pc \in ForwardSave /\ Save /\ UNCHANGED <<begun, undoBegun>>
  BY DEF SaveDecisions, ForwardSave
<1>2. /\ changed # {}
      /\ \A s \in changed : Status(s) = "pending" /\ approvals[s].status \in {"approved", "rejected"}
  BY <1>1 DEF Accounted, DecisionsSound
<1>3. disk.phase = "forward"
  BY <1>1, <1>2, ForwardOutcomes, ContractView
<1>4. disk'.phase = "forward" /\ disk'.approvals = approvals
  BY <1>1, ForwardSaved
<1>5. Succeeded(results) = Succeeded(disk.steps)
  BY <1>1 DEF Accounted, ResultsSound
<1>6. \A s \in Steps : disk'.steps[s].state = disk.steps[s].state
  BY <1>1, <1>5, ForwardOutcomes
<1>7. yes \cup no = changed /\ yes \cap no = {} /\ yes \cup no \subseteq Contract!Asked("pending")
  BY <1>2, ContractView DEF Asked
<1>8. \A s \in Steps : disk'.approvals[s].status = IF s \in yes THEN "approved"
                         ELSE IF s \in no THEN "rejected" ELSE disk.approvals[s].status
  BY <1>2, <1>4
<1> HIDE DEF changed, yes, no
<1>9. disk'.comps = disk.comps
  BY <1>1, ForwardOutcomes
<1>10. Contract!Decide(yes, no)
  BY <1>1, <1>2, <1>3, <1>4, <1>6, <1>7, <1>8, <1>9 DEF Contract!Decide
<1>11. yes \in SUBSET Steps
  BY DEF yes, changed
<1>12. no \in SUBSET Steps
  BY DEF no, changed
<1> QED BY <1>10, <1>11, <1>12 DEF Contract!Decide

\* Only a durable rejection withdraws requests, and it withdraws all of them.
LEMMA WithdrawIsKept ==
    ASSUME TypeOK, Consistent, Accounted, SaveCancellation
    PROVE  Contract!Withdraw
<1>1. /\ pc = "cancelSave" /\ pc \in ForwardSave /\ Save /\ UNCHANGED <<begun, undoBegun>>
  BY DEF SaveCancellation, ForwardSave
<1>2. /\ Asked("rejected") # {} /\ Asked("pending") # {}
      /\ \A s \in Steps : approvals[s] = IF s \in Asked("pending")
                                           THEN [disk.approvals[s] EXCEPT !.status = "cancelled"]
                                           ELSE disk.approvals[s]
  BY <1>1 DEF Accounted, DecisionsSound
<1>3. disk.phase = "forward"
  BY <1>1, <1>2, ForwardOutcomes, ContractView DEF Asked
<1>4. disk'.phase = "forward" /\ disk'.approvals = approvals
  BY <1>1, ForwardSaved
<1>5. Succeeded(results) = Succeeded(disk.steps)
  BY <1>1 DEF Accounted, ResultsSound
<1>6. disk'.comps = disk.comps /\ \A s \in Steps : disk'.steps[s].state = disk.steps[s].state
  BY <1>1, <1>5, ForwardOutcomes
<1>7. \A s \in Steps : disk.approvals[s] \in Approval
  BY DEF TypeOK, Checkpoint
<1>8. \A s \in Steps : disk'.approvals[s].status = IF s \in Asked("pending") THEN "cancelled"
                                                   ELSE disk.approvals[s].status
  BY <1>2, <1>4, <1>7 DEF Approval
<1> QED BY <1>1, <1>2, <1>3, <1>4, <1>6, <1>8, ContractView DEF Contract!Withdraw

\* Requests are saved where the contract lets the run ask.
LEMMA AskIsKept ==
    ASSUME TypeOK, Consistent, Accounted, SaveRequests
    PROVE  \E set \in SUBSET Steps : Contract!Ask(set)
<1> DEFINE set == {s \in Steps : approvals[s] # disk.approvals[s]}
<1>1. /\ pc = "requestSave" /\ pc \in ForwardSave /\ Save /\ UNCHANGED <<begun, undoBegun>>
  BY DEF SaveRequests, ForwardSave
<1>2. /\ Asked("none") \cup Asked("approved") = Steps
      /\ \E s \in Steps : approvals[s].status = "pending"
      /\ \A s \in set : /\ s \in Gated \cap Asked("none") \cap Pending(results) /\ Met(s)
                        /\ approvals[s].status = "pending"
  BY <1>1 DEF Accounted, DecisionsSound
<1>3. set # {}
  BY <1>2 DEF Asked, Status
<1>4. disk'.phase = "forward" /\ disk'.approvals = approvals /\ disk'.comps = disk.comps /\ Goes
  BY <1>1, ForwardSaved, ForwardOutcomes
<1>5. Succeeded(results) = Succeeded(disk.steps)
  BY <1>1 DEF Accounted, ResultsSound
<1>6. \A s \in Steps : disk'.steps[s].state = disk.steps[s].state
  BY <1>1, <1>5, ForwardOutcomes
<1>7. Contract!Open
  BY <1>2, <1>4, ContractView DEF Contract!Open, Goes
<1>8. ASSUME NEW s \in set
      PROVE  Contract!Enabled(s) /\ s \in Gated \cap Contract!Asked("none") /\ s \notin begun
  <2>1. s \in Pending(disk.steps)
    BY <1>2, <1>4, <1>5, ContractView DEF Pending, Succeeded, InState
  <2>2. Contract!Enabled(s)
    BY <1>2, <2>1, ContractView DEF Contract!Enabled, Met, Pending, Succeeded
  <2>3. s \notin begun
    BY <1>2 DEF Asked, Status, Consistent, DurableApprovalBeforeHandler
  <2> QED BY <1>2, <2>2, <2>3, ContractView
<1>9. \A s \in Steps : disk'.approvals[s].status =
        IF s \in set THEN "pending" ELSE disk.approvals[s].status
  BY <1>2, <1>4
<1>10. set \in SUBSET Steps
  OBVIOUS
<1> HIDE DEF set
<1>11. Contract!Ask(set)
  BY <1>1, <1>3, <1>4, <1>6, <1>7, <1>8, <1>9 DEF Contract!Ask
<1> QED BY <1>10, <1>11 DEF Contract!Ask

\* A saved batch records the successes of handlers that began.
LEMMA RecordIsKept ==
    ASSUME TypeOK, Consistent, Accounted, SaveBatch
    PROVE  \E set \in SUBSET Steps : Contract!Record(set)
<1> DEFINE set == Succeeded(results) \ Succeeded(disk.steps)
<1>1. /\ pc = "batchSave" /\ pc \in ForwardSave /\ Save /\ UNCHANGED <<begun, undoBegun>>
  BY DEF SaveBatch, ForwardSave
<1>2. /\ Asked("none") \cup Asked("approved") = Steps
      /\ \A s \in set : s \in begun /\ Met(s)
  BY <1>1 DEF Accounted, BatchSound
<1>3. disk'.phase = "forward" /\ disk'.approvals = approvals /\ disk'.comps = disk.comps /\ Goes
  BY <1>1, ForwardSaved, ForwardOutcomes
<1>4. approvals = disk.approvals
  BY <1>1 DEF Consistent, MemoryExtendsDisk
<1>5. Contract!Open
  BY <1>2, <1>3, ContractView DEF Contract!Open, Goes
<1>6. ASSUME NEW s \in set PROVE Contract!Enabled(s) /\ s \in begun
  <2>1. s \in Pending(disk.steps)
    BY <1>3, ContractView DEF Succeeded, InState
  <2> QED BY <1>2, <2>1, ContractView DEF Contract!Enabled, Met, Pending, Succeeded
<1>7. Succeeded(disk.steps) \subseteq Succeeded(results)
  BY <1>1, ForwardSaved
<1>8. \A s \in Steps : disk'.steps[s].state =
        IF s \in set THEN "succeeded" ELSE disk.steps[s].state
  BY <1>1, <1>7, ForwardOutcomes
<1>9. set \in SUBSET Steps
  BY DEF Succeeded, InState
<1> HIDE DEF set
<1>10. Contract!Record(set)
  BY <1>1, <1>3, <1>4, <1>5, <1>6, <1>8 DEF Contract!Record
<1> QED BY <1>9, <1>10 DEF Contract!Record

\* The outcomes that the first save of the saga makes durable.
LEMMA SettlesIsKept ==
    ASSUME TypeOK, Consistent, Accounted, pc \in {"compensatingSave", "completeSave"}, Save, Goes,
           NEW final, final = [s \in Steps |-> results[s].state]
    PROVE  /\ final \in [Steps -> {"succeeded", "failed", "blocked", "rejected"}]
           /\ Contract!Settles(final)
           /\ [s \in Steps |-> disk.steps[s].state]' = final
<1>1. pc \in PhaseSave
  BY DEF PhaseSave
<1>2. /\ disk.phase = "forward" /\ Asked("pending") = {} /\ Pending(results) = {}
      /\ InState(results, "rejected") = Asked("rejected")
      /\ InState(results, "failed") \subseteq begun
      /\ Asked("rejected") = {} => InState(results, "blocked") \cap begun = {}
      /\ Succeeded(results) # Steps => Broken(results) # {}
  BY DEF Accounted, OutcomeSound
<1>3. Succeeded(results) = Succeeded(disk.steps) /\ disk'.steps = results
  BY <1>1, SagaSaved
<1>4. \A s \in Steps : results[s].state \in {"succeeded", "failed", "blocked", "rejected"}
  BY <1>2 DEF TypeOK, Result, StepState, Pending, InState
<1>5. ASSUME NEW s \in Steps
      PROVE  IF disk.steps[s].state # "pending" THEN final[s] = disk.steps[s].state
             ELSE final[s] \in {"failed", "blocked", "rejected"}
  <2>1. disk.steps[s].state # "pending" => results[s] = disk.steps[s]
    BY DEF Consistent, MemoryExtendsDisk, Terminal, Pending, InState
  <2>2. disk.steps[s].state = "pending" => results[s].state # "succeeded"
    BY <1>3 DEF Succeeded, InState
  <2> QED BY <1>4, <2>1, <2>2
<1>6. ASSUME NEW s \in Steps, final[s] = "failed" PROVE s \in begun /\ Contract!Enabled(s)
  <2>1. s \in begun
    BY <1>2, <1>6 DEF InState
  <2>2. Met(s)
    BY <2>1 DEF Accounted, RecordSound
  <2>3. disk.steps[s].state = "pending"
    <3>1. s \notin Succeeded(disk.steps)
      BY <1>3, <1>6 DEF Succeeded, InState
    <3> QED BY <3>1, ContractView DEF Pending, InState
  <2> QED BY <2>1, <2>2, <2>3, ContractView DEF Contract!Enabled, Met, Pending, Succeeded, InState
<1>7. \A s \in Steps : final[s] = "rejected" <=> disk.approvals[s].status = "rejected"
  BY <1>2 DEF InState, Asked, Status
<1>8. \A s \in Steps : final[s] = "blocked" /\ Asked("rejected") = {} => s \notin begun
  BY <1>2 DEF InState
<1>9. Contract!In("succeeded") # Steps => \E s \in Steps : final[s] \in {"failed", "rejected"}
  <2>1. Contract!In("succeeded") = Succeeded(results)
    BY <1>3, ContractView DEF Succeeded
  <2> QED BY <1>2, <2>1 DEF Broken, InState
<1>10. Contract!Settles(final)
  BY <1>2, <1>5, <1>6, <1>7, <1>8, <1>9, ContractView DEF Contract!Settles
<1> QED BY <1>3, <1>4, <1>10

\* The saga begins where the contract turns.
LEMMA TurnIsKept ==
    ASSUME TypeOK, Consistent, Accounted, SavePhase
    PROVE  Contract!Turn
<1> DEFINE final == [s \in Steps |-> results[s].state]
<1>1. /\ pc = "compensatingSave" /\ pc \in PhaseSave /\ Save /\ UNCHANGED <<begun, undoBegun>>
  BY DEF SavePhase, PhaseSave
<1>2. /\ phase = "compensating" /\ Goes /\ disk.comps = {} /\ comps = {}
      /\ Succeeded(results) # Steps /\ Eligible(results) # {}
  <2>1. phase = "compensating" /\ Goes /\ disk.comps = {}
    BY <1>1 DEF Consistent, PhasesAgree, DiskSound, Goes
  <2>2. Succeeded(results) # Steps /\ Eligible(results) # {}
    BY <1>1 DEF Accounted, UndoSound
  <2>3. comps = {}
    BY <1>1 DEF Accounted, UndoSound
  <2> QED BY <2>1, <2>2, <2>3
<1>3. /\ disk'.phase = "compensating" /\ disk'.approvals = disk.approvals /\ disk'.comps = disk.comps
      /\ Succeeded(results) = Succeeded(disk.steps)
  BY <1>1, <1>2, SagaSaved
<1>4. Contract!Owed # {} /\ Contract!In("succeeded") # Steps
  BY <1>2, <1>3, ContractView DEF Eligible, Succeeded
<1>5. /\ final \in [Steps -> {"succeeded", "failed", "blocked", "rejected"}]
      /\ Contract!Settles(final)
      /\ [s \in Steps |-> disk.steps[s].state]' = final
  BY <1>1, <1>2, SettlesIsKept
<1> HIDE DEF final
<1> QED BY <1>1, <1>3, <1>4, <1>5 DEF Contract!Turn

\* A saved wave records compensations that were owed and began.
LEMMA RecordUndoneIsKept ==
    ASSUME TypeOK, Consistent, Accounted, SaveWave
    PROVE  \E set \in SUBSET Steps : Contract!RecordUndone(set)
<1> DEFINE set == comps \ disk.comps
<1>1. /\ pc = "compSave" /\ pc \in PhaseSave /\ Save /\ UNCHANGED <<begun, undoBegun>>
  BY DEF SaveWave, PhaseSave
<1>2. phase = "compensating" /\ disk.phase = "compensating" /\ ~ Goes
  BY <1>1 DEF Consistent, PhasesAgree, UndoPC, Goes
<1>3. /\ disk'.phase = "compensating" /\ disk'.approvals = disk.approvals
      /\ disk'.steps = disk.steps /\ disk'.comps = comps /\ results = disk.steps
  BY <1>1, <1>2, SagaSaved
<1>4. /\ disk.comps \subseteq comps /\ comps \subseteq Eligible(disk.steps)
      /\ comps \subseteq disk.comps \cup undoBegun
  BY <1>1, <1>3 DEF Consistent, MemoryExtendsDisk, CompensationsSound, Accounted, UndoSound
<1>5. set \subseteq Contract!Owed \cap undoBegun /\ disk'.comps = disk.comps \cup set
  BY <1>3, <1>4, ContractView
<1>6. set \in SUBSET Steps
  BY DEF TypeOK
<1> HIDE DEF set
<1>7. Contract!RecordUndone(set)
  BY <1>1, <1>2, <1>3, <1>5 DEF Contract!RecordUndone
<1> QED BY <1>6, <1>7 DEF Contract!RecordUndone

\* The saved completion ends a run that owes nothing.
LEMMA FinishIsKept ==
    ASSUME TypeOK, Consistent, Accounted, SaveComplete
    PROVE  Contract!Finish \/ Contract!FinishUndo
<1> DEFINE final == [s \in Steps |-> results[s].state]
<1>1. /\ pc = "completeSave" /\ pc \in PhaseSave /\ Save /\ UNCHANGED <<begun, undoBegun>>
      /\ phase = "complete"
  BY DEF SaveComplete, PhaseSave, Consistent, PhasesAgree
<1>2. /\ disk'.phase = "complete" /\ disk'.approvals = disk.approvals /\ disk'.comps = comps
      /\ disk'.steps = results
      /\ Succeeded(results) = Succeeded(disk.steps)
      /\ ~ Goes => results = disk.steps
  BY <1>1, SagaSaved
<1>3. CASE Goes
  <2>1. /\ comps = {} /\ disk.comps = {}
        /\ Succeeded(results) # Steps => Eligible(results) = {}
    BY <1>1, <1>3 DEF Accounted, UndoSound, Consistent, DiskSound, Goes
  <2>2. Contract!Owed = {} \/ Contract!In("succeeded") = Steps
    BY <1>2, <2>1, ContractView DEF Eligible, Succeeded
  <2>3. /\ final \in [Steps -> {"succeeded", "failed", "blocked", "rejected"}]
        /\ Contract!Settles(final)
        /\ [s \in Steps |-> disk.steps[s].state]' = final
    BY <1>1, <1>3, SettlesIsKept
  <2> HIDE DEF final
  <2> QED BY <1>1, <1>2, <2>1, <2>2, <2>3 DEF Contract!Finish
<1>4. CASE ~ Goes
  <2>1. disk.phase = "compensating"
    BY <1>1, <1>4 DEF Goes, Consistent, PhasesAgree, TypeOK, Checkpoint, Phase
  <2>2. comps = Eligible(results) /\ comps = disk.comps
    BY <1>1, <1>4 DEF Accounted, UndoSound
  <2>3. Contract!Owed = {}
    BY <1>2, <1>4, <2>2, ContractView
  <2> QED BY <1>1, <1>2, <1>4, <2>1, <2>2, <2>3 DEF Contract!FinishUndo
<1> QED BY <1>3, <1>4

\* Every step of an invocation is a step of the contract or no step of it.
LEMMA ContractNext ==
    TypeOK /\ Consistent /\ Accounted /\ [Next]_vars => [Contract!Next]_(Contract!vars)
<1> SUFFICES ASSUME TypeOK, Consistent, Accounted, [Next]_vars
             PROVE  Contract!Next \/ UNCHANGED Contract!vars
  OBVIOUS
<1>1. ASSUME NEW s \in Steps, StartHandler(s) PROVE Contract!Next
  <2>1. Contract!Begin(s)
    BY <1>1, BeginIsKept
  <2> QED BY <2>1 DEF Contract!Next, Contract!Begin
<1>2. ASSUME NEW s \in Steps, StartCompensator(s) PROVE Contract!Next
  BY <1>2, BeginUndoIsKept DEF Contract!Next, Contract!BeginUndo
<1>3. CASE SaveDecisions
  BY <1>3, DecideIsKept DEF Contract!Next, Contract!Decide
<1>4. CASE SaveCancellation
  BY <1>4, WithdrawIsKept DEF Contract!Next
<1>5. CASE SaveRequests
  BY <1>5, AskIsKept DEF Contract!Next, Contract!Ask
<1>6. CASE SaveBatch
  BY <1>6, RecordIsKept DEF Contract!Next, Contract!Record
<1>7. CASE SavePhase
  BY <1>7, TurnIsKept DEF Contract!Next
<1>8. CASE SaveWave
  BY <1>8, RecordUndoneIsKept DEF Contract!Next, Contract!RecordUndone
<1>9. CASE SaveComplete
  BY <1>9, FinishIsKept DEF Contract!Next
<1>10. CASE Invoke \/ Abort \/ Forward \/ Outcome
  <2>1. UNCHANGED <<disk, begun, undoBegun>>
    BY <1>10 DEF Invoke, StartFresh, Refuse, Resume, Abort, Forward, LoopEnds, Stall, Deny,
                 RequestApprovals, StayPaused, StartBatch, Outcome, BeginCompensating,
                 ContinueCompensating, Seal, ReportOutcome, StartWave, WavesDone
  <2> QED BY <2>1, ContractStutter
<1>11. CASE GatherBatch \/ GatherWave \/ UNCHANGED vars
  <2>1. UNCHANGED <<disk, begun, undoBegun>>
    BY <1>11 DEF GatherBatch, GatherWave, vars
  <2> QED BY <2>1, ContractStutter
<1>12. ASSUME NEW s \in Steps, FinishHandler(s) \/ FinishCompensator(s)
       PROVE  UNCHANGED Contract!vars
  <2>1. UNCHANGED <<disk, begun, undoBegun>>
    BY <1>12 DEF FinishHandler, FinishCompensator, FinishTask
  <2> QED BY <2>1, ContractStutter
<1>13. CASE Tasks
  BY <1>1, <1>2, <1>11, <1>12, <1>13 DEF Tasks
<1>14. CASE Saves
  BY <1>3, <1>4, <1>5, <1>6, <1>7, <1>8, <1>9, <1>14 DEF Saves
<1> QED BY <1>10, <1>11, <1>13, <1>14 DEF Next, Run

\* Every history of invocations of run(), with its crashes, cancellations and
\* resumes, is a run of the contract: for every workflow, what is durable and
\* every handler and compensator that begins is what DurableSaga allows then.
THEOREM ContractAlwaysKept == Spec => ImplementsContract
<1>1. Init => Contract!Init
  BY ContractInit
<1>2. TypeOK /\ Consistent /\ Accounted /\ [Next]_vars => [Contract!Next]_(Contract!vars)
  BY ContractNext
<1> QED BY <1>1, <1>2, TypeCorrect, ConsistentAlways, AccountedAlways, PTL
        DEF Spec, ImplementsContract, Contract!Spec
-----------------------------------------------------------------------------
(* No loop of the runner stalls *)

\* A set of steps that holds the dependencies of each of its steps.
Closed(set) == \A u \in set : Deps[u] \subseteq set

\* A step needs what its dependencies need.
LEMMA PrecedesThrough ==
    ASSUME NEW s, NEW t \in Steps, NEW d \in Deps[t], Precedes(s, d)
    PROVE  Precedes(s, t)
BY DEF Precedes

\* Of two dependent steps the later one is outside a closed set of the earlier.
LEMMA ClosedBelow ==
    ASSUME NEW s \in Steps
    PROVE  \E below \in SUBSET Steps : Closed(below) /\ Deps[s] \subseteq below /\ s \notin below
BY WorkflowAssumption DEF Precedes, Closed

LEMMA ClosedAbove ==
    ASSUME NEW s \in Steps
    PROVE  \E below \in SUBSET Steps :
             Closed(below) /\ s \in below /\ \A t \in Steps : s \in Deps[t] => t \notin below
<1> DEFINE below == {t \in Steps : ~ Precedes(s, t)}
<1>1. \A u \in below : Deps[u] \subseteq below
  BY PrecedesThrough, WorkflowAssumption
<1>2. s \in below
  BY WorkflowAssumption
<1>3. ASSUME NEW t \in Steps, s \in Deps[t] PROVE t \notin below
  BY <1>3 DEF Precedes
<1> QED BY <1>1, <1>2, <1>3 DEF Closed

\* A family of sets of steps that is not empty has a least and a greatest one.
LEMMA LeastOf ==
    ASSUME NEW family \in SUBSET (SUBSET Steps), family # {}
    PROVE  \E least \in family : \A other \in family : other \subseteq least => other = least
<1>0. IsFiniteSet(Steps)
  BY WorkflowAssumption
<1>1. IsWellFoundedOn(StrictSubsetOrdering(Steps), SUBSET Steps)
  BY <1>0, FS_StrictSubsetOrderingWellFounded, FS_FiniteSubsetsOfFinite
<1>2. PICK least \in family : \A other \in family : <<other, least>> \notin StrictSubsetOrdering(Steps)
  BY <1>1, WFMin
<1> QED BY <1>2 DEF StrictSubsetOrdering

LEMMA GreatestOf ==
    ASSUME NEW family \in SUBSET (SUBSET Steps), family # {}
    PROVE  \E greatest \in family : \A other \in family : greatest \subseteq other => other = greatest
<1> DEFINE rest == {Steps \ one : one \in family}
<1>0. rest \in SUBSET (SUBSET Steps) /\ rest # {}
  <2>1. \A one \in family : Steps \ one \in rest /\ Steps \ one \in SUBSET Steps
    OBVIOUS
  <2>2. \A other \in rest : other \in SUBSET Steps
    BY <2>1
  <2> HIDE DEF rest
  <2>3. PICK one \in family : TRUE
    OBVIOUS
  <2> QED BY <2>1, <2>2, <2>3
<1> HIDE DEF rest
<1>1. PICK least \in rest : \A other \in rest : other \subseteq least => other = least
  BY <1>0, LeastOf
<1>2. PICK greatest \in family : least = Steps \ greatest
  BY DEF rest
<1>3. ASSUME NEW other \in family, greatest \subseteq other PROVE other = greatest
  <2>1. Steps \ other \in rest /\ Steps \ other \subseteq least
    BY <1>2, <1>3 DEF rest
  <2>2. Steps \ other = Steps \ greatest
    BY <1>1, <1>2, <2>1
  <2>3. other \subseteq Steps /\ greatest \subseteq Steps
    OBVIOUS
  <2> QED BY <2>2, <2>3
<1> QED BY <1>3

\* Of any steps, one needs none of the others directly, and one is not needed by
\* any of the others.
LEMMA FirstOfSteps ==
    ASSUME NEW set \in SUBSET Steps, set # {}
    PROVE  \E s \in set : Deps[s] \cap set = {}
<1> DEFINE family == {U \in SUBSET Steps : Closed(U) /\ U \cap set # {}}
<1>1. family \in SUBSET (SUBSET Steps) /\ Steps \in family
  BY WorkflowAssumption DEF Closed
<1>2. PICK U \in family : \A other \in family : other \subseteq U => other = U
  <2> HIDE DEF family
  <2> QED BY <1>1, LeastOf
<1>3. PICK s \in U \cap set : TRUE
  OBVIOUS
<1>4. PICK below \in SUBSET Steps : Closed(below) /\ Deps[s] \subseteq below /\ s \notin below
  BY ClosedBelow
<1>5. Closed(U \cap below) /\ Deps[s] \subseteq U \cap below
  BY <1>3, <1>4 DEF Closed
<1>6. U \cap below \notin family
  BY <1>2, <1>3, <1>4
<1> QED BY <1>3, <1>5, <1>6

LEMMA LastOfSteps ==
    ASSUME NEW set \in SUBSET Steps, set # {}
    PROVE  \E s \in set : Dependents(s) \cap set = {}
<1> DEFINE family == {U \in SUBSET Steps : Closed(U) /\ ~ (set \subseteq U)}
<1>1. family \in SUBSET (SUBSET Steps) /\ {} \in family
  BY DEF Closed
<1>2. PICK U \in family : \A other \in family : U \subseteq other => other = U
  <2> HIDE DEF family
  <2> QED BY <1>1, GreatestOf
<1>3. PICK s \in set : s \notin U
  OBVIOUS
<1>4. PICK below \in SUBSET Steps :
        Closed(below) /\ s \in below /\ \A t \in Steps : s \in Deps[t] => t \notin below
  BY ClosedAbove
<1>5. Closed(U \cup below) /\ U \cup below \in SUBSET Steps
  BY <1>4 DEF Closed
<1>6. U \cup below \notin family
  BY <1>2, <1>3, <1>4
<1>7. set \subseteq U \cup below
  BY <1>5, <1>6
<1>8. ASSUME NEW t \in set, s \in Deps[t] PROVE t \in U /\ t \notin below
  BY <1>4, <1>7, <1>8
<1>9. ASSUME NEW t \in set, s \in Deps[t] PROVE FALSE
  BY <1>3, <1>8, <1>9 DEF Closed
<1> QED BY <1>9 DEF Dependents

\* The compensation loop always has a wave to run or nothing left to undo:
\* "Compensation graph unexpectedly stalled." is never raised.
THEOREM CompensationNeverStalls == Spec => [](pc = "compensate" => Wave # {} \/ Remaining = {})
<1>1. Remaining \in SUBSET Steps
  BY DEF Remaining, Eligible, Succeeded, InState
<1>2. Wave # {} \/ Remaining = {}
  BY <1>1, LastOfSteps DEF Wave
<1> QED BY <1>2, PTL

\* With fail_fast a live forward loop holds successes only: the batch that brings
\* a failure ends it.
FailsFast ==
    /\ pc \in {"forward", "batch", "decisionSave"} => Terminal(results) = Succeeded(results)
    /\ pc = "batchSave" => BatchFailed \/ Terminal(results) = Succeeded(results)

\* A pass that finds successes only marks nothing.
LEMMA NothingMarked ==
    ASSUME TypeOK, Terminal(results) = Succeeded(results)
    PROVE  Marked(results) = results
<1>1. BlockedByDependency(results) = {}
  <2> SUFFICES ASSUME NEW s \in Steps, NEW d \in Deps[s], d \notin Pending(results), d \notin Succeeded(results)
               PROVE  FALSE
    BY DEF BlockedByDependency, Pending, InState
  <2>1. d \in Steps
    BY WorkflowAssumption
  <2> QED BY <2>1 DEF Terminal
<1>2. results = [s \in Steps |-> results[s]]
  BY DEF TypeOK
<1> QED BY <1>1, <1>2 DEF Marked, Block

\* What a batch brings is a success or makes the batch a failed one.
LEMMA GatherFailsFast ==
    ASSUME TypeOK, Accounted, FailsFast, GatherBatch
    PROVE  FailsFast'
<1>1. /\ pc = "batch" /\ pc' = "batchSave" /\ batch' = batch
      /\ results' = [s \in Steps |-> IF task[s] = "done" THEN batch[s] ELSE results[s]]
  BY DEF GatherBatch
<1>2. SUFFICES ASSUME InState(batch, "failed") = {} PROVE Terminal(results') = Succeeded(results')
  BY <1>1 DEF FailsFast, BatchFailed
<1>3. ASSUME NEW s \in Steps PROVE results'[s].state \in {"pending", "succeeded"}
  <2>1. CASE task[s] = "done"
    <3>1. batch[s].state \in {"failed", "succeeded"} /\ batch[s].state # "failed"
      BY <1>1, <1>2, <2>1 DEF Accounted, BatchSound, InState
    <3> QED BY <1>1, <2>1, <3>1
  <2>2. CASE task[s] # "done"
    BY <1>1, <2>2 DEF FailsFast, Terminal, Succeeded, Pending, InState
  <2> QED BY <2>1, <2>2
<1> QED BY <1>3 DEF Terminal, Succeeded, Pending, InState

LEMMA FailsFastStep ==
    ASSUME FailFast, TypeOK, Consistent, Accounted, FailsFast, [Next]_vars
    PROVE  FailsFast'
<1>1. CASE UNCHANGED <<pc, results, batch>> \/ pc' \notin {"forward", "batch", "decisionSave", "batchSave"}
  BY <1>1 DEF FailsFast, BatchFailed
<1>2. CASE StartFresh
  <2>1. pc' = "forward" /\ results' = NoResults
    BY <1>2 DEF StartFresh, memory, Consistent, PhasesAgree
  <2> QED BY <2>1, BlankMemory DEF FailsFast
<1>3. ASSUME NEW yes \in SUBSET Gated, NEW no \in SUBSET Gated, Resume(yes, no) PROVE FailsFast'
  <2>1. /\ results' = disk.steps /\ pc' \in {"forward", "finish", "decisionSave"}
        /\ pc' # "finish" => disk.phase = "forward"
    BY <1>3 DEF Resume, RestoredResults, FirstStop, AfterRestore
  <2> QED BY <2>1 DEF FailsFast, Consistent, DiskSound
<1>4. CASE StartBatch
  <2>1. pc' = "batch" /\ results' = results /\ Terminal(results) = Succeeded(results)
    BY <1>4, NothingMarked DEF StartBatch, FailsFast
  <2> QED BY <2>1 DEF FailsFast
<1>5. CASE SaveDecisions
  BY <1>5 DEF SaveDecisions, AfterRestore, memory, FailsFast
<1>6. CASE SaveBatch
  BY <1>6 DEF SaveBatch, FailsFast
<1>7. CASE GatherBatch
  BY <1>7, GatherFailsFast
<1>8. ASSUME NEW s \in Steps,
             StartHandler(s) \/ FinishHandler(s) \/ StartCompensator(s) \/ FinishCompensator(s)
      PROVE  FailsFast'
  <2>1. UNCHANGED <<pc, results>> /\ pc \in {"batch", "compBatch"}
    BY <1>8 DEF StartHandler, FinishHandler, StartCompensator, FinishCompensator, FinishTask, memory
  <2> QED BY <2>1 DEF FailsFast
<1>9. CASE Forward
  <2>1. CASE LoopEnds \/ Stall \/ Deny \/ RequestApprovals \/ StayPaused
    BY <1>1, <2>1 DEF LoopEnds, Stall, Deny, RequestApprovals, StayPaused, EndInvocation
  <2> QED BY <1>4, <1>9, <2>1 DEF Forward
<1>10. CASE Saves
  <2>1. CASE SaveCancellation \/ SaveRequests \/ SavePhase \/ SaveWave \/ SaveComplete
    BY <1>1, <2>1 DEF SaveCancellation, SaveRequests, SavePhase, SaveWave, SaveComplete, EndInvocation
  <2> QED BY <1>5, <1>6, <1>10, <2>1 DEF Saves
<1>11. CASE Outcome
  BY <1>1, <1>11 DEF Outcome, BeginCompensating, ContinueCompensating, Seal, ReportOutcome, StartWave,
                     WavesDone, EndInvocation
<1>12. CASE Tasks
  BY <1>1, <1>7, <1>8, <1>12 DEF Tasks, GatherWave
<1>13. CASE Invoke \/ Abort \/ UNCHANGED vars
  BY <1>1, <1>2, <1>3, <1>13 DEF Invoke, Refuse, Abort, EndInvocation, vars, memory, work
<1> QED BY <1>9, <1>10, <1>11, <1>12, <1>13 DEF Next, Run

\* With fail_fast the forward loop always has a step to run or nothing left to do:
\* "Workflow stalled despite successful validation." is never raised.
THEOREM FailFastNeverStalls == ASSUME FailFast PROVE Spec => []NeverStalls
<1>1. Init => FailsFast
  BY DEF Init, FailsFast
<1>2. TypeOK /\ Consistent /\ Accounted /\ FailsFast /\ [Next]_vars => FailsFast'
  BY FailsFastStep
<1>3. TypeOK /\ FailsFast => NeverStalls
  <2> SUFFICES ASSUME TypeOK, FailsFast, pc = "forward", Pending(results) # {}
               PROVE  Ready(results) # {}
    BY NothingMarked DEF NeverStalls, FailsFast
  <2>1. PICK s \in Pending(results) : Deps[s] \cap Pending(results) = {}
    BY FirstOfSteps DEF Pending, InState
  <2>2. Deps[s] \subseteq Succeeded(results)
    BY <2>1, WorkflowAssumption DEF FailsFast, Terminal, Pending, InState
  <2> QED BY <2>1, <2>2 DEF Ready
<1> QED BY <1>1, <1>2, <1>3, TypeCorrect, ConsistentAlways, AccountedAlways, PTL DEF Spec

\* Before version 3, without sagas, _restore_checkpoint accepts every checkpoint an
\* invocation leaves behind.
THEOREM EveryCheckpointResumesBeforeSagas == ASSUME Version < 3 PROVE Spec => []EveryCheckpointResumes
<1>1. Consistent /\ ResumesOutsideGaps => EveryCheckpointResumes
  BY DEF Consistent, PhasesAgree, ResumesOutsideGaps, RejectedSaga, UnsealedSaga, EveryCheckpointResumes
<1> QED BY <1>1, ConsistentAlways, ResumesAlwaysOutsideGaps, PTL
=============================================================================
