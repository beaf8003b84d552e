-------------------------- MODULE StoreConcurrencyProofs --------------------------
(***************************************************************************)
(* Proofs about StoreConcurrency, for every workflow of version 1 or 2, any*)
(* number of writers and any number of abandoned saves, with the SQLite    *)
(* store, or with the JSON store and an application that waits until       *)
(* abandoned saves are over.                                               *)
(***************************************************************************)
EXTENDS StoreConcurrency, TLAPS

\* What the store asks of its user, or does itself.
Coordinated == Patient \/ "json" \notin Stores

-----------------------------------------------------------------------------
(* The inductive invariant *)

\* With JSON only one save or one invocation goes on at a time.
OneAtATime ==
    store = "json" =>
        /\ \A u, v \in Writers : at[u] # "idle" /\ at[v] # "idle" => u = v
        /\ \A w \in Writers : at[w] \in {"forward", "batch"} => jobs = {}
        /\ \A one, other \in jobs : one = other

\* An invocation awaits one save at a time, and does nothing else then.
AwaitedSound ==
    /\ \A job \in jobs : job.awaited => at[job.owner] = "saving"
    /\ \A one, other \in jobs : one.awaited /\ other.awaited /\ one.owner = other.owner => one = other

\* Only the JSON store compares first, and what was compared may still be written.
ComparedIsCurrent == \A job \in jobs : job.checked => store = "json" /\ Accepts(job)

DiskIsForward == disk = NoCheckpoint \/ disk.phase = "forward"

\* Handlers run in a batch, of its steps, and its gates are approved.
BatchSound ==
    \A w \in Writers :
      /\ at[w] = "batch" => Ready(memory[w]) \cap Gated \subseteq Asked(memory[w], "approved")
      /\ running[w] \subseteq (IF at[w] = "batch" THEN Ready(memory[w]) ELSE {})

Inv ==
    /\ TypeOK /\ OneAtATime /\ AwaitedSound /\ ComparedIsCurrent /\ DiskIsForward /\ BatchSound
    /\ ViewIsDurable /\ OneDecisionCounts

-----------------------------------------------------------------------------
(* Records *)

LEMMA CheckpointTypes ==
    /\ NoCheckpoint \in Checkpoint
    /\ [NoCheckpoint EXCEPT !.phase = "forward"] \in Checkpoint
    /\ \A o \in Outputs : Success(o) \in Result
<1>1. \A o \in Outputs : Success(o) \in Result
  BY DEF Success, Result, StepState
<1>2. NoApprovals \in [Steps -> Approval]
  BY DEF NoApprovals, NoApproval, Approval, ApprovalStatus, Context
<1>3. NoResults \in [Steps -> Result]
  BY DEF NoResults, NotRun, TerminalWithoutRun, Result, StepState
<1>4. NoCheckpoint \in Checkpoint /\ [NoCheckpoint EXCEPT !.phase = "forward"] \in Checkpoint
  BY <1>2, <1>3 DEF NoCheckpoint, Checkpoint, Phase
<1> QED BY <1>1, <1>4

\* A checkpoint with other approvals, or with other results.
LEMMA CheckpointExcept ==
    ASSUME NEW ck \in Checkpoint
    PROVE  /\ \A apps \in [Steps -> Approval] : [ck EXCEPT !.approvals = apps] \in Checkpoint
           /\ \A res \in [Steps -> Result] : [ck EXCEPT !.steps = res] \in Checkpoint
           /\ ck.approvals \in [Steps -> Approval] /\ ck.steps \in [Steps -> Result]
BY DEF Checkpoint

LEMMA WithType ==
    ASSUME NEW ck \in Checkpoint, NEW set, NEW status \in ApprovalStatus
    PROVE  With(ck, set, status) \in Checkpoint
<1> DEFINE apps == [s \in Steps |-> IF s \in set THEN [ck.approvals[s] EXCEPT !.status = status]
                                                 ELSE ck.approvals[s]]
<1>1. \A s \in Steps : ck.approvals[s] \in Approval
  BY CheckpointExcept
<1>2. \A s \in Steps : [ck.approvals[s] EXCEPT !.status = status] \in Approval
  BY <1>1 DEF Approval
<1>3. apps \in [Steps -> Approval]
  BY <1>1, <1>2
<1> QED BY <1>3, CheckpointExcept DEF With

LEMMA RequestsType ==
    ASSUME NEW ck \in Checkpoint, NEW set
    PROVE  [ck EXCEPT !.approvals = [s \in Steps |-> IF s \in set THEN Request(s, ck.steps) ELSE @[s]]]
             \in Checkpoint
<1>1. \A s \in Steps : ck.approvals[s] \in Approval /\ ck.steps[s] \in Result
  BY CheckpointExcept
<1>2. \A s \in Steps : Request(s, ck.steps) \in Approval
  BY <1>1 DEF Request, ContextOf, Approval, ApprovalStatus, Context, Result
<1> DEFINE apps == [s \in Steps |-> IF s \in set THEN Request(s, ck.steps) ELSE ck.approvals[s]]
<1>3. apps \in [Steps -> Approval]
  BY <1>1, <1>2
<1> QED BY <1>3, CheckpointExcept

\* Monotonic keeps everything a checkpoint says.
LEMMA MonotonicIsWithin ==
    ASSUME NEW older, NEW newer, Monotonic(older, newer)
    PROVE  Within(older, newer)
BY DEF Monotonic, Within, Asked

LEMMA WithinTransitive ==
    ASSUME NEW a \in Checkpoint, NEW b \in Checkpoint, NEW c \in Checkpoint,
           Within(a, b), Within(b, c)
    PROVE  Within(a, c)
<1>1. \A s \in Terminal(a.steps) : s \in Terminal(b.steps) /\ b.steps[s] = a.steps[s]
  BY DEF Within, Terminal, Pending, InState
<1>2. \A s \in Terminal(a.steps) : c.steps[s] = a.steps[s]
  BY <1>1 DEF Within
<1>3. ASSUME NEW s \in Steps \ Asked(a, "none")
      PROVE  /\ c.approvals[s].status # "none"
             /\ c.approvals[s].context = a.approvals[s].context
             /\ s \notin Asked(a, "pending") => c.approvals[s] = a.approvals[s]
  <2>1. /\ b.approvals[s].status # "none" /\ s \in Steps \ Asked(b, "none")
        /\ b.approvals[s].context = a.approvals[s].context
        /\ s \notin Asked(a, "pending") => b.approvals[s] = a.approvals[s] /\ s \notin Asked(b, "pending")
    BY DEF Within, Asked
  <2> QED BY <2>1 DEF Within
<1> QED BY <1>2, <1>3 DEF Within

\* Nothing is said yet by the checkpoint there is not, or that of a fresh start.
LEMMA BlankWithin ==
    ASSUME NEW ck
    PROVE  Within(NoCheckpoint, ck) /\ Within([NoCheckpoint EXCEPT !.phase = "forward"], ck)
BY DEF Within, NoCheckpoint, Terminal, Pending, InState, NoResults, NotRun, TerminalWithoutRun,
       Asked, NoApprovals, NoApproval

-----------------------------------------------------------------------------
(* Invocations keep the invariant *)

\* Of the other invocations nothing changes, and this one's batch is sound.
LEMMA BatchFrame ==
    ASSUME BatchSound, NEW w \in Writers, running'[w] = {},
           at'[w] = "batch" => Ready(memory'[w]) \cap Gated \subseteq Asked(memory'[w], "approved"),
           \A u \in Writers : u # w => at'[u] = at[u] /\ memory'[u] = memory[u] /\ running'[u] = running[u]
    PROVE  BatchSound'
<1> SUFFICES ASSUME NEW u \in Writers
             PROVE  /\ at'[u] = "batch" => Ready(memory'[u]) \cap Gated \subseteq Asked(memory'[u], "approved")
                    /\ running'[u] \subseteq (IF at'[u] = "batch" THEN Ready(memory'[u]) ELSE {})
  BY DEF BatchSound, Ready, Asked, Pending, Succeeded, InState
<1> QED BY DEF BatchSound

\* An invocation goes on from a checkpoint that is within the stored one, or ends.
LEMMA GoKeeps ==
    ASSUME Inv, NEW w \in Writers, NEW place \in {"idle", "forward", "batch"}, NEW ck \in Checkpoint,
           Go(w, place, ck), UNCHANGED <<store, disk, begun>>,
           at[w] # "saving",
           at[w] # "idle" \/ (store = "json" => \A u \in Writers : at[u] = "idle"),
           place = "idle" \/ (Within(ck, disk) /\ (store = "json" => jobs = {})),
           place = "batch" => Ready(ck) \cap Gated \subseteq Asked(ck, "approved")
    PROVE  Inv'
<1>1. /\ at' = [at EXCEPT ![w] = place] /\ memory' = [memory EXCEPT ![w] = ck]
      /\ running' = [running EXCEPT ![w] = {}]
      /\ UNCHANGED <<store, disk, then, jobs>>
  BY DEF Go
<1>2. TypeOK'
  BY <1>1 DEF Inv, TypeOK, Place
<1>3. \A u \in Writers : u # w => at'[u] = at[u] /\ memory'[u] = memory[u] /\ running'[u] = running[u]
  BY <1>1 DEF Inv, TypeOK
<1>4. at'[w] = place /\ memory'[w] = ck /\ running'[w] = {}
  BY <1>1 DEF Inv, TypeOK
<1>5. OneAtATime'
  <2> SUFFICES ASSUME store = "json"
               PROVE  /\ \A u, v \in Writers : at'[u] # "idle" /\ at'[v] # "idle" => u = v
                      /\ \A u \in Writers : at'[u] \in {"forward", "batch"} => jobs = {}
                      /\ \A one, other \in jobs : one = other
    BY <1>1 DEF OneAtATime
  <2>1. \A u \in Writers : u # w => at[u] = "idle" \/ at[w] = "idle"
    BY DEF Inv, OneAtATime
  <2>2. \A u, v \in Writers : at'[u] # "idle" /\ at'[v] # "idle" => u = v
    BY <1>3, <1>4, <2>1 DEF Inv, OneAtATime
  <2>3. \A u \in Writers : at'[u] \in {"forward", "batch"} => jobs = {}
    BY <1>3, <1>4 DEF Inv, OneAtATime
  <2> QED BY <2>2, <2>3 DEF Inv, OneAtATime
<1>9. AwaitedSound'
  <2>1. \A job \in jobs : job.owner \in Writers /\ (job.awaited => job.owner # w)
    BY DEF Inv, AwaitedSound, TypeOK, Job
  <2> QED BY <1>1, <1>3, <2>1 DEF Inv, AwaitedSound
<1>6. ComparedIsCurrent' /\ DiskIsForward'
  BY <1>1 DEF Inv, ComparedIsCurrent, Accepts, DiskIsForward
<1>7. ViewIsDurable'
  BY <1>1, <1>3, <1>4 DEF Inv, ViewIsDurable
<1>8. OneDecisionCounts' /\ BatchSound'
  BY <1>1, <1>3, <1>4, BatchFrame DEF Inv, OneDecisionCounts
<1> QED BY <1>2, <1>5, <1>6, <1>7, <1>8, <1>9 DEF Inv

\* An invocation offers a checkpoint to the store.
LEMMA OfferKeeps ==
    ASSUME Inv, NEW w \in Writers, NEW ck \in Checkpoint,
           NEW next \in {"idle", "forward"}, Offer(w, ck, next), UNCHANGED <<store, disk, begun>>,
           memory' \in [Writers -> Checkpoint], \A u \in Writers \ {w} : memory'[u] = memory[u],
           at[w] # "saving",
           \/ at[w] \in {"forward", "batch"}
           \/ store = "json" => jobs = {} /\ \A u \in Writers : at[u] = "idle"
    PROVE  Inv'
<1> DEFINE job == [owner |-> w, checkpoint |-> ck, checked |-> FALSE, awaited |-> TRUE]
<1>1. /\ at' = [at EXCEPT ![w] = "saving"] /\ then' = [then EXCEPT ![w] = next]
      /\ running' = [running EXCEPT ![w] = {}] /\ jobs' = jobs \cup {job}
      /\ UNCHANGED <<store, disk, begun>>
  BY DEF Offer
<1>2. job \in Job /\ job.owner = w /\ ~ job.checked
  BY DEF Job
<1> HIDE DEF job
<1>3. TypeOK'
  BY <1>1, <1>2 DEF Inv, TypeOK, Place
<1>4. /\ at'[w] = "saving" /\ \A u \in Writers : u # w => at'[u] = at[u] /\ running'[u] = running[u]
      /\ running'[w] = {}
  BY <1>1 DEF Inv, TypeOK
<1>5. OneAtATime'
  <2> SUFFICES ASSUME store = "json"
               PROVE  /\ \A u, v \in Writers : at'[u] # "idle" /\ at'[v] # "idle" => u = v
                      /\ \A u \in Writers : at'[u] \in {"forward", "batch"} => jobs' = {}
                      /\ \A one, other \in jobs' : one = other
    BY <1>1 DEF OneAtATime
  <2>1. jobs = {} /\ jobs' = {job}
    BY <1>1 DEF Inv, OneAtATime
  <2>2. \A u \in Writers : u # w => at[u] = "idle"
    BY DEF Inv, OneAtATime
  <2> QED BY <2>1, <2>2, <1>4
<1>8. AwaitedSound'
  <2>1. \A old \in jobs : old.owner \in Writers /\ (old.awaited => old.owner # w)
    BY DEF Inv, AwaitedSound, TypeOK, Job
  <2> QED BY <1>1, <1>2, <1>4, <2>1 DEF Inv, AwaitedSound
<1>6. ComparedIsCurrent' /\ DiskIsForward'
  BY <1>1, <1>2 DEF Inv, ComparedIsCurrent, Accepts, DiskIsForward
<1>7. ViewIsDurable' /\ OneDecisionCounts' /\ BatchSound'
  BY <1>1, <1>4, BatchFrame DEF Inv, ViewIsDurable, OneDecisionCounts
<1> QED BY <1>3, <1>5, <1>6, <1>7, <1>8 DEF Inv

\* run() is called.
LEMMA InvokeKeeps ==
    ASSUME Coordinated, Inv, NEW w \in Writers,
           StartFresh(w) \/ \E yes, no \in SUBSET Gated : Resume(w, yes, no)
    PROVE  Inv'
<1>1. at[w] = "idle" /\ store = "json" => jobs = {} /\ \A u \in Writers : at[u] = "idle"
  BY DEF Coordinated, Inv, TypeOK, StartFresh, Resume, MayInvoke
<1>3. CASE StartFresh(w)
  <2> DEFINE ck == [NoCheckpoint EXCEPT !.phase = "forward"]
  <2>1. /\ Go(w, "forward", ck) /\ UNCHANGED <<store, disk, begun>> /\ at[w] = "idle"
        /\ ck \in Checkpoint /\ Within(ck, disk)
    BY <1>3, CheckpointTypes, BlankWithin DEF StartFresh
  <2> HIDE DEF ck
  <2> QED BY <1>1, <2>1, GoKeeps
<1>4. ASSUME NEW yes \in SUBSET Gated, NEW no \in SUBSET Gated, Resume(w, yes, no)
      PROVE  Inv'
  <2>1. UNCHANGED <<store, disk, begun>> /\ at[w] = "idle" /\ disk \in Checkpoint
    BY <1>4 DEF Resume, Inv, TypeOK
  <2>2. CASE yes \cup no = {}
    <3>1. Go(w, "forward", disk)
      BY <1>4, <2>2 DEF Resume
    <3>2. Within(disk, disk)
      BY DEF Within, Asked
    <3> QED BY <1>1, <2>1, <3>1, <3>2, GoKeeps
  <2>3. CASE yes \cup no # {}
    <3> DEFINE ck == With(With(disk, yes, "approved"), no, "rejected")
    <3>1. Offer(w, ck, "forward") /\ memory' = [memory EXCEPT ![w] = disk]
      BY <1>4, <2>3 DEF Resume, OfferDecided
    <3>2. ck \in Checkpoint
      BY <2>1, WithType DEF ApprovalStatus
    <3>3. memory' \in [Writers -> Checkpoint] /\ \A u \in Writers \ {w} : memory'[u] = memory[u]
      BY <2>1, <3>1 DEF Inv, TypeOK
    <3> HIDE DEF ck
    <3> QED BY <1>1, <2>1, <3>1, <3>2, <3>3, OfferKeeps
  <2> QED BY <2>2, <2>3
<1> QED BY <1>3, <1>4

\* A live invocation takes its next step.
LEMMA ForwardKeeps ==
    ASSUME Inv, NEW w \in Writers,
           Deny(w) \/ RequestApprovals(w) \/ StartBatch(w) \/ FinishBatch(w) \/ RunEnds(w)
    PROVE  Inv'
<1>1. at[w] \in {"forward", "batch"} /\ memory[w] \in Checkpoint /\ Within(memory[w], disk)
  BY DEF Deny, RequestApprovals, StartBatch, FinishBatch, RunEnds, Inv, TypeOK, ViewIsDurable
<1>2. store = "json" => jobs = {}
  BY <1>1 DEF Inv, OneAtATime
<1>4. memory \in [Writers -> Checkpoint] /\ NoCheckpoint \in Checkpoint
  BY CheckpointTypes DEF Inv, TypeOK
<1>5. ASSUME UNCHANGED <<store, disk, begun>>, Go(w, "idle", NoCheckpoint) PROVE Inv'
  BY <1>1, <1>4, <1>5, GoKeeps
<1>6. ASSUME UNCHANGED <<store, disk, begun, memory>>, NEW ck \in Checkpoint,
             NEW next \in {"idle", "forward"}, Offer(w, ck, next)
      PROVE  Inv'
  BY <1>1, <1>4, <1>6, OfferKeeps
<1>7. CASE Deny(w)
  <2>1. With(memory[w], Asked(memory[w], "pending"), "cancelled") \in Checkpoint
    BY <1>1, WithType DEF ApprovalStatus
  <2> QED BY <1>5, <1>6, <1>7, <2>1 DEF Deny
<1>8. CASE RequestApprovals(w)
  <2> DEFINE new == Ready(memory[w]) \cap Gated \cap Asked(memory[w], "none")
             ck  == [memory[w] EXCEPT !.approvals = [s \in Steps |->
                        IF s \in new THEN Request(s, memory[w].steps) ELSE @[s]]]
  <2>1. ck \in Checkpoint
    BY <1>1, RequestsType
  <2>2. CASE new = {}
    BY <1>5, <1>8, <2>2 DEF RequestApprovals
  <2>3. CASE new # {}
    <3>1. Offer(w, ck, "idle") /\ UNCHANGED <<store, disk, begun, memory>>
      BY <1>8, <2>3 DEF RequestApprovals
    <3> HIDE DEF ck
    <3> QED BY <1>6, <2>1, <3>1
  <2> QED BY <2>2, <2>3
<1>9. CASE StartBatch(w)
  <2>1. /\ Go(w, "batch", memory[w]) /\ UNCHANGED <<store, disk, begun>>
        /\ Ready(memory[w]) \cap Gated \subseteq Asked(memory[w], "approved")
    BY <1>9 DEF StartBatch
  <2> QED BY <1>1, <1>2, <2>1, GoKeeps
<1>10. CASE FinishBatch(w)
  <2>1. PICK outcome \in [Ready(memory[w]) -> {"failed"} \cup Outputs] :
          LET good == {s \in Ready(memory[w]) : outcome[s] # "failed"}
              ck   == [memory[w] EXCEPT !.steps =
                          [s \in Steps |-> IF s \in good THEN Success(outcome[s]) ELSE @[s]]]
          IN  /\ Offer(w, ck, IF good = Ready(memory[w]) THEN "forward" ELSE "idle")
              /\ UNCHANGED <<store, disk, memory, begun>>
    BY <1>10 DEF FinishBatch
  <2> DEFINE good == {s \in Ready(memory[w]) : outcome[s] # "failed"}
             res  == [s \in Steps |-> IF s \in good THEN Success(outcome[s]) ELSE memory[w].steps[s]]
             ck   == [memory[w] EXCEPT !.steps = res]
             next == IF good = Ready(memory[w]) THEN "forward" ELSE "idle"
  <2>2. \A s \in good : Success(outcome[s]) \in Result
    BY CheckpointTypes
  <2>3. res \in [Steps -> Result]
    BY <1>1, <2>2, CheckpointExcept
  <2>4. ck \in Checkpoint
    BY <1>1, <2>3, CheckpointExcept
  <2>5. Offer(w, ck, next) /\ UNCHANGED <<store, disk, begun, memory>> /\ next \in {"idle", "forward"}
    BY <2>1
  <2> HIDE DEF ck, next
  <2> QED BY <1>6, <2>4, <2>5
<1>11. CASE RunEnds(w)
  BY <1>5, <1>11 DEF RunEnds
<1> QED BY <1>7, <1>8, <1>9, <1>10, <1>11

\* A handler starts: what the invocation takes for approved is so in the store.
LEMMA StartKeeps ==
    ASSUME Inv, NEW w \in Writers, NEW s \in Steps, StartHandler(w, s)
    PROVE  Inv'
<1>1. /\ at[w] = "batch" /\ s \in Ready(memory[w]) /\ begun' = begun \cup {s}
      /\ running' = [running EXCEPT ![w] = @ \cup {s}]
      /\ UNCHANGED <<store, disk, at, memory, then, jobs>>
  BY DEF StartHandler
<1>2. \A u \in Writers : running'[u] = IF u = w THEN running[u] \cup {s} ELSE running[u]
  BY <1>1 DEF Inv, TypeOK
<1>3. TypeOK' /\ OneAtATime' /\ AwaitedSound' /\ ComparedIsCurrent' /\ DiskIsForward' /\ ViewIsDurable'
  BY <1>1 DEF Inv, TypeOK, OneAtATime, AwaitedSound, ComparedIsCurrent, Accepts, DiskIsForward,
              ViewIsDurable
<1>4. BatchSound'
  BY <1>1, <1>2 DEF Inv, BatchSound
<1>5. s \in Gated => disk.approvals[s].status = "approved"
  BY <1>1 DEF Inv, BatchSound, ViewIsDurable, Asked, Within
<1>6. OneDecisionCounts'
  BY <1>1, <1>5 DEF Inv, OneDecisionCounts
<1> QED BY <1>3, <1>4, <1>6 DEF Inv

-----------------------------------------------------------------------------
(* Saves keep the invariant *)

\* What the store accepts goes on from what it holds.
LEMMA AcceptedIsWithin ==
    ASSUME Inv, NEW job \in jobs, Accepts(job)
    PROVE  Within(disk, job.checkpoint) /\ job.checkpoint.phase = "forward"
<1>1. WellFormed(job.checkpoint) /\ (disk.phase # "none" => Monotonic(disk, job.checkpoint))
  BY DEF Accepts
<1>2. job.checkpoint.phase = "forward"
  BY <1>1, StoreAssumption DEF WellFormed
<1>3. CASE disk = NoCheckpoint
  BY <1>2, <1>3, BlankWithin
<1>4. CASE disk.phase = "forward"
  BY <1>1, <1>2, <1>4, MonotonicIsWithin
<1> QED BY <1>3, <1>4 DEF Inv, DiskIsForward

\* The checkpoint of a job replaces the stored one, and the save returns.
LEMMA WriteKeeps ==
    ASSUME Inv, NEW job \in jobs, Accepts(job), disk' = job.checkpoint, Done(job),
           store = "sqlite" \/ store = "json"
    PROVE  Inv'
<1> DEFINE w == job.owner
<1>1. w \in Writers /\ job.checkpoint \in Checkpoint /\ job.awaited \in BOOLEAN
  BY DEF Inv, TypeOK, Job
<1>2. Within(disk, disk') /\ disk'.phase = "forward" /\ disk' \in Checkpoint
  BY <1>1, AcceptedIsWithin
<1>3. jobs' = jobs \ {job} /\ UNCHANGED <<store, running, begun>>
  BY DEF Done
<1>4. \A u \in Writers : \/ at'[u] = at[u] /\ memory'[u] = memory[u]
                         \/ /\ u = w /\ job.awaited /\ memory'[u] \in {disk', NoCheckpoint}
                            /\ at[u] = "saving" /\ at'[u] \in {"idle", "forward"}
  BY <1>1 DEF Done, Inv, TypeOK, AwaitedSound
<1>5. TypeOK'
  <2>1. then[w] \in Place
    BY <1>1 DEF Inv, TypeOK, Place
  <2>2. at' \in [Writers -> Place] /\ memory' \in [Writers -> Checkpoint]
    BY <1>1, <2>1, CheckpointTypes DEF Done, Inv, TypeOK
  <2>3. then' \in [Writers -> {"idle", "forward"}]
    BY DEF Done, Inv, TypeOK
  <2> QED BY <1>2, <1>3, <2>2, <2>3 DEF Inv, TypeOK
<1>6. OneAtATime'
  <2> SUFFICES ASSUME store = "json"
               PROVE  /\ \A u, v \in Writers : at'[u] # "idle" /\ at'[v] # "idle" => u = v
                      /\ \A u \in Writers : at'[u] \in {"forward", "batch"} => jobs' = {}
                      /\ \A one, other \in jobs' : one = other
    BY <1>3 DEF OneAtATime
  <2>1. jobs' = {}
    BY <1>3 DEF Inv, OneAtATime
  <2>2. \A u \in Writers : at'[u] # "idle" => at[u] # "idle"
    BY <1>4 DEF Inv, OneAtATime
  <2> QED BY <2>1, <2>2 DEF Inv, OneAtATime
<1>7. ComparedIsCurrent'
  <2> SUFFICES ASSUME NEW old \in jobs', old.checked PROVE FALSE
    BY DEF ComparedIsCurrent
  <2> QED BY <1>3 DEF Inv, OneAtATime, ComparedIsCurrent
<1>8. DiskIsForward'
  BY <1>2 DEF DiskIsForward
<1>9. ViewIsDurable'
  <2> SUFFICES ASSUME NEW u \in Writers, at'[u] \in {"forward", "batch"} PROVE Within(memory'[u], disk')
    BY DEF ViewIsDurable, Within, Asked
  <2>1. CASE at'[u] = at[u] /\ memory'[u] = memory[u]
    <3>1. Within(memory[u], disk) /\ memory[u] \in Checkpoint /\ disk \in Checkpoint
      BY <2>1 DEF Inv, ViewIsDurable, TypeOK
    <3> QED BY <2>1, <3>1, <1>2, WithinTransitive
  <2>2. CASE memory'[u] \in {disk', NoCheckpoint}
    <3>1. Within(disk', disk')
      BY DEF Within, Asked
    <3> QED BY <2>2, <3>1, BlankWithin
  <2> QED BY <2>1, <2>2, <1>4
<1>10. OneDecisionCounts'
  BY <1>2, <1>3 DEF Inv, TypeOK, OneDecisionCounts, Within, Asked
<1>11. AwaitedSound'
  <2> SUFFICES ASSUME NEW old \in jobs', old.awaited
               PROVE  /\ at'[old.owner] = "saving"
                      /\ \A other \in jobs' : other.awaited /\ other.owner = old.owner => other = old
    BY DEF AwaitedSound
  <2>1. old \in jobs /\ old # job /\ old.owner \in Writers /\ jobs' \subseteq jobs
    BY <1>3 DEF Inv, TypeOK, Job
  <2>2. ~ (job.awaited /\ old.owner = w)
    BY <2>1 DEF Inv, AwaitedSound
  <2> QED BY <2>1, <2>2, <1>4 DEF Inv, AwaitedSound
<1>12. BatchSound'
  <2> SUFFICES ASSUME NEW u \in Writers
               PROVE  /\ at'[u] = "batch" => Ready(memory'[u]) \cap Gated \subseteq Asked(memory'[u], "approved")
                      /\ running'[u] \subseteq (IF at'[u] = "batch" THEN Ready(memory'[u]) ELSE {})
    BY DEF BatchSound, Ready, Asked, Pending, Succeeded, InState
  <2> QED BY <1>3, <1>4 DEF Inv, BatchSound
<1> QED BY <1>5, <1>6, <1>7, <1>8, <1>9, <1>10, <1>11, <1>12 DEF Inv

\* Saves that are not finished, and saves that fail.
LEMMA SaveKeeps ==
    ASSUME Inv, NEW job \in jobs,
           Transaction(job) \/ Compare(job) \/ Replace(job) \/ SaveFails(job)
    PROVE  Inv'
<1>1. CASE Transaction(job)
  BY <1>1, WriteKeeps DEF Transaction
<1>2. CASE Replace(job)
  BY <1>2, WriteKeeps DEF Replace, Inv, ComparedIsCurrent
<1>3. job \in Job /\ job.owner \in Writers
  BY DEF Inv, TypeOK, Job
<1>4. CASE Compare(job)
  <2> DEFINE new == [job EXCEPT !.checked = TRUE]
  <2>1. /\ new \in Job /\ new.owner = job.owner /\ new.checkpoint = job.checkpoint
        /\ new.awaited = job.awaited
    BY <1>3 DEF Job
  <2>2. /\ jobs' = (jobs \ {job}) \cup {new} /\ UNCHANGED <<store, disk, at, memory, running, then, begun>>
        /\ store = "json" /\ Accepts(job)
    BY <1>4 DEF Compare
  <2> HIDE DEF new
  <2>3. TypeOK'
    BY <2>1, <2>2 DEF Inv, TypeOK
  <2>4. OneAtATime'
    BY <2>1, <2>2 DEF Inv, OneAtATime
  <2>5. ComparedIsCurrent'
    BY <2>1, <2>2 DEF Inv, ComparedIsCurrent, Accepts
  <2>6. AwaitedSound'
    BY <2>1, <2>2 DEF Inv, AwaitedSound
  <2> QED BY <2>2, <2>3, <2>4, <2>5, <2>6 DEF Inv, DiskIsForward, BatchSound, ViewIsDurable,
                                             OneDecisionCounts
<1>5. CASE SaveFails(job)
  <2>1. /\ jobs' = jobs \ {job} /\ UNCHANGED <<store, disk, begun>>
        /\ at' \in [Writers -> Place] /\ memory' \in [Writers -> Checkpoint]
        /\ running' \in [Writers -> SUBSET Steps] /\ then' \in [Writers -> {"idle", "forward"}]
        /\ \A u \in Writers :
             \/ at'[u] = "idle" /\ running'[u] = {} /\ job.awaited /\ u = job.owner
             \/ at'[u] = at[u] /\ memory'[u] = memory[u] /\ running'[u] = running[u]
    BY <1>3, <1>5, CheckpointTypes DEF SaveFails, Ended, Inv, TypeOK, Place
  <2>2. TypeOK'
    BY <2>1 DEF Inv, TypeOK
  <2>3. OneAtATime'
    <3> SUFFICES ASSUME store = "json" PROVE OneAtATime'
      BY <2>1 DEF OneAtATime
    <3>1. jobs' = {}
      BY <2>1 DEF Inv, OneAtATime
    <3> QED BY <3>1, <2>1 DEF Inv, OneAtATime
  <2>4. ComparedIsCurrent'
    BY <2>1 DEF Inv, ComparedIsCurrent, Accepts
  <2>5. ViewIsDurable'
    BY <2>1 DEF Inv, ViewIsDurable
  <2>6. AwaitedSound'
    <3> SUFFICES ASSUME NEW old \in jobs', old.awaited
                 PROVE  /\ at'[old.owner] = "saving"
                        /\ \A other \in jobs' : other.awaited /\ other.owner = old.owner => other = old
      BY DEF AwaitedSound
    <3>1. old \in jobs /\ old # job /\ old.owner \in Writers /\ jobs' \subseteq jobs
      BY <2>1 DEF Inv, TypeOK, Job
    <3> QED BY <3>1, <2>1 DEF Inv, AwaitedSound
  <2>7. BatchSound'
    <3> SUFFICES ASSUME NEW u \in Writers
                 PROVE  /\ at'[u] = "batch" => Ready(memory'[u]) \cap Gated \subseteq Asked(memory'[u], "approved")
                        /\ running'[u] \subseteq (IF at'[u] = "batch" THEN Ready(memory'[u]) ELSE {})
      BY DEF BatchSound, Ready, Asked, Pending, Succeeded, InState
    <3> QED BY <2>1 DEF Inv, BatchSound
  <2> QED BY <2>1, <2>2, <2>3, <2>4, <2>5, <2>6, <2>7 DEF Inv, DiskIsForward, OneDecisionCounts
<1> QED BY <1>1, <1>2, <1>4, <1>5

\* Cancellations and crashes.
LEMMA InterruptionKeeps ==
    ASSUME Inv, NEW w \in Writers, Cancel(w) \/ Crash(w)
    PROVE  Inv'
<1>1. /\ UNCHANGED <<store, disk, begun>>
      /\ at' \in [Writers -> Place] /\ memory' \in [Writers -> Checkpoint] /\ at'[w] = "idle"
      /\ running' \in [Writers -> SUBSET Steps] /\ then' \in [Writers -> {"idle", "forward"}]
      /\ running'[w] = {}
      /\ \A u \in Writers : u # w => at'[u] = at[u] /\ memory'[u] = memory[u] /\ running'[u] = running[u]
  BY CheckpointTypes DEF Cancel, Crash, Ended, Inv, TypeOK, Place
\* What is left of the jobs: others' as they are, own ones no longer awaited.
<1>2. \A new \in jobs' : \E job \in jobs :
        /\ new \in Job /\ new.owner = job.owner /\ new.checkpoint = job.checkpoint
        /\ new.checked = job.checked
        /\ new = job \/ (job.awaited /\ ~ new.awaited)
        /\ new.owner = w => ~ new.awaited
  <2>1. CASE Cancel(w)
    <3>1. PICK left \in SUBSET {job \in JobsOf(w) : job.awaited} :
            jobs' = {job \in jobs : job.owner = w => ~ job.awaited}
                      \cup {[job EXCEPT !.awaited = FALSE] : job \in left}
      BY <2>1 DEF Cancel
    <3>2. jobs \subseteq Job
      BY DEF Inv, TypeOK
    <3> TAKE new \in jobs'
    <3>3. CASE new \in jobs /\ (new.owner = w => ~ new.awaited)
      BY <3>2, <3>3
    <3>4. ASSUME NEW job \in left, new = [job EXCEPT !.awaited = FALSE]
          PROVE  /\ job \in jobs /\ job.awaited /\ ~ new.awaited /\ new \in Job
                 /\ new.owner = job.owner /\ new.checkpoint = job.checkpoint
                 /\ new.checked = job.checked
      BY <3>2, <3>4 DEF JobsOf, Job
    <3> QED BY <3>1, <3>3, <3>4
  <2>2. CASE Crash(w)
    BY <2>2 DEF Crash, JobsOf, Inv, TypeOK
  <2> QED BY <2>1, <2>2
<1>3. TypeOK'
  BY <1>1, <1>2 DEF Inv, TypeOK
<1>4. OneAtATime'
  <2> SUFFICES ASSUME store = "json"
               PROVE  /\ \A u, v \in Writers : at'[u] # "idle" /\ at'[v] # "idle" => u = v
                      /\ \A u \in Writers : at'[u] \in {"forward", "batch"} => jobs' = {}
                      /\ \A one, other \in jobs' : one = other
    BY <1>1 DEF OneAtATime
  <2>1. \A u, v \in Writers : at'[u] # "idle" /\ at'[v] # "idle" => u = v
    BY <1>1 DEF Inv, OneAtATime
  <2>2. \A u \in Writers : at'[u] \in {"forward", "batch"} => jobs' = {}
    BY <1>1, <1>2 DEF Inv, OneAtATime
  <2>3. \A one, other \in jobs' : one = other
    <3>1. \A one, other \in jobs : one = other
      BY DEF Inv, OneAtATime
    <3>2. CASE Cancel(w)
      <4>1. PICK left \in SUBSET {job \in JobsOf(w) : job.awaited} :
              jobs' = {job \in jobs : job.owner = w => ~ job.awaited}
                        \cup {[job EXCEPT !.awaited = FALSE] : job \in left}
        BY <3>2 DEF Cancel
      <4>2. CASE left = {}
        <5>1. jobs' \subseteq jobs
          BY <4>1, <4>2
        <5> QED BY <3>1, <5>1
      <4>3. ASSUME NEW job \in left PROVE jobs' = {[job EXCEPT !.awaited = FALSE]}
        <5>1. /\ job \in jobs /\ job.owner = w /\ job.awaited
              /\ left = {job} /\ \A other \in jobs : other = job
          BY <3>1, <4>3 DEF JobsOf
        <5>2. {other \in jobs : other.owner = w => ~ other.awaited} = {}
          BY <5>1
        <5> QED BY <4>1, <5>1, <5>2
      <4>4. ASSUME NEW job \in left, jobs' = {[job EXCEPT !.awaited = FALSE]}
            PROVE  \A one, other \in jobs' : one = other
        BY <4>4
      <4> QED BY <4>2, <4>3, <4>4
    <3>3. CASE Crash(w)
      BY <3>1, <3>3 DEF Crash
    <3> QED BY <3>2, <3>3
  <2> QED BY <2>1, <2>2, <2>3
<1>7. AwaitedSound'
  <2>1. ASSUME NEW new \in jobs', new.awaited
        PROVE  new \in jobs /\ new.owner # w /\ new.owner \in Writers
    BY <1>2, <2>1 DEF Job
  <2> QED BY <2>1, <1>1 DEF Inv, AwaitedSound
<1>8. BatchSound'
  BY <1>1, BatchFrame DEF Inv
<1>5. ComparedIsCurrent'
  BY <1>1, <1>2 DEF Inv, ComparedIsCurrent, Accepts
<1>6. ViewIsDurable'
  BY <1>1 DEF Inv, ViewIsDurable
<1> QED BY <1>1, <1>3, <1>4, <1>5, <1>6, <1>7, <1>8 DEF Inv, DiskIsForward, OneDecisionCounts

LEMMA InvAlways == ASSUME Coordinated PROVE Spec => []Inv
<1>1. Init => Inv
  BY CheckpointTypes DEF Init, Inv, TypeOK, OneAtATime, AwaitedSound, ComparedIsCurrent, DiskIsForward,
                         BatchSound, ViewIsDurable, OneDecisionCounts, Place
<1>2. Inv /\ [Next]_vars => Inv'
  <2> SUFFICES ASSUME Inv, [Next]_vars PROVE Inv'
    OBVIOUS
  <2>1. CASE UNCHANGED vars
    BY <2>1 DEF vars, Inv, TypeOK, OneAtATime, AwaitedSound, ComparedIsCurrent, Accepts, DiskIsForward,
                BatchSound, ViewIsDurable, OneDecisionCounts
  <2>2. CASE Next
    BY <2>2, InvokeKeeps, ForwardKeeps, StartKeeps, SaveKeeps, InterruptionKeeps DEF Next
  <2> QED BY <2>1, <2>2
<1> QED BY <1>1, <1>2, PTL DEF Spec

-----------------------------------------------------------------------------
(* What it gives *)

\* The store, the invocations and the saves in progress are well typed.
THEOREM StoreTypes == ASSUME Coordinated PROVE Spec => []TypeOK
BY InvAlways, PTL DEF Inv

\* However many invocations of a run overlap, what each of them builds on is durable
\* and stays so until it ends.
THEOREM ViewAlwaysDurable == ASSUME Coordinated PROVE Spec => []ViewIsDurable
BY InvAlways, PTL DEF Inv

\* A gated handler starts only on the decision that became durable, whoever else
\* decides the same request.
THEOREM OneDecisionAlwaysCounts == ASSUME Coordinated PROVE Spec => []OneDecisionCounts
BY InvAlways, PTL DEF Inv

\* A durable decision is never reversed or lost, by overlapping, cancelled or
\* crashing invocations or by the saves they leave behind.
THEOREM DecisionsAlwaysFinal == ASSUME Coordinated PROVE Spec => DecisionsAreFinal
<1> DEFINE Kept == \A s \in Steps :
                     disk.approvals[s].status \in {"approved", "rejected", "cancelled"}
                       => disk'.approvals[s] = disk.approvals[s]
<1>1. Inv /\ [Next]_vars => [Kept]_vars
  <2> SUFFICES ASSUME Inv, Next PROVE Kept
    BY DEF vars
  <2>1. disk' = disk \/ Within(disk, disk')
    <3>1. ASSUME NEW job \in jobs, Transaction(job) \/ Replace(job) PROVE Within(disk, disk')
      BY <3>1, AcceptedIsWithin DEF Transaction, Replace, Inv, ComparedIsCurrent
    <3> QED
      BY <3>1 DEF Next, StartFresh, Resume, Deny, RequestApprovals, StartBatch, StartHandler, FinishBatch,
                  RunEnds, Cancel, Crash, Compare, SaveFails
  <2> QED BY <2>1 DEF Within, Asked
<1> QED BY <1>1, InvAlways, PTL DEF Spec, DecisionsAreFinal
-----------------------------------------------------------------------------
(* What handlers run on *)

\* What each checkpoint says of its requests: they are of gates whose dependencies
\* have succeeded, for their outputs; and the step is still to run, unless approved.
RequestsSound(ck) ==
    \A s \in Steps \ Asked(ck, "none") :
      /\ s \in Gated /\ Deps[s] \subseteq Succeeded(ck.steps)
      /\ ck.approvals[s].context = ContextOf(s, ck.steps)
      /\ s \in Asked(ck, "approved") \/ s \in Ready(ck)

RecordsSound ==
    /\ RequestsSound(disk)
    /\ \A w \in Writers : RequestsSound(memory[w])
    /\ \A job \in jobs : RequestsSound(job.checkpoint)

\* With JSON a live invocation holds what is stored.
ViewIsCurrent ==
    store = "json" => \A w \in Writers : at[w] \in {"forward", "batch"} =>
      memory[w].steps = disk.steps /\ memory[w].approvals = disk.approvals

LEMMA BlankSound ==
    RequestsSound(NoCheckpoint) /\ RequestsSound([NoCheckpoint EXCEPT !.phase = "forward"])
BY DEF RequestsSound, NoCheckpoint, Asked, NoApprovals, NoApproval

\* Decisions and withdrawals change the status of requests only.
LEMMA WithSound ==
    ASSUME NEW ck \in Checkpoint, RequestsSound(ck), NEW set \in SUBSET Asked(ck, "pending"),
           NEW status \in {"approved", "rejected", "cancelled"}
    PROVE  /\ RequestsSound(With(ck, set, status))
           /\ Asked(ck, "pending") \ set = Asked(With(ck, set, status), "pending")
<1> DEFINE new == With(ck, set, status)
<1>1. \A s \in Steps : ck.approvals[s] \in Approval
  BY CheckpointExcept
<1>2. /\ new.steps = ck.steps
      /\ \A s \in Steps : /\ new.approvals[s].context = ck.approvals[s].context
                          /\ new.approvals[s].status = IF s \in set THEN status ELSE ck.approvals[s].status
  <2>1. \A s \in Steps : /\ [ck.approvals[s] EXCEPT !.status = status].status = status
                         /\ [ck.approvals[s] EXCEPT !.status = status].context = ck.approvals[s].context
    BY <1>1 DEF Approval
  <2>2. /\ new.steps = ck.steps
        /\ new.approvals = [s \in Steps |-> IF s \in set THEN [ck.approvals[s] EXCEPT !.status = status]
                                                         ELSE ck.approvals[s]]
    BY DEF With, Checkpoint
  <2> QED BY <2>1, <2>2
<1> HIDE DEF new
<1>3. Ready(new) = Ready(ck)
  BY <1>2 DEF Ready
<1>4. \A s \in Steps \ Asked(new, "none") : s \in Steps \ Asked(ck, "none")
  BY <1>2 DEF Asked
<1>5. \A s \in Asked(ck, "approved") : s \in Asked(new, "approved")
  BY <1>2 DEF Asked
<1>6. RequestsSound(new)
  BY <1>2, <1>3, <1>4, <1>5 DEF RequestsSound
<1>7. Asked(ck, "pending") \ set = Asked(new, "pending")
  BY <1>2 DEF Asked
<1> QED BY <1>6, <1>7 DEF new

\* New requests are of ready gates, for the outputs of their dependencies.
LEMMA RequestSound ==
    ASSUME NEW ck \in Checkpoint, RequestsSound(ck), NEW set \in SUBSET (Ready(ck) \cap Gated)
    PROVE  RequestsSound([ck EXCEPT !.approvals = [s \in Steps |->
                             IF s \in set THEN Request(s, ck.steps) ELSE @[s]]])
<1> DEFINE new == [ck EXCEPT !.approvals = [s \in Steps |-> IF s \in set THEN Request(s, ck.steps) ELSE @[s]]]
<1>1. /\ new.steps = ck.steps
      /\ \A s \in Steps : new.approvals[s] = IF s \in set THEN Request(s, ck.steps) ELSE ck.approvals[s]
  BY DEF Checkpoint
<1> HIDE DEF new
<1>2. Ready(new) = Ready(ck)
  BY <1>1 DEF Ready
<1>3. ASSUME NEW s \in Steps \ Asked(new, "none")
      PROVE  /\ s \in Gated /\ Deps[s] \subseteq Succeeded(new.steps)
             /\ new.approvals[s].context = ContextOf(s, new.steps)
             /\ s \in Asked(new, "approved") \/ s \in Ready(new)
  <2>1. CASE s \in set
    <3>1. s \in Ready(new) /\ s \in Gated /\ s \in Steps
      BY <1>2, <2>1
    <3>2. Deps[s] \subseteq Succeeded(new.steps)
      BY <3>1 DEF Ready
    <3>3. new.approvals[s] = Request(s, new.steps)
      BY <1>1, <2>1, <3>1
    <3>4. new.approvals[s].context = ContextOf(s, new.steps)
      BY <3>3 DEF Request
    <3> QED BY <3>1, <3>2, <3>4
  <2>2. CASE s \notin set
    <3>1. s \in Steps \ Asked(ck, "none") /\ new.approvals[s] = ck.approvals[s]
      BY <1>1, <2>2 DEF Asked
    <3> QED BY <1>1, <1>2, <3>1 DEF RequestsSound, Asked
  <2> QED BY <2>1, <2>2
<1> QED BY <1>3 DEF RequestsSound, new

\* The steps of a batch get results: they are nobody's dependencies yet, and none
\* of them has a request that is not approved.
LEMMA FinishSound ==
    ASSUME NEW ck \in Checkpoint, RequestsSound(ck), Ready(ck) \cap Gated \subseteq Asked(ck, "approved"),
           NEW res \in [Steps -> Result], \A s \in Steps \ Ready(ck) : res[s] = ck.steps[s]
    PROVE  RequestsSound([ck EXCEPT !.steps = res])
<1> DEFINE new == [ck EXCEPT !.steps = res]
<1>1. new.steps = res /\ new.approvals = ck.approvals
  BY DEF Checkpoint
<1> HIDE DEF new
<1>2. ASSUME NEW s \in Steps \ Asked(new, "none")
      PROVE  /\ s \in Gated /\ Deps[s] \subseteq Succeeded(new.steps)
             /\ new.approvals[s].context = ContextOf(s, new.steps)
             /\ s \in Asked(new, "approved") \/ s \in Ready(new)
  <2>1. /\ s \in Gated /\ Deps[s] \subseteq Succeeded(ck.steps)
        /\ ck.approvals[s].context = ContextOf(s, ck.steps)
        /\ s \in Asked(ck, "approved") \/ s \in Ready(ck)
    BY <1>1 DEF RequestsSound, Asked
  <2>2. \A d \in Deps[s] : d \in Steps /\ d \notin Ready(ck)
    BY <2>1, WorkflowAssumption DEF Ready, Pending, Succeeded, InState
  <2>3. Deps[s] \subseteq Succeeded(res) /\ ContextOf(s, res) = ContextOf(s, ck.steps)
    BY <2>1, <2>2 DEF Succeeded, InState, ContextOf
  <2>4. s \in Asked(ck, "approved")
    BY <2>1
  <2> QED BY <1>1, <2>1, <2>3, <2>4 DEF Asked
<1> QED BY <1>2 DEF RequestsSound, new

\* An invocation goes on, or offers a checkpoint.
LEMMA GoRecords ==
    ASSUME Inv, RecordsSound, NEW w \in Writers, NEW place, NEW ck, Go(w, place, ck),
           UNCHANGED disk, RequestsSound(ck)
    PROVE  RecordsSound'
<1>1. \A u \in Writers : memory'[u] = IF u = w THEN ck ELSE memory[u]
  BY DEF Go, Inv, TypeOK
<1>2. UNCHANGED jobs
  BY DEF Go
<1>3. \A u \in Writers : RequestsSound(memory'[u])
  BY <1>1 DEF RecordsSound
<1> QED BY <1>2, <1>3 DEF RecordsSound, RequestsSound, Asked, Ready, Pending, Succeeded, InState, ContextOf

LEMMA OfferRecords ==
    ASSUME Inv, RecordsSound, NEW w \in Writers, NEW ck, NEW next, Offer(w, ck, next), UNCHANGED disk,
           memory' = memory \/ memory' = [memory EXCEPT ![w] = disk], RequestsSound(ck)
    PROVE  RecordsSound'
<1>1. \A u \in Writers : memory'[u] \in {disk, memory[u]}
  BY DEF Inv, TypeOK
<1>2. \A u \in Writers : RequestsSound(memory'[u])
  BY <1>1 DEF RecordsSound
<1>3. \A job \in jobs' : RequestsSound(job.checkpoint)
  BY DEF Offer, RecordsSound
<1> QED BY <1>2, <1>3 DEF RecordsSound, RequestsSound, Asked, Ready, Pending, Succeeded, InState, ContextOf

LEMMA RecordsNext == Inv /\ RecordsSound /\ [Next]_vars => RecordsSound'
<1> SUFFICES ASSUME Inv, RecordsSound, [Next]_vars PROVE RecordsSound'
  OBVIOUS
<1>1. disk \in Checkpoint /\ RequestsSound(disk) /\ jobs \subseteq Job
  BY DEF Inv, TypeOK, RecordsSound
<1>2. \A w \in Writers : memory[w] \in Checkpoint /\ RequestsSound(memory[w])
  BY DEF Inv, TypeOK, RecordsSound
<1>3. ASSUME NEW w \in Writers, UNCHANGED disk, Go(w, "idle", NoCheckpoint) PROVE RecordsSound'
  BY <1>3, GoRecords, BlankSound
<1>4. ASSUME NEW w \in Writers, NEW ck, NEW next, UNCHANGED <<disk, memory>>, Offer(w, ck, next),
             RequestsSound(ck)
      PROVE  RecordsSound'
  BY <1>4, OfferRecords
<1>5. ASSUME NEW w \in Writers, StartFresh(w) PROVE RecordsSound'
  BY <1>5, GoRecords, BlankSound DEF StartFresh
<1>6. ASSUME NEW w \in Writers, NEW yes \in SUBSET Gated, NEW no \in SUBSET Gated, Resume(w, yes, no)
      PROVE  RecordsSound'
  <2>1. UNCHANGED disk /\ yes \in SUBSET Asked(disk, "pending") /\ no \in SUBSET (Asked(disk, "pending") \ yes)
    BY <1>6 DEF Resume
  <2>2. CASE yes \cup no = {}
    BY <1>1, <1>6, <2>1, <2>2, GoRecords DEF Resume
  <2>3. CASE yes \cup no # {}
    <3> DEFINE mid == With(disk, yes, "approved")
               ck  == With(mid, no, "rejected")
    <3>1. mid \in Checkpoint /\ RequestsSound(mid) /\ no \in SUBSET Asked(mid, "pending")
      BY <1>1, <2>1, WithSound, WithType DEF ApprovalStatus
    <3> HIDE DEF mid
    <3>2. RequestsSound(ck)
      BY <3>1, WithSound
    <3>3. Offer(w, ck, "forward") /\ memory' = [memory EXCEPT ![w] = disk]
      BY <1>6, <2>3 DEF Resume, OfferDecided, mid
    <3> HIDE DEF ck
    <3> QED BY <2>1, <3>2, <3>3, OfferRecords
  <2> QED BY <2>2, <2>3
<1>7. ASSUME NEW w \in Writers, Deny(w) PROVE RecordsSound'
  <2>1. RequestsSound(With(memory[w], Asked(memory[w], "pending"), "cancelled"))
    BY <1>2, WithSound
  <2> QED BY <1>3, <1>4, <1>7, <2>1 DEF Deny
<1>8. ASSUME NEW w \in Writers, RequestApprovals(w) PROVE RecordsSound'
  <2> DEFINE new == Ready(memory[w]) \cap Gated \cap Asked(memory[w], "none")
             ck  == [memory[w] EXCEPT !.approvals = [s \in Steps |->
                        IF s \in new THEN Request(s, memory[w].steps) ELSE @[s]]]
  <2>1. RequestsSound(ck)
    BY <1>2, RequestSound
  <2>2. CASE new = {}
    BY <1>3, <1>8, <2>2 DEF RequestApprovals
  <2>3. CASE new # {}
    <3>1. Offer(w, ck, "idle") /\ UNCHANGED <<disk, memory>>
      BY <1>8, <2>3 DEF RequestApprovals
    <3> HIDE DEF ck
    <3> QED BY <1>4, <2>1, <3>1
  <2> QED BY <2>2, <2>3
<1>9. ASSUME NEW w \in Writers, StartBatch(w) \/ RunEnds(w) PROVE RecordsSound'
  BY <1>2, <1>3, <1>9, GoRecords DEF StartBatch, RunEnds
<1>10. ASSUME NEW w \in Writers, FinishBatch(w) PROVE RecordsSound'
  <2>1. PICK outcome \in [Ready(memory[w]) -> {"failed"} \cup Outputs] :
          LET good == {s \in Ready(memory[w]) : outcome[s] # "failed"}
              ck   == [memory[w] EXCEPT !.steps =
                          [s \in Steps |-> IF s \in good THEN Success(outcome[s]) ELSE @[s]]]
          IN  /\ Offer(w, ck, IF good = Ready(memory[w]) THEN "forward" ELSE "idle")
              /\ UNCHANGED <<disk, memory>>
    BY <1>10 DEF FinishBatch
  <2> DEFINE good == {s \in Ready(memory[w]) : outcome[s] # "failed"}
             res  == [s \in Steps |-> IF s \in good THEN Success(outcome[s]) ELSE memory[w].steps[s]]
             ck   == [memory[w] EXCEPT !.steps = res]
             next == IF good = Ready(memory[w]) THEN "forward" ELSE "idle"
  <2>2. \A s \in good : Success(outcome[s]) \in Result
    BY CheckpointTypes
  <2>3. res \in [Steps -> Result] /\ \A s \in Steps \ Ready(memory[w]) : res[s] = memory[w].steps[s]
    BY <1>2, <2>2, CheckpointExcept
  <2>4. Ready(memory[w]) \cap Gated \subseteq Asked(memory[w], "approved")
    BY <1>10 DEF FinishBatch, Inv, BatchSound
  <2>5. Offer(w, ck, next) /\ UNCHANGED <<disk, memory>>
    BY <2>1
  <2> HIDE DEF res
  <2>6. RequestsSound(ck)
    BY <1>2, <2>3, <2>4, FinishSound
  <2> HIDE DEF ck, next
  <2> QED BY <1>4, <2>5, <2>6
<1>11. ASSUME NEW job \in jobs, Transaction(job) \/ Replace(job) PROVE RecordsSound'
  <2>1. /\ disk' = job.checkpoint /\ jobs' \subseteq jobs /\ RequestsSound(job.checkpoint)
        /\ \A w \in Writers : memory'[w] \in {memory[w], job.checkpoint, NoCheckpoint}
    BY <1>1, <1>11 DEF Transaction, Replace, Done, RecordsSound, Inv, TypeOK, Job
  <2>2. \A w \in Writers : RequestsSound(memory'[w])
    BY <1>2, <2>1, BlankSound
  <2>3. \A other \in jobs' : RequestsSound(other.checkpoint)
    BY <2>1 DEF RecordsSound
  <2> QED BY <2>1, <2>2, <2>3 DEF RecordsSound, RequestsSound, Asked, Ready, Pending, Succeeded, InState,
                                  ContextOf
\* No checkpoint is made.
<1>12. ASSUME UNCHANGED disk, \A w \in Writers : memory'[w] \in {memory[w], NoCheckpoint},
              \A new \in jobs' : \E job \in jobs : new.checkpoint = job.checkpoint
       PROVE  RecordsSound'
  <2>1. \A w \in Writers : RequestsSound(memory'[w])
    BY <1>2, <1>12, BlankSound
  <2>2. \A new \in jobs' : RequestsSound(new.checkpoint)
    BY <1>12 DEF RecordsSound
  <2> QED BY <1>12, <2>1, <2>2 DEF RecordsSound, RequestsSound, Asked, Ready, Pending, Succeeded, InState,
                                   ContextOf
<1>13. ASSUME NEW job \in jobs, Compare(job) \/ SaveFails(job) PROVE RecordsSound'
  <2>1. UNCHANGED disk /\ \A w \in Writers : memory'[w] \in {memory[w], NoCheckpoint}
    BY <1>1, <1>13 DEF Compare, SaveFails, Ended, Inv, TypeOK, Job
  <2>2. \A new \in jobs' : \E old \in jobs : new.checkpoint = old.checkpoint
    <3>1. [job EXCEPT !.checked = TRUE].checkpoint = job.checkpoint
      BY <1>1 DEF Job
    <3> QED BY <1>13, <3>1 DEF Compare, SaveFails
  <2> QED BY <1>12, <2>1, <2>2
<1>14. ASSUME NEW w \in Writers, Cancel(w) \/ Crash(w) PROVE RecordsSound'
  <2>1. UNCHANGED disk /\ \A u \in Writers : memory'[u] \in {memory[u], NoCheckpoint}
    BY <1>14 DEF Cancel, Crash, Ended, Inv, TypeOK
  <2>2. \A new \in jobs' : \E old \in jobs : new.checkpoint = old.checkpoint
    <3>1. \A job \in jobs : [job EXCEPT !.awaited = FALSE].checkpoint = job.checkpoint
      BY <1>1 DEF Job
    <3>2. CASE Cancel(w)
      <4>1. PICK left \in SUBSET {job \in JobsOf(w) : job.awaited} :
              jobs' = {job \in jobs : job.owner = w => ~ job.awaited}
                        \cup {[job EXCEPT !.awaited = FALSE] : job \in left}
        BY <3>2 DEF Cancel
      <4>2. left \subseteq jobs
        BY DEF JobsOf
      <4> QED BY <3>1, <4>1, <4>2
    <3>3. CASE Crash(w)
      BY <3>3 DEF Crash
    <3> QED BY <1>14, <3>2, <3>3
  <2> QED BY <1>12, <2>1, <2>2
<1>15. ASSUME NEW w \in Writers, NEW s \in Steps, StartHandler(w, s) PROVE RecordsSound'
  BY <1>12, <1>15 DEF StartHandler
<1>16. CASE UNCHANGED vars
  BY <1>12, <1>16 DEF vars
<1> QED BY <1>5, <1>6, <1>7, <1>8, <1>9, <1>10, <1>11, <1>13, <1>14, <1>15, <1>16 DEF Next

LEMMA CurrentNext == Inv /\ ViewIsCurrent /\ [Next]_vars => ViewIsCurrent'
<1> SUFFICES ASSUME Inv, ViewIsCurrent, [Next]_vars, store' = "json", NEW u \in Writers,
                    at'[u] \in {"forward", "batch"}
             PROVE  memory'[u].steps = disk'.steps /\ memory'[u].approvals = disk'.approvals
  BY DEF ViewIsCurrent
<1>1. store = "json"
  BY DEF Next, vars, StartFresh, Resume, Deny, RequestApprovals, StartBatch, StartHandler, FinishBatch,
         RunEnds, Transaction, Compare, Replace, Done, SaveFails, Cancel, Crash
\* An invocation that stays where the checkpoint is.
<1>2. ASSUME UNCHANGED disk, memory'[u] = memory[u], at[u] \in {"forward", "batch"}
      PROVE  memory'[u].steps = disk'.steps /\ memory'[u].approvals = disk'.approvals
  BY <1>1, <1>2 DEF ViewIsCurrent
<1>3. ASSUME NEW w \in Writers, NEW place, NEW ck, Go(w, place, ck), UNCHANGED disk,
             place = "idle" \/ (ck.steps = disk.steps /\ ck.approvals = disk.approvals)
      PROVE  memory'[u].steps = disk'.steps /\ memory'[u].approvals = disk'.approvals
  <2>1. at'[u] = (IF u = w THEN place ELSE at[u]) /\ memory'[u] = (IF u = w THEN ck ELSE memory[u])
    BY <1>3 DEF Go, Inv, TypeOK
  <2> QED BY <1>2, <1>3, <2>1
<1>4. ASSUME NEW w \in Writers, NEW ck, NEW next, Offer(w, ck, next), UNCHANGED disk,
             \A v \in Writers \ {w} : memory'[v] = memory[v]
      PROVE  memory'[u].steps = disk'.steps /\ memory'[u].approvals = disk'.approvals
  <2>1. u # w /\ at'[u] = at[u]
    BY <1>4 DEF Offer, Inv, TypeOK
  <2> QED BY <1>2, <1>4, <2>1
<1>5. ASSUME NEW w \in Writers, StartFresh(w)
      PROVE  memory'[u].steps = disk'.steps /\ memory'[u].approvals = disk'.approvals
  BY <1>3, <1>5 DEF StartFresh, NoCheckpoint
<1>6. ASSUME NEW w \in Writers, NEW yes \in SUBSET Gated, NEW no \in SUBSET Gated, Resume(w, yes, no)
      PROVE  memory'[u].steps = disk'.steps /\ memory'[u].approvals = disk'.approvals
  <2>1. CASE yes \cup no = {}
    BY <1>3, <1>6, <2>1 DEF Resume
  <2>2. CASE yes \cup no # {}
    BY <1>4, <1>6, <2>2 DEF Resume, OfferDecided, Inv, TypeOK
  <2> QED BY <2>1, <2>2
<1>7. ASSUME NEW w \in Writers, Deny(w) \/ RequestApprovals(w) \/ RunEnds(w) \/ FinishBatch(w)
      PROVE  memory'[u].steps = disk'.steps /\ memory'[u].approvals = disk'.approvals
  BY <1>3, <1>4, <1>7 DEF Deny, RequestApprovals, RunEnds, FinishBatch
<1>8. ASSUME NEW w \in Writers, StartBatch(w)
      PROVE  memory'[u].steps = disk'.steps /\ memory'[u].approvals = disk'.approvals
  BY <1>1, <1>3, <1>8 DEF StartBatch, ViewIsCurrent
<1>9. ASSUME NEW job \in jobs, Transaction(job) \/ Compare(job) \/ Replace(job) \/ SaveFails(job)
      PROVE  memory'[u].steps = disk'.steps /\ memory'[u].approvals = disk'.approvals
  <2>1. at[u] \notin {"forward", "batch"}
    BY <1>1 DEF Inv, OneAtATime
  <2>2. Replace(job) /\ job.awaited /\ u = job.owner /\ at'[u] = then[u]
    BY <1>1, <1>9, <2>1 DEF Transaction, Compare, Replace, SaveFails, Done, Ended, Inv, TypeOK, Job
  <2> QED BY <2>2 DEF Replace, Done, Inv, TypeOK, Job
<1>10. ASSUME NEW w \in Writers, Cancel(w) \/ Crash(w)
       PROVE  memory'[u].steps = disk'.steps /\ memory'[u].approvals = disk'.approvals
  BY <1>2, <1>10 DEF Cancel, Crash, Ended, Inv, TypeOK
<1>11. ASSUME NEW w \in Writers, NEW s \in Steps, StartHandler(w, s)
       PROVE  memory'[u].steps = disk'.steps /\ memory'[u].approvals = disk'.approvals
  BY <1>2, <1>11 DEF StartHandler
<1>12. CASE UNCHANGED vars
  BY <1>2, <1>12 DEF vars
<1> QED BY <1>5, <1>6, <1>7, <1>8, <1>9, <1>10, <1>11, <1>12 DEF Next

\* Whatever other invocations, abandoned saves, cancellations and crashes do, a
\* handler runs on durable outputs and under the durable approval of them; and
\* with one writer at a time nothing durable is run again, nor beside an open gate.
THEOREM StartsAlwaysJustified == ASSUME Coordinated PROVE Spec => []StartsAreJustified
<1>1. Init => RecordsSound /\ ViewIsCurrent
  BY BlankSound DEF Init, RecordsSound, ViewIsCurrent
<1>2. Inv /\ RecordsSound /\ ViewIsCurrent => StartsAreJustified
  <2> SUFFICES ASSUME Inv, RecordsSound, ViewIsCurrent, NEW w \in Writers, NEW s \in running[w]
               PROVE  /\ \A d \in Deps[s] : d \in Succeeded(disk.steps) /\ disk.steps[d] = memory[w].steps[d]
                      /\ s \in Gated =>
                           /\ disk.approvals[s].status = "approved"
                           /\ \A d \in Deps[s] : disk.approvals[s].context[d] = memory[w].steps[d].output
                      /\ store = "json" =>
                           /\ s \notin Succeeded(disk.steps)
                           /\ Asked(disk, "none") \cup Asked(disk, "approved") = Steps
    BY DEF StartsAreJustified
  <2>1. /\ at[w] = "batch" /\ s \in Ready(memory[w])
        /\ Ready(memory[w]) \cap Gated \subseteq Asked(memory[w], "approved")
    BY DEF Inv, BatchSound
  <2>2. Within(memory[w], disk) /\ RequestsSound(memory[w])
    BY <2>1 DEF Inv, ViewIsDurable, RecordsSound
  <2>3. s \in Steps /\ Deps[s] \subseteq Steps
    BY <2>1, WorkflowAssumption DEF Ready, Pending, InState
  <2>4. ASSUME NEW d \in Deps[s]
        PROVE  d \in Succeeded(disk.steps) /\ disk.steps[d] = memory[w].steps[d]
    <3>1. d \in Steps /\ memory[w].steps[d].state = "succeeded"
      BY <2>1, <2>3 DEF Ready, Succeeded, InState
    <3>2. d \in Terminal(memory[w].steps)
      BY <3>1 DEF Terminal, Pending, InState
    <3> QED BY <2>2, <3>1, <3>2 DEF Within, Succeeded, InState
  <2>5. ASSUME s \in Gated
        PROVE  /\ disk.approvals[s].status = "approved"
               /\ \A d \in Deps[s] : disk.approvals[s].context[d] = memory[w].steps[d].output
    <3>1. memory[w].approvals[s].status = "approved"
      BY <2>1, <2>5 DEF Asked
    <3>2. disk.approvals[s] = memory[w].approvals[s]
      BY <2>2, <2>3, <3>1 DEF Within, Asked
    <3>3. memory[w].approvals[s].context = ContextOf(s, memory[w].steps)
      BY <2>2, <2>3, <3>1 DEF RequestsSound, Asked
    <3> QED BY <2>3, <3>1, <3>2, <3>3 DEF ContextOf
  <2>6. ASSUME store = "json"
        PROVE  /\ s \notin Succeeded(disk.steps)
               /\ Asked(disk, "none") \cup Asked(disk, "approved") = Steps
    <3>1. memory[w].steps = disk.steps /\ memory[w].approvals = disk.approvals
      BY <2>1, <2>6 DEF ViewIsCurrent
    <3>2. s \notin Succeeded(disk.steps)
      BY <2>1, <3>1 DEF Ready, Pending, Succeeded, InState
    <3>3. ASSUME NEW r \in Steps PROVE r \in Asked(memory[w], "none") \cup Asked(memory[w], "approved")
      BY <2>1, <2>2 DEF RequestsSound
    <3> QED BY <3>1, <3>2, <3>3 DEF Asked
  <2> QED BY <2>4, <2>5, <2>6
<1> QED BY <1>1, <1>2, RecordsNext, CurrentNext, InvAlways, PTL DEF Spec
=============================================================================
