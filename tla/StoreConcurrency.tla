---------------------------- MODULE StoreConcurrency ----------------------------
(***************************************************************************)
(* Several invocations of run() for one run_id that meet in the checkpoint *)
(* store, possibly at the same time, and what a save does in its thread.   *)
(*                                                                         *)
(* The SQLite store loads, compares and replaces in one transaction (the   *)
(* in-memory store under one lock).  The JSON store does so in two steps,  *)
(* and asks the application for one active writer.  A save runs in a       *)
(* thread: a cancelled invocation ends without it.                         *)
(*                                                                         *)
(* An invocation is WorkflowRun's, of a version 1 or 2 workflow with       *)
(* fail_fast, cut down to what it loads, starts and saves.                 *)
(*                                                                         *)
(* Records carry timestamps, left out here: a save that the store refuses  *)
(* because another invocation made the same record anew is a SaveFails.    *)
(***************************************************************************)
EXTENDS Checkpoints

CONSTANTS
    Writers,       \* processes that invoke run(), one invocation each at a time
    Stores,        \* kinds of store the application may use
    Patient,       \* does it also wait, with JSON, until abandoned saves are over?
    MaxAbandoned   \* bound: abandoned saves that still run

ASSUME StoreAssumption ==
    /\ IsFiniteSet(Writers) /\ Stores \subseteq {"sqlite", "json"} /\ Stores # {}
    /\ Patient \in BOOLEAN /\ MaxAbandoned \in Nat /\ Version < 3

VARIABLES
    store,   \* the kind of store in use
    disk,    \* what it holds for this run_id
    at,      \* where the invocation of each writer is
    memory,  \* the checkpoint it loaded or saved last
    running, \* the steps of its batch whose handlers it has started
    then,    \* where it goes once its save returns
    jobs,    \* saves in progress
    begun    \* history: steps whose handler was ever invoked

vars == <<store, disk, at, memory, running, then, jobs, begun>>

Place == {"idle", "forward", "batch", "saving"}

Job == [owner : Writers, checkpoint : Checkpoint, checked : BOOLEAN, awaited : BOOLEAN]

Init ==
    /\ store \in Stores
    /\ disk = NoCheckpoint
    /\ at = [w \in Writers |-> "idle"] /\ memory = [w \in Writers |-> NoCheckpoint]
    /\ running = [w \in Writers |-> {}] /\ then = [w \in Writers |-> "idle"]
    /\ jobs = {} /\ begun = {}

-----------------------------------------------------------------------------
(* Invocations *)

With(ck, set, status) ==
    [ck EXCEPT !.approvals = [s \in Steps |-> IF s \in set THEN [@[s] EXCEPT !.status = status] ELSE @[s]]]

Asked(ck, status) == {s \in Steps : ck.approvals[s].status = status}
Ready(ck) == {s \in Pending(ck.steps) : Deps[s] \subseteq Succeeded(ck.steps)}

\* The invocation of w goes on from ck.
Go(w, place, ck) ==
    /\ at' = [at EXCEPT ![w] = place] /\ memory' = [memory EXCEPT ![w] = ck]
    /\ running' = [running EXCEPT ![w] = {}]
    /\ UNCHANGED <<then, jobs>>

\* await asyncio.to_thread(store.save, ck)
Offer(w, ck, next) ==
    /\ at' = [at EXCEPT ![w] = "saving"] /\ then' = [then EXCEPT ![w] = next]
    /\ running' = [running EXCEPT ![w] = {}]
    /\ jobs' = jobs \cup {[owner |-> w, checkpoint |-> ck, checked |-> FALSE, awaited |-> TRUE]}

\* The JSON store's contract: one active writer, by the application's care.
MayInvoke ==
    store = "json" => /\ \A w \in Writers : at[w] = "idle"
                      /\ Patient => jobs = {}

StartFresh(w) ==
    /\ at[w] = "idle" /\ MayInvoke /\ disk = NoCheckpoint
    /\ Go(w, "forward", [NoCheckpoint EXCEPT !.phase = "forward"])
    /\ UNCHANGED <<store, disk, begun>>

\* Mutant: decisions are applied in memory and saved with the next checkpoint.
GoDecided(w, decided) == Go(w, "forward", decided)

OfferDecided(w, decided) == Offer(w, decided, "forward") /\ memory' = [memory EXCEPT ![w] = disk]

Resume(w, yes, no) ==
    /\ at[w] = "idle" /\ MayInvoke /\ disk # NoCheckpoint /\ Restorable(disk)
    /\ yes \cup no \subseteq Asked(disk, "pending") /\ yes \cap no = {}
    /\ IF yes \cup no = {} THEN Go(w, "forward", disk)
                           ELSE OfferDecided(w, With(With(disk, yes, "approved"), no, "rejected"))
    /\ UNCHANGED <<store, disk, begun>>

\* A ready gate was rejected or cancelled: undecided requests are withdrawn.
Deny(w) ==
    LET ck == memory[w]
    IN  /\ at[w] = "forward" /\ Ready(ck) \cap (Asked(ck, "rejected") \cup Asked(ck, "cancelled")) # {}
        /\ IF Asked(ck, "pending") = {}
             THEN Go(w, "idle", NoCheckpoint)
             ELSE Offer(w, With(ck, Asked(ck, "pending"), "cancelled"), "idle") /\ UNCHANGED memory
        /\ UNCHANGED <<store, disk, begun>>

Undecided(ck) == Ready(ck) \cap Gated \cap (Asked(ck, "none") \cup Asked(ck, "pending"))

RequestApprovals(w) ==
    LET ck   == memory[w]
        new  == Ready(ck) \cap Gated \cap Asked(ck, "none")
    IN  /\ at[w] = "forward" /\ Undecided(ck) # {}
        /\ Ready(ck) \cap (Asked(ck, "rejected") \cup Asked(ck, "cancelled")) = {}
        /\ IF new = {}
             THEN Go(w, "idle", NoCheckpoint)
             ELSE /\ Offer(w, [ck EXCEPT !.approvals = [s \in Steps |->
                                 IF s \in new THEN Request(s, ck.steps) ELSE @[s]]], "idle")
                  /\ UNCHANGED memory
        /\ UNCHANGED <<store, disk, begun>>

StartBatch(w) ==
    LET ck == memory[w]
    IN  /\ at[w] = "forward" /\ Ready(ck) # {}
        /\ Ready(ck) \cap Gated \subseteq Asked(ck, "approved")
        /\ Go(w, "batch", ck)
        /\ UNCHANGED <<store, disk, begun>>

\* The task of s has its permit and calls the handler.
StartHandler(w, s) ==
    /\ at[w] = "batch" /\ s \in Ready(memory[w]) \ running[w]
    /\ running' = [running EXCEPT ![w] = @ \cup {s}]
    /\ begun' = begun \cup {s}
    /\ UNCHANGED <<store, disk, at, memory, then, jobs>>

\* All of them have run: the successes are saved; a failure ends the run.
FinishBatch(w) ==
    \E outcome \in [Ready(memory[w]) -> {"failed"} \cup Outputs] :
        LET good == {s \in Ready(memory[w]) : outcome[s] # "failed"}
            ck   == [memory[w] EXCEPT !.steps =
                        [s \in Steps |-> IF s \in good THEN Success(outcome[s]) ELSE @[s]]]
        IN  /\ at[w] = "batch" /\ running[w] = Ready(memory[w])
            /\ Offer(w, ck, IF good = Ready(memory[w]) THEN "forward" ELSE "idle")
            /\ UNCHANGED <<store, disk, memory, begun>>

RunEnds(w) ==
    /\ at[w] = "forward" /\ Ready(memory[w]) = {}
    /\ Go(w, "idle", NoCheckpoint)
    /\ UNCHANGED <<store, disk, begun>>

-----------------------------------------------------------------------------
(* A save in its thread *)

\* Mutants: the comparison is with what the invocation itself last saw; only the
\* results of steps are compared; only requests and decisions are.
ComparesWithMemory(job) ==
    WellFormed(job.checkpoint) /\ (memory[job.owner].phase # "none" => Monotonic(memory[job.owner], job.checkpoint))
ComparesSteps(job) ==
    \A s \in Terminal(disk.steps) : job.checkpoint.steps[s] = disk.steps[s]
ComparesApprovals(job) ==
    \A s \in Steps \ Asked(disk, "none") : job.checkpoint.approvals[s].status # "none"
      /\ (s \notin Asked(disk, "pending") => job.checkpoint.approvals[s] = disk.approvals[s])

Accepts(job) ==
    /\ WellFormed(job.checkpoint)
    /\ disk.phase # "none" => Monotonic(disk, job.checkpoint)

\* The save returns, and the invocation that awaits it goes on.
Done(job) ==
    /\ jobs' = jobs \ {job}
    /\ IF job.awaited
         THEN /\ at' = [at EXCEPT ![job.owner] = then[job.owner]]
              /\ memory' = [memory EXCEPT ![job.owner] =
                               IF then[job.owner] = "idle" THEN NoCheckpoint ELSE job.checkpoint]
              /\ then' = [then EXCEPT ![job.owner] = "idle"]
         ELSE UNCHANGED <<at, memory, then>>
    /\ UNCHANGED <<store, running, begun>>

\* BEGIN IMMEDIATE ... commit, or with self._lock.
Transaction(job) ==
    /\ store = "sqlite" /\ Accepts(job)
    /\ disk' = job.checkpoint /\ Done(job)

Compare(job) ==
    /\ store = "json" /\ ~ job.checked /\ Accepts(job)
    /\ jobs' = (jobs \ {job}) \cup {[job EXCEPT !.checked = TRUE]}
    /\ UNCHANGED <<store, disk, at, memory, running, then, begun>>

\* os.replace
Replace(job) ==
    /\ store = "json" /\ job.checked
    /\ disk' = job.checkpoint /\ Done(job)

Ended(w) ==
    /\ at' = [at EXCEPT ![w] = "idle"] /\ memory' = [memory EXCEPT ![w] = NoCheckpoint]
    /\ running' = [running EXCEPT ![w] = {}] /\ then' = [then EXCEPT ![w] = "idle"]

\* The comparison or the file system refuses: save raises, and so does run().
SaveFails(job) ==
    /\ jobs' = jobs \ {job}
    /\ IF job.awaited THEN Ended(job.owner) ELSE UNCHANGED <<at, memory, running, then>>
    /\ UNCHANGED <<store, disk, begun>>

-----------------------------------------------------------------------------
(* Interruptions *)

JobsOf(w) == {job \in jobs : job.owner = w}

\* run() is cancelled, or an event handler fails.  A save that a thread has
\* taken goes on without it.
Cancel(w) ==
    /\ at[w] # "idle" /\ Ended(w)
    /\ \E left \in SUBSET {job \in JobsOf(w) : job.awaited} :
         /\ left # {} => Cardinality({job \in jobs : ~ job.awaited}) < MaxAbandoned
         /\ jobs' = {job \in jobs : job.owner = w => ~ job.awaited}
                      \cup {[job EXCEPT !.awaited = FALSE] : job \in left}
    /\ UNCHANGED <<store, disk, begun>>

\* The process of w stops.
Crash(w) ==
    /\ at[w] # "idle" \/ JobsOf(w) # {}
    /\ Ended(w) /\ jobs' = jobs \ JobsOf(w)
    /\ UNCHANGED <<store, disk, begun>>

Next ==
    \/ \E w \in Writers :
         \/ StartFresh(w) \/ Deny(w) \/ RequestApprovals(w) \/ StartBatch(w)
         \/ FinishBatch(w) \/ RunEnds(w) \/ Cancel(w) \/ Crash(w)
         \/ \E s \in Steps : StartHandler(w, s)
         \/ \E yes, no \in SUBSET Gated : Resume(w, yes, no)
    \/ \E job \in jobs : Transaction(job) \/ Compare(job) \/ Replace(job) \/ SaveFails(job)

Spec == Init /\ [][Next]_vars

-----------------------------------------------------------------------------
\* What the store holds, and what invocations and saves in progress hold, by type.
TypeOK ==
    /\ store \in Stores /\ disk \in Checkpoint
    /\ at \in [Writers -> Place] /\ memory \in [Writers -> Checkpoint]
    /\ running \in [Writers -> SUBSET Steps]
    /\ then \in [Writers -> {"idle", "forward"}] /\ jobs \subseteq Job /\ begun \subseteq Steps

\* Everything that older says is still what newer says: results, requests and
\* decisions.
Within(older, newer) ==
    /\ \A s \in Terminal(older.steps) : newer.steps[s] = older.steps[s]
    /\ \A s \in Steps \ Asked(older, "none") :
         /\ newer.approvals[s].status # "none"
         /\ newer.approvals[s].context = older.approvals[s].context
         /\ s \notin Asked(older, "pending") => newer.approvals[s] = older.approvals[s]

\* What an invocation builds on, the outputs its handlers receive included, is
\* and stays durable while others save, cancel and decide.
ViewIsDurable == \A w \in Writers : at[w] \in {"forward", "batch"} => Within(memory[w], disk)

\* Of two invocations that decide a request differently only one becomes
\* durable, and no gated handler ever starts on the other's decision.
OneDecisionCounts == \A s \in begun \cap Gated : disk.approvals[s].status = "approved"

\* A decision, once durable, is never reversed or lost.
DecisionsAreFinal ==
    [][\A s \in Steps : disk.approvals[s].status \in {"approved", "rejected", "cancelled"}
                          => disk'.approvals[s] = disk.approvals[s]]_vars

\* A handler, of whichever invocation, runs on outputs that are the durable ones
\* and, behind a gate, under the durable approval of just these outputs.  Where
\* the application keeps writers apart none runs again whose success is durable,
\* and none beside a request that is undecided or denied: with SQLite an
\* invocation that others have overtaken may do both, on its own outdated view.
StartsAreJustified ==
    \A w \in Writers : \A s \in running[w] :
      /\ \A d \in Deps[s] : d \in Succeeded(disk.steps) /\ disk.steps[d] = memory[w].steps[d]
      /\ s \in Gated =>
           /\ disk.approvals[s].status = "approved"
           /\ \A d \in Deps[s] : disk.approvals[s].context[d] = memory[w].steps[d].output
      /\ store = "json" =>
           /\ s \notin Succeeded(disk.steps)
           /\ Asked(disk, "none") \cup Asked(disk, "approved") = Steps
=============================================================================
