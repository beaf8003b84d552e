------------------------------ MODULE DurableSaga ------------------------------
(***************************************************************************)
(* What WorkflowRunner.run promises the application about one run_id, with *)
(* no invocations, memory, batches or crashes: which handlers and          *)
(* compensators may begin, given what is durable, and how the durable      *)
(* record may change.  An invocation that dies anywhere is a stutter here. *)
(***************************************************************************)
CONSTANTS Steps, Deps, Gated, Compensable

VARIABLES
    stage,      \* "none" until the run is known to the store, then its phase
    outcome,    \* the durable state of each step
    decision,   \* the durable status of each gate's request
    undone,     \* steps whose compensation is durable
    begun,      \* steps whose handler ever began
    undoBegun   \* steps whose compensator ever began

vars == <<stage, outcome, decision, undone, begun, undoBegun>>

In(state)     == {s \in Steps : outcome[s] = state}
Asked(status) == {s \in Steps : decision[s] = status}
Owed          == (Compensable \cap In("succeeded")) \ undone

\* The run still goes forward, and no gate holds it back or has ended it.
Open == stage \in {"none", "forward"} /\ Asked("none") \cup Asked("approved") = Steps

\* Every dependency of s has durably succeeded and s has no outcome yet.
Enabled(s) == s \in In("pending") /\ Deps[s] \subseteq In("succeeded")

Init ==
    /\ stage = "none"
    /\ outcome = [s \in Steps |-> "pending"] /\ decision = [s \in Steps |-> "none"]
    /\ undone = {} /\ begun = {} /\ undoBegun = {}

\* The handler of s begins: no gate is undecided or denied, whoever waits for it.
Begin(s) ==
    /\ Open /\ Enabled(s) /\ (s \in Gated => decision[s] = "approved")
    /\ begun' = begun \cup {s}
    /\ UNCHANGED <<stage, outcome, decision, undone, undoBegun>>

\* The handlers of set all succeeded, and that is now durable.
Record(set) ==
    /\ Open /\ \A s \in set : Enabled(s) /\ s \in begun
    /\ stage' = "forward"
    /\ outcome' = [s \in Steps |-> IF s \in set THEN "succeeded" ELSE outcome[s]]
    /\ UNCHANGED <<decision, undone, begun, undoBegun>>

\* Requests are made together, by a run that waits for no other decision.
Ask(set) ==
    /\ Open /\ set # {}
    /\ \A s \in set : Enabled(s) /\ s \in Gated \cap Asked("none") /\ s \notin begun
    /\ stage' = "forward"
    /\ decision' = [s \in Steps |-> IF s \in set THEN "pending" ELSE decision[s]]
    /\ UNCHANGED <<outcome, undone, begun, undoBegun>>

Decide(yes, no) ==
    /\ stage = "forward" /\ yes \cup no # {}
    /\ yes \cup no \subseteq Asked("pending") /\ yes \cap no = {}
    /\ decision' = [s \in Steps |-> IF s \in yes THEN "approved"
                                    ELSE IF s \in no THEN "rejected" ELSE decision[s]]
    /\ UNCHANGED <<stage, outcome, undone, begun, undoBegun>>

\* A rejection takes every undecided request with it.
Withdraw ==
    /\ stage = "forward" /\ Asked("rejected") # {} /\ Asked("pending") # {}
    /\ decision' = [s \in Steps |-> IF s \in Asked("pending") THEN "cancelled" ELSE decision[s]]
    /\ UNCHANGED <<stage, outcome, undone, begun, undoBegun>>

\* The forward part ends: steps without an outcome get one.  Exactly the
\* rejected gates end rejected; what failed had begun; and unless a rejection
\* ended the run, what is blocked never began.
Settles(final) ==
    /\ stage = "forward" /\ Asked("pending") = {}
    /\ \A s \in Steps : IF outcome[s] # "pending" THEN final[s] = outcome[s]
                        ELSE final[s] \in {"failed", "blocked", "rejected"}
    /\ \A s \in Steps :
         /\ final[s] = "rejected" <=> decision[s] = "rejected"
         /\ final[s] = "failed" => s \in begun /\ Enabled(s)
         /\ final[s] = "blocked" /\ Asked("rejected") = {} => s \notin begun
    /\ In("succeeded") # Steps => \E s \in Steps : final[s] \in {"failed", "rejected"}

\* Something succeeded that has to be undone.
Turn ==
    /\ Owed # {} /\ In("succeeded") # Steps
    /\ \E final \in [Steps -> {"succeeded", "failed", "blocked", "rejected"}] :
         Settles(final) /\ outcome' = final
    /\ stage' = "compensating"
    /\ UNCHANGED <<decision, undone, begun, undoBegun>>

\* Nothing has.
Finish ==
    /\ Owed = {} \/ In("succeeded") = Steps
    /\ \E final \in [Steps -> {"succeeded", "failed", "blocked", "rejected"}] :
         Settles(final) /\ outcome' = final
    /\ stage' = "complete"
    /\ UNCHANGED <<decision, undone, begun, undoBegun>>

BeginUndo(s) ==
    /\ stage = "compensating" /\ s \in Owed
    /\ \A t \in Owed : s \notin Deps[t]
    /\ undoBegun' = undoBegun \cup {s}
    /\ UNCHANGED <<stage, outcome, decision, undone, begun>>

RecordUndone(set) ==
    /\ stage = "compensating" /\ set \subseteq Owed \cap undoBegun
    /\ undone' = undone \cup set
    /\ UNCHANGED <<stage, outcome, decision, begun, undoBegun>>

FinishUndo ==
    /\ stage = "compensating" /\ Owed = {}
    /\ stage' = "complete"
    /\ UNCHANGED <<outcome, decision, undone, begun, undoBegun>>

Next ==
    \/ \E s \in Steps : Begin(s) \/ BeginUndo(s)
    \/ \E set \in SUBSET Steps : Record(set) \/ Ask(set) \/ RecordUndone(set)
    \/ \E yes, no \in SUBSET Steps : Decide(yes, no)
    \/ Withdraw \/ Turn \/ Finish \/ FinishUndo

Spec == Init /\ [][Next]_vars
=============================================================================
